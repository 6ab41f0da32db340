---------------------- MODULE DashboardAggregatorProofs ----------------------
(***************************************************************************)
(* What DashboardAggregator promises, for any tickets, ticks under way,    *)
(* ring buffer and faults: its types, and that its pods together are a     *)
(* source of frames as FrameSource describes it.  A tick that has found a  *)
(* delta has seen a frame published before it; that is all the refinement  *)
(* needs to know of ticks, which may overlap as they like.                 *)
(***************************************************************************)
EXTENDS DashboardAggregator, FiniteSetTheorems, SequenceTheorems, TLAPS

-----------------------------------------------------------------------------
(* The inductive invariant.                                                *)

FirstIsUnpublished == count = 0 => published = None

DeltaIsNotFirst ==
  \A p \in Pods : pub[p].pc = "diffed" /\ pub[p].type = "delta" => count # 0

IInv == TypeOK /\ FirstIsUnpublished /\ DeltaIsNotFirst

-----------------------------------------------------------------------------
LEMMA OpenIsNat ==
  ASSUME TypeOK
  PROVE  Open \in Nat
<1>1. IsFiniteSet({t \in Tickets : ticket[t] = "open"})
  BY TicketsAssumption, FS_Subset
<1> QED
  BY <1>1, FS_CardinalityType DEF Open

LEMMA RingStaysWithin ==
  ASSUME TypeOK, NEW n \in Frame
  PROVE  LET kept == Trimmed(Append(ring, n))
         IN  kept \in Seq(Frame) /\ Len(kept) <= Retention
<1>. DEFINE all == Append(ring, n)
<1>1. ring \in Seq(Frame) /\ Len(ring) <= Retention
  BY DEF TypeOK
<1>2. all \in Seq(Frame) /\ all # <<>> /\ Len(all) = Len(ring) + 1
  BY <1>1, AppendProperties
<1>3. Tail(all) \in Seq(Frame) /\ Len(Tail(all)) = Len(ring)
  BY <1>1, <1>2, HeadTailProperties
<1> QED
  BY <1>1, <1>2, <1>3, RetentionAssumption DEF Trimmed

LEMMA NewFrameTyped ==
  ASSUME TypeOK, NEW p \in Pods
  PROVE  NewFrame(p) \in Frame
<1>1. /\ pub[p].prev \in Nat /\ pub[p].base \in Nat /\ count \in Nat
      /\ pub[p].type \in {"delta", "snapshot"}
  BY DEF TypeOK, Tick
<1> QED
  BY <1>1 DEF NewFrame, Frame

LEMMA IdlePodTyped == IdlePod \in Tick
BY DEF IdlePod, Tick

-----------------------------------------------------------------------------
THEOREM InitInvariant == Init => IInv
<1> SUFFICES ASSUME Init PROVE IInv
  OBVIOUS
<1>. USE DEF Init
<1>1. TypeOK
  <2>1. <<>> \in Seq(Frame) /\ Len(<<>>) = 0
    OBVIOUS
  <2>2. ring \in Seq(Frame) /\ Len(ring) = 0
    BY <2>1, Zenon
  <2>3. pub \in [Pods -> Tick]
    BY IdlePodTyped
  <2>4. IdleReconciler \in [pc : {"idle", "read", "compared", "written"},
                            value : Nat, drift : BOOLEAN]
    BY DEF IdleReconciler
  <2>5. ticket \in [Tickets -> Statuses]
    BY DEF Statuses
  <2>6. /\ inbox \subseteq Events /\ seen \subseteq Events /\ marking \subseteq seen
        /\ kpi \in Nat /\ seq \in Nat /\ count \in Nat
        /\ active \in BOOLEAN /\ flag \in BOOLEAN /\ free \in BOOLEAN
        /\ published \in Content \cup {None}
        /\ rec = IdleReconciler
    OBVIOUS
  <2>7. faults \in 0 .. MaxFaults
    BY FaultsAssumption
  <2>. HIDE DEF Init
  <2> QED
    BY <2>2, <2>3, <2>4, <2>5, <2>6, <2>7, RetentionAssumption DEF TypeOK
<1>2. \A p \in Pods : pub[p].pc = "idle"
  BY DEF IdlePod
<1> QED
  BY <1>1, <1>2 DEF IInv, FirstIsUnpublished, DeltaIsNotFirst

(* Tickets, the consumer and the reconciler leave the pods alone.          *)
Others ==
  \/ TicketStep \/ ConsumerStep \/ ReconcilerStep \/ ReconcileFails
  \/ \E e \in Events : ConsumerFails(e)

LEMMA OthersStep ==
  ASSUME IInv, Others
  PROVE  /\ IInv'
         /\ UNCHANGED <<ring, count, free, pub, published>>
         /\ seq' = seq + 1 \/ seq' = seq
<1>1. TypeOK
  BY DEF IInv
<1>2. /\ UNCHANGED <<ring, count, free, pub, published>>
      /\ seq' = seq + 1 \/ seq' = seq
  BY DEF Others, TicketStep, ConsumerStep, ReconcilerStep, ReconcileFails, create,
         createFromPortal, resolve, ApplyEvent, MarkActive, ConsumerFails,
         DeleteMessage, ReadPostgres, CompareRedis, overwriteKpi, FlagDrift, redis,
         frames, counters
<1>3. /\ ticket' \in [Tickets -> Statuses] /\ inbox' \subseteq Events
      /\ seen' \subseteq Events /\ marking' \subseteq seen'
      /\ kpi' \in Nat /\ active' \in BOOLEAN
      /\ flag' \in BOOLEAN /\ faults' \in 0 .. MaxFaults
      /\ rec' \in [pc : {"idle", "read", "compared", "written"},
                   value : Nat, drift : BOOLEAN]
  <2>1. CASE TicketStep
    <3>1. PICK t \in Tickets : create(t) \/ createFromPortal(t) \/ resolve(t)
      BY <2>1 DEF TicketStep
    <3>2. ticket' \in [Tickets -> Statuses]
      BY <1>1, <3>1 DEF TypeOK, create, createFromPortal, resolve, Statuses
    <3>3. inbox' \subseteq Events
      BY <1>1, <3>1 DEF TypeOK, create, createFromPortal, resolve, Events
    <3>4. UNCHANGED <<seen, kpi, active, flag, marking, rec, faults>>
      BY <3>1 DEF create, createFromPortal, resolve, redis, counters
    <3> QED
      BY <1>1, <3>2, <3>3, <3>4 DEF TypeOK
  <2>2. CASE ConsumerStep
    <3>1. PICK e \in Events : ApplyEvent(e) \/ MarkActive(e) \/ DeleteMessage(e)
      BY <2>2 DEF ConsumerStep
    <3>2. Clamped(kpi + Increment(e)) \in Nat
      BY <1>1 DEF TypeOK, Clamped, Increment
    <3> QED
      BY <1>1, <3>1, <3>2
      DEF TypeOK, ApplyEvent, MarkActive, DeleteMessage, redis, counters
  <2>3. CASE \E e \in Events : ConsumerFails(e)
    BY <1>1, <2>3, FaultsAssumption DEF TypeOK, ConsumerFails, redis, counters
  <2>4. CASE ReadPostgres
    BY <1>1, <2>4, OpenIsNat DEF TypeOK, ReadPostgres, redis, counters
  <2>5. CASE CompareRedis
    BY <1>1, <2>5 DEF TypeOK, CompareRedis, redis, counters
  <2>6. CASE overwriteKpi
    BY <1>1, <2>6 DEF TypeOK, overwriteKpi
  <2>7. CASE FlagDrift
    BY <1>1, <2>7 DEF TypeOK, FlagDrift, IdleReconciler, counters
  <2>8. CASE ReconcileFails
    BY <1>1, <2>8, FaultsAssumption
    DEF TypeOK, ReconcileFails, IdleReconciler, redis, counters
  <2> QED
    BY <2>1, <2>2, <2>3, <2>4, <2>5, <2>6, <2>7, <2>8 DEF Others, ReconcilerStep
<1>4. TypeOK'
  BY <1>1, <1>2, <1>3 DEF TypeOK
<1> QED
  BY <1>2, <1>4 DEF IInv, FirstIsUnpublished, DeltaIsNotFirst

-----------------------------------------------------------------------------
(* A pod's step touches its own tick only.  What publishes is apart.       *)
Quiet(p) ==
  \/ Claim(p) \/ ReadKpi(p) \/ ReadFeed(p) \/ ReadSeq(p)
  \/ NothingToPublish(p) \/ ReadPublished(p) \/ PublishFails(p)

LEMMA QuietTick ==
  ASSUME IInv, NEW p \in Pods, Quiet(p)
  PROVE  /\ pub' = [pub EXCEPT ![p] = pub'[p]] /\ pub'[p] \in Tick
         /\ UNCHANGED <<ticket, inbox, counters, active, marking, frames, rec>>
         /\ pub'[p].pc = "diffed" =>
              pub[p].pc = "read" /\ pub'[p].type = FrameType(p)
<1>1. TypeOK /\ pub[p] \in Tick /\ DOMAIN pub = Pods
  BY DEF IInv, TypeOK
<1>2. UNCHANGED <<ticket, inbox, counters, active, marking, frames, rec>>
  BY DEF Quiet, Claim, ReadKpi, ReadFeed, ReadSeq, NothingToPublish, ReadPublished,
         PublishFails, redis, counters, frames
<1>3. CASE Claim(p)
  BY <1>1, <1>2, <1>3 DEF TypeOK, Claim, Tick
<1>4. CASE ReadKpi(p) \/ ReadFeed(p) \/ ReadSeq(p)
  <2>1. CASE ReadKpi(p)
    BY <1>1, <1>2, <2>1 DEF TypeOK, ReadKpi, Tick
  <2>2. CASE ReadFeed(p)
    BY <1>1, <1>2, <2>2 DEF TypeOK, ReadFeed, Tick
  <2>3. CASE ReadSeq(p)
    BY <1>1, <1>2, <2>3 DEF TypeOK, ReadSeq, Tick
  <2> QED
    BY <1>4, <2>1, <2>2, <2>3
<1>5. CASE ReadPublished(p)
  BY <1>1, <1>2, <1>5 DEF TypeOK, ReadPublished, FrameType, Tick
<1>6. CASE NothingToPublish(p) \/ PublishFails(p)
  <2>1. pub' = [pub EXCEPT ![p] = IdlePod] /\ pub'[p] = IdlePod
    BY <1>1, <1>6 DEF NothingToPublish, PublishFails
  <2>2. IdlePod.pc = "idle"
    BY DEF IdlePod
  <2> QED
    BY <1>2, <2>1, <2>2, IdlePodTyped
<1> QED
  BY <1>3, <1>4, <1>5, <1>6 DEF Quiet

LEMMA QuietStep ==
  ASSUME IInv, NEW p \in Pods, Quiet(p)
  PROVE  IInv'
<1>1. TypeOK
  BY DEF IInv
<1>2. /\ flag' \in BOOLEAN /\ free' \in BOOLEAN /\ faults' \in 0 .. MaxFaults
  <2>1. CASE Claim(p)
    BY <1>1, <2>1 DEF TypeOK, Claim
  <2>2. CASE PublishFails(p)
    BY <1>1, <2>2, FaultsAssumption DEF TypeOK, PublishFails, redis
  <2>3. CASE UNCHANGED <<flag, free, faults>>
    BY <1>1, <2>3 DEF TypeOK
  <2> QED
    BY <2>1, <2>2, <2>3
    DEF Quiet, ReadKpi, ReadFeed, ReadSeq, NothingToPublish, ReadPublished, redis
<1>3. pub' \in [Pods -> Tick]
  BY <1>1, QuietTick DEF TypeOK
<1>4. TypeOK'
  BY <1>1, <1>2, <1>3, QuietTick DEF TypeOK, counters, frames
<1>5. FirstIsUnpublished'
  BY QuietTick DEF IInv, FirstIsUnpublished, frames
<1>6. DeltaIsNotFirst'
  <2> SUFFICES ASSUME NEW q \in Pods, pub'[q].pc = "diffed", pub'[q].type = "delta"
               PROVE  count # 0
    BY QuietTick DEF DeltaIsNotFirst, frames
  <2>1. CASE q = p
    BY <2>1, QuietTick DEF IInv, FirstIsUnpublished, FrameType
  <2>2. CASE q # p
    BY <1>1, <2>2, QuietTick DEF IInv, DeltaIsNotFirst, TypeOK
  <2> QED
    BY <2>1, <2>2
<1> QED
  BY <1>4, <1>5, <1>6 DEF IInv

LEMMA PublishStep ==
  ASSUME IInv, NEW p \in Pods, PublishFrame(p)
  PROVE  IInv'
<1>1. TypeOK /\ pub[p] \in Tick
  BY DEF IInv, TypeOK
<1>2. pub' = [pub EXCEPT ![p] = IdlePod] /\ pub' \in [Pods -> Tick]
  BY <1>1, IdlePodTyped DEF TypeOK, PublishFrame
<1>3. ring' \in Seq(Frame) /\ Len(ring') <= Retention
  BY <1>1, NewFrameTyped, RingStaysWithin DEF PublishFrame
<1>4. Current(p) \in Content
  BY <1>1 DEF Current, Content, Tick
<1>5. TypeOK'
  BY <1>1, <1>2, <1>3, <1>4 DEF TypeOK, PublishFrame
<1>6. count' # 0
  BY <1>1 DEF TypeOK, PublishFrame
<1> QED
  BY <1>5, <1>6 DEF IInv, FirstIsUnpublished, DeltaIsNotFirst

LEMMA NextIntervalStep ==
  ASSUME IInv, NextInterval
  PROVE  IInv'
<1>1. faults' \in 0 .. MaxFaults
  BY FaultsAssumption DEF IInv, TypeOK, NextInterval
<1> QED
  BY <1>1 DEF IInv, NextInterval, TypeOK, FirstIsUnpublished, DeltaIsNotFirst, redis,
              counters, frames

LEMMA Steps ==
  ASSUME Next
  PROVE  Others \/ NextInterval \/ \E p \in Pods : Quiet(p) \/ PublishFrame(p)
BY DEF Next, Others, Fault, TickStep, Quiet

THEOREM NextInvariant == IInv /\ [Next]_vars => IInv'
<1> SUFFICES ASSUME IInv, [Next]_vars PROVE IInv'
  OBVIOUS
<1>1. CASE Others
  BY <1>1, OthersStep
<1>2. CASE NextInterval
  BY <1>2, NextIntervalStep
<1>3. CASE \E p \in Pods : Quiet(p) \/ PublishFrame(p)
  BY <1>3, QuietStep, PublishStep
<1>4. CASE UNCHANGED vars
  BY <1>4 DEF vars, redis, counters, frames, IInv, TypeOK, FirstIsUnpublished,
              DeltaIsNotFirst
<1> QED
  BY <1>1, <1>2, <1>3, <1>4, Steps

THEOREM Invariance == Spec => []IInv
BY InitInvariant, NextInvariant, PTL DEF Spec

(* Redis, the queue and every process keep the types of their state, and   *)
(* the ring its length (publish-frame.lua, LTRIM).                         *)
THEOREM TypeCorrect == Spec => []TypeOK
<1>1. IInv => TypeOK
  BY DEF IInv
<1> QED
  BY <1>1, Invariance, PTL

-----------------------------------------------------------------------------
(* The refinement: every step is a step of the source of frames.           *)

LEMMA InitIsSource ==
  ASSUME Init
  PROVE  Frames!SourceInit
<1>1. \A p \in Pods : pub[p].pc = "idle"
  BY DEF Init, IdlePod
<1>2. Reading = [p \in Pods |-> None]
  BY <1>1 DEF Reading
<1> QED
  BY <1>2 DEF Init, Frames!SourceInit

(* How a step of one pod moves what the pods have read.                    *)
LEMMA ReadingMoves ==
  ASSUME NEW p \in Pods, NEW t, pub' = [pub EXCEPT ![p] = t], DOMAIN pub = Pods
  PROVE  Reading' = [Reading EXCEPT ![p] =
                        IF t.pc \in {"read", "diffed"}
                        THEN [prev |-> t.prev, base |-> t.base] ELSE None]
<1>1. pub'[p] = t /\ \A q \in Pods : q # p => pub'[q] = pub[q]
  OBVIOUS
<1> QED
  BY <1>1 DEF Reading

LEMMA OthersAreSource ==
  ASSUME IInv, Others
  PROVE  Frames!Bump \/ UNCHANGED Frames!sourceVars
<1>1. Reading' = Reading
  BY OthersStep DEF Reading
<1> QED
  BY <1>1, OthersStep DEF Frames!Bump, Frames!sourceVars

LEMMA QuietIsSource ==
  ASSUME IInv, NEW p \in Pods, Quiet(p)
  PROVE  Frames!SourceNext \/ UNCHANGED Frames!sourceVars
<1>1. /\ TypeOK /\ pub[p] \in Tick /\ DOMAIN pub = Pods
      /\ DOMAIN Reading = Pods
  BY DEF IInv, TypeOK, Reading
<1>2. UNCHANGED <<seq, ring, count>>
  BY QuietTick DEF counters, frames
<1>3. Reading' = [Reading EXCEPT ![p] =
                    IF pub'[p].pc \in {"read", "diffed"}
                    THEN [prev |-> pub'[p].prev, base |-> pub'[p].base] ELSE None]
  <2>. DEFINE t == pub'[p]
  <2>1. pub' = [pub EXCEPT ![p] = t]
    BY QuietTick
  <2>. HIDE DEF t
  <2>2. Reading' = [Reading EXCEPT ![p] =
                      IF t.pc \in {"read", "diffed"}
                      THEN [prev |-> t.prev, base |-> t.base] ELSE None]
    BY <1>1, <2>1, ReadingMoves
  <2> QED
    BY <2>2 DEF t
<1>4. Reading[p] = IF pub[p].pc \in {"read", "diffed"}
                   THEN [prev |-> pub[p].prev, base |-> pub[p].base] ELSE None
  BY DEF Reading
<1>5. CASE Reading'[p] = Reading[p]
  <2>1. \A q \in Pods : Reading'[q] = Reading[q]
    BY <1>1, <1>3, <1>5
  <2>2. Reading' = Reading
    BY <2>1 DEF Reading
  <2> QED
    BY <1>2, <2>2 DEF Frames!sourceVars
<1>6. CASE ReadSeq(p)
  <2>1. /\ pub[p].pc = "feed" /\ pub'[p].pc = "read"
        /\ pub'[p].prev = seq /\ pub'[p].base = count
    BY <1>1, <1>6 DEF ReadSeq, Tick
  <2>2. Frames!Read(p)
    BY <1>2, <1>3, <1>4, <2>1 DEF Frames!Read
  <2> QED
    BY <2>2 DEF Frames!SourceNext
<1>7. CASE NothingToPublish(p) \/ PublishFails(p)
  <2>1. pub'[p].pc = "idle"
    BY <1>1, <1>7 DEF NothingToPublish, PublishFails, IdlePod
  <2>2. CASE Reading[p] = None
    BY <1>1, <1>3, <1>5, <2>1, <2>2
  <2>3. CASE Reading[p] # None
    BY <1>2, <1>3, <2>1, <2>3 DEF Frames!GiveUp, Frames!SourceNext
  <2> QED
    BY <2>2, <2>3
<1>8. CASE Claim(p) \/ ReadKpi(p) \/ ReadFeed(p) \/ ReadPublished(p)
  <2>1. \/ pub[p].pc \in {"idle", "claimed", "kpi"} /\ pub'[p].pc \in {"claimed", "kpi", "feed"}
        \/ /\ pub[p].pc = "read" /\ pub'[p].pc = "diffed"
           /\ pub'[p].prev = pub[p].prev /\ pub'[p].base = pub[p].base
    BY <1>1, <1>8 DEF Claim, ReadKpi, ReadFeed, ReadPublished, Tick
  <2>2. Reading'[p] = Reading[p]
    BY <1>1, <1>3, <1>4, <2>1
  <2> QED
    BY <1>5, <2>2
<1> QED
  BY <1>6, <1>7, <1>8 DEF Quiet

LEMMA PublishIsSource ==
  ASSUME IInv, NEW p \in Pods, PublishFrame(p)
  PROVE  Frames!SourceNext
<1>1. TypeOK /\ pub[p] \in Tick /\ DOMAIN pub = Pods /\ pub[p].pc = "diffed"
  BY DEF IInv, TypeOK, PublishFrame
<1>2. Reading[p] = [prev |-> pub[p].prev, base |-> pub[p].base]
  BY <1>1 DEF Reading
<1>3. Reading[p] \in [prev : Nat, base : Nat] /\ Reading[p] # None
  BY <1>1, <1>2, NoneAssumption DEF Tick
<1>4. Reading' = [Reading EXCEPT ![p] = None]
  <2>1. IdlePod.pc = "idle"
    BY DEF IdlePod
  <2>2. pub' = [pub EXCEPT ![p] = IdlePod]
    BY DEF PublishFrame
  <2>3. Reading' = [Reading EXCEPT ![p] =
                      IF IdlePod.pc \in {"read", "diffed"}
                      THEN [prev |-> IdlePod.prev, base |-> IdlePod.base] ELSE None]
    BY <1>1, <2>2, ReadingMoves
  <2> QED
    BY <2>1, <2>3
<1>5. count = 0 => pub[p].type = "snapshot"
  BY <1>1 DEF IInv, DeltaIsNotFirst, Tick
<1>6. Frames!Numbered(p, pub[p].type) = NewFrame(p)
  BY <1>2 DEF Frames!Numbered, NewFrame
<1>7. ring' = Frames!Trimmed(Append(ring, Frames!Numbered(p, pub[p].type)))
  BY <1>6 DEF PublishFrame, Trimmed, Frames!Trimmed
<1>8. Frames!Publish(p, pub[p].type)
  BY <1>3, <1>4, <1>5, <1>7 DEF PublishFrame, Frames!Publish
<1>9. pub[p].type \in {"delta", "snapshot"}
  BY <1>1 DEF Tick
<1> QED
  BY <1>8, <1>9 DEF Frames!SourceNext

(* Whatever ticks overlap, the pods together are a source of frames: each  *)
(* frame carries on from a value its tick read earlier, the script's own   *)
(* count only grows, the first frame is a snapshot, and events,            *)
(* corrections and faults leave the frames alone                           *)
(* (delta-publisher.service.ts, publish-frame.lua, apply-event.lua).       *)
THEOREM ImplementsFrameSource == Spec => IsFrameSource
<1>1. Init => Frames!SourceInit
  BY InitIsSource
<1>2. IInv /\ [Next]_vars => [Frames!SourceNext]_(Frames!sourceVars)
  <2> SUFFICES ASSUME IInv, [Next]_vars
               PROVE  Frames!SourceNext \/ UNCHANGED Frames!sourceVars
    OBVIOUS
  <2>1. CASE Others
    BY <2>1, OthersAreSource DEF Frames!SourceNext
  <2>2. CASE NextInterval
    BY <2>2 DEF NextInterval, redis, counters, frames, Frames!sourceVars, Reading
  <2>3. CASE \E p \in Pods : Quiet(p) \/ PublishFrame(p)
    BY <2>3, QuietIsSource, PublishIsSource
  <2>4. CASE UNCHANGED vars
    BY <2>4 DEF vars, redis, counters, frames, Frames!sourceVars, Reading
  <2> QED
    BY <2>1, <2>2, <2>3, <2>4, Steps
<1> QED
  BY <1>1, <1>2, Invariance, PTL DEF Spec, IsFrameSource, Frames!SourceSpec
=============================================================================
