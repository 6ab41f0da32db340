------------------------ MODULE WebhookDeliveryProofs ------------------------
(***************************************************************************)
(* What WebhookDelivery promises about its two counted resources, for any  *)
(* numbers of endpoints, messages, concurrent calls and connections, any   *)
(* cap and any bounds: the concurrency slots cover the posts under way,    *)
(* and no path through a call loses a connection of the pool, although the *)
(* outer catch releases one that the call may not hold any more.           *)
(***************************************************************************)
EXTENDS WebhookDelivery, FiniteSetTheorems, SequenceTheorems, TLAPS

-----------------------------------------------------------------------------
(* The inductive invariant.                                                *)

Jobs == [step : Steps, msg : Messages \cup {None},
         first : Conns \cup {None}, second : Conns \cup {None},
         outcome : Outcomes, overlap : BOOLEAN, posted : BOOLEAN]

Shape ==
  /\ job \in [Handlers -> Jobs]
  /\ idle \in Seq(Conns)
  /\ slots \in [Endpoints -> Nat]

(* What a call works with: the second connection is there from             *)
(* recordAttempt to COMMIT.                                                *)
CallsEquipped ==
  \A h \in Handlers :
    /\ job[h].step # "idle" => job[h].msg \in Messages /\ job[h].first \in Conns
    /\ job[h].second # None <=> job[h].step \in {"count", "commit"}

IInv == Shape /\ CallsEquipped /\ SlotsCoverPosts /\ PoolAccounted

Inv == IInv /\ queue \subseteq Messages

(* Call h is responsible for giving c back.                                *)
Holds(h, c) ==
  \/ c = job[h].first /\ job[h].step \in {"load", "catch", "free"}
  \/ c = job[h].second

-----------------------------------------------------------------------------
(* Sequences of connections.                                               *)

LEMMA ReleasedFacts ==
  ASSUME NEW s \in Seq(Conns), NEW c \in Conns
  PROVE  LET r == IF Contains(s, c) THEN s ELSE Append(s, c)
         IN  r \in Seq(Conns) /\ ToSet(r) = ToSet(s) \cup {c}
<1>1. CASE Contains(s, c)
  BY <1>1 DEF Contains, ToSet
<1>2. CASE ~Contains(s, c)
  <2>1. /\ Append(s, c) \in Seq(Conns) /\ Len(Append(s, c)) = Len(s) + 1
        /\ \A i \in 1 .. Len(s) : Append(s, c)[i] = s[i]
        /\ Append(s, c)[Len(s) + 1] = c
    BY AppendProperties
  <2>2. ToSet(Append(s, c)) = ToSet(s) \cup {c}
    BY <2>1 DEF ToSet
  <2> QED
    BY <1>2, <2>1, <2>2
<1> QED
  BY <1>1, <1>2

LEMMA TakenFacts ==
  ASSUME Shape, NEW c, Taken(c)
  PROVE  /\ c \in Conns /\ idle' \in Seq(Conns)
         /\ ToSet(idle) \subseteq ToSet(idle') \cup {c}
         /\ Len(idle') = Len(idle) - 1
         /\ \A i \in 1 .. Len(idle) - 1 : idle'[i] = idle[i]
<1>1. idle \in Seq(Conns) /\ Len(idle) \in Nat \ {0}
  BY EmptySeq DEF Shape, Taken
<1>2. c = idle[Len(idle)]
  BY DEF Taken, Last
<1>3. /\ idle' \in Seq(Conns) /\ Len(idle') = Len(idle) - 1
      /\ \A i \in 1 .. Len(idle) - 1 : idle'[i] = idle[i]
  <2>1. idle' = SubSeq(idle, 1, Len(idle) - 1)
    BY DEF Taken, Front
  <2>2. \A i \in 1 .. Len(idle) - 1 : idle[i] \in Conns
    BY <1>1
  <2>3. 1 \in Int /\ Len(idle) - 1 \in Int
    BY <1>1
  <2>4. /\ SubSeq(idle, 1, Len(idle) - 1) \in Seq(Conns)
        /\ Len(SubSeq(idle, 1, Len(idle) - 1))
             = IF 1 <= Len(idle) - 1 THEN Len(idle) - 1 - 1 + 1 ELSE 0
        /\ \A i \in 1 .. Len(idle) - 1 - 1 + 1 :
             SubSeq(idle, 1, Len(idle) - 1)[i] = idle[1 + i - 1]
    BY <2>2, <2>3, SubSeqProperties
  <2>. DEFINE f == SubSeq(idle, 1, Len(idle) - 1)
  <2>5. f \in Seq(Conns) /\ Len(f) = Len(idle) - 1
    <3>. DEFINE n == Len(idle)
    <3>1. n \in Nat \ {0}
      BY <1>1
    <3>2. f \in Seq(Conns) /\ Len(f) = IF 1 <= n - 1 THEN n - 1 - 1 + 1 ELSE 0
      BY <2>4
    <3>. HIDE DEF n, f
    <3>3. (IF 1 <= n - 1 THEN n - 1 - 1 + 1 ELSE 0) = n - 1
      BY <3>1
    <3>4. f \in Seq(Conns) /\ Len(f) = n - 1
      BY <3>2, <3>3
    <3> QED
      BY <3>4 DEF n
  <2>6. \A i \in 1 .. Len(idle) - 1 : f[i] = idle[i]
    <3> SUFFICES ASSUME NEW i \in 1 .. Len(idle) - 1 PROVE f[i] = idle[i]
      OBVIOUS
    <3>1. i \in 1 .. Len(idle) - 1 - 1 + 1 /\ 1 + i - 1 = i
      BY <1>1
    <3>2. f[i] = idle[1 + i - 1]
      BY <2>4, <3>1
    <3> QED
      BY <3>1, <3>2
  <2>. HIDE DEF f
  <2> QED
    BY <2>1, <2>5, <2>6 DEF f
<1> QED
  BY <1>1, <1>2, <1>3 DEF ToSet

LEMMA AllIdle ==
  SetToSeq(Conns) \in Seq(Conns) /\ ToSet(SetToSeq(Conns)) = Conns
<1>. DEFINE n == Cardinality(Conns)
<1>1. IsFiniteSet(Conns)
  BY FiniteCalls
<1>2. n \in Nat /\ ExistsBijection(1 .. n, Conns)
  BY <1>1, FS_CardinalityType
<1>3. \E f \in [1 .. n -> Conns] : IsInjective(f)
  BY <1>2 DEF ExistsBijection, Bijection, Injection
<1>4. SetToSeq(Conns) \in [1 .. n -> Conns] /\ IsInjective(SetToSeq(Conns))
  BY <1>3 DEF SetToSeq
<1>5. SetToSeq(Conns) \in Injection(1 .. n, Conns)
  BY <1>4 DEF Injection
<1>6. IsFiniteSet(1 .. n) /\ Cardinality(1 .. n) = n
  BY <1>2, FS_Interval
<1>7. SetToSeq(Conns) \in Surjection(1 .. n, Conns)
  BY <1>1, <1>5, <1>6, FS_Injection
<1> QED
  BY <1>2, <1>4, <1>7 DEF ToSet, Surjection

-----------------------------------------------------------------------------
(* The slots.                                                              *)

LEMMA InFlightFinite ==
  ASSUME NEW e
  PROVE  IsFiniteSet(InFlight(e)) /\ Cardinality(InFlight(e)) \in Nat
<1>1. IsFiniteSet(InFlight(e))
  BY FiniteCalls, FS_Subset DEF InFlight
<1> QED
  BY <1>1, FS_CardinalityType

(* Where nobody begins to post and no slot is given back.                  *)
LEMMA NobodyPosts ==
  ASSUME SlotsCoverPosts, slots \in [Endpoints -> Nat], slots' \in [Endpoints -> Nat],
         expired \subseteq expired',
         \A e \in Endpoints \ expired' : slots'[e] >= slots[e],
         \A h \in Handlers : job'[h].step = "dispatch" =>
           job[h].step = "dispatch" /\ job'[h].msg = job[h].msg
  PROVE  SlotsCoverPosts'
<1> SUFFICES ASSUME NEW e \in Endpoints \ expired'
             PROVE  Cardinality(InFlight(e)') <= slots'[e]
  BY DEF SlotsCoverPosts
<1>1. InFlight(e)' \subseteq InFlight(e)
  BY DEF InFlight, Target
<1>2. Cardinality(InFlight(e)') <= Cardinality(InFlight(e)) /\ IsFiniteSet(InFlight(e)')
  BY <1>1, InFlightFinite, FS_Subset
<1>3. Cardinality(InFlight(e)) <= slots[e]
  BY DEF SlotsCoverPosts
<1>4. Cardinality(InFlight(e)') \in Nat /\ Cardinality(InFlight(e)) \in Nat
  BY <1>2, InFlightFinite, FS_CardinalityType
<1> QED
  BY <1>2, <1>3, <1>4

-----------------------------------------------------------------------------
(* The pool.                                                               *)

LEMMA PoolHeld ==
  ASSUME Shape, PoolAccounted, NEW c \in Conns, c \notin ToSet(idle), c \notin abandoned
  PROVE  \E h \in Handlers : Holds(h, c)
BY DEF PoolAccounted, Held, Holds

(* A call may only let go of what becomes idle or is left behind.          *)
LEMMA OneCall ==
  ASSUME Shape, PoolAccounted, NEW h \in Handlers,
         \A g \in Handlers \ {h} : job'[g] = job[g],
         \A c \in Conns : c \in abandoned => c \in abandoned' \/ c \in ToSet(idle'),
         \A c \in Conns : c \in ToSet(idle) =>
           c \in ToSet(idle') \/ Holds(h, c)' \/ c \in abandoned',
         \A c \in Conns : Holds(h, c) =>
           c \in ToSet(idle') \/ Holds(h, c)' \/ c \in abandoned'
  PROVE  PoolAccounted'
<1> SUFFICES ASSUME NEW c \in Conns, c \notin ToSet(idle'), c \notin abandoned'
             PROVE  \E g \in Handlers : Holds(g, c)'
  BY DEF PoolAccounted, Held, Holds
<1>1. CASE Holds(h, c)'
  BY <1>1
<1>2. CASE ~Holds(h, c)'
  <2>1. c \notin ToSet(idle) /\ c \notin abandoned /\ ~Holds(h, c)
    BY <1>2
  <2>2. PICK g \in Handlers : Holds(g, c)
    BY <2>1, PoolHeld
  <2>3. job'[g] = job[g]
    BY <2>1, <2>2
  <2> QED
    BY <2>2, <2>3 DEF Holds
<1> QED
  BY <1>1, <1>2

-----------------------------------------------------------------------------
THEOREM InitInvariant == Init => IInv
<1> SUFFICES ASSUME Init PROVE IInv
  OBVIOUS
<1>1. Idle \in Jobs /\ Idle.step = "idle" /\ Idle.second = None
  BY DEF Idle, Jobs, Steps, Outcomes
<1>2. Shape
  BY <1>1, AllIdle DEF Init, Shape
<1>3. \A h \in Handlers : job[h].step = "idle" /\ job[h].second = None
  BY <1>1 DEF Init
<1>4. CallsEquipped
  BY <1>3 DEF CallsEquipped
<1>5. SlotsCoverPosts
  <2>1. \A e \in Endpoints : InFlight(e) = {}
    BY <1>3 DEF InFlight
  <2>2. \A e \in Endpoints : slots[e] = 0
    BY DEF Init
  <2>3. Cardinality({}) = 0
    BY FS_EmptySet
  <2> QED
    BY <2>1, <2>2, <2>3 DEF SlotsCoverPosts
<1>6. PoolAccounted
  BY AllIdle DEF PoolAccounted, Init
<1> QED
  BY <1>2, <1>4, <1>5, <1>6 DEF IInv

(* The steps of one call that neither begin to post nor give a slot back.  *)
LEMMA QuietCall ==
  ASSUME IInv, NEW h \in Handlers, NEW j \in Jobs,
         job' = [job EXCEPT ![h] = j],
         j.step # "idle" => j.msg \in Messages /\ j.first \in Conns,
         j.second # None <=> j.step \in {"count", "commit"},
         j.step # "dispatch",
         idle' \in Seq(Conns),
         slots' \in [Endpoints -> Nat], \A e \in Endpoints : slots'[e] >= slots[e],
         expired' = expired,
         \A c \in Conns : c \in abandoned => c \in abandoned' \/ c \in ToSet(idle'),
         \A c \in Conns : c \in ToSet(idle) \/ Holds(h, c) =>
           \/ c \in ToSet(idle') \/ c \in abandoned'
           \/ c = j.first /\ j.step \in {"load", "catch", "free"}
           \/ c = j.second
  PROVE  IInv'
<1>1. /\ Shape /\ CallsEquipped /\ SlotsCoverPosts /\ PoolAccounted
      /\ job \in [Handlers -> Jobs] /\ slots \in [Endpoints -> Nat]
  BY DEF IInv, Shape
<1>2. job'[h] = j /\ \A g \in Handlers \ {h} : job'[g] = job[g]
  BY <1>1
<1>3. Shape'
  BY <1>1 DEF Shape
<1>4. CallsEquipped'
  BY <1>1, <1>2 DEF CallsEquipped
<1>5. SlotsCoverPosts'
  <2>1. \A g \in Handlers : job'[g].step = "dispatch" =>
          job[g].step = "dispatch" /\ job'[g].msg = job[g].msg
    BY <1>2
  <2> QED
    BY <1>1, <2>1, NobodyPosts
<1>6. PoolAccounted'
  <2>1. \A c \in Conns : (c = j.first /\ j.step \in {"load", "catch", "free"}) \/ c = j.second
          => Holds(h, c)'
    BY <1>2 DEF Holds
  <2> QED
    BY <1>1, <1>2, <2>1, OneCall
<1> QED
  BY <1>3, <1>4, <1>5, <1>6 DEF IInv

LEMMA IdleFacts == Idle \in Jobs /\ Idle.step = "idle" /\ Idle.second = None
BY DEF Idle, Jobs, Steps, Outcomes

Catching(m, c) == [Idle EXCEPT !.step = "catch", !.msg = m, !.first = c]

LEMMA CatchingFacts ==
  ASSUME NEW m \in Messages, NEW c \in Conns
  PROVE  /\ Catching(m, c) \in Jobs /\ Catching(m, c).step = "catch"
         /\ Catching(m, c).msg = m /\ Catching(m, c).first = c
         /\ Catching(m, c).second = None
<1>1. "catch" \in Steps
  BY DEF Steps
<1> QED
  BY <1>1, IdleFacts DEF Jobs, Catching

LEMMA AnyCall ==
  ASSUME IInv, NEW h \in Handlers
  PROVE  /\ job[h] \in Jobs /\ idle \in Seq(Conns) /\ slots \in [Endpoints -> Nat]
         /\ job \in [Handlers -> Jobs]
         /\ job[h].step # "idle" => /\ job[h].msg \in Messages
                                    /\ job[h].first \in Conns
                                    /\ Target(h) \in Endpoints
         /\ job[h].second # None <=> job[h].step \in {"count", "commit"}
         /\ job[h].second # None => job[h].second \in Conns
         /\ None \notin Conns
BY Bounds DEF IInv, Shape, CallsEquipped, Target, Jobs

LEMMA ReceiveStep ==
  ASSUME IInv, NEW h \in Handlers, NEW m \in queue, m \in Messages, NEW c \in Conns,
         Receive(h, m, c)
  PROVE  IInv'
<1>1. job[h].step = "idle" /\ Taken(c) /\ UNCHANGED <<slots, expired, abandoned>>
  BY DEF Receive, redis
<1>2. PICK j \in Jobs : /\ job' = [job EXCEPT ![h] = j]
                        /\ j.step = "load" /\ j.msg = m /\ j.first = c /\ j.second = None
  <2>1. [Idle EXCEPT !.step = "load", !.msg = m, !.first = c, !.overlap = Overlaps(h, m)]
          \in Jobs
    BY DEF Idle, Jobs, Steps, Outcomes, Overlaps
  <2> QED
    BY <2>1 DEF Receive, Idle
<1>3. ToSet(idle) \subseteq ToSet(idle') \cup {c} /\ idle' \in Seq(Conns)
  BY <1>1, TakenFacts DEF IInv
<1>4. \A d \in Conns : ~Holds(h, d)
  BY <1>1, AnyCall DEF Holds
<1>5. slots' \in [Endpoints -> Nat] /\ \A e \in Endpoints : slots'[e] >= slots[e]
  BY <1>1, AnyCall
<1> QED
  BY <1>1, <1>2, <1>3, <1>4, <1>5, QuietCall

(* Steps that touch neither the pool's idle connections nor the slots.     *)
LEMMA GotoStep ==
  ASSUME IInv, NEW h \in Handlers, NEW s \in Steps, Goto(h, s),
         job[h].step # "idle",
         s \in {"gate", "catch", "free", "commit"},
         s = "commit" <=> job[h].step \in {"count", "commit"},
         s = "gate" => job[h].first \in ToSet(idle'),
         idle' \in Seq(Conns), ToSet(idle) \subseteq ToSet(idle'),
         slots' \in [Endpoints -> Nat], \A e \in Endpoints : slots'[e] >= slots[e],
         UNCHANGED <<expired, abandoned>>
  PROVE  IInv'
<1>. DEFINE j == [job[h] EXCEPT !.step = s]
<1>1. /\ j \in Jobs /\ j.step = s /\ j.msg = job[h].msg
      /\ j.first = job[h].first /\ j.second = job[h].second
  BY AnyCall DEF Jobs
<1>2. job' = [job EXCEPT ![h] = j]
  BY AnyCall DEF Goto
<1>3. /\ j.step # "idle" => j.msg \in Messages /\ j.first \in Conns
      /\ j.second # None <=> j.step \in {"count", "commit"}
      /\ j.step # "dispatch"
  BY <1>1, AnyCall
<1>4. \A c \in Conns : c \in ToSet(idle) \/ Holds(h, c) =>
        \/ c \in ToSet(idle') \/ c \in abandoned'
        \/ c = j.first /\ j.step \in {"load", "catch", "free"}
        \/ c = j.second
  BY <1>1, AnyCall DEF Holds
<1>. HIDE DEF j
<1> QED
  BY <1>1, <1>2, <1>3, <1>4, QuietCall

(* Steps that end the call.                                                *)
LEMMA EndOfCall ==
  ASSUME IInv, NEW h \in Handlers, job' = [job EXCEPT ![h] = Idle],
         idle' \in Seq(Conns), ToSet(idle) \subseteq ToSet(idle'),
         slots' \in [Endpoints -> Nat], \A e \in Endpoints : slots'[e] >= slots[e],
         expired' = expired,
         \A c \in Conns : c \in abandoned => c \in abandoned' \/ c \in ToSet(idle'),
         \A c \in Conns : Holds(h, c) => c \in ToSet(idle') \/ c \in abandoned'
  PROVE  IInv'
BY IdleFacts, QuietCall

LEMMA CatchSteps ==
  ASSUME IInv, NEW h \in Handlers, CatchRollback(h) \/ CatchRelease(h)
  PROVE  IInv'
<1>1. CASE CatchRollback(h)
  BY <1>1, AnyCall, GotoStep DEF CatchRollback, Steps, redis
<1>2. CASE CatchRelease(h)
  <2>1. idle' = Released(job[h].first) /\ job[h].step = "free"
        /\ UNCHANGED <<slots, expired>>
    BY <1>2 DEF CatchRelease, redis
  <2>2. idle' \in Seq(Conns) /\ ToSet(idle') = ToSet(idle) \cup {job[h].first}
    BY <2>1, AnyCall, ReleasedFacts DEF Released
  <2>3. \A c \in Conns : Holds(h, c) => c = job[h].first
    BY <2>1, AnyCall DEF Holds
  <2>4. slots' \in [Endpoints -> Nat] /\ \A e \in Endpoints : slots'[e] >= slots[e]
    BY <2>1, AnyCall
  <2> QED
    BY <1>2, <2>1, <2>2, <2>3, <2>4, EndOfCall DEF CatchRelease
<1> QED
  BY <1>1, <1>2

LEMMA LoadSteps ==
  ASSUME IInv, NEW h \in Handlers, LoadStops(h) \/ LoadGoesOn(h) \/ LoadFails(h)
  PROVE  IInv'
<1>1. /\ job[h].step = "load" /\ UNCHANGED <<slots, expired>>
      /\ slots' \in [Endpoints -> Nat] /\ \A e \in Endpoints : slots'[e] >= slots[e]
  <2>1. job[h].step = "load" /\ UNCHANGED <<slots, expired>>
    BY DEF LoadStops, LoadGoesOn, LoadFails, redis
  <2> QED
    BY <2>1, AnyCall
<1>2. CASE LoadStops(h)
  <2>1. /\ job' = [job EXCEPT ![h] = Idle] /\ idle' = idle
        /\ abandoned' = abandoned \cup {job[h].first}
    BY <1>2 DEF LoadStops
  <2>2. \A c \in Conns : Holds(h, c) => c = job[h].first
    BY <1>1, AnyCall DEF Holds
  <2> QED
    BY <1>1, <2>1, <2>2, AnyCall, EndOfCall
<1>3. CASE LoadGoesOn(h)
  <2>1. /\ idle' = Released(job[h].first) /\ UNCHANGED abandoned
        /\ Goto(h, IF Contains(idle, job[h].first) THEN "catch" ELSE "gate")
    BY <1>3 DEF LoadGoesOn
  <2>2. idle' \in Seq(Conns) /\ ToSet(idle') = ToSet(idle) \cup {job[h].first}
    BY <1>1, <2>1, AnyCall, ReleasedFacts DEF Released
  <2> QED
    BY <1>1, <2>1, <2>2, AnyCall, GotoStep DEF Steps
<1>4. CASE LoadFails(h)
  <2>1. Goto(h, "catch") /\ UNCHANGED <<idle, abandoned>>
    BY <1>4 DEF LoadFails, pool
  <2> QED
    BY <1>1, <2>1, AnyCall, GotoStep DEF Steps
<1> QED
  BY <1>2, <1>3, <1>4

LEMMA GateQuietSteps ==
  ASSUME IInv, NEW h \in Handlers, GateRequeues(h) \/ GateFails(h)
  PROVE  IInv'
<1>1. /\ job[h].step \in {"gate", "dispatch"} /\ UNCHANGED <<expired, idle, abandoned>>
      /\ slots' = slots \/ slots' = [slots EXCEPT ![Target(h)] = @ + 1]
  BY DEF GateRequeues, GateFails, pool
<1>2. slots' \in [Endpoints -> Nat] /\ \A e \in Endpoints : slots'[e] >= slots[e]
  BY <1>1, AnyCall
<1>3. \A c \in Conns : ~Holds(h, c)
  BY <1>1, AnyCall DEF Holds
<1>4. CASE GateRequeues(h)
  <2>1. job' = [job EXCEPT ![h] = Idle]
    BY <1>4 DEF GateRequeues
  <2> QED
    BY <1>1, <1>2, <1>3, <2>1, AnyCall, EndOfCall
<1>5. CASE GateFails(h)
  <2>1. Goto(h, "catch")
    BY <1>5 DEF GateFails
  <2> QED
    BY <1>1, <1>2, <2>1, AnyCall, GotoStep DEF Steps
<1> QED
  BY <1>4, <1>5

LEMMA GateAdmitsStep ==
  ASSUME IInv, NEW h \in Handlers, GateAdmits(h)
  PROVE  IInv'
<1>. DEFINE j == [job[h] EXCEPT !.step = "dispatch"]
            t == Target(h)
<1>1. /\ job[h].step = "gate" /\ UNCHANGED <<expired, idle, abandoned>>
      /\ slots' = [slots EXCEPT ![t] = @ + 1] /\ Goto(h, "dispatch")
  BY DEF GateAdmits, pool
<1>2. /\ j \in Jobs /\ j.step = "dispatch" /\ j.msg = job[h].msg
      /\ j.first = job[h].first /\ j.second = None /\ job' = [job EXCEPT ![h] = j]
      /\ j.msg \in Messages /\ j.first \in Conns /\ t \in Endpoints
  BY <1>1, AnyCall DEF Jobs, Steps, Goto
<1>3. job'[h] = j /\ \A g \in Handlers \ {h} : job'[g] = job[g]
  BY <1>2, AnyCall
<1>4. Shape'
  BY <1>1, <1>2, AnyCall DEF Shape
<1>5. CallsEquipped'
  BY <1>2, <1>3 DEF IInv, CallsEquipped
<1>6. SlotsCoverPosts'
  <2> SUFFICES ASSUME NEW e \in Endpoints \ expired'
               PROVE  Cardinality(InFlight(e)') <= slots'[e]
    BY DEF SlotsCoverPosts
  <2>1. /\ Cardinality(InFlight(e)) <= slots[e] /\ slots[e] \in Nat
        /\ Cardinality(InFlight(e)) \in Nat /\ IsFiniteSet(InFlight(e))
    BY <1>1, AnyCall, InFlightFinite DEF IInv, SlotsCoverPosts
  <2>2. CASE e = t
    <3>1. InFlight(e)' = InFlight(e) \cup {h}
      BY <1>1, <1>2, <1>3, <2>2 DEF InFlight, Target
    <3>2. Cardinality(InFlight(e)') <= Cardinality(InFlight(e)) + 1
      <4>. DEFINE S == InFlight(e)
      <4>1. IsFiniteSet(S) /\ Cardinality(S) \in Nat
        BY <2>1
      <4>. HIDE DEF S
      <4>2. Cardinality(S \cup {h}) = IF h \in S THEN Cardinality(S) ELSE Cardinality(S) + 1
        BY <4>1, FS_AddElement
      <4>3. Cardinality(S \cup {h}) <= Cardinality(S) + 1
        BY <4>1, <4>2
      <4> QED
        BY <3>1, <4>3 DEF S
    <3>3. slots'[e] = slots[e] + 1
      BY <1>1, <1>2, <2>2, AnyCall
    <3>4. Cardinality(InFlight(e)') \in Nat
      <4>1. IsFiniteSet(InFlight(e)')
        BY <2>1, <3>1, FS_AddElement
      <4> QED
        BY <4>1, FS_CardinalityType
    <3> QED
      BY <2>1, <3>2, <3>3, <3>4
  <2>3. CASE e # t
    <3>1. InFlight(e)' = InFlight(e)
      BY <1>1, <1>2, <1>3, <2>3 DEF InFlight, Target
    <3>2. slots'[e] = slots[e]
      BY <1>1, <1>2, <2>3, AnyCall
    <3> QED
      BY <2>1, <3>1, <3>2
  <2> QED
    BY <2>2, <2>3
<1>7. PoolAccounted'
  <2>1. \A c \in Conns : ~Holds(h, c)
    BY <1>1, AnyCall DEF Holds
  <2> QED
    BY <1>1, <1>3, <2>1, OneCall DEF IInv
<1> QED
  BY <1>4, <1>5, <1>6, <1>7 DEF IInv

LEMMA DispatchStep ==
  ASSUME IInv, NEW h \in Handlers, NEW o \in Outcomes, Dispatch(h, o)
  PROVE  IInv'
<1>. DEFINE t == Target(h)
<1>1. /\ job[h].step = "dispatch" /\ UNCHANGED <<expired, idle, abandoned>>
      /\ slots' = slots \/ slots' = [slots EXCEPT ![t] = IF @ > 0 THEN @ - 1 ELSE 0]
  BY DEF Dispatch, ReleaseSlot, pool
<1>2. PICK j \in Jobs :
        /\ job' = [job EXCEPT ![h] = j] /\ j.step = "record" /\ j.msg = job[h].msg
        /\ j.first = job[h].first /\ j.second = None
  <2>1. PICK p \in BOOLEAN :
          job' = [job EXCEPT ![h].step = "record", ![h].outcome = o, ![h].posted = p]
    BY DEF Dispatch
  <2>. DEFINE j == [job[h] EXCEPT !.step = "record", !.outcome = o, !.posted = p]
  <2>2. /\ j \in Jobs /\ j.step = "record" /\ j.msg = job[h].msg
        /\ j.first = job[h].first /\ j.second = None
    <3>1. job[h] \in Jobs /\ job[h].second = None
      BY <1>1, AnyCall
    <3>2. "record" \in Steps
      BY DEF Steps
    <3> QED
      BY <3>1, <3>2 DEF Jobs
  <2>3. job' = [job EXCEPT ![h] = j]
    BY <2>1, AnyCall
  <2>. HIDE DEF j
  <2> QED
    BY <2>2, <2>3
<1>3. job'[h] = j /\ \A g \in Handlers \ {h} : job'[g] = job[g]
  BY <1>2, AnyCall
<1>4. Shape'
  <2>1. slots' \in [Endpoints -> Nat]
    BY <1>1, AnyCall
  <2> QED
    BY <1>1, <1>2, <2>1, AnyCall DEF Shape
<1>5. CallsEquipped'
  <2>1. job[h].msg \in Messages /\ job[h].first \in Conns
    BY <1>1, AnyCall
  <2> QED
    BY <1>2, <1>3, <2>1 DEF IInv, CallsEquipped
<1>6. SlotsCoverPosts'
  <2> SUFFICES ASSUME NEW e \in Endpoints \ expired'
               PROVE  Cardinality(InFlight(e)') <= slots'[e]
    BY DEF SlotsCoverPosts
  <2>1. /\ Cardinality(InFlight(e)) <= slots[e] /\ slots[e] \in Nat
        /\ Cardinality(InFlight(e)) \in Nat /\ IsFiniteSet(InFlight(e))
    BY <1>1, AnyCall, InFlightFinite DEF IInv, SlotsCoverPosts
  <2>2. CASE e = t
    <3>1. h \in InFlight(e) /\ InFlight(e)' = InFlight(e) \ {h}
      BY <1>1, <1>2, <1>3, <2>2 DEF InFlight, Target
    <3>2. Cardinality(InFlight(e)') = Cardinality(InFlight(e)) - 1
      BY <2>1, <3>1, FS_RemoveElement
    <3>3. slots'[e] >= slots[e] - 1
      BY <1>1, <2>1, <2>2, AnyCall
    <3>4. slots'[e] \in Nat
      BY <1>4 DEF Shape
    <3> QED
      BY <2>1, <3>2, <3>3, <3>4
  <2>3. CASE e # t
    <3>1. InFlight(e)' = InFlight(e)
      BY <1>1, <1>2, <1>3, <2>3 DEF InFlight, Target
    <3>2. slots'[e] = slots[e]
      BY <1>1, <2>3, AnyCall
    <3> QED
      BY <2>1, <3>1, <3>2
  <2> QED
    BY <2>2, <2>3
<1>7. PoolAccounted'
  <2>1. \A c \in Conns : ~Holds(h, c)
    BY <1>1, AnyCall DEF Holds
  <2> QED
    BY <1>1, <1>3, <2>1, OneCall DEF IInv
<1> QED
  BY <1>4, <1>5, <1>6, <1>7 DEF IInv

LEMMA RecordAttemptStep ==
  ASSUME IInv, NEW h \in Handlers, NEW c \in Conns, RecordAttempt(h, c)
  PROVE  IInv'
<1>. DEFINE j == [job[h] EXCEPT !.step = "count", !.second = c]
<1>1. /\ job[h].step = "record" /\ Taken(c) /\ UNCHANGED <<slots, expired, abandoned>>
      /\ job' = [job EXCEPT ![h].step = "count", ![h].second = c]
  BY DEF RecordAttempt, redis
<1>2. /\ j \in Jobs /\ j.step = "count" /\ j.second = c /\ c # None
      /\ j.msg \in Messages /\ j.first \in Conns
  BY <1>1, AnyCall DEF Jobs, Steps
<1>3. job' = [job EXCEPT ![h] = j]
  BY <1>1, AnyCall
<1>4. ToSet(idle) \subseteq ToSet(idle') \cup {c} /\ idle' \in Seq(Conns)
  BY <1>1, TakenFacts DEF IInv
<1>5. \A d \in Conns : ~Holds(h, d)
  BY <1>1, AnyCall DEF Holds
<1>6. slots' \in [Endpoints -> Nat] /\ \A e \in Endpoints : slots'[e] >= slots[e]
  BY <1>1, AnyCall
<1>. HIDE DEF j
<1> QED
  BY <1>1, <1>2, <1>3, <1>4, <1>5, <1>6, QuietCall

LEMMA CountOutcomeStep ==
  ASSUME IInv, NEW h \in Handlers, CountOutcome(h)
  PROVE  IInv'
<1>1. job[h].step = "count" /\ Goto(h, "commit")
      /\ UNCHANGED <<slots, expired, idle, abandoned>>
  BY DEF CountOutcome, redis
<1> QED
  BY <1>1, AnyCall, GotoStep DEF Steps

(* Steps after which the outer catch runs, with the second connection back *)
(* in the pool or never taken.                                             *)
LEMMA ThrowStep ==
  ASSUME IInv, NEW h \in Handlers, job[h].step \in {"record", "count", "commit"},
         job' = [job EXCEPT ![h] =
           [Idle EXCEPT !.step = "catch", !.msg = job[h].msg, !.first = job[h].first]],
         idle' = IF job[h].second = None THEN idle ELSE Released(job[h].second),
         UNCHANGED <<slots, expired, abandoned>>
  PROVE  IInv'
<1>1. job[h].msg \in Messages /\ job[h].first \in Conns
  BY AnyCall
<1>2. PICK j \in Jobs : /\ job' = [job EXCEPT ![h] = j] /\ j.step = "catch"
                        /\ j.msg = job[h].msg /\ j.first = job[h].first /\ j.second = None
  <2>. DEFINE j == Catching(job[h].msg, job[h].first)
  <2>1. /\ j \in Jobs /\ j.step = "catch" /\ j.msg = job[h].msg
        /\ j.first = job[h].first /\ j.second = None
    BY <1>1, CatchingFacts
  <2>2. job' = [job EXCEPT ![h] = j]
    BY DEF Catching
  <2>. HIDE DEF j
  <2> QED
    BY <2>1, <2>2
<1>3. /\ idle' \in Seq(Conns) /\ ToSet(idle) \subseteq ToSet(idle')
      /\ job[h].second # None => job[h].second \in ToSet(idle')
  <2>1. CASE job[h].second = None
    BY <2>1, AnyCall
  <2>2. CASE job[h].second # None
    <3>1. idle' \in Seq(Conns) /\ ToSet(idle') = ToSet(idle) \cup {job[h].second}
      BY <2>2, AnyCall, ReleasedFacts DEF Released
    <3> QED
      BY <3>1
  <2> QED
    BY <2>1, <2>2
<1>4. \A c \in Conns : Holds(h, c) => c \in ToSet(idle')
  BY <1>3, AnyCall DEF Holds
<1>5. slots' \in [Endpoints -> Nat] /\ \A e \in Endpoints : slots'[e] >= slots[e]
  BY AnyCall
<1> QED
  BY <1>1, <1>2, <1>3, <1>4, <1>5, QuietCall

LEMMA CommitOutcomeStep ==
  ASSUME IInv, NEW h \in Handlers, CommitOutcome(h)
  PROVE  IInv'
<1>1. /\ job[h].step = "commit" /\ idle' = Released(job[h].second)
      /\ UNCHANGED <<slots, expired, abandoned>>
  BY DEF CommitOutcome, redis
<1>2. job[h].second # None /\ job[h].second \in Conns
  BY <1>1, AnyCall
<1>3. CASE job' = [job EXCEPT ![h] =
        [Idle EXCEPT !.step = "catch", !.msg = job[h].msg, !.first = job[h].first]]
  BY <1>1, <1>2, <1>3, ThrowStep
<1>4. CASE job' = [job EXCEPT ![h] = Idle]
  <2>1. idle' \in Seq(Conns) /\ ToSet(idle') = ToSet(idle) \cup {job[h].second}
    BY <1>1, <1>2, AnyCall, ReleasedFacts DEF Released
  <2>2. \A c \in Conns : Holds(h, c) => c \in ToSet(idle')
    BY <1>1, <2>1 DEF Holds
  <2>3. slots' \in [Endpoints -> Nat] /\ \A e \in Endpoints : slots'[e] >= slots[e]
    BY <1>1, AnyCall
  <2> QED
    BY <1>1, <1>4, <2>1, <2>2, <2>3, EndOfCall
<1> QED
  BY <1>3, <1>4 DEF CommitOutcome

LEMMA ThrowingSteps ==
  ASSUME IInv, NEW h \in Handlers, ReconnectTimesOut(h) \/ OutcomeFails(h)
  PROVE  IInv'
<1>1. CASE ReconnectTimesOut(h)
  <2>1. job[h].step = "record" /\ Throw(h) /\ UNCHANGED <<slots, expired, idle, abandoned>>
    BY <1>1 DEF ReconnectTimesOut, redis, pool
  <2>2. job[h].second = None
    BY <2>1, AnyCall
  <2> QED
    BY <2>1, <2>2, ThrowStep DEF Throw
<1>2. CASE OutcomeFails(h)
  <2>1. /\ job[h].step \in {"count", "commit"} /\ Throw(h)
        /\ idle' = Released(job[h].second) /\ UNCHANGED <<slots, expired, abandoned>>
    BY <1>2 DEF OutcomeFails, redis
  <2>2. job[h].second # None
    BY <2>1, AnyCall
  <2> QED
    BY <2>1, <2>2, ThrowStep DEF Throw
<1> QED
  BY <1>1, <1>2

-----------------------------------------------------------------------------
LEMMA ExpireStep ==
  ASSUME IInv, NEW e \in Endpoints, Expire(e)
  PROVE  IInv'
<1>1. /\ UNCHANGED <<job, idle, abandoned>> /\ slots' = [slots EXCEPT ![e] = 0]
      /\ expired \subseteq expired'
      /\ InFlight(e) = {} \/ e \in expired'
  BY DEF Expire, pool
<1>2. slots \in [Endpoints -> Nat]
  BY DEF IInv, Shape
<1>3. Shape'
  BY <1>1, <1>2 DEF IInv, Shape
<1>4. SlotsCoverPosts'
  <2> SUFFICES ASSUME NEW f \in Endpoints \ expired'
               PROVE  Cardinality(InFlight(f)') <= slots'[f]
    BY DEF SlotsCoverPosts
  <2>1. InFlight(f)' = InFlight(f)
    BY <1>1 DEF InFlight, Target
  <2>2. CASE f = e
    <3>1. InFlight(f) = {}
      BY <1>1, <2>2
    <3> QED
      BY <1>1, <1>2, <2>1, <2>2, <3>1, FS_EmptySet
  <2>3. CASE f # e
    <3>1. slots'[f] = slots[f] /\ f \notin expired
      BY <1>1, <1>2, <2>3
    <3> QED
      BY <2>1, <3>1 DEF IInv, SlotsCoverPosts
  <2> QED
    BY <2>2, <2>3
<1> QED
  BY <1>1, <1>3, <1>4 DEF IInv, CallsEquipped, PoolAccounted, Held

LEMMA RestartStep ==
  ASSUME IInv, Restart
  PROVE  IInv'
<1>1. /\ job' = [h \in Handlers |-> Idle] /\ idle' = SetToSeq(Conns)
      /\ UNCHANGED <<slots, expired>>
  BY DEF Restart
<1>2. \A h \in Handlers : job'[h].step = "idle" /\ job'[h].second = None
  BY <1>1, IdleFacts
<1>3. Shape'
  BY <1>1, AllIdle, IdleFacts DEF IInv, Shape
<1>4. CallsEquipped'
  BY <1>2 DEF CallsEquipped
<1>5. SlotsCoverPosts'
  <2>1. /\ slots \in [Endpoints -> Nat] /\ slots' \in [Endpoints -> Nat]
        /\ \A e \in Endpoints : slots'[e] >= slots[e]
    BY <1>1 DEF IInv, Shape
  <2> QED
    BY <1>1, <1>2, <2>1, NobodyPosts DEF IInv
<1>6. PoolAccounted'
  BY <1>1, AllIdle DEF PoolAccounted
<1> QED
  BY <1>3, <1>4, <1>5, <1>6 DEF IInv

LEMMA NothingHappens ==
  ASSUME IInv, UNCHANGED <<job, idle, abandoned, slots, expired>>
  PROVE  IInv'
BY DEF IInv, Shape, CallsEquipped, SlotsCoverPosts, InFlight, Target, PoolAccounted, Held

LEMMA QueueShrinks ==
  ASSUME queue \subseteq Messages, [Next]_vars
  PROVE  queue' \subseteq Messages
<1>1. CASE \E h \in Handlers : LoadStops(h) \/ CommitOutcome(h)
  BY <1>1 DEF LoadStops, CommitOutcome, Deleted
<1>2. CASE \E h \in Handlers : \/ \E m \in queue, c \in Conns : Receive(h, m, c)
                               \/ \E c \in Conns : RecordAttempt(h, c)
  BY <1>2 DEF Receive, RecordAttempt
<1>3. CASE \E h \in Handlers : LoadGoesOn(h) \/ LoadFails(h) \/ GateAdmits(h)
                               \/ GateRequeues(h) \/ GateFails(h)
  BY <1>3 DEF LoadGoesOn, LoadFails, GateAdmits, GateRequeues, GateFails
<1>4. CASE \E h \in Handlers : \/ \E o \in Outcomes : Dispatch(h, o)
                               \/ ReconnectTimesOut(h) \/ CountOutcome(h) \/ OutcomeFails(h)
                               \/ CatchRollback(h) \/ CatchRelease(h)
  BY <1>4 DEF Dispatch, ReconnectTimesOut, CountOutcome, OutcomeFails, CatchRollback,
              CatchRelease
<1>5. CASE \/ \E e \in Endpoints : Expire(e) \/ \E s \in Statuses : EditEndpoint(e, s)
           \/ Restart \/ UNCHANGED vars
  BY <1>5 DEF Expire, EditEndpoint, Restart, vars
<1> QED
  BY <1>1, <1>2, <1>3, <1>4, <1>5 DEF Next, HandlerStep

THEOREM NextInvariant == Inv /\ [Next]_vars => Inv'
<1> SUFFICES ASSUME IInv, queue \subseteq Messages, [Next]_vars PROVE IInv'
  BY QueueShrinks DEF Inv
<1>1. CASE \E h \in Handlers, m \in queue, c \in Conns : Receive(h, m, c)
  BY <1>1, ReceiveStep
<1>2. CASE \E h \in Handlers : \E c \in Conns : RecordAttempt(h, c)
  BY <1>2, RecordAttemptStep
<1>3. CASE \E h \in Handlers : LoadStops(h) \/ LoadGoesOn(h) \/ LoadFails(h)
  BY <1>3, LoadSteps
<1>4. CASE \E h \in Handlers : GateAdmits(h)
  BY <1>4, GateAdmitsStep
<1>5. CASE \E h \in Handlers : GateRequeues(h) \/ GateFails(h)
  BY <1>5, GateQuietSteps
<1>6. CASE \E h \in Handlers, o \in Outcomes : Dispatch(h, o)
  BY <1>6, DispatchStep
<1>7. CASE \E h \in Handlers : ReconnectTimesOut(h) \/ OutcomeFails(h)
  BY <1>7, ThrowingSteps
<1>8. CASE \E h \in Handlers : CountOutcome(h)
  BY <1>8, CountOutcomeStep
<1>9. CASE \E h \in Handlers : CommitOutcome(h)
  BY <1>9, CommitOutcomeStep
<1>10. CASE \E h \in Handlers : CatchRollback(h) \/ CatchRelease(h)
  BY <1>10, CatchSteps
<1>11. CASE \E e \in Endpoints : Expire(e)
  BY <1>11, ExpireStep
<1>12. CASE \E e \in Endpoints : \E s \in Statuses : EditEndpoint(e, s)
  BY <1>12, NothingHappens DEF EditEndpoint, pool, redis
<1>13. CASE Restart
  BY <1>13, RestartStep
<1>14. CASE UNCHANGED vars
  BY <1>14, NothingHappens DEF vars, pool, redis
<1> QED
  BY <1>1, <1>2, <1>3, <1>4, <1>5, <1>6, <1>7, <1>8, <1>9, <1>10, <1>11, <1>12, <1>13,
     <1>14 DEF Next, HandlerStep

THEOREM Invariance == Spec => []Inv
<1>1. Init => Inv
  BY InitInvariant DEF Init, Inv
<1> QED
  BY <1>1, NextInvariant, PTL DEF Spec

(* Every post under way is covered by a counted slot, so that there are    *)
(* never more of them than the cap, until a counter expires                *)
(* (redis-gating.ts).                                                      *)
THEOREM PostsAreCovered == Spec => []SlotsCoverPosts
<1>1. Inv => SlotsCoverPosts
  BY DEF Inv, IInv
<1> QED
  BY <1>1, Invariance, PTL

(* Whatever fails, a connection that is out will be given back by a call,  *)
(* or was left behind by one of the two early returns                      *)
(* (delivery.handler.ts:101 and :121).                                     *)
THEOREM ConnectionsAccounted == Spec => []PoolAccounted
<1>1. Inv => PoolAccounted
  BY DEF Inv, IInv
<1> QED
  BY <1>1, Invariance, PTL
=============================================================================
