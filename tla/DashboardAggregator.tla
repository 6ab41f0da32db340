------------------------- MODULE DashboardAggregator -------------------------
(***************************************************************************)
(* The dashboard aggregator for one tenant: the consumer that applies      *)
(* ticket events to the counters in Redis, the reconciler that overwrites  *)
(* them from Postgres, and the pods that publish what changed as numbered  *)
(* frames.  Every Redis command and every script is one step; the awaits   *)
(* between them are where the processes interleave.                        *)
(*                                                                         *)
(* One counter stands for the KPIs, and the set of events in the activity  *)
(* feed for what every event changes.  The breakdowns by category and by   *)
(* area, read and diffed with them, are left out.                          *)
(***************************************************************************)
EXTENDS Integers, FiniteSets, Sequences, SequencesExt

CONSTANTS
    Tickets,      \* the tenant's tickets
    Pods,         \* the ticks that may be under way at once
    Retention,    \* frames the ring buffer keeps
    MaxFaults,    \* errors met, and intervals begun during a tick, together
    None

ASSUME TicketsAssumption   == IsFiniteSet(Tickets)
ASSUME RetentionAssumption == Retention \in Nat \ {0}
ASSUME FaultsAssumption    == MaxFaults \in Nat
ASSUME NoneAssumption      == None \notin [prev : Nat, base : Nat]

VARIABLES
    ticket,       \* [Tickets -> status], in Postgres
    inbox,        \* events in the queue and not yet deleted from it
    seen,         \* events applied: their dedup keys, and the feed
    marking,      \* events applied and not yet followed by their SADD
    active,       \* the tenant is in dash:active_tenants
    kpi,          \* open_total
    seq,          \* meta.seq, bumped by events and by frames
    flag,         \* needs_snapshot
    published,    \* what the last frame published, or None
    ring,         \* the frames retained
    count,        \* frames published so far (history)
    free,         \* the current interval is not claimed yet
    pub,          \* [Pods -> where its tick is, and what it has read]
    rec,          \* where the reconciler is, and what it has read
    faults

counters == <<seen, kpi, seq>>
frames   == <<published, ring, count>>
redis    == <<counters, active, flag, frames>>
vars     == <<ticket, inbox, redis, marking, free, pub, rec, faults>>

Statuses == {"none", "open", "resolved"}

Events == Tickets \X {"ticket.created", "ticket.resolved"}

Open == Cardinality({t \in Tickets : ticket[t] = "open"})

(* What the event's handler adds to open_total.                            *)
Increment(e) == IF e[2] = "ticket.created" THEN 1 ELSE -1

(* HINCRBY as the script does it: never below zero.                        *)
Clamped(n) == IF n < 0 THEN 0 ELSE n

Content == [kpi : Nat, feed : SUBSET Events]

(* no and base are history: the frame's place in the order of publication, *)
(* and how many there were when the counter was read for it.               *)
Frame == [type : {"delta", "snapshot"}, seq : Nat, prev : Nat,
          no : Nat, base : Nat]

Tick == [pc : {"idle", "claimed", "kpi", "feed", "read", "diffed"},
         force : BOOLEAN, kpi : Nat, feed : SUBSET Events,
         prev : Nat, base : Nat, type : {"delta", "snapshot"}]

IdlePod == [pc |-> "idle", force |-> FALSE, kpi |-> 0, feed |-> {},
            prev |-> 0, base |-> 0, type |-> "snapshot"]

IdleReconciler == [pc |-> "idle", value |-> 0, drift |-> FALSE]

Init ==
    /\ ticket = [t \in Tickets |-> "none"]
    /\ inbox = {} /\ seen = {} /\ kpi = 0 /\ seq = 0
    /\ marking = {} /\ active = FALSE
    /\ flag = FALSE /\ published = None /\ ring = <<>> /\ count = 0
    /\ free = TRUE
    /\ pub = [p \in Pods |-> IdlePod]
    /\ rec = IdleReconciler
    /\ faults = 0

-----------------------------------------------------------------------------
(* Tickets change in Postgres, and the outbox publishes what they announce.*)

(* An agent's ticket is created without an event.                          *)
create(t) ==
    /\ ticket[t] = "none"
    /\ ticket' = [ticket EXCEPT ![t] = "open"]
    /\ UNCHANGED <<inbox, redis, marking, free, pub, rec, faults>>

createFromPortal(t) ==
    /\ ticket[t] = "none"
    /\ ticket' = [ticket EXCEPT ![t] = "open"]
    /\ inbox' = inbox \cup {<<t, "ticket.created">>}
    /\ UNCHANGED <<redis, marking, free, pub, rec, faults>>

resolve(t) ==
    /\ ticket[t] = "open"
    /\ ticket' = [ticket EXCEPT ![t] = "resolved"]
    /\ inbox' = inbox \cup {<<t, "ticket.resolved">>}
    /\ UNCHANGED <<redis, marking, free, pub, rec, faults>>

-----------------------------------------------------------------------------
(* The consumer.  Any message in the queue may be delivered, in any order  *)
(* and again after it was applied, until it is deleted.                    *)

(* The script.  That the tenant is active is recorded by a command of its  *)
(* own after it.                                                           *)
ApplyEvent(e) ==
    /\ e \in inbox \ seen
    /\ seen' = seen \cup {e}
    /\ kpi' = Clamped(kpi + Increment(e))
    /\ seq' = seq + 1
    /\ marking' = marking \cup {e}
    /\ UNCHANGED <<ticket, inbox, active, flag, frames, free, pub, rec, faults>>

MarkActive(e) ==
    /\ e \in marking
    /\ marking' = marking \ {e}
    /\ active' = TRUE
    /\ UNCHANGED <<ticket, inbox, counters, flag, frames, free, pub, rec, faults>>

(* The SADD fails, or the process ends before it: the message stays in the *)
(* queue, and its redelivery finds the dedup key and does not repeat it.   *)
ConsumerFails(e) ==
    /\ e \in marking /\ faults < MaxFaults
    /\ faults' = faults + 1
    /\ marking' = marking \ {e}
    /\ UNCHANGED <<ticket, inbox, redis, free, pub, rec>>

(* Applied now or found applied already.                                   *)
DeleteMessage(e) ==
    /\ e \in (inbox \cap seen) \ marking
    /\ inbox' = inbox \ {e}
    /\ UNCHANGED <<ticket, redis, marking, free, pub, rec, faults>>

-----------------------------------------------------------------------------
(* The reconciler, of active tenants only: the counts are read in a        *)
(* transaction, compared with Redis after it, written, and flagged when    *)
(* they differed.                                                          *)

ReadPostgres ==
    /\ active /\ rec.pc = "idle"
    /\ rec' = [rec EXCEPT !.pc = "read", !.value = Open]
    /\ UNCHANGED <<ticket, inbox, redis, marking, free, pub, faults>>

CompareRedis ==
    /\ rec.pc = "read"
    /\ rec' = [rec EXCEPT !.pc = "compared", !.drift = (kpi # rec.value)]
    /\ UNCHANGED <<ticket, inbox, redis, marking, free, pub, faults>>

(* It also adds the tenant to the active ones, where it is already.        *)
overwriteKpi ==
    /\ rec.pc = "compared"
    /\ kpi' = rec.value
    /\ rec' = [rec EXCEPT !.pc = "written", !.value = 0]
    /\ UNCHANGED <<ticket, inbox, seen, seq, active, flag, frames, marking,
                   free, pub, faults>>

FlagDrift ==
    /\ rec.pc = "written"
    /\ flag' = (flag \/ rec.drift)
    /\ rec' = IdleReconciler
    /\ UNCHANGED <<ticket, inbox, counters, active, frames, marking,
                   free, pub, faults>>

ReconcileFails ==
    /\ rec.pc # "idle" /\ faults < MaxFaults
    /\ faults' = faults + 1
    /\ rec' = IdleReconciler
    /\ UNCHANGED <<ticket, inbox, redis, marking, free, pub>>

-----------------------------------------------------------------------------
(* The publisher, of active tenants only.  The claim is a key named after  *)
(* the interval the tick began in, so that one pod ticks per interval.     *)
(* Nothing keeps two ticks apart: the clocks of the pods do not begin      *)
(* their ticks together, so one may be in the tick of an interval while    *)
(* another begins that of the next, however short a tick is.  MaxFaults    *)
(* bounds how often this happens, together with the errors.                *)

NextInterval ==
    /\ ~free
    /\ free' = TRUE
    /\ \/ /\ \A p \in Pods : pub[p].pc = "idle"
          /\ UNCHANGED faults
       \/ /\ faults < MaxFaults
          /\ faults' = faults + 1
    /\ UNCHANGED <<ticket, inbox, redis, marking, pub, rec>>

(* SET NX, and the snapshot flag taken with GETDEL: one step, for nobody   *)
(* can tell whether a claim came earlier than the GETDEL that follows it.  *)
Claim(p) ==
    /\ active /\ free /\ pub[p].pc = "idle"
    /\ free' = FALSE
    /\ flag' = FALSE
    /\ pub' = [pub EXCEPT ![p].pc = "claimed", ![p].force = flag]
    /\ UNCHANGED <<ticket, inbox, counters, active, frames, marking, rec, faults>>

(* The aggregates are asked for together and answered one by one, meta as  *)
(* the last.                                                               *)
ReadKpi(p) ==
    /\ pub[p].pc = "claimed"
    /\ pub' = [pub EXCEPT ![p].pc = "kpi", ![p].kpi = kpi]
    /\ UNCHANGED <<ticket, inbox, redis, marking, free, rec, faults>>

ReadFeed(p) ==
    /\ pub[p].pc = "kpi"
    /\ pub' = [pub EXCEPT ![p].pc = "feed", ![p].feed = seen]
    /\ UNCHANGED <<ticket, inbox, redis, marking, free, rec, faults>>

ReadSeq(p) ==
    /\ pub[p].pc = "feed"
    /\ pub' = [pub EXCEPT ![p].pc = "read", ![p].prev = seq, ![p].base = count]
    /\ UNCHANGED <<ticket, inbox, redis, marking, free, rec, faults>>

Current(p) == [kpi |-> pub[p].kpi, feed |-> pub[p].feed]

(* Wrong: the diff looks at the feed only, which every event changes.      *)
Unchanged_Feed(p) ==
    ~pub[p].force /\ published # None /\ pub[p].feed = published.feed

(* A flagged tenant and a first publication get a snapshot, an unchanged   *)
(* one nothing.  A delta small enough to be sent as one is taken.          *)
FrameType(p) ==
    IF pub[p].force \/ published = None THEN "snapshot" ELSE "delta"

Unchanged(p) == ~pub[p].force /\ Current(p) = published

NothingToPublish(p) ==
    /\ pub[p].pc = "read" /\ Unchanged(p)
    /\ pub' = [pub EXCEPT ![p] = IdlePod]
    /\ UNCHANGED <<ticket, inbox, redis, marking, free, rec, faults>>

ReadPublished(p) ==
    /\ pub[p].pc = "read" /\ ~Unchanged(p)
    /\ pub' = [pub EXCEPT ![p].pc = "diffed", ![p].type = FrameType(p)]
    /\ UNCHANGED <<ticket, inbox, redis, marking, free, rec, faults>>

(* Wrong: the frame gets the number the counter has now.                   *)
NewFrame_Allocated(p) ==
    [type |-> pub[p].type, seq |-> seq + 1, prev |-> pub[p].prev,
     no |-> count + 1, base |-> pub[p].base]

(* The frame's own number is fixed before the script allocates one.        *)
NewFrame(p) ==
    [type |-> pub[p].type, seq |-> pub[p].prev + 1, prev |-> pub[p].prev,
     no |-> count + 1, base |-> pub[p].base]

(* Wrong: one frame too many is kept.                                      *)
Trimmed_OneMore(kept) ==
    IF Len(kept) > Retention + 1 THEN Tail(kept) ELSE kept

Trimmed(kept) == IF Len(kept) > Retention THEN Tail(kept) ELSE kept

PublishFrame(p) ==
    /\ pub[p].pc = "diffed"
    /\ seq' = seq + 1
    /\ published' = Current(p)
    /\ ring' = Trimmed(Append(ring, NewFrame(p)))
    /\ count' = count + 1
    /\ pub' = [pub EXCEPT ![p] = IdlePod]
    /\ UNCHANGED <<ticket, inbox, seen, kpi, active, flag, marking, free, rec, faults>>

PublishFails(p) ==
    /\ pub[p].pc # "idle" /\ faults < MaxFaults
    /\ faults' = faults + 1
    /\ pub' = [pub EXCEPT ![p] = IdlePod]
    /\ UNCHANGED <<ticket, inbox, redis, marking, free, rec>>

-----------------------------------------------------------------------------
TicketStep ==
    \E t \in Tickets : create(t) \/ createFromPortal(t) \/ resolve(t)

ConsumerStep ==
    \E e \in Events : ApplyEvent(e) \/ MarkActive(e) \/ DeleteMessage(e)

ReconcilerStep == ReadPostgres \/ CompareRedis \/ overwriteKpi \/ FlagDrift

TickStep(p) ==
    \/ Claim(p) \/ ReadKpi(p) \/ ReadFeed(p) \/ ReadSeq(p)
    \/ NothingToPublish(p) \/ ReadPublished(p) \/ PublishFrame(p)

Fault ==
    \/ \E e \in Events : ConsumerFails(e)
    \/ ReconcileFails
    \/ \E p \in Pods : PublishFails(p)

Next ==
    \/ TicketStep \/ ConsumerStep \/ ReconcilerStep
    \/ NextInterval \/ \E p \in Pods : TickStep(p)
    \/ Fault

Spec == Init /\ [][Next]_vars

(* Messages are redelivered, the reconciler's and the publisher's timers   *)
(* go on, and some pod ticks in every interval.                            *)
Fairness ==
    /\ WF_vars(ConsumerStep)
    /\ WF_vars(ReconcilerStep)
    /\ WF_vars(NextInterval)
    /\ WF_vars(\E p \in Pods : TickStep(p))

FairSpec == Spec /\ Fairness

-----------------------------------------------------------------------------
(* Redis, the queue and every process keep the types of their state; the   *)
(* ring never holds more than it retains (publish-frame.lua, LTRIM).       *)
TypeOK ==
    /\ ticket \in [Tickets -> Statuses]
    /\ inbox \subseteq Events /\ seen \subseteq Events /\ marking \subseteq seen
    /\ kpi \in Nat /\ seq \in Nat /\ count \in Nat
    /\ active \in BOOLEAN /\ flag \in BOOLEAN /\ free \in BOOLEAN
    /\ published \in Content \cup {None}
    /\ ring \in Seq(Frame) /\ Len(ring) <= Retention
    /\ pub \in [Pods -> Tick]
    /\ rec \in [pc : {"idle", "read", "compared", "written"},
                value : Nat, drift : BOOLEAN]
    /\ faults \in 0 .. MaxFaults

(* The pods seen as the source FrameSource describes, each with the frame  *)
(* it has under way since it read the counter.                             *)
Reading ==
    [p \in Pods |->
        IF pub[p].pc \in {"read", "diffed"}
        THEN [prev |-> pub[p].prev, base |-> pub[p].base]
        ELSE None]

Frames == INSTANCE FrameSource WITH Readers <- Pods, reading <- Reading

(* Whatever ticks overlap, the pods together are a source of frames: each  *)
(* frame carries on from a value its tick read earlier, the script's own   *)
(* count only grows, the first frame is a snapshot, and events,            *)
(* corrections and faults leave the frames alone                           *)
(* (delta-publisher.service.ts, publish-frame.lua, apply-event.lua).       *)
IsFrameSource == Frames!SourceSpec

(* Whatever the clamped counter, reordered and redelivered events, the     *)
(* races of the reconciler and failed and overlapping ticks did, once      *)
(* tickets stop changing the aggregates and the last frame come to show    *)
(* how many are open, provided the tenant is ever marked active            *)
(* (aggregate.store.ts:80-83).  A tenant that is not, because its tickets  *)
(* are all agents' or the command after its events failed, is neither      *)
(* reconciled nor published.                                               *)
DashboardConverges ==
    <>active => <>[](kpi = Open /\ (published # None => published.kpi = Open))
=============================================================================
