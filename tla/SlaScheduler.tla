---------------------------- MODULE SlaScheduler ----------------------------
(***************************************************************************)
(* The SLA engine: scheduler pods that claim due timers in one Postgres    *)
(* transaction per tick (workers/sla-scheduler), beside the API requests   *)
(* that create timers, recompute them on a priority change, edit policies  *)
(* and move tickets in and out of a terminal status (modules/sla).         *)
(*                                                                         *)
(* A tick is BEGIN, a claiming SELECT ... FOR UPDATE SKIP LOCKED, one      *)
(* processTimer per claimed row, and COMMIT, with no savepoint in between: *)
(* `batch' buffers the writes of the open transaction, `aborted' is        *)
(* Postgres's state after a failed statement, and `lock' the row locks.    *)
(***************************************************************************)
EXTENDS Integers, FiniteSets

CONSTANTS
    Pods,          \* scheduler processes
    Tickets,
    Clocks,        \* clock types: a ticket has one timer per clock type
    Policies,
    Span,          \* Span[pol][c]: the policy's target for clock c, in time units
    PctPairs,      \* pairs <<first, second>> of reminder percentages in use
    BatchLimit,    \* CLAIM_BATCH_LIMIT
    MaxFailures,   \* MAX_CONSECUTIVE_FAILURES
    Poison,        \* timers whose processing fails with an SQL error every time
    Horizon,       \* last instant of the clock
    MaxFaults,     \* bound: transient SQL errors, failed commits and crashes
    MaxEdits       \* bound: policy edits, recomputes, ticket status changes

Timers == Tickets \X Clocks

TicketOf(t) == t[1]

ClockOf(t) == t[2]

(* None: no lock holder, no policy.  Deleted: a policy row that is gone.   *)
CONSTANTS None, Deleted

ASSUME ConstantTypes ==
    /\ Span \in [Policies -> [Clocks -> Nat]]
    /\ BatchLimit \in Nat \ {0}
    /\ MaxFailures \in Nat \ {0}
    /\ Horizon \in Nat
    /\ MaxFaults \in Nat
    /\ MaxEdits \in Nat
    /\ Poison \subseteq Timers

(* sla-policy.dto.ts and a CHECK of the table: 0 < first < second < 100.   *)
ASSUME PctPairsOrdered ==
    \A pc \in PctPairs : /\ pc[1] \in Nat /\ pc[2] \in Nat
                         /\ pc[1] < pc[2] /\ pc[2] < 100

ASSUME DistinctNames ==
    /\ Pods \cap Tickets = {}
    /\ None \notin Pods \cup Tickets
    /\ Deleted \notin PctPairs

VARIABLES
    now,       \* the wall clock
    timer,     \* timer[t]: the committed sla_timers row
    fired,     \* fired[t]: the committed sla_fired_boundaries rows
    outbox,    \* outbox[t][b]: committed outbox_events rows for boundary b of t
    closed,    \* tickets in a terminal status, or purged
    pct,       \* pct[pol]: the policy's reminder percentages, or Deleted
    lock,      \* lock[t]: the pod, or the ticket's recompute, holding the row
    snap,      \* snap[p][t]: the row as pod p's claim read it
    todo,      \* todo[p]: claimed timers pod p has still to process
    batch,     \* batch[p][t]: the write pod p's transaction holds for t
    ticking,   \* ticking[p]: pod p is inside runTick
    aborted,   \* aborted[p]: a statement of the open transaction failed
    failures,  \* failures[p][t]: the pod's consecutiveFailures map
    recompute, \* recompute[k]: the open recomputeForPriorityChange of ticket k
    faults, edits   \* how many of each happened so far

db == <<timer, fired, outbox>>

podVars == <<snap, todo, batch, ticking, aborted, failures>>

vars == <<now, db, closed, pct, lock, podVars, recompute, faults, edits>>

-----------------------------------------------------------------------------
(* Data                                                                    *)

Boundaries == {"reminder_first", "reminder_second", "breach"}

Settled == {"met", "breached", "cancelled"}

(* A null next_fire_at.                                                    *)
Null == -1

NoRow == [state |-> "none", policy |-> None, startedAt |-> 0, targetAt |-> 0,
          nextFireAt |-> Null]

NoWrite == [state |-> "none", nextFireAt |-> Null, newly |-> {}]

NoRecompute == [open |-> FALSE, policy |-> None, pct |-> Deleted,
                active |-> {}, written |-> {}]

Row == [state : {"none", "running"} \cup Settled, policy : Policies \cup {None},
        startedAt : Nat, targetAt : Nat, nextFireAt : Nat \cup {Null}]

Write == [state : {"none", "running"} \cup Settled, nextFireAt : Nat \cup {Null},
          newly : SUBSET Boundaries]

Min2(a, b) == IF a <= b THEN a ELSE b

Earliest(S) == CHOOSE i \in S : \A j \in S : i <= j

(* boundaryPct / boundaryInstant.  paused_ms is 0 in every row: nothing in *)
(* the repository pauses a timer.                                          *)
boundaryPct(pc, b) ==
    CASE b = "reminder_first"  -> pc[1]
      [] b = "reminder_second" -> pc[2]
      [] b = "breach"          -> 100

boundaryInstant(row, pc, b) ==
    row.startedAt + ((row.targetAt - row.startedAt) * boundaryPct(pc, b)) \div 100

(* sla-target-calculator's computeNextFireAt: the first instant of the     *)
(* clock, with no regard for boundaries that have fired already.           *)
firstFireAt(startedAt, targetAt, pc) ==
    LET row == [startedAt |-> startedAt, targetAt |-> targetAt]
    IN  Earliest({boundaryInstant(row, pc, b) : b \in Boundaries})

(* Mutant: the classifier forgets to compare with the clock.               *)
dueBoundaries_Unfired(row, pc, done) == Boundaries \ done

(* Mutant: the next wake-up is looked for among the reminders only.        *)
nextFireAfter_Reminders(row, pc, done) ==
    LET left == Boundaries \ (done \cup {"breach"})
    IN  IF left = {} THEN Null ELSE Earliest({boundaryInstant(row, pc, b) : b \in left})

(* boundary-classifier: the boundaries of a claimed row that are due, and  *)
(* the next_fire_at that follows once they have fired.                     *)
dueBoundaries(row, pc, done) ==
    {b \in Boundaries \ done : now >= boundaryInstant(row, pc, b)}

nextFireAfter(row, pc, done) ==
    IF "breach" \in done \/ done = Boundaries
    THEN Null
    ELSE Earliest({boundaryInstant(row, pc, b) : b \in Boundaries \ done})

(* Mutants: the boundary's name stored as a state; a breach that stays     *)
(* running.                                                                *)
advanceTimerState_Name(due) == IF "breach" \in due THEN "breach" ELSE "running"

advanceTimerState_Running(due) == "running"

advanceTimerState(due) == IF "breach" \in due THEN "breached" ELSE "running"

-----------------------------------------------------------------------------
(* The API side                                                            *)

Init ==
    /\ now = 0
    /\ timer = [t \in Timers |-> NoRow]
    /\ fired = [t \in Timers |-> {}]
    /\ outbox = [t \in Timers |-> [b \in Boundaries |-> 0]]
    /\ closed = {}
    /\ pct \in [Policies -> PctPairs]
    /\ lock = [t \in Timers |-> None]
    /\ snap = [p \in Pods |-> [t \in Timers |-> NoRow]]
    /\ todo = [p \in Pods |-> {}]
    /\ batch = [p \in Pods |-> [t \in Timers |-> NoWrite]]
    /\ ticking = [p \in Pods |-> FALSE]
    /\ aborted = [p \in Pods |-> FALSE]
    /\ failures = [p \in Pods |-> [t \in Timers |-> 0]]
    /\ recompute = [k \in Tickets |-> NoRecompute]
    /\ faults = 0
    /\ edits = 0

ClockAdvances ==
    /\ now < Horizon
    /\ now' = now + 1
    /\ UNCHANGED <<db, closed, pct, lock, podVars, recompute, faults, edits>>

NewRow(c, pol) ==
    LET targetAt == now + Span[pol][c]
    IN  [state |-> "running", policy |-> pol, startedAt |-> now, targetAt |-> targetAt,
         nextFireAt |-> firstFireAt(now, targetAt, pct[pol])]

(* createTimersForTicket: both clocks in the ticket's own transaction; a   *)
(* retry finds the rows and inserts nothing.                               *)
createTimersForTicket(k, pol) ==
    /\ pct[pol] # Deleted
    /\ \A c \in Clocks : timer[<<k, c>>].state = "none"
    /\ timer' = [t \in Timers |-> IF TicketOf(t) = k THEN NewRow(ClockOf(t), pol)
                                                     ELSE timer[t]]
    /\ UNCHANGED <<now, fired, outbox, closed, pct, lock, podVars, recompute, faults, edits>>

Edit == edits < MaxEdits /\ edits' = edits + 1

(* An agent moves the ticket into, or out of, resolved/closed.             *)
TicketChanges(k) ==
    /\ Edit
    /\ closed' = (closed \ {k}) \cup ({k} \ closed)
    /\ UNCHANGED <<now, db, pct, lock, podVars, recompute, faults>>

(* SlaPoliciesService.update changes the row the scheduler reads.          *)
EditPolicy(pol, pc) ==
    /\ Edit
    /\ pct[pol] # Deleted /\ pct[pol] # pc
    /\ pct' = [pct EXCEPT ![pol] = pc]
    /\ UNCHANGED <<now, db, closed, lock, podVars, recompute, faults>>

(* A policy row removed by hand: no service deletes one, processTimer      *)
(* copes with it.                                                          *)
DeletePolicy(pol) ==
    /\ Edit
    /\ pct[pol] # Deleted
    /\ pct' = [pct EXCEPT ![pol] = Deleted]
    /\ UNCHANGED <<now, db, closed, lock, podVars, recompute, faults>>

(* recomputeForPriorityChange reads the active timers and the new policy   *)
(* (it may come from the resolver's cache), ...                            *)
BeginRecompute(k, pol) ==
    LET active == {t \in Timers : TicketOf(t) = k /\ timer[t].state = "running"}
    IN  /\ Edit
        /\ ~recompute[k].open
        /\ pct[pol] # Deleted
        /\ active # {}
        /\ recompute' = [recompute EXCEPT ![k] =
               [open |-> TRUE, policy |-> pol, pct |-> pct[pol],
                active |-> active, written |-> {}]]
        /\ UNCHANGED <<now, db, closed, pct, lock, podVars, faults>>

(* ... updates them by id, each UPDATE waiting for the row's lock, ...     *)
RecomputeTimer(k, t) ==
    /\ recompute[k].open
    /\ t \in recompute[k].active \ recompute[k].written
    /\ lock[t] = None
    /\ lock' = [lock EXCEPT ![t] = k]
    /\ recompute' = [recompute EXCEPT ![k].written = @ \cup {t}]
    /\ UNCHANGED <<now, db, closed, pct, podVars, faults, edits>>

(* Mutant: the UPDATE also restarts the timer.                             *)
Recomputed_Restarts(row, k, t) ==
    LET rc == recompute[k]
        targetAt == row.startedAt + Span[rc.policy][ClockOf(t)]
    IN  [row EXCEPT !.state = "running", !.policy = rc.policy, !.targetAt = targetAt,
                    !.nextFireAt = firstFireAt(row.startedAt, targetAt, rc.pct)]

Recomputed(row, k, t) ==
    LET rc == recompute[k]
        targetAt == row.startedAt + Span[rc.policy][ClockOf(t)]
    IN  [row EXCEPT !.policy = rc.policy,
                    !.targetAt = targetAt,
                    !.nextFireAt = firstFireAt(row.startedAt, targetAt, rc.pct)]

ReleaseRecompute(k) ==
    /\ lock' = [t \in Timers |-> IF lock[t] = k THEN None ELSE lock[t]]
    /\ recompute' = [recompute EXCEPT ![k] = NoRecompute]
    /\ UNCHANGED <<now, fired, outbox, closed, pct, podVars, faults, edits>>

(* ... and commits them together; the UPDATE names no state, so it also    *)
(* rewrites a timer the scheduler settled while it waited.                 *)
CommitRecompute(k) ==
    /\ recompute[k].open
    /\ recompute[k].written = recompute[k].active
    /\ timer' = [t \in Timers |-> IF t \in recompute[k].written
                                  THEN Recomputed(timer[t], k, t) ELSE timer[t]]
    /\ ReleaseRecompute(k)

(* The caller's transaction fails (a version conflict on the ticket).      *)
AbortRecompute(k) ==
    /\ recompute[k].open
    /\ UNCHANGED timer
    /\ ReleaseRecompute(k)

-----------------------------------------------------------------------------
(* The scheduler                                                           *)

(* Mutant: the SELECT loses its FOR UPDATE SKIP LOCKED.                    *)
Claimable_Unlocked ==
    {t \in Timers : /\ timer[t].state = "running"
                    /\ timer[t].nextFireAt # Null
                    /\ timer[t].nextFireAt <= now}

Claimable ==
    {t \in Timers : /\ timer[t].state = "running"
                    /\ timer[t].nextFireAt # Null
                    /\ timer[t].nextFireAt <= now
                    /\ lock[t] = None}

(* claimDueTimers: the oldest due rows nobody holds, up to the limit.  A   *)
(* tick that finds nothing commits an empty transaction and is left out.   *)
claimDueTimers(p, S) ==
    /\ ~ticking[p]
    /\ S \subseteq Claimable
    /\ S # {}
    /\ Cardinality(S) = Min2(BatchLimit, Cardinality(Claimable))
    /\ \A t \in S, u \in Claimable \ S : timer[t].nextFireAt <= timer[u].nextFireAt
    /\ lock' = [t \in Timers |-> IF t \in S THEN p ELSE lock[t]]
    /\ snap' = [snap EXCEPT ![p] = [t \in Timers |-> IF t \in S THEN timer[t] ELSE NoRow]]
    /\ todo' = [todo EXCEPT ![p] = S]
    /\ ticking' = [ticking EXCEPT ![p] = TRUE]
    /\ UNCHANGED <<now, db, closed, pct, batch, aborted, failures, recompute, faults, edits>>

(* The rows are handled oldest first.                                      *)
IsNext(p, t) ==
    /\ t \in todo[p]
    /\ \A u \in todo[p] : snap[p][t].nextFireAt <= snap[p][u].nextFireAt

(* processTimer returned: its statements are in the open transaction.      *)
Processed(p, t, write) ==
    /\ IsNext(p, t)
    /\ ~aborted[p]
    /\ t \notin Poison
    /\ batch' = [batch EXCEPT ![p][t] = write]
    /\ todo' = [todo EXCEPT ![p] = @ \ {t}]
    /\ failures' = [failures EXCEPT ![p][t] = 0]
    /\ UNCHANGED <<now, db, closed, pct, lock, snap, ticking, aborted, recompute, faults, edits>>

(* The ticket is resolved, closed or gone.                                 *)
SettleClosed(p, t) ==
    /\ TicketOf(t) \in closed
    /\ Processed(p, t, [state |-> "met", nextFireAt |-> Null, newly |-> {}])

(* The policy row is gone.                                                 *)
SettleOrphan(p, t) ==
    /\ TicketOf(t) \notin closed
    /\ pct[snap[p][t].policy] = Deleted
    /\ Processed(p, t, [state |-> "cancelled", nextFireAt |-> Null, newly |-> {}])

(* What this visit records: the due boundaries; a boundary someone else    *)
(* recorded first is skipped by ON CONFLICT DO NOTHING.                    *)
DueNow(p, t) == dueBoundaries(snap[p][t], pct[snap[p][t].policy], fired[t])

Live(p, t) ==
    /\ TicketOf(t) \notin closed
    /\ pct[snap[p][t].policy] # Deleted

(* Nothing new to fire: processTimer returns and next_fire_at stays past.  *)
NothingDue(p, t) ==
    /\ Live(p, t)
    /\ DueNow(p, t) = {}
    /\ Processed(p, t, NoWrite)

FireDue(p, t) ==
    LET row  == snap[p][t]
        due  == DueNow(p, t)
    IN  /\ Live(p, t)
        /\ due # {}
        /\ Processed(p, t,
               [state |-> advanceTimerState(due),
                nextFireAt |-> nextFireAfter(row, pct[row.policy], fired[t] \cup due),
                newly |-> due])

(* A statement of processTimer fails, or the transaction is aborted and    *)
(* every statement fails.  After MaxFailures in a row the catch block runs *)
(* parkTimerWithError in the same aborted transaction, which fails too and *)
(* is swallowed, and the counter starts again.                             *)
FailTimer(p, t) ==
    LET n == failures[p][t] + 1
    IN  /\ IsNext(p, t)
        /\ \/ (aborted[p] \/ t \in Poison) /\ UNCHANGED faults
           \/ /\ ~aborted[p] /\ t \notin Poison
              /\ faults < MaxFaults
              /\ faults' = faults + 1
        /\ aborted' = [aborted EXCEPT ![p] = TRUE]
        /\ todo' = [todo EXCEPT ![p] = @ \ {t}]
        /\ failures' = [failures EXCEPT ![p][t] = IF n >= MaxFailures THEN 0 ELSE n]
        /\ UNCHANGED <<now, db, closed, pct, lock, snap, batch, ticking, recompute, edits>>

(* The transaction is over, whichever way: its locks and buffers go.       *)
EndTransaction(p) ==
    /\ lock' = [t \in Timers |-> IF lock[t] = p THEN None ELSE lock[t]]
    /\ snap' = [snap EXCEPT ![p] = [t \in Timers |-> NoRow]]
    /\ todo' = [todo EXCEPT ![p] = {}]
    /\ batch' = [batch EXCEPT ![p] = [t \in Timers |-> NoWrite]]
    /\ ticking' = [ticking EXCEPT ![p] = FALSE]
    /\ aborted' = [aborted EXCEPT ![p] = FALSE]
    /\ UNCHANGED <<now, closed, pct, recompute, edits>>

(* advanceTimer, recordFiredBoundary and writeOutboxEvent become visible.  *)
Advanced(row, w) ==
    IF w = NoWrite THEN row
                   ELSE [row EXCEPT !.state = w.state, !.nextFireAt = w.nextFireAt]

(* Mutant: the event is written, the boundary is not recorded.             *)
Recorded_Forgets(done, w) == done

Recorded(done, w) == done \cup w.newly

Emitted(count, w) ==
    [b \in Boundaries |-> count[b] + (IF b \in w.newly THEN 1 ELSE 0)]

CommitTick(p) ==
    /\ ticking[p] /\ todo[p] = {}
    /\ ~aborted[p]
    /\ timer' = [t \in Timers |-> Advanced(timer[t], batch[p][t])]
    /\ fired' = [t \in Timers |-> Recorded(fired[t], batch[p][t])]
    /\ outbox' = [t \in Timers |-> Emitted(outbox[t], batch[p][t])]
    /\ EndTransaction(p)
    /\ UNCHANGED <<failures, faults>>

(* COMMIT of an aborted transaction is answered with a rollback and no     *)
(* error.                                                                  *)
CommitAborted(p) ==
    /\ ticking[p] /\ todo[p] = {}
    /\ aborted[p]
    /\ EndTransaction(p)
    /\ UNCHANGED <<db, failures, faults>>

(* The connection is lost at COMMIT: runTick rolls back and releases it.   *)
CommitFails(p) ==
    /\ ticking[p] /\ todo[p] = {}
    /\ faults < MaxFaults
    /\ faults' = faults + 1
    /\ EndTransaction(p)
    /\ UNCHANGED <<db, failures>>

(* The pod dies, in a tick or between ticks, and is started again: the     *)
(* server rolls back and the failure counters start from zero.             *)
Crash(p) ==
    /\ faults < MaxFaults
    /\ faults' = faults + 1
    /\ EndTransaction(p)
    /\ failures' = [failures EXCEPT ![p] = [t \in Timers |-> 0]]
    /\ UNCHANGED db

PodStep(p) ==
    \/ \E S \in SUBSET Timers : claimDueTimers(p, S)
    \/ \E t \in todo[p] : \/ SettleClosed(p, t)
                         \/ SettleOrphan(p, t)
                         \/ NothingDue(p, t)
                         \/ FireDue(p, t)
                         \/ FailTimer(p, t)
    \/ CommitTick(p)
    \/ CommitAborted(p)

RequestStep(k) ==
    \/ \E t \in Timers : RecomputeTimer(k, t)
    \/ CommitRecompute(k)

Next ==
    \/ ClockAdvances
    \/ \E p \in Pods : PodStep(p) \/ CommitFails(p) \/ Crash(p)
    \/ \E k \in Tickets :
         \/ \E pol \in Policies : createTimersForTicket(k, pol) \/ BeginRecompute(k, pol)
         \/ TicketChanges(k)
         \/ RequestStep(k)
         \/ AbortRecompute(k)
    \/ \E pol \in Policies : \/ \E pc \in PctPairs : EditPolicy(pol, pc)
                             \/ DeletePolicy(pol)

Spec == Init /\ [][Next]_vars

(* A tick always schedules the next one, a started tick or request runs to *)
(* its end, and time passes; faults, edits and ticket changes need not.    *)
(* Strong fairness: an UPDATE waits in the row's lock queue, so it gets    *)
(* the lock even if pods keep claiming the row in between.                 *)
Fairness ==
    /\ WF_vars(ClockAdvances)
    /\ \A p \in Pods : WF_vars(PodStep(p))
    /\ \A k \in Tickets : SF_vars(RequestStep(k))

FairSpec == Spec /\ Fairness

-----------------------------------------------------------------------------
(* Properties                                                              *)

TypeOK ==
    /\ now \in 0..Horizon
    /\ timer \in [Timers -> Row]
    /\ fired \in [Timers -> SUBSET Boundaries]
    /\ outbox \in [Timers -> [Boundaries -> Nat]]
    /\ closed \subseteq Tickets
    /\ pct \in [Policies -> PctPairs \cup {Deleted}]
    /\ lock \in [Timers -> Pods \cup Tickets \cup {None}]
    /\ snap \in [Pods -> [Timers -> Row]]
    /\ todo \in [Pods -> SUBSET Timers]
    /\ batch \in [Pods -> [Timers -> Write]]
    /\ ticking \in [Pods -> BOOLEAN]
    /\ aborted \in [Pods -> BOOLEAN]
    /\ failures \in [Pods -> [Timers -> Nat]]
    /\ recompute \in [Tickets -> [open : BOOLEAN, policy : Policies \cup {None},
                                  pct : PctPairs \cup {Deleted},
                                  active : SUBSET Timers, written : SUBSET Timers]]
    /\ faults \in 0..MaxFaults
    /\ edits \in 0..MaxEdits

(* Every recorded boundary has exactly one outbox event and every event a  *)
(* recorded boundary, through concurrent ticks, aborted transactions,      *)
(* failed commits and crashes (recordFiredBoundary + writeOutboxEvent).    *)
FiredExactlyOnce ==
    \A t \in Timers, b \in Boundaries : outbox[t][b] = IF b \in fired[t] THEN 1 ELSE 0

(* A timer is 'breached' exactly when its breach boundary is recorded: the *)
(* state the agents see and the event the notifiers get never disagree.    *)
BreachedIffBreachRecorded ==
    \A t \in Timers : timer[t].state = "breached" <=> "breach" \in fired[t]

(* A running timer always has a wake-up no later than its target, whatever *)
(* recomputes, policy edits and visits came before: the claiming query     *)
(* cannot lose a breach (classifier's nextFireAt, computeNextFireAt).      *)
WakesByTarget ==
    \A t \in Timers : timer[t].state = "running" =>
        /\ timer[t].nextFireAt # Null
        /\ timer[t].nextFireAt <= timer[t].targetAt

(* What a pod holds is what is committed: while it has a timer claimed, no *)
(* request and no other pod changes the row behind the claim's back.       *)
ClaimIsCurrent ==
    \A p \in Pods, t \in Timers : lock[t] = p =>
        snap[p][t] = timer[t] /\ timer[t].state = "running"

(* A breach is recorded only once the clock has reached the committed      *)
(* target, even when the timer is being recomputed to a later target.      *)
NoEarlyBreach ==
    [][\A t \in Timers :
         "breach" \in fired'[t] \ fired[t] => timer[t].targetAt <= now]_vars

(* Together, the ticks and requests implement the contract of one timer.   *)
Contract == INSTANCE SlaTimerContract WITH
                state  <- [t \in Timers |-> timer[t].state],
                fired  <- fired,
                events <- outbox

ImplementsContract == Contract!Spec

(* A timer past its target is settled in the end (or given a later target):*)
(* claims, skipped locks, aborted batches and crashed pods only delay it.  *)
OverdueIsSettled ==
    \A t \in Timers :
        (timer[t].state = "running" /\ timer[t].targetAt <= now)
            ~> (timer[t].state \in Settled \/ timer[t].targetAt > now)

(* scheduler.service.ts:10, "Catch per-timer errors to avoid one bad row   *)
(* aborting the batch": a tick that ends without a lost connection makes   *)
(* durable what it wrote for the timers that processed cleanly.            *)
GoodTimersAdvance ==
    [][\A p \in Pods, t \in Timers :
         (ticking[p] /\ ~ticking'[p] /\ faults' = faults /\ batch[p][t] # NoWrite)
             => timer'[t].state = batch[p][t].state]_vars
=============================================================================
