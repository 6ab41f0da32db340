------------------------- MODULE SlaSchedulerProofs -------------------------
(***************************************************************************)
(* Proofs about SlaScheduler for every value of its constants: the         *)
(* inductive invariant, the safety invariants it implies, and that every   *)
(* step of the scheduler is a step of the timer contract.                  *)
(***************************************************************************)
EXTENDS SlaScheduler, TLAPS

-----------------------------------------------------------------------------
(* Arithmetic of the boundary instants                                     *)

(* A non-empty set of at most three integers has an earliest element.      *)
LEMMA EarliestExists ==
    ASSUME NEW x \in Int, NEW y \in Int, NEW z \in Int,
           NEW S, S \subseteq {x, y, z}, S # {}
    PROVE  /\ Earliest(S) \in S
           /\ \A j \in S : Earliest(S) <= j
<1>1. \E i \in S : \A j \in S : i <= j
  <2>1. PICK a \in S : TRUE  OBVIOUS
  <2>2. CASE x \in S /\ (y \in S => x <= y) /\ (z \in S => x <= z)  BY <2>2
  <2>3. CASE y \in S /\ (x \in S => y <= x) /\ (z \in S => y <= z)  BY <2>3
  <2>4. CASE z \in S /\ (x \in S => z <= x) /\ (y \in S => z <= y)  BY <2>4
  <2>5. QED  BY <2>1, <2>2, <2>3, <2>4
<1>2. QED  BY <1>1 DEF Earliest

(* Percentages of a span of time: a later percentage is a later instant.   *)
LEMMA PercentOf ==
    ASSUME NEW n \in Nat, NEW p \in Nat, NEW q \in Nat, p <= q
    PROVE  /\ (n * p) \div 100 \in Nat
           /\ (n * p) \div 100 <= (n * q) \div 100
<1>1. n * p \in Nat /\ n * q \in Nat  OBVIOUS
<1>2. n * p <= n * q  BY SMT
<1>3. QED  BY <1>1, <1>2, SMT

(* The instants of a row whose target is not before its start.             *)
LEMMA InstantFacts ==
    ASSUME NEW startedAt \in Nat, NEW targetAt \in Nat, startedAt <= targetAt,
           NEW pc \in PctPairs, NEW row,
           row.startedAt = startedAt, row.targetAt = targetAt
    PROVE  /\ \A b \in Boundaries : boundaryInstant(row, pc, b) \in Nat
           /\ boundaryInstant(row, pc, "breach") = targetAt
           /\ boundaryInstant(row, pc, "reminder_first")
                <= boundaryInstant(row, pc, "reminder_second")
           /\ boundaryInstant(row, pc, "reminder_second")
                <= boundaryInstant(row, pc, "breach")
<1> DEFINE span == targetAt - startedAt
<1>1. span \in Nat  OBVIOUS
<1>2. pc[1] \in Nat /\ pc[2] \in Nat /\ pc[1] < pc[2] /\ pc[2] < 100
  BY PctPairsOrdered
<1>3. /\ boundaryInstant(row, pc, "reminder_first") = startedAt + (span * pc[1]) \div 100
      /\ boundaryInstant(row, pc, "reminder_second") = startedAt + (span * pc[2]) \div 100
      /\ boundaryInstant(row, pc, "breach") = startedAt + (span * 100) \div 100
  BY DEF boundaryInstant, boundaryPct
<1>4. (span * 100) \div 100 = span  BY <1>1, SMT
<1> HIDE DEF span
<1>5. /\ (span * pc[1]) \div 100 \in Nat
      /\ (span * pc[1]) \div 100 <= (span * pc[2]) \div 100
      /\ (span * pc[2]) \div 100 \in Nat
      /\ (span * pc[2]) \div 100 <= (span * 100) \div 100
  BY <1>1, <1>2, PercentOf
<1>6. QED  BY <1>1, <1>3, <1>4, <1>5 DEF span, Boundaries

(* The wake-up of a fresh or recomputed row is not after its target.       *)
LEMMA FirstFireAtBound ==
    ASSUME NEW startedAt \in Nat, NEW targetAt \in Nat, startedAt <= targetAt,
           NEW pc \in PctPairs
    PROVE  /\ firstFireAt(startedAt, targetAt, pc) \in Nat
           /\ firstFireAt(startedAt, targetAt, pc) <= targetAt
<1> DEFINE row == [startedAt |-> startedAt, targetAt |-> targetAt]
           at(b) == boundaryInstant(row, pc, b)
           S == {at(b) : b \in Boundaries}
<1>1. row.startedAt = startedAt /\ row.targetAt = targetAt  OBVIOUS
<1>2. (\A b \in Boundaries : at(b) \in Nat) /\ at("breach") = targetAt
  BY <1>1, InstantFacts
<1> HIDE DEF row, at
<1>3. /\ S \subseteq {at("reminder_first"), at("reminder_second"), at("breach")}
      /\ at("breach") \in S
  BY DEF Boundaries
<1>4. at("reminder_first") \in Int /\ at("reminder_second") \in Int /\ at("breach") \in Int
  BY <1>2 DEF Boundaries
<1> HIDE DEF S
<1>5. Earliest(S) \in S /\ \A j \in S : Earliest(S) <= j
  BY <1>3, <1>4, EarliestExists
<1>6. \A j \in S : j \in Nat
  BY <1>2, <1>3 DEF Boundaries
<1>7. Earliest(S) \in Nat /\ Earliest(S) <= targetAt
  BY <1>2, <1>3, <1>5, <1>6
<1>8. firstFireAt(startedAt, targetAt, pc) = Earliest(S)
  BY DEF firstFireAt, row, at, S
<1>9. QED  BY <1>7, <1>8

(* While the breach is still to fire, the next wake-up is not after the    *)
(* target.                                                                 *)
LEMMA NextFireAfterBound ==
    ASSUME NEW row \in Row, row.startedAt <= row.targetAt,
           NEW pc \in PctPairs, NEW done \in SUBSET Boundaries, "breach" \notin done
    PROVE  /\ nextFireAfter(row, pc, done) \in Nat
           /\ nextFireAfter(row, pc, done) <= row.targetAt
<1> DEFINE at(b) == boundaryInstant(row, pc, b)
           S == {at(b) : b \in Boundaries \ done}
<1>1. row.startedAt \in Nat /\ row.targetAt \in Nat  BY DEF Row
<1>2. (\A b \in Boundaries : at(b) \in Nat) /\ at("breach") = row.targetAt
  BY <1>1, InstantFacts
<1> HIDE DEF at
<1>3. /\ S \subseteq {at("reminder_first"), at("reminder_second"), at("breach")}
      /\ at("breach") \in S
  BY DEF Boundaries
<1>4. at("reminder_first") \in Int /\ at("reminder_second") \in Int /\ at("breach") \in Int
  BY <1>2 DEF Boundaries
<1> HIDE DEF S
<1>5. Earliest(S) \in S /\ \A j \in S : Earliest(S) <= j
  BY <1>3, <1>4, EarliestExists
<1>6. \A j \in S : j \in Nat
  BY <1>2, <1>3 DEF Boundaries
<1>7. Earliest(S) \in Nat /\ Earliest(S) <= row.targetAt
  BY <1>2, <1>3, <1>5, <1>6
<1>8. done # Boundaries  BY DEF Boundaries
<1>9. nextFireAfter(row, pc, done) = Earliest(S)
  BY <1>8 DEF nextFireAfter, at, S
<1>10. QED  BY <1>7, <1>9

(* What becomes due extends what has fired in boundary order.              *)
LEMMA DueInOrder ==
    ASSUME NEW row \in Row, row.startedAt <= row.targetAt, now \in Nat,
           NEW pc \in PctPairs, NEW done \in SUBSET Boundaries, Contract!InOrder(done)
    PROVE  /\ Contract!InOrder(done \cup dueBoundaries(row, pc, done))
           /\ "breach" \in dueBoundaries(row, pc, done) => row.targetAt <= now
<1> DEFINE at(b) == boundaryInstant(row, pc, b)
<1>1. row.startedAt \in Nat /\ row.targetAt \in Nat  BY DEF Row
<1>2. /\ \A b \in Boundaries : at(b) \in Nat
      /\ at("breach") = row.targetAt
      /\ at("reminder_first") <= at("reminder_second")
      /\ at("reminder_second") <= at("breach")
  BY <1>1, InstantFacts
<1>3. dueBoundaries(row, pc, done) = {b \in Boundaries \ done : at(b) <= now}
  BY <1>2 DEF dueBoundaries
<1> HIDE DEF at
<1>4. QED  BY <1>2, <1>3 DEF Contract!InOrder, Boundaries

-----------------------------------------------------------------------------
(* The inductive invariant                                                 *)

(* The committed data, on its own.                                         *)
RowsOK ==
    \A t \in Timers :
        /\ timer[t].startedAt <= timer[t].targetAt
        /\ timer[t].state # "none" => timer[t].policy \in Policies

FiredInOrder == \A t \in Timers : Contract!InOrder(fired[t])

DataInv ==
    /\ RowsOK
    /\ FiredInOrder
    /\ FiredExactlyOnce
    /\ BreachedIffBreachRecorded
    /\ WakesByTarget

(* Who may write a row: what a transaction is about to write, it holds.    *)
LocksOK ==
    /\ \A p \in Pods, t \in Timers :
         /\ t \in todo[p] => lock[t] = p
         /\ batch[p][t] # NoWrite => lock[t] = p
         /\ lock[t] = p => ticking[p]
    /\ \A k \in Tickets :
         /\ recompute[k].open => recompute[k].policy \in Policies
                                   /\ recompute[k].pct \in PctPairs
         /\ \A t \in Timers : t \in recompute[k].written =>
                 lock[t] = k /\ recompute[k].open

(* A buffered write fits the row and the recorded boundaries it will meet  *)
(* at COMMIT.                                                              *)
WriteOK(w, t) ==
    /\ w.state # "none"
    /\ w.newly \cap fired[t] = {}
    /\ Contract!InOrder(fired[t] \cup w.newly)
    /\ w.state = "breached" <=> "breach" \in w.newly
    /\ w.state \in {"met", "cancelled"} => w.newly = {}
    /\ w.state = "running" =>
         w.newly # {} /\ w.nextFireAt # Null /\ w.nextFireAt <= timer[t].targetAt
    /\ "breach" \in w.newly => timer[t].targetAt <= now

BatchOK ==
    \A p \in Pods, t \in Timers : batch[p][t] # NoWrite => WriteOK(batch[p][t], t)

IInv == TypeOK /\ DataInv /\ LocksOK /\ ClaimIsCurrent /\ BatchOK

-----------------------------------------------------------------------------
(* Initially                                                               *)

(* A null instant is no instant; an absent row and an absent write are     *)
(* well typed.                                                             *)
LEMMA NullValues ==
    /\ Null = -1 /\ Null \notin Nat
    /\ NoRow \in Row
    /\ NoWrite \in Write
BY DEF Null, NoRow, NoWrite, Row, Write, Settled

(* The initial states satisfy the inductive invariant.                     *)
LEMMA InitIInv == Init => IInv
<1> SUFFICES ASSUME Init PROVE IInv  OBVIOUS
<1> USE DEF Init
<1>1. TypeOK
  BY NullValues, ConstantTypes DEF TypeOK, Boundaries, NoRecompute
<1>2. DataInv
  BY DEF DataInv, RowsOK, FiredInOrder, FiredExactlyOnce, BreachedIffBreachRecorded,
         WakesByTarget, Contract!InOrder, NoRow
<1>3. LocksOK
  BY DistinctNames DEF LocksOK, NoRecompute
<1>4. ClaimIsCurrent
  BY DistinctNames DEF ClaimIsCurrent
<1>5. BatchOK
  BY DEF BatchOK
<1>6. QED  BY <1>1, <1>2, <1>3, <1>4, <1>5 DEF IInv

-----------------------------------------------------------------------------
(* Steps of the API side                                                   *)

(* The data invariant speaks of the committed data only.                   *)
LEMMA SameData == DataInv /\ UNCHANGED db => DataInv'
BY DEF DataInv, db, RowsOK, FiredInOrder, FiredExactlyOnce, BreachedIffBreachRecorded,
       WakesByTarget, Contract!InOrder

(* The lock invariants speak of the rows, the locks and the buffers.       *)
LEMMA SameLocks ==
    ASSUME UNCHANGED <<db, lock, podVars, recompute>>,
           LocksOK, ClaimIsCurrent
    PROVE  LocksOK' /\ ClaimIsCurrent'
BY DEF LocksOK, ClaimIsCurrent, db, podVars

(* Buffered writes keep fitting while the rows stay and time only passes.  *)
LEMMA SameWrites ==
    ASSUME TypeOK, BatchOK, UNCHANGED <<db, batch>>, now' \in Nat, now <= now'
    PROVE  BatchOK'
<1> SUFFICES ASSUME NEW p \in Pods, NEW t \in Timers, batch'[p][t] # NoWrite
             PROVE  WriteOK(batch[p][t], t)'
  BY DEF BatchOK
<1>1. WriteOK(batch[p][t], t)
  BY DEF BatchOK
<1>2. now \in Nat /\ timer[t].targetAt \in Nat
  BY DEF TypeOK, Row
<1>3. QED  BY <1>1, <1>2 DEF WriteOK, db, Contract!InOrder

(* Time, ticket status and policy edits touch neither rows nor locks.      *)
LEMMA ApiSteps ==
    ASSUME IInv,
           \/ ClockAdvances
           \/ \E k \in Tickets : TicketChanges(k)
           \/ \E pol \in Policies : \/ DeletePolicy(pol)
                                    \/ \E pc \in PctPairs : EditPolicy(pol, pc)
    PROVE  IInv'
<1> USE DEF IInv
<1>1. UNCHANGED <<db, lock, podVars, recompute>> /\ now' \in 0..Horizon /\ now <= now'
  BY ConstantTypes DEF ClockAdvances, TicketChanges, EditPolicy, DeletePolicy, TypeOK
<1>2. TypeOK'
  BY <1>1, ConstantTypes DEF TypeOK, ClockAdvances, TicketChanges, EditPolicy, DeletePolicy,
     Edit, db, podVars
<1>3. QED
  BY <1>1, <1>2, SameData, SameLocks, SameWrites DEF podVars

(* New rows are running, wake by their target, and were held by nobody:    *)
(* a lock holder's row is running, an absent row is not.                   *)
LEMMA CreateStep ==
    ASSUME IInv, NEW k \in Tickets, NEW pol \in Policies, createTimersForTicket(k, pol)
    PROVE  IInv'
<1> USE DEF IInv
<1>1. pct[pol] \in PctPairs /\ now \in Nat
  BY DEF createTimersForTicket, TypeOK
<1>2. ASSUME NEW t \in Timers, TicketOf(t) = k
      PROVE  /\ timer[t].state = "none"
             /\ NewRow(ClockOf(t), pol) \in Row
             /\ NewRow(ClockOf(t), pol).state = "running"
             /\ NewRow(ClockOf(t), pol).policy = pol
             /\ NewRow(ClockOf(t), pol).startedAt <= NewRow(ClockOf(t), pol).targetAt
             /\ NewRow(ClockOf(t), pol).nextFireAt # Null
             /\ NewRow(ClockOf(t), pol).nextFireAt <= NewRow(ClockOf(t), pol).targetAt
  <2> DEFINE c == ClockOf(t)
             targetAt == now + Span[pol][c]
             first == firstFireAt(now, targetAt, pct[pol])
  <2>1. t = <<k, c>> /\ c \in Clocks
    BY <1>2 DEF Timers, TicketOf, ClockOf
  <2>2. Span[pol][c] \in Nat
    BY <2>1, ConstantTypes
  <2>3. targetAt \in Nat /\ now <= targetAt
    BY <1>1, <2>2
  <2>4. timer[t].state = "none"
    BY <2>1 DEF createTimersForTicket
  <2> HIDE DEF targetAt
  <2>5. first \in Nat /\ first <= targetAt
    BY <1>1, <2>3, FirstFireAtBound
  <2>6. NewRow(c, pol) = [state |-> "running", policy |-> pol, startedAt |-> now,
                          targetAt |-> targetAt, nextFireAt |-> first]
    BY DEF NewRow, targetAt
  <2> HIDE DEF first, c
  <2>7. QED  BY <1>1, <2>3, <2>4, <2>5, <2>6, NullValues DEF Row, c
<1>3. \A t \in Timers : timer'[t] = IF TicketOf(t) = k THEN NewRow(ClockOf(t), pol)
                                                       ELSE timer[t]
  BY DEF createTimersForTicket
<1>4. TypeOK'
  <2>1. timer' \in [Timers -> Row]
    BY <1>2 DEF createTimersForTicket, TypeOK
  <2>2. QED  BY <2>1 DEF createTimersForTicket, TypeOK, podVars
<1>5. DataInv'
  <2>1. RowsOK'
    BY <1>2, <1>3 DEF DataInv, RowsOK
  <2>2. FiredInOrder' /\ FiredExactlyOnce'
    BY DEF createTimersForTicket, DataInv, FiredInOrder, FiredExactlyOnce, Contract!InOrder
  <2>3. BreachedIffBreachRecorded'
    BY <1>2, <1>3 DEF createTimersForTicket, DataInv, BreachedIffBreachRecorded
  <2>4. WakesByTarget'
    BY <1>2, <1>3 DEF DataInv, WakesByTarget
  <2>5. QED  BY <2>1, <2>2, <2>3, <2>4 DEF DataInv
<1>6. \A p \in Pods, t \in Timers : lock[t] = p => timer'[t] = timer[t]
  BY <1>2, <1>3 DEF ClaimIsCurrent
<1>7. LocksOK' /\ ClaimIsCurrent'
  BY <1>6 DEF createTimersForTicket, LocksOK, ClaimIsCurrent, podVars
<1>8. BatchOK'
  BY <1>6 DEF createTimersForTicket, BatchOK, WriteOK, LocksOK, podVars, Contract!InOrder
<1>9. QED  BY <1>4, <1>5, <1>7, <1>8

-----------------------------------------------------------------------------
(* Steps of a recompute                                                    *)

(* Reading the active timers touches neither rows nor locks.               *)
LEMMA BeginRecomputeStep ==
    ASSUME IInv, NEW k \in Tickets, NEW pol \in Policies, BeginRecompute(k, pol)
    PROVE  IInv'
<1> USE DEF IInv
<1>1. UNCHANGED <<now, db, lock, podVars>> /\ pct[pol] \in PctPairs
  BY DEF BeginRecompute, TypeOK
<1>2. PICK active \in SUBSET Timers :
        recompute' = [recompute EXCEPT ![k] =
            [open |-> TRUE, policy |-> pol, pct |-> pct[pol], active |-> active,
             written |-> {}]]
  BY DEF BeginRecompute
<1>3. TypeOK'
  <2>1. recompute' \in [Tickets -> [open : BOOLEAN, policy : Policies \cup {None},
                                    pct : PctPairs \cup {Deleted},
                                    active : SUBSET Timers, written : SUBSET Timers]]
    BY <1>1, <1>2 DEF TypeOK
  <2>2. edits' \in 0..MaxEdits
    BY ConstantTypes DEF BeginRecompute, Edit, TypeOK
  <2>3. QED  BY <2>1, <2>2 DEF BeginRecompute, TypeOK, db, podVars
<1>4. DataInv'
  BY <1>1, SameData
<1>5. LocksOK' /\ ClaimIsCurrent'
  BY <1>1, <1>2 DEF LocksOK, ClaimIsCurrent, TypeOK, db, podVars
<1>6. BatchOK'
  BY <1>1, SameWrites DEF podVars, TypeOK
<1>7. QED  BY <1>3, <1>4, <1>5, <1>6

(* An UPDATE that got a free row's lock: no pod holds that row.            *)
LEMMA RecomputeTimerStep ==
    ASSUME IInv, NEW k \in Tickets, NEW t \in Timers, RecomputeTimer(k, t)
    PROVE  IInv'
<1> USE DEF IInv
<1>1. UNCHANGED <<now, db, podVars>>
  BY DEF RecomputeTimer
<1>2. TypeOK'
  <2> DEFINE Request == [open : BOOLEAN, policy : Policies \cup {None},
                         pct : PctPairs \cup {Deleted},
                         active : SUBSET Timers, written : SUBSET Timers]
  <2>1. recompute \in [Tickets -> Request]
    BY DEF TypeOK
  <2>2. [recompute[k] EXCEPT !.written = @ \cup {t}] \in Request
    BY <2>1
  <2>3. recompute' \in [Tickets -> Request]
    BY <2>1, <2>2 DEF RecomputeTimer
  <2>4. lock' \in [Timers -> Pods \cup Tickets \cup {None}]
    BY DEF RecomputeTimer, TypeOK
  <2>5. QED  BY <2>3, <2>4 DEF RecomputeTimer, TypeOK, db, podVars
<1>3. DataInv'
  BY <1>1, SameData
<1>4. LocksOK' /\ ClaimIsCurrent'
  BY DistinctNames DEF RecomputeTimer, LocksOK, ClaimIsCurrent, TypeOK, db, podVars
<1>5. BatchOK'
  BY <1>1, SameWrites DEF podVars, TypeOK
<1>6. QED  BY <1>2, <1>3, <1>4, <1>5

(* The end of a request: rows no pod holds may change, its locks go.       *)
LEMMA ReleaseRecomputeLocks ==
    ASSUME IInv, NEW k \in Tickets, ReleaseRecompute(k),
           \A t \in Timers : timer'[t] # timer[t] => lock[t] = k
    PROVE  LocksOK' /\ ClaimIsCurrent' /\ BatchOK'
<1> USE DEF IInv, ReleaseRecompute, podVars
<1>1. k \notin Pods /\ k # None /\ None \notin Pods
  BY DistinctNames
<1>2. \A p \in Pods, t \in Timers : lock'[t] = p <=> lock[t] = p
  BY <1>1 DEF TypeOK
<1>3. \A j \in Tickets, t \in Timers : j # k => (lock'[t] = j <=> lock[t] = j)
  BY DistinctNames DEF TypeOK
<1>4. LocksOK'
  <2>1. \A p \in Pods, t \in Timers :
          /\ t \in todo'[p] => lock'[t] = p
          /\ batch'[p][t] # NoWrite => lock'[t] = p
          /\ lock'[t] = p => ticking'[p]
    BY <1>2 DEF LocksOK
  <2>2. \A j \in Tickets : recompute'[j] = IF j = k THEN NoRecompute ELSE recompute[j]
    BY DEF TypeOK
  <2>3. NoRecompute.open = FALSE /\ NoRecompute.written = {}
    BY DEF NoRecompute
  <2>4. \A j \in Tickets :
          /\ recompute'[j].open => recompute'[j].policy \in Policies
                                   /\ recompute'[j].pct \in PctPairs
          /\ \A t \in Timers : t \in recompute'[j].written =>
                 lock'[t] = j /\ recompute'[j].open
    BY <2>2, <2>3, <1>3 DEF LocksOK
  <2>5. QED  BY <2>1, <2>4 DEF LocksOK
<1>5. ClaimIsCurrent'
  BY <1>1, <1>2 DEF ClaimIsCurrent
<1>6. BatchOK'
  BY <1>1 DEF BatchOK, LocksOK, WriteOK, Contract!InOrder
<1>7. QED  BY <1>4, <1>5, <1>6

(* A failed request leaves the rows alone.                                 *)
LEMMA AbortRecomputeStep ==
    ASSUME IInv, NEW k \in Tickets, AbortRecompute(k)
    PROVE  IInv'
<1>1. ReleaseRecompute(k) /\ UNCHANGED <<db, podVars>>
  BY DEF AbortRecompute, ReleaseRecompute, db
<1>2. TypeOK'
  BY DEF IInv, AbortRecompute, ReleaseRecompute, TypeOK, NoRecompute, podVars
<1>3. DataInv'
  BY <1>1, SameData DEF IInv
<1>4. LocksOK' /\ ClaimIsCurrent' /\ BatchOK'
  BY <1>1, ReleaseRecomputeLocks DEF db
<1>5. QED  BY <1>2, <1>3, <1>4 DEF IInv

(* A committed request rewrites target and wake-up, never the state, so a  *)
(* running timer still wakes by its (new) target.                          *)
LEMMA CommitRecomputeStep ==
    ASSUME IInv, NEW k \in Tickets, CommitRecompute(k)
    PROVE  IInv'
<1> DEFINE W == recompute[k].written
           new(t) == Recomputed(timer[t], k, t)
<1>1. ReleaseRecompute(k)
  BY DEF CommitRecompute
<1>2. \A t \in Timers : timer'[t] = IF t \in W THEN new(t) ELSE timer[t]
  BY DEF CommitRecompute
<1>3. ASSUME NEW t \in W, t \in Timers
      PROVE  /\ new(t) \in Row
             /\ new(t).state = timer[t].state
             /\ new(t).policy \in Policies
             /\ new(t).startedAt <= new(t).targetAt
             /\ new(t).nextFireAt # Null
             /\ new(t).nextFireAt <= new(t).targetAt
  <2> DEFINE rc == recompute[k]
             row == timer[t]
             targetAt == row.startedAt + Span[rc.policy][ClockOf(t)]
             first == firstFireAt(row.startedAt, targetAt, rc.pct)
  <2>1. rc.policy \in Policies /\ rc.pct \in PctPairs
    BY DEF CommitRecompute, IInv, LocksOK
  <2>2. row \in Row /\ row.startedAt \in Nat
    BY <1>3 DEF IInv, TypeOK, Row
  <2>3. Span[rc.policy][ClockOf(t)] \in Nat
    BY <1>3, <2>1, ConstantTypes DEF Timers, ClockOf
  <2>4. targetAt \in Nat /\ row.startedAt <= targetAt
    BY <2>2, <2>3
  <2>5. new(t) = [row EXCEPT !.policy = rc.policy, !.targetAt = targetAt,
                             !.nextFireAt = first]
    BY DEF Recomputed
  <2> HIDE DEF targetAt, rc, row, new
  <2>6. first \in Nat /\ first <= targetAt
    BY <2>1, <2>2, <2>4, FirstFireAtBound
  <2> HIDE DEF first
  <2>7. /\ new(t) \in Row
        /\ new(t).state = row.state /\ new(t).startedAt = row.startedAt
        /\ new(t).policy = rc.policy /\ new(t).targetAt = targetAt
        /\ new(t).nextFireAt = first
    BY <2>1, <2>2, <2>4, <2>5, <2>6 DEF Row
  <2>8. QED  BY <2>1, <2>4, <2>6, <2>7, NullValues DEF row
<1> HIDE DEF new, W
<1>4. TypeOK'
  <2>1. timer' = [t \in Timers |-> IF t \in W THEN new(t) ELSE timer[t]]
    BY DEF CommitRecompute, W, new
  <2>2. timer' \in [Timers -> Row]
    BY <1>3, <2>1 DEF IInv, TypeOK
  <2>3. QED
    BY <2>2 DEF IInv, CommitRecompute, ReleaseRecompute, TypeOK, NoRecompute, podVars
<1>5. DataInv'
  <2>1. RowsOK'
    BY <1>2, <1>3 DEF IInv, DataInv, RowsOK
  <2>2. FiredInOrder' /\ FiredExactlyOnce'
    BY <1>1 DEF ReleaseRecompute, IInv, DataInv, FiredInOrder, FiredExactlyOnce,
       Contract!InOrder
  <2>3. BreachedIffBreachRecorded'
    BY <1>1, <1>2, <1>3 DEF ReleaseRecompute, IInv, DataInv, BreachedIffBreachRecorded
  <2>4. WakesByTarget'
    BY <1>2, <1>3 DEF IInv, DataInv, WakesByTarget
  <2>5. QED  BY <2>1, <2>2, <2>3, <2>4 DEF DataInv
<1>6. \A t \in Timers : timer'[t] # timer[t] => lock[t] = k
  BY <1>2 DEF IInv, LocksOK, W
<1>7. LocksOK' /\ ClaimIsCurrent' /\ BatchOK'
  BY <1>1, <1>6, ReleaseRecomputeLocks
<1>8. QED  BY <1>4, <1>5, <1>7 DEF IInv

-----------------------------------------------------------------------------
(* Steps of a tick                                                         *)

(* A claim takes running rows whose lock is free, and copies them.         *)
LEMMA ClaimStep ==
    ASSUME IInv, NEW p \in Pods, NEW S \in SUBSET Timers, claimDueTimers(p, S)
    PROVE  IInv'
<1> USE DEF IInv
<1>1. /\ UNCHANGED <<now, db, batch, recompute>>
      /\ ~ticking[p]
      /\ \A t \in S : lock[t] = None /\ timer[t].state = "running"
  BY DEF claimDueTimers, Claimable
<1>2. TypeOK'
  BY NullValues DEF claimDueTimers, TypeOK, db
<1>3. DataInv'
  BY <1>1, SameData
<1>4. \A t \in Timers : lock[t] # p
  BY <1>1 DEF LocksOK
<1>5. /\ \A t \in Timers : lock'[t] = IF t \in S THEN p ELSE lock[t]
      /\ \A q \in Pods : /\ todo'[q] = IF q = p THEN S ELSE todo[q]
                         /\ q # p => ticking'[q] = ticking[q]
      /\ \A q \in Pods, t \in Timers :
            snap'[q][t] = IF q # p THEN snap[q][t] ELSE IF t \in S THEN timer[t] ELSE NoRow
  BY DEF claimDueTimers, TypeOK
<1>6. ticking'[p]
  BY DEF claimDueTimers, TypeOK
<1>7. LocksOK'
  <2>1. \A q \in Pods, t \in Timers :
          /\ t \in todo'[q] => lock'[t] = q
          /\ batch'[q][t] # NoWrite => lock'[t] = q
          /\ lock'[t] = q => ticking'[q]
    BY <1>1, <1>4, <1>5, <1>6, DistinctNames DEF LocksOK
  <2>2. \A j \in Tickets, t \in Timers : t \in recompute'[j].written =>
          lock'[t] = j /\ recompute'[j].open
    BY <1>1, <1>5, DistinctNames DEF LocksOK
  <2>3. QED  BY <1>1, <2>1, <2>2 DEF LocksOK
<1>8. ClaimIsCurrent'
  BY <1>1, <1>4, <1>5, DistinctNames DEF ClaimIsCurrent, db
<1>9. BatchOK'
  BY <1>1, SameWrites DEF TypeOK
<1>10. QED  BY <1>2, <1>3, <1>7, <1>8, <1>9

(* A row a pod has still to process is the committed row, and running.     *)
LEMMA ClaimedRow ==
    ASSUME IInv, NEW p \in Pods, NEW t \in Timers, t \in todo[p]
    PROVE  /\ lock[t] = p
           /\ snap[p][t] = timer[t]
           /\ timer[t] \in Row /\ timer[t].state = "running"
           /\ timer[t].startedAt <= timer[t].targetAt
           /\ timer[t].policy \in Policies
           /\ Contract!InOrder(fired[t]) /\ fired[t] \in SUBSET Boundaries
           /\ "breach" \notin fired[t]
BY DEF IInv, LocksOK, ClaimIsCurrent, TypeOK, DataInv, RowsOK, FiredInOrder,
       BreachedIffBreachRecorded

(* A visit that buffers a fitting write keeps the invariant.               *)
LEMMA ProcessedStep ==
    ASSUME IInv, NEW p \in Pods, NEW t \in Timers, NEW w \in Write,
           Processed(p, t, w), w # NoWrite => WriteOK(w, t)
    PROVE  IInv'
<1> USE DEF IInv, Processed
<1>1. UNCHANGED <<now, db, lock, snap, ticking, recompute>> /\ t \in todo[p]
  BY DEF IsNext
<1>2. TypeOK'
  <2>1. batch' \in [Pods -> [Timers -> Write]]
    BY DEF TypeOK
  <2>2. todo' \in [Pods -> SUBSET Timers]
    BY DEF TypeOK
  <2>3. failures' \in [Pods -> [Timers -> Nat]]
    BY DEF TypeOK
  <2>4. QED  BY <2>1, <2>2, <2>3 DEF TypeOK, db
<1>3. DataInv'
  BY <1>1, SameData
<1>4. \A q \in Pods, u \in Timers :
        batch'[q][u] = IF q = p /\ u = t THEN w ELSE batch[q][u]
  BY DEF TypeOK
<1>5. \A q \in Pods : todo'[q] \subseteq todo[q]
  BY DEF TypeOK
<1>6. LocksOK'
  BY <1>1, <1>4, <1>5 DEF LocksOK
<1>7. ClaimIsCurrent'
  BY <1>1 DEF ClaimIsCurrent, db
<1>8. BatchOK'
  <2> SUFFICES ASSUME NEW q \in Pods, NEW u \in Timers, batch'[q][u] # NoWrite
               PROVE  WriteOK(batch[q][u], u)'
    BY DEF BatchOK
  <2>1. WriteOK(batch'[q][u], u)
    BY <1>4 DEF BatchOK
  <2>2. QED  BY <1>1, <2>1 DEF WriteOK, db, Contract!InOrder
<1>9. QED  BY <1>2, <1>3, <1>6, <1>7, <1>8

(* Settling without firing: 'met' or 'cancelled'.                          *)
LEMMA SettleStep ==
    ASSUME IInv, NEW p \in Pods, NEW t \in Timers,
           SettleClosed(p, t) \/ SettleOrphan(p, t)
    PROVE  IInv'
<1>1. PICK s \in {"met", "cancelled"} :
        Processed(p, t, [state |-> s, nextFireAt |-> Null, newly |-> {}])
  BY DEF SettleClosed, SettleOrphan
<1> DEFINE w == [state |-> s, nextFireAt |-> Null, newly |-> {}]
<1>2. w \in Write /\ w.state = s /\ w.newly = {} /\ w.nextFireAt = Null
  BY DEF Write, Settled
<1> HIDE DEF w
<1>3. t \in todo[p]
  BY <1>1 DEF Processed, IsNext
<1>4. Contract!InOrder(fired[t])
  BY <1>3, ClaimedRow
<1>5. WriteOK(w, t)
  BY <1>2, <1>4 DEF WriteOK, Contract!InOrder
<1>6. QED  BY <1>1, <1>2, <1>5, ProcessedStep DEF w

(* Nothing due: the visit writes nothing.                                  *)
LEMMA NothingDueStep ==
    ASSUME IInv, NEW p \in Pods, NEW t \in Timers, NothingDue(p, t)
    PROVE  IInv'
BY NullValues, ProcessedStep DEF NothingDue

(* Firing: what is recorded extends what had fired in boundary order, the  *)
(* state follows the breach boundary, and a timer that stays running keeps *)
(* a wake-up by its target.                                                *)
LEMMA FireDueStep ==
    ASSUME IInv, NEW p \in Pods, NEW t \in Timers, FireDue(p, t)
    PROVE  IInv'
<1> DEFINE row == timer[t]
           pc == pct[row.policy]
           due == dueBoundaries(row, pc, fired[t])
           done == fired[t] \cup due
           w == [state |-> advanceTimerState(due),
                 nextFireAt |-> nextFireAfter(row, pc, done), newly |-> due]
<1>1. t \in todo[p]
  BY DEF FireDue, Processed, IsNext
<1>2. /\ snap[p][t] = row /\ row \in Row /\ row.state = "running"
      /\ row.startedAt <= row.targetAt /\ row.policy \in Policies
      /\ Contract!InOrder(fired[t]) /\ fired[t] \in SUBSET Boundaries
      /\ "breach" \notin fired[t]
  BY <1>1, ClaimedRow
<1>3. Processed(p, t, w) /\ due # {} /\ pc # Deleted
  BY <1>2 DEF FireDue, DueNow, Live
<1>4. pc \in PctPairs /\ now \in Nat
  BY <1>2, <1>3 DEF IInv, TypeOK
<1>5. Contract!InOrder(done) /\ ("breach" \in due => row.targetAt <= now)
  BY <1>2, <1>4, DueInOrder
<1>6. due \in SUBSET Boundaries /\ due \cap fired[t] = {} /\ done \in SUBSET Boundaries
  BY <1>2 DEF dueBoundaries
<1> HIDE DEF row, pc, due, done
<1>7. CASE "breach" \in due
  <2>1. w = [state |-> "breached", nextFireAt |-> Null, newly |-> due]
    BY <1>7 DEF advanceTimerState, nextFireAfter, done
  <2>2. w \in Write /\ w.state = "breached" /\ w.newly = due
    BY <1>6, <2>1 DEF Write, Settled
  <2> HIDE DEF w
  <2>3. WriteOK(w, t)
    BY <1>5, <1>6, <1>7, <2>2 DEF WriteOK, done, row
  <2>4. QED  BY <1>3, <2>2, <2>3, ProcessedStep
<1>8. CASE "breach" \notin due
  <2>1. "breach" \notin done
    BY <1>2, <1>8 DEF done
  <2>2. /\ nextFireAfter(row, pc, done) \in Nat
        /\ nextFireAfter(row, pc, done) <= row.targetAt
    BY <1>2, <1>4, <1>6, <2>1, NextFireAfterBound
  <2>3. /\ w \in Write /\ w.state = "running" /\ w.newly = due
        /\ w.nextFireAt = nextFireAfter(row, pc, done)
    BY <1>6, <1>8, <2>2 DEF Write, advanceTimerState
  <2> HIDE DEF w
  <2>4. WriteOK(w, t)
    BY <1>3, <1>5, <1>6, <1>8, <2>2, <2>3, NullValues DEF WriteOK, done, row
  <2>5. QED  BY <1>3, <2>3, <2>4, ProcessedStep
<1>9. QED  BY <1>7, <1>8

(* A failed visit marks the transaction and writes nothing.                *)
LEMMA FailTimerStep ==
    ASSUME IInv, NEW p \in Pods, NEW t \in Timers, FailTimer(p, t)
    PROVE  IInv'
<1> USE DEF IInv
<1>1. UNCHANGED <<now, db, lock, snap, batch, ticking, recompute>>
  BY DEF FailTimer
<1>2. TypeOK'
  <2>1. failures' \in [Pods -> [Timers -> Nat]]
    BY ConstantTypes DEF FailTimer, TypeOK
  <2>2. faults' \in 0..MaxFaults
    BY ConstantTypes DEF FailTimer, TypeOK
  <2>3. todo' \in [Pods -> SUBSET Timers] /\ aborted' \in [Pods -> BOOLEAN]
    BY DEF FailTimer, TypeOK
  <2>4. QED  BY <2>1, <2>2, <2>3 DEF FailTimer, TypeOK, db
<1>3. DataInv'
  BY <1>1, SameData
<1>4. \A q \in Pods : todo'[q] \subseteq todo[q]
  BY DEF FailTimer, TypeOK
<1>5. LocksOK' /\ ClaimIsCurrent'
  BY <1>1, <1>4 DEF LocksOK, ClaimIsCurrent, db
<1>6. BatchOK'
  BY <1>1, SameWrites DEF TypeOK
<1>7. QED  BY <1>2, <1>3, <1>5, <1>6

-----------------------------------------------------------------------------
(* The end of a transaction                                                *)

(* Whichever way it ends: its rows may have changed, but only where the    *)
(* pod held a write; every lock and buffer of the pod goes, nobody else's. *)
LEMMA EndTransactionLocks ==
    ASSUME IInv, NEW p \in Pods, EndTransaction(p),
           \A t \in Timers :
              timer'[t] # timer[t] \/ fired'[t] # fired[t] => lock[t] = p
    PROVE  LocksOK' /\ ClaimIsCurrent' /\ BatchOK'
<1> USE DEF IInv
<1>1. UNCHANGED <<now, recompute>>
  BY DEF EndTransaction
<1>2. /\ \A t \in Timers : lock'[t] = IF lock[t] = p THEN None ELSE lock[t]
      /\ \A q \in Pods : /\ todo'[q] = IF q = p THEN {} ELSE todo[q]
                         /\ q # p => ticking'[q] = ticking[q]
      /\ \A q \in Pods, t \in Timers :
           /\ q # p => snap'[q][t] = snap[q][t]
           /\ batch'[q][t] = IF q = p THEN NoWrite ELSE batch[q][t]
  BY DEF EndTransaction, TypeOK
<1>3. \A q \in Pods, t \in Timers : lock'[t] = q => q # p /\ lock[t] = q
  BY <1>2, DistinctNames
<1>4. LocksOK'
  <2>1. \A q \in Pods, t \in Timers :
          /\ t \in todo'[q] => lock'[t] = q
          /\ batch'[q][t] # NoWrite => lock'[t] = q
          /\ lock'[t] = q => ticking'[q]
    BY <1>2, <1>3 DEF LocksOK
  <2>2. \A j \in Tickets, t \in Timers : t \in recompute'[j].written =>
          lock'[t] = j /\ recompute'[j].open
    BY <1>1, <1>2, DistinctNames DEF LocksOK
  <2>3. QED  BY <1>1, <2>1, <2>2 DEF LocksOK
<1>5. ClaimIsCurrent'
  BY <1>2, <1>3 DEF ClaimIsCurrent
<1>6. BatchOK'
  <2> SUFFICES ASSUME NEW q \in Pods, NEW t \in Timers, batch'[q][t] # NoWrite
               PROVE  WriteOK(batch[q][t], t)'
    BY DEF BatchOK
  <2>1. q # p /\ batch'[q][t] = batch[q][t] /\ lock[t] = q
    BY <1>2 DEF LocksOK
  <2>2. timer'[t] = timer[t] /\ fired'[t] = fired[t]
    BY <2>1
  <2>3. WriteOK(batch[q][t], t)
    BY <2>1 DEF BatchOK
  <2>4. QED  BY <1>1, <2>1, <2>2, <2>3 DEF WriteOK, Contract!InOrder
<1>7. QED  BY <1>4, <1>5, <1>6

(* What the end of a transaction leaves typed.                             *)
LEMMA EndTransactionTypes ==
    ASSUME TypeOK, NEW p \in Pods, EndTransaction(p)
    PROVE  /\ lock' \in [Timers -> Pods \cup Tickets \cup {None}]
           /\ snap' \in [Pods -> [Timers -> Row]]
           /\ todo' \in [Pods -> SUBSET Timers]
           /\ batch' \in [Pods -> [Timers -> Write]]
           /\ ticking' \in [Pods -> BOOLEAN]
           /\ aborted' \in [Pods -> BOOLEAN]
           /\ UNCHANGED <<now, closed, pct, recompute, edits>>
BY NullValues DEF EndTransaction, TypeOK

(* A rollback, whatever its reason, leaves the committed data alone.       *)
LEMMA RollbackStep ==
    ASSUME IInv, NEW p \in Pods, CommitAborted(p) \/ CommitFails(p) \/ Crash(p)
    PROVE  IInv'
<1>1. EndTransaction(p) /\ UNCHANGED db
  BY DEF CommitAborted, CommitFails, Crash
<1>2. TypeOK'
  <2>1. failures' \in [Pods -> [Timers -> Nat]]
    BY DEF IInv, CommitAborted, CommitFails, Crash, TypeOK
  <2>2. faults' \in 0..MaxFaults
    BY ConstantTypes DEF IInv, CommitAborted, CommitFails, Crash, TypeOK
  <2>3. QED  BY <1>1, <2>1, <2>2, EndTransactionTypes DEF IInv, TypeOK, db
<1>3. DataInv'
  BY <1>1, SameData DEF IInv
<1>4. LocksOK' /\ ClaimIsCurrent' /\ BatchOK'
  BY <1>1, EndTransactionLocks DEF db
<1>5. QED  BY <1>2, <1>3, <1>4 DEF IInv

(* What a commit makes of one timer, given the write that was buffered.    *)
LEMMA CommittedTimer ==
    ASSUME IInv, NEW p \in Pods, CommitTick(p), NEW t \in Timers
    PROVE  \/ /\ batch[p][t] = NoWrite
              /\ timer'[t] = timer[t] /\ fired'[t] = fired[t] /\ outbox'[t] = outbox[t]
           \/ /\ batch[p][t] # NoWrite
              /\ WriteOK(batch[p][t], t) /\ batch[p][t] \in Write
              /\ lock[t] = p /\ timer[t].state = "running" /\ timer[t] \in Row
              /\ timer'[t] = [timer[t] EXCEPT !.state = batch[p][t].state,
                                             !.nextFireAt = batch[p][t].nextFireAt]
              /\ fired'[t] = fired[t] \cup batch[p][t].newly
              /\ outbox'[t] = Emitted(outbox[t], batch[p][t])
<1> DEFINE w == batch[p][t]
<1>1. /\ timer'[t] = Advanced(timer[t], w)
      /\ fired'[t] = Recorded(fired[t], w)
      /\ outbox'[t] = Emitted(outbox[t], w)
  BY DEF CommitTick
<1>2. CASE w = NoWrite
  <2>1. NoWrite.newly = {}
    BY DEF NoWrite
  <2>2. timer'[t] = timer[t] /\ fired'[t] = fired[t]
    BY <1>1, <1>2, <2>1 DEF Advanced, Recorded
  <2>3. outbox[t] \in [Boundaries -> Nat]
    BY DEF IInv, TypeOK
  <2>4. \A b \in Boundaries : outbox'[t][b] = outbox[t][b]
    BY <1>1, <1>2, <2>1, <2>3 DEF Emitted
  <2>5. outbox'[t] = outbox[t]
    BY <1>1, <2>3, <2>4 DEF Emitted
  <2>6. QED  BY <1>2, <2>2, <2>5
<1>3. CASE w # NoWrite
  <2>1. lock[t] = p /\ WriteOK(w, t) /\ w \in Write
    BY <1>3 DEF IInv, LocksOK, BatchOK, TypeOK
  <2>2. timer[t].state = "running" /\ timer[t] \in Row
    BY <2>1 DEF IInv, ClaimIsCurrent, TypeOK
  <2>3. QED  BY <1>1, <1>3, <2>1, <2>2 DEF Advanced, Recorded
<1>4. QED  BY <1>2, <1>3

(* A commit applies its writes: each settles or advances a running timer   *)
(* and counts exactly the boundaries that had not been recorded.           *)
LEMMA CommitTickStep ==
    ASSUME IInv, NEW p \in Pods, CommitTick(p)
    PROVE  IInv'
<1>1. EndTransaction(p) /\ UNCHANGED <<failures, faults>>
  BY DEF CommitTick
<1>2. TypeOK'
  <2>1. ASSUME NEW t \in Timers
        PROVE  timer'[t] \in Row /\ fired'[t] \in SUBSET Boundaries
    <3>1. timer[t] \in Row /\ fired[t] \in SUBSET Boundaries
      BY DEF IInv, TypeOK
    <3>2. CASE batch[p][t] = NoWrite
      BY <3>1, <3>2, CommittedTimer
    <3>3. CASE batch[p][t] # NoWrite
      <4> DEFINE w == batch[p][t]
      <4>1. /\ w \in Write
            /\ timer'[t] = [timer[t] EXCEPT !.state = w.state, !.nextFireAt = w.nextFireAt]
            /\ fired'[t] = fired[t] \cup w.newly
        BY <3>3, CommittedTimer
      <4> HIDE DEF w
      <4>2. QED  BY <3>1, <4>1 DEF Row, Write
    <3>4. QED  BY <3>2, <3>3
  <2>2. timer' \in [Timers -> Row] /\ fired' \in [Timers -> SUBSET Boundaries]
    BY <2>1 DEF CommitTick
  <2>3. ASSUME NEW t \in Timers
        PROVE  Emitted(outbox[t], batch[p][t]) \in [Boundaries -> Nat]
    BY DEF IInv, TypeOK, Emitted
  <2>4. outbox' \in [Timers -> [Boundaries -> Nat]]
    BY <2>3 DEF CommitTick
  <2>5. QED  BY <1>1, <2>2, <2>4, EndTransactionTypes DEF IInv, TypeOK
<1>3. DataInv'
  <2> SUFFICES ASSUME NEW t \in Timers
               PROVE  /\ timer'[t].startedAt <= timer'[t].targetAt
                      /\ timer'[t].state # "none" => timer'[t].policy \in Policies
                      /\ Contract!InOrder(fired'[t])
                      /\ \A b \in Boundaries :
                           outbox'[t][b] = IF b \in fired'[t] THEN 1 ELSE 0
                      /\ timer'[t].state = "breached" <=> "breach" \in fired'[t]
                      /\ timer'[t].state = "running" =>
                           /\ timer'[t].nextFireAt # Null
                           /\ timer'[t].nextFireAt <= timer'[t].targetAt
    BY DEF DataInv, RowsOK, FiredInOrder, FiredExactlyOnce, BreachedIffBreachRecorded,
           WakesByTarget, Contract!InOrder
  <2>1. /\ timer[t].startedAt <= timer[t].targetAt
        /\ timer[t].state # "none" => timer[t].policy \in Policies
        /\ Contract!InOrder(fired[t])
        /\ \A b \in Boundaries : outbox[t][b] = IF b \in fired[t] THEN 1 ELSE 0
        /\ timer[t].state = "breached" <=> "breach" \in fired[t]
        /\ timer[t].state = "running" =>
             timer[t].nextFireAt # Null /\ timer[t].nextFireAt <= timer[t].targetAt
    BY DEF IInv, DataInv, RowsOK, FiredInOrder, FiredExactlyOnce,
           BreachedIffBreachRecorded, WakesByTarget
  <2>2. CASE batch[p][t] = NoWrite
    <3>1. timer'[t] = timer[t] /\ fired'[t] = fired[t] /\ outbox'[t] = outbox[t]
      BY <2>2, CommittedTimer
    <3>2. QED  BY <2>1, <3>1 DEF Contract!InOrder
  <2>3. CASE batch[p][t] # NoWrite
    <3> DEFINE w == batch[p][t]
    <3>1. /\ WriteOK(w, t) /\ timer[t].state = "running" /\ timer[t] \in Row
          /\ timer'[t] = [timer[t] EXCEPT !.state = w.state, !.nextFireAt = w.nextFireAt]
          /\ fired'[t] = fired[t] \cup w.newly
          /\ outbox'[t] = Emitted(outbox[t], w)
          /\ w \in Write
      BY <2>3, CommittedTimer
    <3> HIDE DEF w
    <3>2. /\ timer'[t].state = w.state /\ timer'[t].nextFireAt = w.nextFireAt
          /\ timer'[t].startedAt = timer[t].startedAt
          /\ timer'[t].targetAt = timer[t].targetAt
          /\ timer'[t].policy = timer[t].policy
      BY <3>1 DEF Row
    <3>3. "breach" \notin fired[t]
      BY <2>1, <3>1
    <3>4. \A b \in Boundaries : outbox'[t][b] = outbox[t][b] + (IF b \in w.newly THEN 1 ELSE 0)
      BY <3>1 DEF Emitted
    <3>5. \A b \in Boundaries : outbox'[t][b] = IF b \in fired'[t] THEN 1 ELSE 0
      BY <2>1, <3>1, <3>4 DEF WriteOK
    <3>6. timer'[t].state = "breached" <=> "breach" \in fired'[t]
      BY <3>1, <3>2, <3>3 DEF WriteOK
    <3>7. Contract!InOrder(fired'[t])
      BY <3>1 DEF WriteOK
    <3>8. QED  BY <2>1, <3>1, <3>2, <3>5, <3>6, <3>7 DEF WriteOK
  <2>4. QED  BY <2>2, <2>3
<1>4. LocksOK' /\ ClaimIsCurrent' /\ BatchOK'
  BY <1>1, CommittedTimer, EndTransactionLocks
<1>5. QED  BY <1>2, <1>3, <1>4 DEF IInv

-----------------------------------------------------------------------------
(* The invariants                                                          *)

(* Every step, and a stuttering step, keeps the inductive invariant.       *)
LEMMA InductiveStep == IInv /\ [Next]_vars => IInv'
<1> SUFFICES ASSUME IInv, [Next]_vars PROVE IInv'  OBVIOUS
<1>1. CASE ClockAdvances  BY <1>1, ApiSteps
<1>2. ASSUME NEW p \in Pods, PodStep(p) \/ CommitFails(p) \/ Crash(p) PROVE IInv'
  <2>1. CASE \E S \in SUBSET Timers : claimDueTimers(p, S)  BY <2>1, ClaimStep
  <2>2. ASSUME NEW t \in todo[p],
               \/ SettleClosed(p, t) \/ SettleOrphan(p, t)
               \/ NothingDue(p, t) \/ FireDue(p, t) \/ FailTimer(p, t)
        PROVE  IInv'
    <3>1. t \in Timers  BY DEF IInv, TypeOK
    <3>2. CASE SettleClosed(p, t) \/ SettleOrphan(p, t)  BY <3>1, <3>2, SettleStep
    <3>3. CASE NothingDue(p, t)  BY <3>1, <3>3, NothingDueStep
    <3>4. CASE FireDue(p, t)  BY <3>1, <3>4, FireDueStep
    <3>5. CASE FailTimer(p, t)  BY <3>1, <3>5, FailTimerStep
    <3>6. QED  BY <2>2, <3>2, <3>3, <3>4, <3>5
  <2>3. CASE CommitTick(p)  BY <2>3, CommitTickStep
  <2>4. CASE CommitAborted(p) \/ CommitFails(p) \/ Crash(p)  BY <2>4, RollbackStep
  <2>5. QED  BY <1>2, <2>1, <2>2, <2>3, <2>4 DEF PodStep
<1>3. ASSUME NEW k \in Tickets, NEW pol \in Policies,
             createTimersForTicket(k, pol) \/ BeginRecompute(k, pol)
      PROVE  IInv'
  BY <1>3, CreateStep, BeginRecomputeStep
<1>4. ASSUME NEW k \in Tickets,
             TicketChanges(k) \/ RequestStep(k) \/ AbortRecompute(k)
      PROVE  IInv'
  <2>1. CASE TicketChanges(k)  BY <2>1, ApiSteps
  <2>2. CASE \E t \in Timers : RecomputeTimer(k, t)  BY <2>2, RecomputeTimerStep
  <2>3. CASE CommitRecompute(k)  BY <2>3, CommitRecomputeStep
  <2>4. CASE AbortRecompute(k)  BY <2>4, AbortRecomputeStep
  <2>5. QED  BY <1>4, <2>1, <2>2, <2>3, <2>4 DEF RequestStep
<1>5. CASE \E pol \in Policies : \/ DeletePolicy(pol)
                                 \/ \E pc \in PctPairs : EditPolicy(pol, pc)
  BY <1>5, ApiSteps
<1>6. CASE UNCHANGED vars
  <2>1. UNCHANGED <<now, db, lock, podVars, recompute>>
    BY <1>6 DEF vars
  <2>2. TypeOK'
    BY <1>6 DEF vars, db, podVars, IInv, TypeOK
  <2>3. now \in Nat /\ batch' = batch
    BY <2>1 DEF IInv, TypeOK, podVars
  <2>4. QED  BY <2>1, <2>2, <2>3, SameData, SameLocks, SameWrites DEF IInv
<1>7. QED  BY <1>1, <1>2, <1>3, <1>4, <1>5, <1>6 DEF Next

(* The inductive invariant holds in every reachable state, for any number  *)
(* of pods, tickets, policies, faults and edits.                           *)
THEOREM Invariant == Spec => []IInv
<1>1. Init => IInv  BY InitIInv
<1>2. IInv /\ [Next]_vars => IInv'  BY InductiveStep
<1>3. QED  BY <1>1, <1>2, PTL DEF Spec

(* The variables keep their types: every buffered write, claimed row and   *)
(* committed row is one the code could hold.                               *)
THEOREM TypeCorrect == Spec => []TypeOK
<1>1. IInv => TypeOK  BY DEF IInv
<1>2. QED  BY <1>1, Invariant, PTL

(* Each recorded boundary of a timer has exactly one outbox event, however *)
(* ticks, failures, rollbacks, crashes and recomputes interleave.          *)
THEOREM FiringIsExactlyOnce == Spec => []FiredExactlyOnce
<1>1. IInv => FiredExactlyOnce  BY DEF IInv, DataInv
<1>2. QED  BY <1>1, Invariant, PTL

(* A timer is in state 'breached' exactly when its breach is recorded.     *)
THEOREM BreachIsRecorded == Spec => []BreachedIffBreachRecorded
<1>1. IInv => BreachedIffBreachRecorded  BY DEF IInv, DataInv
<1>2. QED  BY <1>1, Invariant, PTL

(* The claiming query finds every running timer by the time of its target. *)
THEOREM WakeUpByTarget == Spec => []WakesByTarget
<1>1. IInv => WakesByTarget  BY DEF IInv, DataInv
<1>2. QED  BY <1>1, Invariant, PTL

(* The row lock of a claim keeps the claimed copy equal to the row.        *)
THEOREM ClaimsAreCurrent == Spec => []ClaimIsCurrent
<1>1. IInv => ClaimIsCurrent  BY DEF IInv
<1>2. QED  BY <1>1, Invariant, PTL

-----------------------------------------------------------------------------
(* Steps of the committed data                                             *)

(* Only three steps write the database: the others leave it alone.         *)
LEMMA WhoWrites ==
    ASSUME [Next]_vars
    PROVE  \/ UNCHANGED db
           \/ \E p \in Pods : CommitTick(p)
           \/ \E k \in Tickets : CommitRecompute(k)
           \/ \E k \in Tickets, pol \in Policies : createTimersForTicket(k, pol)
<1>1. CASE UNCHANGED vars  BY <1>1 DEF vars
<1>2. CASE ClockAdvances  BY <1>2 DEF ClockAdvances
<1>3. ASSUME NEW p \in Pods, PodStep(p) \/ CommitFails(p) \/ Crash(p)
      PROVE  UNCHANGED db \/ CommitTick(p)
  <2>1. CASE \E S \in SUBSET Timers : claimDueTimers(p, S)  BY <2>1 DEF claimDueTimers
  <2>2. ASSUME NEW t \in todo[p],
               \/ SettleClosed(p, t) \/ SettleOrphan(p, t)
               \/ NothingDue(p, t) \/ FireDue(p, t) \/ FailTimer(p, t)
        PROVE  UNCHANGED db
    BY <2>2 DEF SettleClosed, SettleOrphan, NothingDue, FireDue, FailTimer, Processed
  <2>3. CASE CommitAborted(p) \/ CommitFails(p) \/ Crash(p)
    BY <2>3 DEF CommitAborted, CommitFails, Crash
  <2>4. QED  BY <1>3, <2>1, <2>2, <2>3 DEF PodStep
<1>4. ASSUME NEW k \in Tickets, NEW pol \in Policies, BeginRecompute(k, pol)
      PROVE  UNCHANGED db
  BY <1>4 DEF BeginRecompute
<1>5. ASSUME NEW k \in Tickets,
             TicketChanges(k) \/ RequestStep(k) \/ AbortRecompute(k)
      PROVE  UNCHANGED db \/ CommitRecompute(k)
  BY <1>5 DEF TicketChanges, RequestStep, RecomputeTimer, AbortRecompute,
     ReleaseRecompute, db
<1>6. ASSUME NEW pol \in Policies,
             DeletePolicy(pol) \/ \E pc \in PctPairs : EditPolicy(pol, pc)
      PROVE  UNCHANGED db
  BY <1>6 DEF DeletePolicy, EditPolicy
<1>7. QED  BY <1>1, <1>2, <1>3, <1>4, <1>5, <1>6 DEF Next

(* No breach is recorded before the committed target: the write was due    *)
(* when it was buffered, and the lock kept the target in place since.      *)
THEOREM BreachIsNotEarly == Spec => NoEarlyBreach
<1>1. ASSUME IInv, [Next]_vars, NEW t \in Timers, "breach" \in fired'[t] \ fired[t]
      PROVE  timer[t].targetAt <= now
  <2>1. CASE UNCHANGED db
    BY <1>1, <2>1 DEF db
  <2>2. ASSUME NEW p \in Pods, CommitTick(p)
        PROVE  timer[t].targetAt <= now
    <3>1. batch[p][t] # NoWrite
      BY <1>1, <2>2, CommittedTimer
    <3>2. WriteOK(batch[p][t], t) /\ fired'[t] = fired[t] \cup batch[p][t].newly
      BY <1>1, <2>2, <3>1, CommittedTimer
    <3>3. QED  BY <1>1, <3>2 DEF WriteOK
  <2>3. ASSUME NEW k \in Tickets, CommitRecompute(k) PROVE FALSE
    BY <1>1, <2>3 DEF CommitRecompute, ReleaseRecompute
  <2>4. ASSUME NEW k \in Tickets, NEW pol \in Policies, createTimersForTicket(k, pol)
        PROVE  FALSE
    BY <1>1, <2>4 DEF createTimersForTicket
  <2>5. QED  BY <1>1, <2>1, <2>2, <2>3, <2>4, WhoWrites
<1>2. IInv /\ [Next]_vars =>
        [\A t \in Timers : "breach" \in fired'[t] \ fired[t] => timer[t].targetAt <= now]_vars
  BY <1>1
<1>3. QED  BY <1>2, Invariant, PTL DEF Spec, NoEarlyBreach

(* The contract starts where the scheduler starts.                         *)
LEMMA ContractInit == Init => Contract!Init
<1> SUFFICES ASSUME Init PROVE Contract!Init  OBVIOUS
<1>1. [t \in Timers |-> timer[t].state] = [t \in Timers |-> "none"]
  BY DEF Init, NoRow
<1>2. QED  BY <1>1 DEF Init, Contract!Init, Contract!Boundaries, Boundaries

(* Every step is one the contract allows: per timer, it is created,        *)
(* settled, fired or left alone.                                           *)
LEMMA ContractStep ==
    ASSUME IInv, IInv', [Next]_vars
    PROVE  [Contract!Next]_(Contract!vars)
<1> DEFINE st == [t \in Timers |-> timer[t].state]
           Moves(t) == Contract!Quiet(t) \/ Contract!Create(t)
                         \/ Contract!Settle(t) \/ Contract!Fire(t)
<1>1. /\ st' \in [Timers -> Contract!TimerStates]
      /\ fired' \in [Timers -> SUBSET Contract!Boundaries]
      /\ outbox' \in [Timers -> [Contract!Boundaries -> Nat]]
  BY DEF IInv, TypeOK, Row, Settled, Boundaries, Contract!TimerStates,
     Contract!Settled, Contract!Boundaries
<1>2. ASSUME NEW t \in Timers, UNCHANGED db  PROVE Moves(t)
  BY <1>2 DEF db, Contract!Quiet
<1>3. ASSUME NEW t \in Timers, NEW k \in Tickets, NEW pol \in Policies,
             createTimersForTicket(k, pol)
      PROVE  Moves(t)
  <2>1. CASE TicketOf(t) = k
    <3>1. timer[t].state = "none"
      BY <2>1, <1>3 DEF createTimersForTicket, TicketOf, Timers
    <3>2. timer'[t].state = "running"
      BY <2>1, <1>3 DEF createTimersForTicket, NewRow
    <3>3. Contract!Create(t)
      BY <1>3, <3>1, <3>2 DEF createTimersForTicket, Contract!Create
    <3>4. QED  BY <3>3
  <2>2. CASE TicketOf(t) # k
    BY <2>2, <1>3 DEF createTimersForTicket, Contract!Quiet
  <2>3. QED  BY <2>1, <2>2
<1>4. ASSUME NEW t \in Timers, NEW k \in Tickets, CommitRecompute(k)
      PROVE  Moves(t)
  <2>1. timer[t] \in Row
    BY DEF IInv, TypeOK
  <2>2. timer'[t].state = timer[t].state
    BY <1>4, <2>1 DEF CommitRecompute, Recomputed, Row
  <2>3. QED  BY <1>4, <2>2 DEF CommitRecompute, ReleaseRecompute, Contract!Quiet
<1>5. ASSUME NEW t \in Timers, NEW p \in Pods, CommitTick(p)
      PROVE  Moves(t)
  <2> DEFINE w == batch[p][t]
  <2>1. CASE w = NoWrite
    BY <1>5, <2>1, CommittedTimer DEF Contract!Quiet
  <2>2. CASE w # NoWrite
    <3>1. /\ WriteOK(w, t) /\ timer[t].state = "running" /\ timer[t] \in Row
          /\ timer'[t] = [timer[t] EXCEPT !.state = w.state, !.nextFireAt = w.nextFireAt]
          /\ fired'[t] = fired[t] \cup w.newly
          /\ outbox'[t] = Emitted(outbox[t], w)
          /\ w \in Write
      BY <1>5, <2>2, CommittedTimer
    <3> HIDE DEF w
    <3>2. timer'[t].state = w.state
      BY <3>1 DEF Row
    <3>3. "breach" \notin fired[t]
      BY <3>1 DEF IInv, DataInv, BreachedIffBreachRecorded
    <3>4. w.newly \subseteq Boundaries /\ w.state \in {"running"} \cup Settled
      BY <3>1 DEF Write, WriteOK
    <3>5. CASE w.newly = {}
      <4>1. w.state \in {"met", "cancelled"}
        BY <3>1, <3>4, <3>5 DEF WriteOK, Settled
      <4>2. fired'[t] = fired[t]
        BY <3>1, <3>5
      <4>3. outbox[t] \in [Boundaries -> Nat]
        BY DEF IInv, TypeOK
      <4>4. outbox'[t] = outbox[t]
        BY <3>1, <3>5, <4>3 DEF Emitted
      <4>5. Contract!Settle(t)
        BY <3>1, <3>2, <4>1, <4>2, <4>4 DEF Contract!Settle
      <4>6. QED  BY <4>5
    <3>6. CASE w.newly # {}
      <4>1. fired[t] \subseteq fired'[t] /\ fired'[t] # fired[t]
            /\ fired'[t] \ fired[t] = w.newly
        BY <3>1, <3>6 DEF WriteOK
      <4>2. Contract!InOrder(fired'[t])
        BY <3>1 DEF WriteOK
      <4>3. \A b \in Contract!Boundaries :
              outbox'[t][b] = outbox[t][b]
                              + (IF b \in fired'[t] \ fired[t] THEN 1 ELSE 0)
        BY <3>1, <4>1 DEF Emitted, Boundaries, Contract!Boundaries
      <4>4. timer'[t].state = IF "breach" \in fired'[t] THEN "breached" ELSE "running"
        BY <3>1, <3>2, <3>3, <3>4, <3>6 DEF WriteOK, Settled
      <4>5. Contract!Fire(t)
        BY <3>1, <4>1, <4>2, <4>3, <4>4 DEF Contract!Fire
      <4>6. QED  BY <4>5
    <3>7. QED  BY <3>5, <3>6
  <2>3. QED  BY <2>1, <2>2
<1>6. \A t \in Timers : Moves(t)
  BY <1>2, <1>3, <1>4, <1>5, WhoWrites
<1>7. QED  BY <1>1, <1>6 DEF Contract!Next

(* Refinement: ticks, requests, faults and crashes together implement the  *)
(* timer contract, for every value of the constants.                       *)
THEOREM SchedulerImplementsContract == Spec => ImplementsContract
<1>1. Init => Contract!Init  BY ContractInit
<1>2. IInv /\ IInv' /\ [Next]_vars => [Contract!Next]_(Contract!vars)  BY ContractStep
<1>3. QED  BY <1>1, <1>2, Invariant, PTL DEF Spec, ImplementsContract, Contract!Spec
=============================================================================
