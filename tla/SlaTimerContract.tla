-------------------------- MODULE SlaTimerContract --------------------------
(***************************************************************************)
(* What the SLA engine promises about one timer row, whoever processes it: *)
(* a running timer fires each boundary at most once, in boundary order,    *)
(* with exactly one outbox event per fired boundary; firing the breach     *)
(* boundary and becoming 'breached' are one step; a settled timer never    *)
(* moves again.  One step may move several timers, because a scheduler     *)
(* tick commits a whole batch.                                             *)
(***************************************************************************)
EXTENDS Naturals

CONSTANT Timers

VARIABLES
    state,    \* state[t]: sla_timers.state, "none" before the row exists
    fired,    \* fired[t]: boundaries recorded in sla_fired_boundaries
    events    \* events[t][b]: outbox events written for boundary b of t

vars == <<state, fired, events>>

Boundaries == {"reminder_first", "reminder_second", "breach"}

Settled == {"met", "breached", "cancelled"}

TimerStates == {"none", "running"} \cup Settled

(* A breach is preceded by both reminders, the second reminder by the first. *)
InOrder(S) ==
    /\ "breach" \in S => "reminder_second" \in S
    /\ "reminder_second" \in S => "reminder_first" \in S

Quiet(t) ==
    /\ state'[t] = state[t]
    /\ fired'[t] = fired[t]
    /\ events'[t] = events[t]

Create(t) ==
    /\ state[t] = "none"
    /\ state'[t] = "running"
    /\ fired'[t] = fired[t]
    /\ events'[t] = events[t]

Settle(t) ==
    /\ state[t] = "running"
    /\ state'[t] \in {"met", "cancelled"}
    /\ fired'[t] = fired[t]
    /\ events'[t] = events[t]

Fire(t) ==
    /\ state[t] = "running"
    /\ fired[t] \subseteq fired'[t]
    /\ fired'[t] # fired[t]
    /\ InOrder(fired'[t])
    /\ \A b \in Boundaries :
         events'[t][b] = events[t][b] + (IF b \in fired'[t] \ fired[t] THEN 1 ELSE 0)
    /\ state'[t] = IF "breach" \in fired'[t] THEN "breached" ELSE "running"

Init ==
    /\ state = [t \in Timers |-> "none"]
    /\ fired = [t \in Timers |-> {}]
    /\ events = [t \in Timers |-> [b \in Boundaries |-> 0]]

Next ==
    /\ state' \in [Timers -> TimerStates]
    /\ fired' \in [Timers -> SUBSET Boundaries]
    /\ events' \in [Timers -> [Boundaries -> Nat]]
    /\ \A t \in Timers : Quiet(t) \/ Create(t) \/ Settle(t) \/ Fire(t)

Spec == Init /\ [][Next]_vars
=============================================================================
