---------------------------- MODULE SlaReminders ----------------------------
(***************************************************************************)
(* From a fired SLA boundary to an alert: the scheduler's outbox events,   *)
(* relayed to the sla-notifications queue, and the notification worker     *)
(* that turns each message into an e-mail and a webhook call               *)
(* (notification-worker/src/handlers/sla-reminder.handler.ts and its       *)
(* sqs-consumer.service.ts).                                               *)
(*                                                                         *)
(* The producer is the contract of SlaTimerContract, which SlaScheduler    *)
(* implements.  The queue is SQS as the consumer uses it: unordered, a     *)
(* message stays until it is deleted, may be received again while it is    *)
(* being handled, and is dead-lettered after MaxReceives receptions.       *)
(***************************************************************************)
EXTENDS Naturals, FiniteSets

CONSTANTS
    Timers,        \* one ticket per timer here
    Handlers,      \* concurrent handleMessage calls, over all worker pods
    PctPairs,      \* reminder percentages <<first, second>> a policy may have
    Recipients,    \* what a recipient lookup may find: sets of usable channels
    MaxReceives,   \* redrive limit of the queue (infrastructure)
    MaxFailures,   \* bound: failed transactions and crashes of handlers
    None

Channels == {"email", "webhook"}

ASSUME Bounds ==
    /\ Recipients \subseteq SUBSET Channels
    /\ MaxReceives \in Nat \ {0}
    /\ MaxFailures \in Nat

ASSUME NoneAssumption == None \notin Handlers

VARIABLES
    state, fired, events,   \* the timers, as in SlaTimerContract
    closed,                 \* timers whose ticket is resolved or closed
    queue,                  \* messages SQS holds
    acked, dead,            \* messages deleted by the consumer / dead-lettered
    receives,               \* ApproximateReceiveCount, per message
    emission,               \* committed sla_reminder_emissions rows by key
    holder,                 \* the handler whose open transaction inserted the key
    job,                    \* job[h]: what handler h is doing
    sent,                   \* sent[key]: alerts SES or an endpoint accepted
    lost,                   \* lost[key]: of those, alerts whose transaction was lost
    undone,                 \* keys whose COMMIT was answered with a rollback
    failed                  \* number of failures so far

timerVars == <<state, fired, events>>
sqsVars == <<queue, acked, dead, receives>>
vars == <<timerVars, closed, sqsVars, emission, holder, job, sent, lost, undone,
          failed>>

Engine == INSTANCE SlaTimerContract

Boundaries == Engine!Boundaries

Pcts == {pc[1] : pc \in PctPairs} \cup {pc[2] : pc \in PctPairs} \cup {100}

(* thresholdPct of the event the scheduler writes for a boundary when the  *)
(* policy's percentages are pc.                                            *)
thresholdPct(pc, b) ==
    CASE b = "reminder_first"  -> pc[1]
      [] b = "reminder_second" -> pc[2]
      [] b = "breach"          -> 100

Published(t, pc, b) == [timer |-> t, boundary |-> b, pct |-> thresholdPct(pc, b)]

Message == {Published(t, pc, b) : t \in Timers, pc \in PctPairs, b \in Boundaries}

(* The unique index of sla_reminder_emissions.                             *)
Keys == Timers \X Pcts \X Channels

Key(m, ch) == <<m.timer, m.pct, ch>>

(* 'retryable' and 'partial' are rows stored as 'failed' by a dispatch     *)
(* that threw: before any endpoint accepted the alert, or after one did.   *)
Thrown == {"retryable", "partial"}

Alerted == {"sent", "partial"}

Statuses == {"absent", "failed", "suppressed", "unroutable"} \cup Thrown \cup Alerted

Idle == [step |-> "idle", msg |-> None, channel |-> "email", outcome |-> "absent"]

Job == [step : {"idle", "insert", "guard", "dispatch", "commit", "ack"},
        msg : Message \cup {None}, channel : Channels, outcome : Statuses]

KeyOf(h) == Key(job[h].msg, job[h].channel)

-----------------------------------------------------------------------------
(* The producer                                                            *)

Init ==
    /\ Engine!Init
    /\ closed = {}
    /\ queue = {} /\ acked = {} /\ dead = {}
    /\ receives = [m \in Message |-> 0]
    /\ emission = [k \in Keys |-> "absent"]
    /\ holder = [k \in Keys |-> None]
    /\ job = [h \in Handlers |-> Idle]
    /\ sent = [k \in Keys |-> 0]
    /\ lost = [k \in Keys |-> 0]
    /\ undone = {}
    /\ failed = 0

workerVars == <<acked, dead, receives, emission, holder, job, sent, lost, undone, failed>>

TimerStarts(t) ==
    /\ state[t] = "none"
    /\ state' = [state EXCEPT ![t] = "running"]
    /\ UNCHANGED <<fired, events, closed, queue, workerVars>>

TimerSettles(t) ==
    /\ state[t] = "running"
    /\ t \in closed
    /\ state' = [state EXCEPT ![t] = "met"]
    /\ UNCHANGED <<fired, events, closed, queue, workerVars>>

(* Mutant: the breach is published by a commit that leaves it running.     *)
TimerFires_Running(t, B, pc) ==
    /\ state[t] = "running"
    /\ B # {} /\ B \cap fired[t] = {}
    /\ Engine!InOrder(fired[t] \cup B)
    /\ fired' = [fired EXCEPT ![t] = @ \cup B]
    /\ events' = [events EXCEPT ![t] =
           [b \in Boundaries |-> @[b] + (IF b \in B THEN 1 ELSE 0)]]
    /\ queue' = queue \cup {Published(t, pc, b) : b \in B}
    /\ UNCHANGED <<state, closed, workerVars>>

(* A committed tick: the boundaries up to some point fire, the timer is    *)
(* 'breached' by the same commit that publishes sla.breached.  The policy  *)
(* may have been edited since the last tick.                               *)
TimerFires(t, B, pc) ==
    /\ state[t] = "running"
    /\ B # {} /\ B \cap fired[t] = {}
    /\ Engine!InOrder(fired[t] \cup B)
    /\ fired' = [fired EXCEPT ![t] = @ \cup B]
    /\ events' = [events EXCEPT ![t] =
           [b \in Boundaries |-> @[b] + (IF b \in B THEN 1 ELSE 0)]]
    /\ state' = [state EXCEPT ![t] = IF "breach" \in B THEN "breached" ELSE "running"]
    /\ queue' = queue \cup {Published(t, pc, b) : b \in B}
    /\ UNCHANGED <<closed, workerVars>>

TicketCloses(t) ==
    /\ closed' = closed \cup {t}
    /\ UNCHANGED <<timerVars, queue, workerVars>>

-----------------------------------------------------------------------------
(* The consumer                                                            *)

external == <<timerVars, closed>>

(* Mutant: a message is done when its first channel is.                    *)
NextChannel_First(j) == [j EXCEPT !.step = "ack"]

(* Both channels of a message are handled in turn; a message is deleted    *)
(* once both are done.                                                     *)
NextChannel(j) ==
    IF j.channel = "email"
    THEN [j EXCEPT !.step = "insert", !.channel = "webhook", !.outcome = "absent"]
    ELSE [j EXCEPT !.step = "ack"]

(* Mutant: no redrive limit.                                               *)
Receive_NoLimit(h, m) ==
    /\ job[h].step = "idle"
    /\ m \in queue
    /\ receives' = [receives EXCEPT ![m] = @ + 1]
    /\ job' = [job EXCEPT ![h] = [Idle EXCEPT !.step = "insert", !.msg = m]]
    /\ UNCHANGED <<external, queue, acked, dead, emission, holder, sent, lost, undone, failed>>

(* ReceiveMessage: a second reception may overlap the first.               *)
Receive(h, m) ==
    /\ job[h].step = "idle"
    /\ m \in queue
    /\ receives[m] < MaxReceives
    /\ receives' = [receives EXCEPT ![m] = @ + 1]
    /\ job' = [job EXCEPT ![h] = [Idle EXCEPT !.step = "insert", !.msg = m]]
    /\ UNCHANGED <<external, queue, acked, dead, emission, holder, sent, lost, undone, failed>>

(* The redrive policy moves a message that was received too often.         *)
DeadLetter(m) ==
    /\ m \in queue
    /\ receives[m] = MaxReceives
    /\ \A h \in Handlers : job[h].msg # m
    /\ queue' = queue \ {m}
    /\ dead' = dead \cup {m}
    /\ UNCHANGED <<external, acked, receives, emission, holder, job, sent, lost, undone, failed>>

(* Mutant: the row is looked up instead of inserted, so an open            *)
(* transaction on the same key goes unnoticed.                             *)
InsertEmission_NoWait(h) ==
    /\ job[h].step = "insert"
    /\ IF emission[KeyOf(h)] # "absent"
       THEN job' = [job EXCEPT ![h] = NextChannel(@)] /\ UNCHANGED holder
       ELSE /\ job' = [job EXCEPT ![h].step = "guard"]
            /\ holder' = [holder EXCEPT ![KeyOf(h)] = h]
    /\ UNCHANGED <<external, sqsVars, emission, sent, lost, undone, failed>>

(* Step 4, the idempotency insert.  It waits while another transaction has *)
(* inserted the key and is still open.                                     *)
InsertEmission(h) ==
    /\ job[h].step = "insert"
    /\ holder[KeyOf(h)] = None
    /\ IF emission[KeyOf(h)] # "absent"
       THEN job' = [job EXCEPT ![h] = NextChannel(@)] /\ UNCHANGED holder
       ELSE /\ job' = [job EXCEPT ![h].step = "guard"]
            /\ holder' = [holder EXCEPT ![KeyOf(h)] = h]
    /\ UNCHANGED <<external, sqsVars, emission, sent, lost, undone, failed>>

(* Step 5, the live-state guards, read when the message is handled.        *)
Stale(t) == state[t] \in Engine!Settled \/ t \in closed

(* Steps 5 and 6: suppress, or look up whom to alert and on which channels *)
(* they can be reached: nobody is unroutable, a channel the recipient does *)
(* not have is suppressed.                                                 *)
ReadGuards(h) ==
    LET Decide(step, outcome) ==
            job' = [job EXCEPT ![h].step = step, ![h].outcome = outcome]
    IN  /\ job[h].step = "guard"
        /\ \/ Stale(job[h].msg.timer) /\ Decide("commit", "suppressed")
           \/ /\ ~Stale(job[h].msg.timer)
              /\ \E found \in Recipients :
                   \/ found = {} /\ Decide("commit", "unroutable")
                   \/ /\ found # {} /\ job[h].channel \notin found
                      /\ Decide("commit", "suppressed")
                   \/ job[h].channel \in found /\ Decide("dispatch", "absent")
        /\ UNCHANGED <<external, sqsVars, emission, holder, sent, lost, undone, failed>>

(* Step 7: the alert leaves; or every endpoint refuses it for good; or the *)
(* mailer or an endpoint answers with an error worth a retry, which ends   *)
(* the loop over the endpoints, perhaps after one of them accepted.        *)
Dispatch(h, outcome) ==
    /\ job[h].step = "dispatch"
    /\ outcome \in {"sent", "failed"} \cup Thrown
    /\ outcome \in {"failed", "partial"} => job[h].channel = "webhook"
    /\ job' = [job EXCEPT ![h].step = "commit", ![h].outcome = outcome]
    /\ sent' = [sent EXCEPT ![KeyOf(h)] = @ + (IF outcome \in Alerted THEN 1 ELSE 0)]
    /\ UNCHANGED <<external, sqsVars, emission, holder, lost, undone, failed>>

(* Step 8 and COMMIT.  A retryable failure is committed too, and rethrown: *)
(* the message stays in the queue and the handler is done with it.         *)
AfterCommit(j) == IF j.outcome \in Thrown THEN Idle ELSE NextChannel(j)

(* Mutant: a path that returns without ending its transaction.             *)
CommitEmission_StaysOpen(h) ==
    /\ job[h].step = "commit"
    /\ emission' = [emission EXCEPT ![KeyOf(h)] = job[h].outcome]
    /\ job' = [job EXCEPT ![h] = AfterCommit(@)]
    /\ UNCHANGED <<external, sqsVars, holder, sent, lost, undone, failed>>

CommitEmission(h) ==
    /\ job[h].step = "commit"
    /\ emission' = [emission EXCEPT ![KeyOf(h)] = job[h].outcome]
    /\ holder' = [holder EXCEPT ![KeyOf(h)] = None]
    /\ job' = [job EXCEPT ![h] = AfterCommit(@)]
    /\ UNCHANGED <<external, sqsVars, sent, lost, undone, failed>>

(* Step 9, audit, catches its own error: the transaction is aborted all    *)
(* the same, COMMIT rolls it back without an error and the handler goes on.*)
AuditFails(h) ==
    /\ job[h].step = "commit" /\ job[h].outcome \notin Thrown
    /\ failed < MaxFailures
    /\ failed' = failed + 1
    /\ holder' = [holder EXCEPT ![KeyOf(h)] = None]
    /\ undone' = undone \cup {KeyOf(h)}
    /\ lost' = [lost EXCEPT ![KeyOf(h)] = @ + (IF job[h].outcome \in Alerted THEN 1 ELSE 0)]
    /\ job' = [job EXCEPT ![h] = NextChannel(@)]
    /\ UNCHANGED <<external, sqsVars, emission, sent>>

(* DeleteMessage; its own failure is logged and the message comes again.   *)
Acknowledge(h) ==
    /\ job[h].step = "ack"
    /\ job' = [job EXCEPT ![h] = Idle]
    /\ \/ /\ queue' = queue \ {job[h].msg}
          /\ acked' = acked \cup {job[h].msg}
          /\ UNCHANGED failed
       \/ /\ failed < MaxFailures
          /\ failed' = failed + 1
          /\ UNCHANGED <<queue, acked>>
    /\ UNCHANGED <<external, dead, receives, emission, holder, sent, lost, undone>>

(* The pod dies or a statement fails: the transaction is rolled back and   *)
(* the message will come again.  An alert already out is not taken back.   *)
HandlerFails(h) ==
    LET open == job[h].step \in {"guard", "dispatch", "commit"}
    IN  /\ job[h].step # "idle"
        /\ failed < MaxFailures
        /\ failed' = failed + 1
        /\ holder' = IF open THEN [holder EXCEPT ![KeyOf(h)] = None] ELSE holder
        /\ lost' = IF open /\ job[h].outcome \in Alerted
                   THEN [lost EXCEPT ![KeyOf(h)] = @ + 1] ELSE lost
        /\ job' = [job EXCEPT ![h] = Idle]
        /\ UNCHANGED <<external, sqsVars, emission, sent, undone>>

HandlerStep(h) ==
    \/ \E m \in queue : Receive(h, m)
    \/ InsertEmission(h)
    \/ ReadGuards(h)
    \/ \E outcome \in Statuses : Dispatch(h, outcome)
    \/ CommitEmission(h)
    \/ Acknowledge(h)

Next ==
    \/ \E t \in Timers : \/ TimerStarts(t) \/ TimerSettles(t) \/ TicketCloses(t)
                         \/ \E B \in SUBSET Boundaries, pc \in PctPairs : TimerFires(t, B, pc)
    \/ \E h \in Handlers : HandlerStep(h) \/ AuditFails(h) \/ HandlerFails(h)
    \/ \E m \in queue : DeadLetter(m)

Spec == Init /\ [][Next]_vars

(* The poll loop keeps receiving and every started call goes on; SQS moves *)
(* exhausted messages.                                                     *)
FairSpec ==
    /\ Spec
    /\ \A h \in Handlers : WF_vars(HandlerStep(h))
    /\ WF_vars(\E m \in queue : DeadLetter(m))

-----------------------------------------------------------------------------
(* Properties                                                              *)

TypeOK ==
    /\ state \in [Timers -> Engine!TimerStates]
    /\ fired \in [Timers -> SUBSET Boundaries]
    /\ events \in [Timers -> [Boundaries -> Nat]]
    /\ closed \subseteq Timers
    /\ queue \subseteq Message /\ acked \subseteq Message /\ dead \subseteq Message
    /\ receives \in [Message -> 0..MaxReceives]
    /\ emission \in [Keys -> Statuses]
    /\ holder \in [Keys -> Handlers \cup {None}]
    /\ job \in [Handlers -> Job]
    /\ sent \in [Keys -> Nat]
    /\ lost \in [Keys -> Nat]
    /\ undone \subseteq Keys
    /\ failed \in 0..MaxFailures

(* A message is only deleted once each of its channels has a row that says *)
(* what became of the alert, unless an audit failure undid that row behind *)
(* the handler's back: no channel is skipped by a redelivery that starts   *)
(* half way (processChannel called twice by handleMessage).                *)
AckedHasOutcome ==
    \A m \in acked, ch \in Channels :
        emission[Key(m, ch)] # "absent" \/ Key(m, ch) \in undone

InFlight(k) ==
    Cardinality({h \in Handlers : job[h].step = "commit" /\ job[h].outcome \in Alerted
                                    /\ KeyOf(h) = k})

(* Alerts and rows agree: an accepted alert is accounted for by a 'sent'   *)
(* row, a row left by a loop an endpoint broke off, a transaction about to *)
(* commit one or a transaction lost after the send.  So redelivery alone   *)
(* never repeats an alert (the insert that waits for its key's holder).    *)
AlertsMatchRows ==
    \A k \in Keys :
        sent[k] = (IF emission[k] \in Alerted THEN 1 ELSE 0) + InFlight(k) + lost[k]

(* Whoever waits for a key waits for a call that is inside the transaction *)
(* that inserted it: every exit of processChannel ends its transaction, a  *)
(* call holds one key at a time, and so no two calls wait for each other.  *)
HoldersWork ==
    \A k \in Keys : holder[k] # None =>
        /\ job[holder[k]].step \in {"guard", "dispatch", "commit"}
        /\ KeyOf(holder[k]) = k

(* The producer used here keeps the contract the scheduler implements.     *)
ProducerKeepsContract == Engine!Spec

(* Every message leaves the queue in the end, deleted or dead-lettered.    *)
QueueDrains == \A m \in Message : m \in queue ~> m \notin queue

(* sla-reminder.handler.ts:4, "Processes sla.reminder_due and sla.breached *)
(* events": a handled breach of a ticket still open is sent, failed or     *)
(* reported unroutable, not suppressed on every channel.                   *)
BreachIsAlerted ==
    \A m \in acked :
        (m.boundary = "breach" /\ m.timer \notin closed)
            => \E ch \in Channels : emission[Key(m, ch)] # "suppressed"
=============================================================================
