---------------------------- MODULE AiSynthesis ----------------------------
(***************************************************************************)
(* The summaries an LLM writes for resolved tickets: the workers that take *)
(* ticket.resolved messages (ai-synthesis/src/synthesis.consumer.ts and    *)
(* synthesis.service.ts) and the job that re-enqueues summaries that got   *)
(* stuck (reconciliation.job.ts).                                          *)
(*                                                                         *)
(* A message is claimed and its attempt counted in one transaction, the    *)
(* LLM is called outside of any, the answer is stored in a second one.     *)
(* The queue is SQS as the consumer uses it: unordered, at least once, a   *)
(* message is dead-lettered after MaxReceives receptions.                  *)
(***************************************************************************)
EXTENDS Naturals, FiniteSets

CONSTANTS
    Tickets,
    Workers,       \* concurrent processMessage calls, of one pod or of several
    None,
    MaxAttempts,   \* MAX_ATTEMPTS of synthesis.service.ts
    MaxReceives,   \* maxReceiveCount of the queue
    MaxResolves,   \* bound: resolutions of a ticket, reopened in between
    MaxMessages,   \* bound: ticket.resolved messages of a ticket
    MaxFaults      \* bound: crashes, SQL errors and rows that age under way

ASSUME ConstantTypes ==
    /\ None \notin Workers \cup (Tickets \X Nat)
    /\ MaxAttempts \in Nat \ {0} /\ MaxReceives \in Nat \ {0}
    /\ MaxResolves \in Nat /\ MaxMessages \in Nat /\ MaxFaults \in Nat

VARIABLES
    status,        \* ai_status of the ticket's summary; "none": no row
    attempts,      \* its attempt_count
    stale,         \* rows whose updated_at is beyond the threshold
    published,     \* published[t]: number of ticket.resolved messages so far
    queue, dead,   \* messages in the queue, and in its dead letter queue
    receives,      \* receives[m]: receptions of a message
    claimed,       \* committed rows of ai_synthesis_idempotency
    job,           \* job[w]: what worker w is doing
    resolves,      \* resolves[t]: how often the ticket was resolved
    calls,         \* calls[m]: LLM calls made for a message
    early,         \* early[t]: times its row aged while work was under way
    faults         \* number of faults so far

summary == <<status, attempts, stale>>
sqs == <<published, queue, dead, receives>>
observed == <<resolves, calls>>
vars == <<summary, sqs, claimed, job, observed, early, faults>>

Open == {"pending", "running"}
Settled == {"succeeded", "failed", "skipped"}

(* Every message has an eventId of its own: <<t, n>> is the n-th of t.     *)
Messages == Tickets \X (1..MaxMessages)

Of(t) == {m \in Messages : m[1] = t}

Idle == [step |-> "idle", msg |-> None, attempt |-> 0]

Job == [step : {"idle", "claim", "start", "load", "call", "save", "fail", "missing", "delete"},
        msg : Messages \cup {None}, attempt : Nat]

(* The ticket a worker has a claimed message of.                           *)
Serves(w, t) == job[w].step \in {"load", "call", "save", "fail", "missing"} /\ job[w].msg[1] = t

(* Something is still going to happen to the ticket without the job.       *)
UnderWay(t) ==
    \/ \E w \in Workers : Serves(w, t)
    \/ \E m \in Of(t) : m \in queue \ claimed

Init ==
    /\ status = [t \in Tickets |-> "none"]
    /\ attempts = [t \in Tickets |-> 0]
    /\ stale = {}
    /\ published = [t \in Tickets |-> 0]
    /\ queue = {} /\ dead = {} /\ claimed = {}
    /\ receives = [m \in Messages |-> 0]
    /\ job = [w \in Workers |-> Idle]
    /\ resolves = [t \in Tickets |-> 0]
    /\ calls = [m \in Messages |-> 0]
    /\ early = [t \in Tickets |-> 0]
    /\ faults = 0

Fault == faults < MaxFaults /\ faults' = faults + 1

-----------------------------------------------------------------------------
(* The API, the queue, the clock                                           *)

(* The outbox events of the tickets T are relayed to the queue.            *)
Publish(T) ==
    /\ \A t \in T : published[t] < MaxMessages
    /\ published' = [t \in Tickets |-> published[t] + (IF t \in T THEN 1 ELSE 0)]
    /\ queue' = queue \cup {<<t, published'[t]>> : t \in T}

(* TicketsService.resolve.  It writes tickets.ai_status, not the summary.  *)
Resolve(t) ==
    /\ resolves[t] < MaxResolves
    /\ resolves' = [resolves EXCEPT ![t] = @ + 1]
    /\ Publish({t})
    /\ UNCHANGED <<summary, dead, receives, claimed, job, calls, early, faults>>

Receive(w, m) ==
    /\ job[w] = Idle
    /\ m \in queue
    /\ receives[m] < MaxReceives
    /\ receives' = [receives EXCEPT ![m] = @ + 1]
    /\ job' = [job EXCEPT ![w] = [Idle EXCEPT !.step = "claim", !.msg = m]]
    /\ UNCHANGED <<summary, published, queue, dead, claimed, observed, early, faults>>

DeadLetter(m) ==
    /\ m \in queue
    /\ receives[m] = MaxReceives
    /\ \A w \in Workers : job[w].msg # m
    /\ queue' = queue \ {m}
    /\ dead' = dead \cup {m}
    /\ UNCHANGED <<summary, published, receives, claimed, job, observed, early, faults>>

(* Time passes over a row that is not settled.  While work is under way it *)
(* takes an outage: a call that outlives 15 minutes, a queue that is not   *)
(* drained for 30.                                                         *)
Ages(t) ==
    /\ status[t] \in Open
    /\ stale' = stale \cup {t}
    /\ t \notin stale
    /\ IF UnderWay(t)
       THEN Fault /\ early' = [early EXCEPT ![t] = @ + 1]
       ELSE UNCHANGED <<early, faults>>
    /\ UNCHANGED <<status, attempts, sqs, claimed, job, observed>>

-----------------------------------------------------------------------------
(* SynthesisService.handle                                                 *)

Goto(w, step) == job' = [job EXCEPT ![w].step = step]

Drop(w) == job' = [job EXCEPT ![w] = Idle]

(* Mutant: a write that leaves updated_at alone.                           *)
SetStatus_KeepsAge(t, s) ==
    /\ status' = [status EXCEPT ![t] = s]
    /\ UNCHANGED stale

(* Every write of a summary sets updated_at.                               *)
SetStatus(t, s) ==
    /\ status' = [status EXCEPT ![t] = s]
    /\ stale' = stale \ {t}

(* Mutant: the claim is looked up before the transaction that inserts it,  *)
(* so a claim somebody else is about to commit goes unnoticed.             *)
Claim_NoWait(w) ==
    /\ job[w].step = "claim"
    /\ Goto(w, IF job[w].msg \in claimed THEN "delete" ELSE "start")
    /\ UNCHANGED <<summary, sqs, claimed, observed, early, faults>>

(* Mutant: the claim is committed before the rest of Tx-1.                 *)
Claim_Commits(w) ==
    /\ job[w].step = "claim"
    /\ \A v \in Workers : ~(job[v].step = "start" /\ job[v].msg = job[w].msg)
    /\ Goto(w, IF job[w].msg \in claimed THEN "delete" ELSE "start")
    /\ claimed' = claimed \cup {job[w].msg}
    /\ UNCHANGED <<summary, sqs, observed, early, faults>>

(* Tx-1, the insert of the claim.  It waits for an open transaction that   *)
(* inserted the same key.  A duplicate is rolled back and deleted.         *)
Claim(w) ==
    /\ job[w].step = "claim"
    /\ \A v \in Workers : ~(job[v].step = "start" /\ job[v].msg = job[w].msg)
    /\ Goto(w, IF job[w].msg \in claimed THEN "delete" ELSE "start")
    /\ UNCHANGED <<summary, sqs, claimed, observed, early, faults>>

(* Tx-1, the rest: the policy says skip, or could not be read, which means *)
(* skip as well.                                                           *)
Skip(w) ==
    /\ job[w].step = "start"
    /\ claimed' = claimed \cup {job[w].msg}
    /\ SetStatus(job[w].msg[1], "skipped")
    /\ Goto(w, "delete")
    /\ UNCHANGED <<attempts, sqs, observed, early, faults>>

(* Or the attempt is counted and the row is 'running', whatever it was.    *)
(* The row lock taken here is gone with the COMMIT that follows.           *)
Start(w) ==
    LET t == job[w].msg[1]
    IN  /\ job[w].step = "start"
        /\ claimed' = claimed \cup {job[w].msg}
        /\ SetStatus(t, "running")
        /\ attempts' = [attempts EXCEPT ![t] = @ + 1]
        /\ job' = [job EXCEPT ![w].step = "load", ![w].attempt = attempts'[t]]
        /\ UNCHANGED <<sqs, observed, early, faults>>

(* The thread is read; or the ticket is gone; or a read fails and the      *)
(* message is left for a redelivery.                                       *)
LoadThread(w) ==
    /\ job[w].step = "load"
    /\ Goto(w, "call") \/ Goto(w, "missing") \/ Drop(w)
    /\ UNCHANGED <<summary, sqs, claimed, observed, early, faults>>

(* The LLM answers, fails for good, or fails in a way worth a retry, which *)
(* is final at the last attempt and left for a redelivery before it.       *)
CallLlm(w) ==
    /\ job[w].step = "call"
    /\ calls' = [calls EXCEPT ![job[w].msg] = @ + 1]
    /\ \/ Goto(w, "save") \/ Goto(w, "fail")
       \/ job[w].attempt < MaxAttempts /\ Drop(w)
    /\ UNCHANGED <<summary, sqs, claimed, resolves, early, faults>>

(* Tx-2.  It asks neither what the status is nor whose attempt this was.   *)
Writeback(w) ==
    /\ job[w].step = "save"
    /\ SetStatus(job[w].msg[1], "succeeded")
    /\ Goto(w, "delete")
    /\ UNCHANGED <<attempts, sqs, claimed, observed, early, faults>>

(* markFailedPermanent.  Its own failure is swallowed.  When the ticket is *)
(* missing, the client released twice throws after it: the message stays.  *)
MarkFailed(w) ==
    /\ job[w].step \in {"fail", "missing"}
    /\ \/ SetStatus(job[w].msg[1], "failed") /\ UNCHANGED faults
       \/ Fault /\ UNCHANGED <<status, stale>>
    /\ IF job[w].step = "fail" THEN Goto(w, "delete") ELSE Drop(w)
    /\ UNCHANGED <<attempts, sqs, claimed, observed, early>>

Delete(w) ==
    /\ job[w].step = "delete"
    /\ queue' = queue \ {job[w].msg}
    /\ Drop(w)
    /\ UNCHANGED <<summary, published, dead, receives, claimed, observed, early, faults>>

(* The worker dies, or a transaction or the delete call fails: what is not *)
(* committed is gone and the message stays.                                *)
Abandon(w) ==
    /\ job[w] # Idle
    /\ Fault
    /\ Drop(w)
    /\ UNCHANGED <<summary, sqs, claimed, observed, early>>

-----------------------------------------------------------------------------
(* ReconciliationJob.run                                                   *)

(* Mutant: the cap is compared with > instead of >=.                       *)
Capped_OffByOne(t) == attempts[t] > MaxAttempts

Capped(t) == attempts[t] >= MaxAttempts

(* Mutant: capped rows are re-enqueued as well.                            *)
Reconcile_All ==
    LET again == {t \in stale : ~Capped(t)}
    IN  /\ stale # {}
        /\ status' = [t \in Tickets |-> IF t \in again THEN "pending"
                                        ELSE IF t \in stale THEN "failed" ELSE status[t]]
        /\ stale' = {}
        /\ Publish(stale)
        /\ UNCHANGED <<attempts, dead, receives, claimed, job, observed, early, faults>>

(* Mutant: rows are reset to 'pending' and no message is written.          *)
Reconcile_Silent ==
    LET again == {t \in stale : ~Capped(t)}
    IN  /\ stale # {}
        /\ status' = [t \in Tickets |-> IF t \in again THEN "pending"
                                        ELSE IF t \in stale THEN "failed" ELSE status[t]]
        /\ stale' = {}
        /\ UNCHANGED <<attempts, sqs, claimed, job, observed, early, faults>>

(* One transaction over the rows that are stuck: failed for good at the    *)
(* cap, and otherwise 'pending' again with a new message.                  *)
Reconcile ==
    LET again == {t \in stale : ~Capped(t)}
    IN  /\ stale # {}
        /\ status' = [t \in Tickets |-> IF t \in again THEN "pending"
                                        ELSE IF t \in stale THEN "failed" ELSE status[t]]
        /\ stale' = {}
        /\ Publish(again)
        /\ UNCHANGED <<attempts, dead, receives, claimed, job, observed, early, faults>>

-----------------------------------------------------------------------------
WorkerStep(w) ==
    \/ \E m \in queue : Receive(w, m)
    \/ Claim(w) \/ Skip(w) \/ Start(w) \/ LoadThread(w) \/ CallLlm(w)
    \/ Writeback(w) \/ MarkFailed(w) \/ Delete(w)

Next ==
    \/ \E t \in Tickets : Resolve(t) \/ Ages(t)
    \/ \E w \in Workers : WorkerStep(w) \/ Abandon(w)
    \/ \E m \in queue : DeadLetter(m)
    \/ Reconcile

Spec == Init /\ [][Next]_vars

(* The poll loop and every started call go on, the job runs every five     *)
(* minutes, rows that nobody works on grow old, and SQS moves exhausted    *)
(* messages.                                                               *)
FairSpec ==
    /\ Spec
    /\ \A w \in Workers : WF_vars(WorkerStep(w))
    /\ \A t \in Tickets : WF_vars(Ages(t) /\ ~UnderWay(t))
    /\ WF_vars(Reconcile)
    /\ WF_vars(\E m \in queue : DeadLetter(m))

-----------------------------------------------------------------------------
(* Properties                                                              *)

TypeOK ==
    /\ status \in [Tickets -> {"none"} \cup Open \cup Settled]
    /\ attempts \in [Tickets -> Nat]
    /\ stale \subseteq {t \in Tickets : status[t] \in Open}
    /\ published \in [Tickets -> 0..MaxMessages]
    /\ queue \subseteq Messages /\ dead \subseteq Messages /\ claimed \subseteq Messages
    /\ receives \in [Messages -> 0..MaxReceives]
    /\ job \in [Workers -> Job]
    /\ resolves \in [Tickets -> 0..MaxResolves]
    /\ calls \in [Messages -> Nat]
    /\ early \in [Tickets -> Nat]
    /\ faults \in 0..MaxFaults

(* A message costs at most one call of the LLM, however often it is        *)
(* received, wherever the worker died (idempotency.claim in Tx-1).         *)
OneCallPerMessage == \A m \in Messages : calls[m] <= 1

(* The attempts of a ticket stay within the cap, plus one for each further *)
(* resolution, which does not reset the counter, and one for each time the *)
(* job re-enqueued what was still under way; and no call goes uncounted    *)
(* (0043_ai_synthesis_retry.sql, "enforce the 3-attempt cap durably across *)
(* crashes and SQS redeliveries").                                         *)
AttemptBudget ==
    \A t \in Tickets :
        /\ Cardinality({m \in Of(t) : calls[m] > 0}) <= attempts[t]
        /\ attempts[t] <= MaxAttempts + (resolves[t] - 1) + early[t]

(* A resolved ticket without a summary still has an unclaimed message, in  *)
(* the queue or in the dead letter queue: no other path loses it (handle   *)
(* commits claim and status together; processMessage deletes afterwards).  *)
NoTicketForgotten ==
    \A t \in Tickets :
        status[t] = "none" /\ resolves[t] > 0
            => \E m \in Of(t) : m \in (queue \cup dead) \ claimed

(* With one resolution and no outage, a settled summary never changes      *)
(* again: no message, worker or run of the job is left that would touch    *)
(* it (Tx-1's upsert, Tx-2 and the job's updates have no guard of their    *)
(* own against it).                                                        *)
SettledIsFinal ==
    [][\A t \in Tickets :
          status[t] \in Settled /\ resolves[t] = 1 /\ early[t] = 0
              => status'[t] = status[t]]_vars

(* A summary that is pending or running is settled in the end, although a  *)
(* redelivery never retries it: the reconciliation job does.               *)
StuckIsHealed == \A t \in Tickets : status[t] \in Open ~> status[t] \in Settled

(* reconciliation.job.ts:18, "Re-enqueue writes a new outbox event so      *)
(* existing messages left on the SQS queue are deduplicated by the         *)
(* idempotency guard": of the messages of one resolution, the guard lets   *)
(* none through that is older than the last one.                           *)
DeduplicatedByGuard ==
    \A w \in Workers, t \in Tickets :
        job[w].step = "start" /\ job[w].msg \in Of(t) /\ resolves[t] = 1
            => job[w].msg = <<t, published[t]>>
=============================================================================
