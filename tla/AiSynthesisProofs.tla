------------------------- MODULE AiSynthesisProofs -------------------------
(* What AiSynthesis promises for any numbers of tickets and workers, any   *)
(* limits and any number of faults: types, one LLM call per message, no    *)
(* ticket lost but through the dead letter queue, and the budget of its    *)
(* retries.                                                                *)
EXTENDS AiSynthesis, FiniteSetTheorems, TLAPS

(* The message is past the claim's insert and the LLM has yet to be called.*)
Entitled(w) == job[w].step \in {"start", "load", "call"}

(* A worker that is not idle has a message.                                *)
JobsOK ==
    \A w \in Workers : job[w].step # "idle" => job[w].msg \in Messages

(* A worker before the commit of Tx-1 has an unclaimed message, one after  *)
(* it a claimed one.                                                       *)
ClaimsOK ==
    \A w \in Workers :
        /\ job[w].step = "start" => job[w].msg \notin claimed
        /\ job[w].step \in {"load", "call", "save", "fail", "missing", "delete"}
               => job[w].msg \in claimed

(* The right to call the LLM for a message is held once and spent once.    *)
CallsOK ==
    /\ \A v, w \in Workers :
           Entitled(v) /\ Entitled(w) /\ job[v].msg = job[w].msg => v = w
    /\ \A w \in Workers : Entitled(w) => calls[job[w].msg] = 0
    /\ \A m \in Messages : calls[m] = 0 \/ (calls[m] = 1 /\ m \in claimed)

(* A claim and the status it leaves are one commit.                        *)
ClaimedHasStatus == \A m \in claimed : status[m[1]] # "none"

IInv ==
    /\ TypeOK
    /\ JobsOK
    /\ ClaimsOK
    /\ CallsOK
    /\ ClaimedHasStatus
    /\ NoTicketForgotten

-----------------------------------------------------------------------------
Steps == {"idle", "claim", "start", "load", "call", "save", "fail", "missing", "delete"}

Elsewhere(w) == \A v \in Workers : v # w => job'[v] = job[v]

(* A worker that moves on keeps its message; the others stay.              *)
LEMMA GotoFacts ==
    ASSUME NEW w \in Workers, NEW s \in Steps, job \in [Workers -> Job], Goto(w, s)
    PROVE  /\ job' \in [Workers -> Job]
           /\ job'[w].step = s /\ job'[w].msg = job[w].msg
           /\ Elsewhere(w)
BY DEF Goto, Job, Steps, Elsewhere

(* A worker that drops its message is idle; the others stay.               *)
LEMMA DropFacts ==
    ASSUME NEW w \in Workers, job \in [Workers -> Job], Drop(w)
    PROVE  /\ job' \in [Workers -> Job]
           /\ job'[w].step = "idle"
           /\ Elsewhere(w)
BY DEF Drop, Idle, Job, Elsewhere

(* A message published for some tickets is new to the queue and nothing    *)
(* else about the queue changes.                                           *)
LEMMA PublishFacts ==
    ASSUME NEW T \in SUBSET Tickets, TypeOK, Publish(T)
    PROVE  /\ published' \in [Tickets -> 0..MaxMessages]
           /\ queue \subseteq queue' /\ queue' \subseteq Messages
           /\ \A t \in T : <<t, published'[t]>> \in queue' /\ <<t, published'[t]>> \in Of(t)
<1>1. published \in [Tickets -> 0..MaxMessages] /\ queue \subseteq Messages
  BY DEF TypeOK
<1>2. published' \in [Tickets -> 0..MaxMessages] /\ \A t \in T : published'[t] \in 1..MaxMessages
  BY <1>1, ConstantTypes DEF Publish
<1>3. \A t \in T : <<t, published'[t]>> \in Messages
  BY <1>2 DEF Messages
<1>4. QED  BY <1>1, <1>2, <1>3 DEF Publish, Of

(* Every step preserves the invariant, one lemma per kind of step.         *)
(* The insert of a claim.                                                  *)
LEMMA ClaimStep ==
    ASSUME IInv, NEW w \in Workers, Claim(w)
    PROVE  IInv'
<1> USE DEF IInv
<1>1. job \in [Workers -> Job] /\ job[w].step = "claim"
  BY DEF TypeOK, Claim
<1>2. /\ job' \in [Workers -> Job] /\ Elsewhere(w)
      /\ job'[w].msg = job[w].msg
      /\ job'[w].step = IF job[w].msg \in claimed THEN "delete" ELSE "start"
  BY <1>1, GotoFacts DEF Claim, Steps
<1>3. TypeOK'
  BY <1>1, <1>2 DEF Claim, TypeOK, summary, sqs, observed
<1>4. JobsOK'
  BY <1>1, <1>2 DEF JobsOK, Elsewhere
<1>5. ClaimsOK'
  BY <1>1, <1>2 DEF Claim, ClaimsOK, Elsewhere
<1>6. CallsOK'
  BY <1>1, <1>2 DEF Claim, CallsOK, ClaimsOK, JobsOK, Entitled, Elsewhere, observed
<1>7. ClaimedHasStatus'
  BY <1>1, <1>2 DEF Claim, ClaimedHasStatus, summary, sqs, observed
<1>8. NoTicketForgotten'
  BY <1>1, <1>2 DEF Claim, NoTicketForgotten, summary, sqs, observed
<1>9. QED  BY <1>3, <1>4, <1>5, <1>6, <1>7, <1>8

(* The policy's skip.                                                      *)
LEMMA SkipStep ==
    ASSUME IInv, NEW w \in Workers, Skip(w)
    PROVE  IInv'
<1> USE DEF IInv
<1>1. job \in [Workers -> Job] /\ job[w].step = "start"
  BY DEF TypeOK, Skip
<1>2. /\ job' \in [Workers -> Job] /\ Elsewhere(w)
      /\ job'[w].msg = job[w].msg
      /\ job'[w].step = "delete"
  BY <1>1, GotoFacts DEF Skip, Steps
<1>3. job[w].msg \in Messages /\ job[w].msg[1] \in Tickets
  BY <1>1 DEF JobsOK, Messages
<1>4. TypeOK'
  BY <1>1, <1>2, <1>3 DEF Skip, TypeOK, sqs, observed, SetStatus, Settled, Open
<1>5. JobsOK'
  BY <1>1, <1>2 DEF JobsOK, Elsewhere
<1>6. ClaimsOK'
  BY <1>1, <1>2, <1>3 DEF Skip, ClaimsOK, CallsOK, Entitled, Elsewhere
<1>7. CallsOK'
  BY <1>1, <1>2 DEF Skip, CallsOK, ClaimsOK, JobsOK, Entitled, Elsewhere, observed
<1>8. ClaimedHasStatus'
  BY <1>1, <1>3 DEF Skip, ClaimedHasStatus, SetStatus, TypeOK, Messages
<1>9. NoTicketForgotten'
  BY <1>1, <1>3 DEF Skip, NoTicketForgotten, SetStatus, TypeOK, sqs, observed, Of
<1>10. QED  BY <1>4, <1>5, <1>6, <1>7, <1>8, <1>9

(* The commit of Tx-1 with the attempt counted.                            *)
LEMMA StartStep ==
    ASSUME IInv, NEW w \in Workers, Start(w)
    PROVE  IInv'
<1> USE DEF IInv
<1>1. job \in [Workers -> Job] /\ job[w].step = "start"
  BY DEF TypeOK, Start
<1>2. /\ job' \in [Workers -> Job] /\ Elsewhere(w)
      /\ job'[w].msg = job[w].msg
      /\ job'[w].step = "load"
  <2>1. job[w].msg \in Messages /\ job[w].msg[1] \in Tickets
    BY <1>1 DEF JobsOK, Messages
  <2>2. attempts' \in [Tickets -> Nat] /\ attempts'[job[w].msg[1]] \in Nat
    BY <2>1 DEF Start, TypeOK
  <2>3. QED  BY <1>1, <2>2 DEF Start, Job, Elsewhere
<1>3. job[w].msg \in Messages /\ job[w].msg[1] \in Tickets
  BY <1>1 DEF JobsOK, Messages
<1>4. TypeOK'
  BY <1>1, <1>2, <1>3 DEF Start, TypeOK, sqs, observed, SetStatus, Settled, Open
<1>5. JobsOK'
  BY <1>1, <1>2 DEF JobsOK, Elsewhere
<1>6. ClaimsOK'
  BY <1>1, <1>2, <1>3 DEF Start, ClaimsOK, CallsOK, Entitled, Elsewhere
<1>7. CallsOK'
  BY <1>1, <1>2 DEF Start, CallsOK, ClaimsOK, JobsOK, Entitled, Elsewhere, observed
<1>8. ClaimedHasStatus'
  BY <1>1, <1>3 DEF Start, ClaimedHasStatus, SetStatus, TypeOK, Messages
<1>9. NoTicketForgotten'
  BY <1>1, <1>3 DEF Start, NoTicketForgotten, SetStatus, TypeOK, sqs, observed, Of
<1>10. QED  BY <1>4, <1>5, <1>6, <1>7, <1>8, <1>9

(* The thread is read, or not.                                             *)
LEMMA LoadStep ==
    ASSUME IInv, NEW w \in Workers, LoadThread(w)
    PROVE  IInv'
<1> USE DEF IInv
<1>1. job \in [Workers -> Job] /\ job[w].step = "load"
  BY DEF TypeOK, LoadThread
<1>2. /\ job' \in [Workers -> Job] /\ Elsewhere(w)
      /\ (job'[w].step = "idle" \/ (job'[w].step \in {"call", "missing"} /\ job'[w].msg = job[w].msg))
  BY <1>1, GotoFacts, DropFacts DEF LoadThread, Steps
<1>3. TypeOK'
  BY <1>1, <1>2 DEF LoadThread, TypeOK, summary, sqs, observed
<1>4. JobsOK'
  BY <1>1, <1>2 DEF JobsOK, Elsewhere
<1>5. ClaimsOK'
  BY <1>1, <1>2 DEF LoadThread, ClaimsOK, Elsewhere
<1>6. CallsOK'
  BY <1>1, <1>2 DEF LoadThread, CallsOK, ClaimsOK, JobsOK, Entitled, Elsewhere, observed
<1>7. ClaimedHasStatus'
  BY <1>1, <1>2 DEF LoadThread, ClaimedHasStatus, summary, sqs, observed
<1>8. NoTicketForgotten'
  BY <1>1, <1>2 DEF LoadThread, NoTicketForgotten, summary, sqs, observed
<1>9. QED  BY <1>3, <1>4, <1>5, <1>6, <1>7, <1>8

(* The LLM is called.                                                      *)
LEMMA CallStep ==
    ASSUME IInv, NEW w \in Workers, CallLlm(w)
    PROVE  IInv'
<1> USE DEF IInv
<1>1. job \in [Workers -> Job] /\ job[w].step = "call"
  BY DEF TypeOK, CallLlm
<1>2. /\ job' \in [Workers -> Job] /\ Elsewhere(w)
      /\ (job'[w].step = "idle" \/ (job'[w].step \in {"save", "fail"} /\ job'[w].msg = job[w].msg))
  BY <1>1, GotoFacts, DropFacts DEF CallLlm, Steps
<1>3. job[w].msg \in Messages /\ job[w].msg \in claimed
  BY <1>1 DEF JobsOK, ClaimsOK
<1>4. TypeOK'
  <2>1. calls' \in [Messages -> Nat]
    BY <1>3 DEF CallLlm, TypeOK
  <2>2. QED  BY <1>1, <1>2, <2>1 DEF CallLlm, TypeOK, summary, sqs
<1>5. JobsOK'
  BY <1>1, <1>2 DEF JobsOK, Elsewhere
<1>6. ClaimsOK'
  BY <1>1, <1>2 DEF CallLlm, ClaimsOK, Elsewhere
<1>7. CallsOK'
  BY <1>1, <1>2, <1>3 DEF CallLlm, CallsOK, Entitled, Elsewhere, TypeOK, JobsOK
<1>8. ClaimedHasStatus'
  BY <1>1, <1>2 DEF CallLlm, ClaimedHasStatus, summary, sqs, observed
<1>9. NoTicketForgotten'
  BY <1>1 DEF CallLlm, NoTicketForgotten, summary, sqs
<1>10. QED  BY <1>4, <1>5, <1>6, <1>7, <1>8, <1>9

(* Tx-2.                                                                   *)
LEMMA WritebackStep ==
    ASSUME IInv, NEW w \in Workers, Writeback(w)
    PROVE  IInv'
<1> USE DEF IInv
<1>1. job \in [Workers -> Job] /\ job[w].step = "save"
  BY DEF TypeOK, Writeback
<1>2. /\ job' \in [Workers -> Job] /\ Elsewhere(w)
      /\ job'[w].msg = job[w].msg
      /\ job'[w].step = "delete"
  BY <1>1, GotoFacts DEF Writeback, Steps
<1>3. job[w].msg \in Messages /\ job[w].msg[1] \in Tickets
  BY <1>1 DEF JobsOK, Messages
<1>4. TypeOK'
  BY <1>1, <1>2, <1>3 DEF Writeback, TypeOK, sqs, observed, SetStatus, Settled, Open
<1>5. JobsOK'
  BY <1>1, <1>2 DEF JobsOK, Elsewhere
<1>6. ClaimsOK'
  BY <1>1, <1>2 DEF Writeback, ClaimsOK, Elsewhere
<1>7. CallsOK'
  BY <1>1, <1>2 DEF Writeback, CallsOK, ClaimsOK, JobsOK, Entitled, Elsewhere, observed
<1>8. ClaimedHasStatus'
  BY <1>1, <1>3 DEF Writeback, ClaimedHasStatus, SetStatus, TypeOK, Messages
<1>9. NoTicketForgotten'
  BY <1>1, <1>3 DEF Writeback, NoTicketForgotten, SetStatus, TypeOK, sqs, observed
<1>10. QED  BY <1>4, <1>5, <1>6, <1>7, <1>8, <1>9

(* The terminal failure.                                                   *)
LEMMA MarkFailedStep ==
    ASSUME IInv, NEW w \in Workers, MarkFailed(w)
    PROVE  IInv'
<1> USE DEF IInv
<1>1. job \in [Workers -> Job] /\ job[w].step \in {"fail", "missing"}
  BY DEF TypeOK, MarkFailed
<1>2. /\ job' \in [Workers -> Job] /\ Elsewhere(w)
      /\ (job'[w].step = "idle" \/ (job'[w].step = "delete" /\ job'[w].msg = job[w].msg))
  BY <1>1, GotoFacts, DropFacts DEF MarkFailed, Steps
<1>3. job[w].msg \in Messages /\ job[w].msg[1] \in Tickets
  BY <1>1 DEF JobsOK, Messages
<1>4. TypeOK'
  BY <1>1, <1>2, <1>3, ConstantTypes DEF MarkFailed, TypeOK, sqs, observed, SetStatus, Settled, Open, Fault
<1>5. JobsOK'
  BY <1>1, <1>2 DEF JobsOK, Elsewhere
<1>6. ClaimsOK'
  BY <1>1, <1>2 DEF MarkFailed, ClaimsOK, Elsewhere
<1>7. CallsOK'
  BY <1>1, <1>2 DEF MarkFailed, CallsOK, ClaimsOK, JobsOK, Entitled, Elsewhere, observed
<1>8. ClaimedHasStatus'
  BY <1>1, <1>3 DEF MarkFailed, ClaimedHasStatus, SetStatus, TypeOK, Messages
<1>9. NoTicketForgotten'
  BY <1>1, <1>3 DEF MarkFailed, NoTicketForgotten, SetStatus, TypeOK, sqs, observed
<1>10. QED  BY <1>4, <1>5, <1>6, <1>7, <1>8, <1>9

(* The message is deleted.                                                 *)
LEMMA DeleteStep ==
    ASSUME IInv, NEW w \in Workers, Delete(w)
    PROVE  IInv'
<1> USE DEF IInv
<1>1. job \in [Workers -> Job] /\ job[w].step = "delete"
  BY DEF TypeOK, Delete
<1>2. /\ job' \in [Workers -> Job] /\ Elsewhere(w)
      /\ job'[w].step = "idle"
  BY <1>1, DropFacts DEF Delete, Steps
<1>3. TypeOK'
  BY <1>1, <1>2 DEF Delete, TypeOK, summary, sqs, observed
<1>4. JobsOK'
  BY <1>1, <1>2 DEF JobsOK, Elsewhere
<1>5. ClaimsOK'
  BY <1>1, <1>2 DEF Delete, ClaimsOK, Elsewhere
<1>6. CallsOK'
  BY <1>1, <1>2 DEF Delete, CallsOK, ClaimsOK, JobsOK, Entitled, Elsewhere, observed
<1>7. ClaimedHasStatus'
  BY <1>1, <1>2 DEF Delete, ClaimedHasStatus, summary, sqs, observed
<1>8. NoTicketForgotten'
  BY <1>1 DEF Delete, NoTicketForgotten, ClaimsOK, summary, observed
<1>9. QED  BY <1>3, <1>4, <1>5, <1>6, <1>7, <1>8

(* A crash or a failed statement.                                          *)
LEMMA AbandonStep ==
    ASSUME IInv, NEW w \in Workers, Abandon(w)
    PROVE  IInv'
<1> USE DEF IInv
<1>1. job \in [Workers -> Job] /\ job[w] # Idle
  BY DEF TypeOK, Abandon
<1>2. /\ job' \in [Workers -> Job] /\ Elsewhere(w)
      /\ job'[w].step = "idle"
  BY <1>1, DropFacts DEF Abandon, Steps
<1>3. TypeOK'
  BY <1>1, <1>2, ConstantTypes DEF Abandon, TypeOK, summary, sqs, observed, Fault
<1>4. JobsOK'
  BY <1>1, <1>2 DEF JobsOK, Elsewhere
<1>5. ClaimsOK'
  BY <1>1, <1>2 DEF Abandon, ClaimsOK, Elsewhere
<1>6. CallsOK'
  BY <1>1, <1>2 DEF Abandon, CallsOK, ClaimsOK, JobsOK, Entitled, Elsewhere, observed
<1>7. ClaimedHasStatus'
  BY <1>1, <1>2 DEF Abandon, ClaimedHasStatus, summary, sqs, observed
<1>8. NoTicketForgotten'
  BY <1>1, <1>2 DEF Abandon, NoTicketForgotten, summary, sqs, observed
<1>9. QED  BY <1>3, <1>4, <1>5, <1>6, <1>7, <1>8

(* A reception.                                                            *)
LEMMA ReceiveStep ==
    ASSUME IInv, NEW w \in Workers, NEW m \in queue, Receive(w, m)
    PROVE  IInv'
<1> USE DEF IInv
<1>1. job \in [Workers -> Job] /\ m \in Messages
  BY DEF TypeOK
<1>2. /\ job' \in [Workers -> Job] /\ Elsewhere(w)
      /\ job'[w].step = "claim" /\ job'[w].msg = m
  BY <1>1 DEF Receive, Idle, Job, Elsewhere
<1>3. TypeOK'
  BY <1>1, <1>2, ConstantTypes DEF Receive, TypeOK, summary, observed
<1>4. JobsOK'
  BY <1>1, <1>2 DEF JobsOK, Elsewhere
<1>5. ClaimsOK'
  BY <1>1, <1>2 DEF Receive, ClaimsOK, Elsewhere
<1>6. CallsOK'
  BY <1>1, <1>2 DEF Receive, CallsOK, ClaimsOK, JobsOK, Entitled, Elsewhere, observed
<1>7. ClaimedHasStatus'
  BY <1>1, <1>2 DEF Receive, ClaimedHasStatus, summary, observed
<1>8. NoTicketForgotten'
  BY <1>1, <1>2 DEF Receive, NoTicketForgotten, summary, observed
<1>9. QED  BY <1>3, <1>4, <1>5, <1>6, <1>7, <1>8

(* A message moves to the dead letter queue.                               *)
LEMMA DeadLetterStep ==
    ASSUME IInv, NEW m \in queue, DeadLetter(m)
    PROVE  IInv'
<1> USE DEF IInv
<1>1. job' = job /\ claimed' = claimed /\ calls' = calls
  BY DEF DeadLetter, summary, observed
<1>2. TypeOK'
  BY ConstantTypes DEF DeadLetter, TypeOK, summary, observed
<1>3. JobsOK'
  BY <1>1 DEF JobsOK
<1>4. ClaimsOK'
  BY <1>1 DEF ClaimsOK
<1>5. CallsOK'
  BY <1>1 DEF CallsOK, Entitled
<1>6. ClaimedHasStatus'
  BY <1>1 DEF DeadLetter, ClaimedHasStatus, summary, observed
<1>7. NoTicketForgotten'
  BY <1>1 DEF DeadLetter, NoTicketForgotten, summary, observed
<1>8. QED  BY <1>2, <1>3, <1>4, <1>5, <1>6, <1>7

(* A row grows old.                                                        *)
LEMMA AgesStep ==
    ASSUME IInv, NEW t \in Tickets, Ages(t)
    PROVE  IInv'
<1> USE DEF IInv
<1>1. job' = job /\ claimed' = claimed /\ calls' = calls
  BY DEF Ages, sqs, observed, Fault, Open
<1>2. TypeOK'
  BY ConstantTypes DEF Ages, TypeOK, sqs, observed, Fault, Open
<1>3. JobsOK'
  BY <1>1 DEF JobsOK
<1>4. ClaimsOK'
  BY <1>1 DEF ClaimsOK
<1>5. CallsOK'
  BY <1>1 DEF CallsOK, Entitled
<1>6. ClaimedHasStatus'
  BY <1>1 DEF Ages, ClaimedHasStatus, sqs, observed, Fault, Open
<1>7. NoTicketForgotten'
  BY <1>1 DEF Ages, NoTicketForgotten, sqs, observed
<1>8. QED  BY <1>2, <1>3, <1>4, <1>5, <1>6, <1>7

(* A ticket is resolved: its message is unclaimed while it has no summary. *)
LEMMA ResolveStep ==
    ASSUME IInv, NEW t \in Tickets, Resolve(t)
    PROVE  IInv'
<1> USE DEF IInv
<1>1. job' = job /\ claimed' = claimed /\ calls' = calls
  BY DEF Resolve, summary, observed
<1>2. /\ published' \in [Tickets -> 0..MaxMessages]
      /\ queue \subseteq queue' /\ queue' \subseteq Messages
      /\ <<t, published'[t]>> \in queue' /\ <<t, published'[t]>> \in Of(t)
  BY PublishFacts DEF Resolve
<1>3. /\ resolves' \in [Tickets -> 0..MaxResolves]
      /\ \A u \in Tickets : u # t => resolves'[u] = resolves[u]
  BY ConstantTypes DEF Resolve, TypeOK
<1>4. TypeOK'
  BY <1>1, <1>2, <1>3 DEF Resolve, TypeOK, summary
<1>5. JobsOK'
  BY <1>1 DEF JobsOK
<1>6. ClaimsOK'
  BY <1>1 DEF ClaimsOK
<1>7. CallsOK'
  BY <1>1 DEF CallsOK, Entitled
<1>8. ClaimedHasStatus'
  BY <1>1 DEF Resolve, ClaimedHasStatus, summary, observed
<1>9. NoTicketForgotten'
  <2> SUFFICES ASSUME NEW u \in Tickets, status'[u] = "none", resolves'[u] > 0
                 PROVE  \E m \in Of(u) : m \in (queue' \cup dead') \ claimed'
    BY <1>1 DEF NoTicketForgotten, Of
  <2>1. status[u] = "none" /\ dead' = dead
    BY DEF Resolve, summary
  <2>2. CASE u = t
    <3>1. <<t, published'[t]>> \notin claimed
      BY <2>1, <2>2 DEF ClaimedHasStatus
    <3>2. QED  BY <1>1, <1>2, <2>2, <3>1
  <2>3. CASE u # t
    BY <1>1, <1>2, <1>3, <2>1, <2>3 DEF NoTicketForgotten
  <2>4. QED  BY <2>2, <2>3
<1>10. QED  BY <1>4, <1>5, <1>6, <1>7, <1>8, <1>9

(* A run of the job.                                                       *)
LEMMA ReconcileStep ==
    ASSUME IInv, Reconcile
    PROVE  IInv'
<1> USE DEF IInv
<1>1. job' = job /\ claimed' = claimed /\ calls' = calls
  BY DEF Reconcile, observed
<1>2. stale \subseteq Tickets /\ \A t \in stale : status[t] \in Open
  BY DEF TypeOK
<1>3. /\ published' \in [Tickets -> 0..MaxMessages]
      /\ queue \subseteq queue' /\ queue' \subseteq Messages
  BY <1>2, PublishFacts DEF Reconcile
<1>4. /\ status' \in [Tickets -> {"none"} \cup Open \cup Settled]
      /\ \A t \in Tickets : status'[t] = "none" <=> status[t] = "none"
  BY <1>2 DEF Reconcile, TypeOK, Open, Settled
<1>5. TypeOK'
  BY <1>1, <1>3, <1>4 DEF Reconcile, TypeOK, observed
<1>6. JobsOK'
  BY <1>1 DEF JobsOK
<1>7. ClaimsOK'
  BY <1>1 DEF ClaimsOK
<1>8. CallsOK'
  BY <1>1 DEF CallsOK, Entitled
<1>9. ClaimedHasStatus'
  BY <1>1, <1>4 DEF ClaimedHasStatus, TypeOK, Messages
<1>10. NoTicketForgotten'
  BY <1>1, <1>3, <1>4 DEF Reconcile, NoTicketForgotten, observed, Of
<1>11. QED  BY <1>5, <1>6, <1>7, <1>8, <1>9, <1>10

(* The invariant is inductive.                                             *)
THEOREM InductiveStep == IInv /\ [Next]_vars => IInv'
<1>1. SUFFICES ASSUME IInv, [Next]_vars PROVE IInv'
  OBVIOUS
<1>2. CASE UNCHANGED vars
  BY <1>1, <1>2 DEF vars, summary, sqs, observed, IInv, TypeOK, JobsOK, ClaimsOK, CallsOK,
     Entitled, ClaimedHasStatus, NoTicketForgotten
<1>3. ASSUME NEW t \in Tickets, Resolve(t) \/ Ages(t) PROVE IInv'
  BY <1>1, <1>3, ResolveStep, AgesStep
<1>4. ASSUME NEW w \in Workers, WorkerStep(w) PROVE IInv'
  BY <1>1, <1>4, ReceiveStep, ClaimStep, SkipStep, StartStep, LoadStep, CallStep,
     WritebackStep, MarkFailedStep, DeleteStep DEF WorkerStep
<1>5. ASSUME NEW w \in Workers, Abandon(w) PROVE IInv'
  BY <1>1, <1>5, AbandonStep
<1>6. ASSUME NEW m \in queue, DeadLetter(m) PROVE IInv'
  BY <1>1, <1>6, DeadLetterStep
<1>7. CASE Reconcile
  BY <1>1, <1>7, ReconcileStep
<1>8. QED  BY <1>1, <1>2, <1>3, <1>4, <1>5, <1>6, <1>7 DEF Next

LEMMA Initially == Init => IInv
<1> SUFFICES ASSUME Init PROVE IInv
  OBVIOUS
<1>1. TypeOK
  BY ConstantTypes DEF Init, TypeOK, Idle, Job
<1>2. \A w \in Workers : job[w].step = "idle"
  BY DEF Init, Idle
<1>3. JobsOK /\ ClaimsOK
  BY <1>2 DEF JobsOK, ClaimsOK
<1>4. CallsOK /\ ClaimedHasStatus /\ NoTicketForgotten
  BY <1>2 DEF Init, CallsOK, Entitled, ClaimedHasStatus, NoTicketForgotten
<1>5. QED  BY <1>1, <1>3, <1>4 DEF IInv

(* The invariant holds in every reachable state.                           *)
THEOREM Invariant == Spec => []IInv
<1>1. QED  BY Initially, InductiveStep, PTL DEF Spec

(* Every variable keeps its type.                                          *)
THEOREM TypeCorrect == Spec => []TypeOK
<1>1. IInv => TypeOK  BY DEF IInv
<1>2. QED  BY <1>1, Invariant, PTL

(* However often a message is received, by however many workers, and       *)
(* whatever crashes: handle calls the LLM for it once at most.             *)
THEOREM MessageCallsOnce == Spec => []OneCallPerMessage
<1>1. IInv => OneCallPerMessage  BY DEF IInv, CallsOK, OneCallPerMessage
<1>2. QED  BY <1>1, Invariant, PTL

(* Only the dead letter queue takes a resolved ticket from the pipeline    *)
(* before it has a summary row.                                            *)
THEOREM TicketsNotForgotten == Spec => []NoTicketForgotten
<1>1. IInv => NoTicketForgotten  BY DEF IInv
<1>2. QED  BY <1>1, Invariant, PTL

-----------------------------------------------------------------------------
(* The retry budget of a ticket: what the attempts, the messages that may  *)
(* still be tried and the rows the job may re-enqueue have to do with each *)
(* other.                                                                  *)

(* A worker that holds the right to a message it may still settle.         *)
Working(w) == job[w].step \in {"start", "load", "call", "save", "fail", "missing"}

(* The messages of a ticket that nobody claimed yet.                       *)
Unclaimed(t) == {m \in Of(t) : m \in queue \ claimed}

(* The messages that may still change the ticket's summary.                *)
Live(t) == {m \in Of(t) : \/ m \in queue \ claimed
                          \/ \E w \in Workers : Serves(w, t) /\ job[w].msg = m}

(* The messages that cost an LLM call, or are about to.                    *)
Spent(t) == {m \in Of(t) : \/ calls[m] > 0
                           \/ \E w \in Workers : /\ job[w].step \in {"load", "call"}
                                                 /\ job[w].msg = m}

WorkOnce ==
    \A v, w \in Workers : Working(v) /\ Working(w) /\ job[v].msg = job[w].msg => v = w

(* A message is not deleted before it is claimed.                          *)
HeldIsQueued ==
    \A w \in Workers :
        job[w].step \in {"claim", "start"} /\ job[w].msg \notin claimed => job[w].msg \in queue

(* There are messages and summaries of resolved tickets only.              *)
ResolvedFirst ==
    /\ \A m \in queue : resolves[m[1]] > 0
    /\ \A t \in Tickets : status[t] # "none" => resolves[t] > 0

(* Every call was an attempt; each live message has a resolution or an     *)
(* early aging to its name, with one to spare when the row is stale or     *)
(* settled; and each unclaimed one still has an attempt left.              *)
Books(t) ==
    /\ Cardinality(Spent(t)) <= attempts[t]
    /\ Cardinality(Live(t)) <= resolves[t] + early[t]
    /\ t \in stale \/ status[t] \in Settled
         => Cardinality(Live(t)) + 1 <= resolves[t] + early[t]
    /\ attempts[t] + Cardinality(Unclaimed(t)) + 1 <= MaxAttempts + resolves[t] + early[t]

BudgetInv ==
    /\ WorkOnce
    /\ HeldIsQueued
    /\ ResolvedFirst
    /\ \A t \in Tickets : Books(t)

-----------------------------------------------------------------------------
(* Counting messages of one ticket.                                        *)

LEMMA OfFinite ==
    ASSUME NEW t \in Tickets
    PROVE  IsFiniteSet(Of(t))
<1>1. IsFiniteSet({t}) /\ IsFiniteSet(1..MaxMessages)
  <2>1. 1 \in Int /\ MaxMessages \in Int
    BY ConstantTypes
  <2>2. IsFiniteSet(1..MaxMessages)
    BY <2>1, FS_Interval
  <2>3. QED  BY <2>2, FS_Singleton
<1>2. IsFiniteSet({t} \X (1..MaxMessages))
  BY <1>1, FS_Product
<1>3. Of(t) \in SUBSET ({t} \X (1..MaxMessages))
  BY DEF Of, Messages
<1>4. QED  BY <1>2, <1>3, FS_Subset

LEMMA Counting ==
    ASSUME NEW t \in Tickets, NEW A \in SUBSET Of(t), NEW B \in SUBSET Of(t)
    PROVE  /\ Cardinality(A) \in Nat /\ Cardinality(B) \in Nat
           /\ A \subseteq B => Cardinality(A) <= Cardinality(B)
           /\ A \subseteq B /\ A # B => Cardinality(A) + 1 <= Cardinality(B)
           /\ \A m \in Of(t) : A \subseteq B \cup {m} => Cardinality(A) <= Cardinality(B) + 1
<1>1. IsFiniteSet(A) /\ IsFiniteSet(B)
  BY OfFinite, FS_Subset
<1>2. Cardinality(A) \in Nat /\ Cardinality(B) \in Nat
  BY <1>1, FS_CardinalityType
<1>3. A \subseteq B => Cardinality(A) <= Cardinality(B) /\ (Cardinality(B) = Cardinality(A) => B = A)
  BY <1>1, FS_Subset
<1>4. ASSUME NEW m \in Of(t), A \subseteq B \cup {m} PROVE Cardinality(A) <= Cardinality(B) + 1
  <2>1. /\ IsFiniteSet(B \cup {m})
        /\ Cardinality(B \cup {m}) = IF m \in B THEN Cardinality(B) ELSE Cardinality(B) + 1
    BY <1>1, FS_AddElement
  <2>2. Cardinality(A) <= Cardinality(B \cup {m}) /\ Cardinality(B \cup {m}) \in Nat
    BY <1>4, <2>1, FS_Subset, FS_CardinalityType
  <2>3. QED  BY <1>2, <2>1, <2>2
<1>5. A \subseteq B /\ A # B => Cardinality(A) + 1 <= Cardinality(B)
  BY <1>2, <1>3
<1>6. QED  BY <1>2, <1>3, <1>4, <1>5

LEMMA OfTicket ==
    /\ \A t \in Tickets : Unclaimed(t) \subseteq Live(t) /\ Live(t) \subseteq Of(t)
                            /\ Spent(t) \subseteq Of(t)
    /\ \A t \in Tickets : Unclaimed(t)' \subseteq Live(t)' /\ Live(t)' \subseteq Of(t)
                            /\ Spent(t)' \subseteq Of(t)
    /\ \A m \in Messages : m[1] \in Tickets /\ \A t \in Tickets : m \in Of(t) <=> m[1] = t
BY DEF Unclaimed, Live, Spent, Of, Messages

-----------------------------------------------------------------------------
(* What most steps do to the books: no message joins, and a row that goes  *)
(* stale or is settled had the room or loses a live message by it.         *)
Shrinks(t) ==
    /\ Unclaimed(t)' \subseteq Unclaimed(t)
    /\ Live(t)' \subseteq Live(t)
    /\ Spent(t)' \subseteq Spent(t)

LEMMA BooksKept ==
    ASSUME NEW t \in Tickets, Books(t), TypeOK, Shrinks(t),
           attempts'[t] = attempts[t], resolves'[t] = resolves[t], early'[t] = early[t],
           t \in stale' \/ status'[t] \in Settled
             => t \in stale \/ status[t] \in Settled \/ Live(t)' # Live(t)
    PROVE  Books(t)'
<1> DEFINE U == Unclaimed(t)
           V == Unclaimed(t)'
           L == Live(t)
           M == Live(t)'
           S == Spent(t)
           R == Spent(t)'
<1>1. /\ U \in SUBSET Of(t) /\ V \in SUBSET Of(t) /\ L \in SUBSET Of(t)
      /\ M \in SUBSET Of(t) /\ S \in SUBSET Of(t) /\ R \in SUBSET Of(t)
  BY OfTicket
<1>2. V \subseteq U /\ M \subseteq L /\ R \subseteq S
  BY DEF Shrinks
<1>3. /\ attempts[t] \in Nat /\ resolves[t] \in Nat /\ early[t] \in Nat
      /\ MaxAttempts \in Nat
  BY ConstantTypes DEF TypeOK
<1>4. /\ Cardinality(S) <= attempts[t]
      /\ Cardinality(L) <= resolves[t] + early[t]
      /\ t \in stale \/ status[t] \in Settled => Cardinality(L) + 1 <= resolves[t] + early[t]
      /\ attempts[t] + Cardinality(U) + 1 <= MaxAttempts + resolves[t] + early[t]
  BY DEF Books
<1>5. t \in stale' \/ status'[t] \in Settled => t \in stale \/ status[t] \in Settled \/ M # L
  OBVIOUS
<1>6. SUFFICES
      /\ Cardinality(R) <= attempts[t]
      /\ Cardinality(M) <= resolves[t] + early[t]
      /\ t \in stale' \/ status'[t] \in Settled => Cardinality(M) + 1 <= resolves[t] + early[t]
      /\ attempts[t] + Cardinality(V) + 1 <= MaxAttempts + resolves[t] + early[t]
  BY DEF Books
<1> HIDE DEF U, V, L, M, S, R
<1>7. Cardinality(R) <= Cardinality(S) /\ Cardinality(R) \in Nat /\ Cardinality(S) \in Nat
  BY <1>1, <1>2, Counting
<1>8. Cardinality(V) <= Cardinality(U) /\ Cardinality(V) \in Nat /\ Cardinality(U) \in Nat
  BY <1>1, <1>2, Counting
<1>9. /\ Cardinality(M) <= Cardinality(L) /\ Cardinality(M) \in Nat /\ Cardinality(L) \in Nat
      /\ M # L => Cardinality(M) + 1 <= Cardinality(L)
  BY <1>1, <1>2, Counting
<1>10. QED  BY <1>3, <1>4, <1>5, <1>7, <1>8, <1>9

-----------------------------------------------------------------------------
Serving == {"load", "call", "save", "fail", "missing"}

(* A worker's step that starts no work: it keeps its message or drops it,  *)
(* and what it still serves it served before.                              *)
MovesOn(w) ==
    /\ Elsewhere(w)
    /\ job'[w].step \in Serving \cup {"start"} => job'[w].msg = job[w].msg
    /\ job'[w].step \in Serving => job[w].step \in Serving
    /\ job'[w].step \in {"load", "call"} => job[w].step \in {"load", "call"}
    /\ queue' \subseteq queue /\ claimed \subseteq claimed'
    /\ \A m \in Messages :
           calls'[m] > 0 => calls[m] > 0 \/ (job[w].step = "call" /\ job[w].msg = m)

LEMMA MovesOnShrinks ==
    ASSUME NEW w \in Workers, MovesOn(w), NEW t \in Tickets
    PROVE  Shrinks(t)
<1>1. \A m \in Of(t) : m \in queue' \ claimed' => m \in queue \ claimed
  BY DEF MovesOn
<1>2. \A v \in Workers : job'[v].step \in Serving
                           => job[v].step \in Serving /\ job'[v].msg = job[v].msg
  BY DEF MovesOn, Elsewhere
<1>3. \A v \in Workers : job'[v].step \in {"load", "call"}
                           => job[v].step \in {"load", "call"} /\ job'[v].msg = job[v].msg
  BY DEF MovesOn, Elsewhere, Serving
<1>4. Unclaimed(t)' \subseteq Unclaimed(t)
  BY <1>1 DEF Unclaimed
<1>5. Live(t)' \subseteq Live(t)
  BY <1>1, <1>2 DEF Live, Serves, Serving
<1>6. Spent(t)' \subseteq Spent(t)
  <2> SUFFICES ASSUME NEW m \in Of(t), NEW v \in Workers,
                      calls'[m] > 0 \/ (job'[v].step \in {"load", "call"} /\ job'[v].msg = m)
               PROVE  m \in Spent(t)
    BY DEF Spent
  <2>1. CASE calls'[m] > 0
    BY <2>1 DEF MovesOn, Spent, Of
  <2>2. CASE job'[v].step \in {"load", "call"} /\ job'[v].msg = m
    BY <1>3, <2>2 DEF Spent
  <2>3. QED  BY <2>1, <2>2
<1>7. QED  BY <1>4, <1>5, <1>6 DEF Shrinks

(* A worker that moves on without writing the summary leaves the books.    *)
LEMMA QuietKeepsBooks ==
    ASSUME TypeOK, NEW w \in Workers, MovesOn(w), NEW t \in Tickets, Books(t),
           status' = status, stale' = stale, attempts' = attempts,
           resolves' = resolves, early' = early
    PROVE  Books(t)'
BY MovesOnShrinks, BooksKept

(* One that settles the summary of its ticket gives up a live message.     *)
LEMMA SettlingKeepsBooks ==
    ASSUME TypeOK, NEW w \in Workers, MovesOn(w), NEW t \in Tickets, Books(t),
           attempts' = attempts, resolves' = resolves, early' = early,
           NEW m \in Messages, NEW s \in Settled, SetStatus(m[1], s),
           m \in Live(m[1]), m \notin Live(m[1])'
    PROVE  Books(t)'
<1>1. Shrinks(t)
  BY MovesOnShrinks
<1>2. t = m[1] => Live(t)' # Live(t)
  OBVIOUS
<1>3. t # m[1] => status'[t] = status[t]
  BY DEF SetStatus, TypeOK
<1>4. stale' \subseteq stale
  BY DEF SetStatus
<1>5. QED  BY <1>1, <1>2, <1>3, <1>4, BooksKept

(* The last one with the right to a message takes it from the live ones.   *)
LEMMA LastOne ==
    ASSUME NEW w \in Workers, Elsewhere(w), WorkOnce, Working(w), NEW m \in Messages,
           m = job[w].msg, m \in claimed', job'[w].step \notin Serving
    PROVE  m \notin Live(m[1])'
<1>1. ASSUME NEW v \in Workers, Serves(v, m[1])', job'[v].msg = m PROVE FALSE
  <2>1. v # w
    BY <1>1 DEF Serves, Serving
  <2>2. Working(v) /\ job[v].msg = m
    BY <1>1, <2>1 DEF Elsewhere, Serves, Working
  <2>3. QED  BY <2>1, <2>2 DEF WorkOnce
<1>2. QED  BY <1>1 DEF Live

LEMMA WorkingIsLive ==
    ASSUME IInv, BudgetInv, NEW w \in Workers, Working(w)
    PROVE  /\ job[w].msg \in Messages /\ job[w].msg[1] \in Tickets
           /\ job[w].msg \in Live(job[w].msg[1])
           /\ job[w].step = "start" => job[w].msg \in Unclaimed(job[w].msg[1])
<1>1. job[w].msg \in Messages /\ job[w].msg[1] \in Tickets
  BY DEF IInv, JobsOK, Working, Messages
<1>2. job[w].msg \in Of(job[w].msg[1])
  BY <1>1 DEF Of
<1>3. job[w].step = "start" => job[w].msg \in queue \ claimed
  BY DEF IInv, ClaimsOK, BudgetInv, HeldIsQueued
<1>4. job[w].step # "start" => Serves(w, job[w].msg[1])
  BY DEF Working, Serves
<1>5. QED  BY <1>1, <1>2, <1>3, <1>4 DEF Live, Unclaimed

-----------------------------------------------------------------------------
LEMMA RightsKept ==
    ASSUME WorkOnce, HeldIsQueued, NEW w \in Workers, Elsewhere(w),
           claimed \subseteq claimed', queue' = queue,
           Working(w)' => Working(w) /\ job'[w].msg = job[w].msg,
           job'[w].step \in {"claim", "start"}
             => job[w].step \in {"claim", "start"} /\ job'[w].msg = job[w].msg
    PROVE  WorkOnce' /\ HeldIsQueued'
<1>1. \A v \in Workers : Working(v)' => Working(v) /\ job'[v].msg = job[v].msg
  BY DEF Working, Elsewhere
<1>2. \A v \in Workers : job'[v].step \in {"claim", "start"}
                           => job[v].step \in {"claim", "start"} /\ job'[v].msg = job[v].msg
  BY DEF Elsewhere
<1>3. QED  BY <1>1, <1>2 DEF WorkOnce, HeldIsQueued

(* A write of the summary comes after a resolution.                        *)
LEMMA ResolvedKept ==
    ASSUME IInv, BudgetInv, NEW w \in Workers, Working(w), NEW s \in Open \cup Settled,
           SetStatus(job[w].msg[1], s), queue' = queue, resolves' = resolves
    PROVE  ResolvedFirst'
<1> DEFINE t == job[w].msg[1]
<1>1. t \in Tickets /\ job[w].msg \in Messages
  BY WorkingIsLive
<1>2. resolves[t] > 0
  <2>1. CASE job[w].step = "start"
    BY <2>1, WorkingIsLive DEF BudgetInv, ResolvedFirst, Unclaimed
  <2>2. CASE job[w].step # "start"
    <3>1. job[w].msg \in claimed
      BY <2>2 DEF Working, IInv, ClaimsOK
    <3>2. status[t] # "none"
      BY <3>1 DEF IInv, ClaimedHasStatus
    <3>3. QED  BY <1>1, <3>2 DEF BudgetInv, ResolvedFirst
  <2>3. QED  BY <2>1, <2>2
<1>3. \A u \in Tickets : u # t => status'[u] = status[u]
  BY DEF SetStatus, IInv, TypeOK
<1>4. QED  BY <1>2, <1>3 DEF BudgetInv, ResolvedFirst

LEMMA ClaimBudget ==
    ASSUME IInv, BudgetInv, NEW w \in Workers, Claim(w)
    PROVE  BudgetInv'
<1>1. job \in [Workers -> Job] /\ TypeOK /\ job[w].step = "claim"
  BY DEF Claim, IInv, TypeOK
<1>2. /\ Elsewhere(w) /\ job'[w].msg = job[w].msg
      /\ job'[w].step = IF job[w].msg \in claimed THEN "delete" ELSE "start"
  BY <1>1, GotoFacts DEF Claim, Steps
<1>3. /\ queue' = queue /\ claimed' = claimed /\ calls' = calls /\ status' = status
      /\ stale' = stale /\ attempts' = attempts /\ resolves' = resolves /\ early' = early
  BY DEF Claim, summary, sqs, observed
<1>4. WorkOnce'
  <2>1. ASSUME NEW v \in Workers, v # w, Working(v), Working(w)', job[v].msg = job[w].msg
        PROVE  FALSE
    <3>1. job[w].msg \notin claimed
      BY <1>2, <2>1 DEF Working
    <3>2. job[v].step = "start"
      BY <2>1, <3>1 DEF IInv, ClaimsOK, Working
    <3>3. QED  BY <2>1, <3>2 DEF Claim
  <2>2. \A v \in Workers : v # w => (Working(v)' <=> Working(v)) /\ job'[v].msg = job[v].msg
    BY <1>2 DEF Elsewhere, Working
  <2>3. QED  BY <1>2, <2>1, <2>2 DEF BudgetInv, WorkOnce
<1>5. HeldIsQueued'
  BY <1>1, <1>2, <1>3 DEF BudgetInv, HeldIsQueued, Elsewhere
<1>6. ResolvedFirst'
  BY <1>3 DEF BudgetInv, ResolvedFirst
<1>7. MovesOn(w)
  BY <1>2, <1>3 DEF MovesOn, Serving
<1>8. \A t \in Tickets : Books(t)'
  BY <1>1, <1>3, <1>7, QuietKeepsBooks DEF BudgetInv
<1>9. QED  BY <1>4, <1>5, <1>6, <1>8 DEF BudgetInv

LEMMA SkipBudget ==
    ASSUME IInv, BudgetInv, NEW w \in Workers, Skip(w)
    PROVE  BudgetInv'
<1>1. job \in [Workers -> Job] /\ TypeOK /\ job[w].step = "start" /\ Working(w)
  BY DEF Skip, IInv, TypeOK, Working
<1>2. Elsewhere(w) /\ job'[w].msg = job[w].msg /\ job'[w].step = "delete"
  BY <1>1, GotoFacts DEF Skip, Steps
<1>3. /\ queue' = queue /\ calls' = calls /\ attempts' = attempts
      /\ resolves' = resolves /\ early' = early
      /\ claimed' = claimed \cup {job[w].msg}
  BY DEF Skip, sqs, observed
<1>4. "skipped" \in Settled /\ SetStatus(job[w].msg[1], "skipped")
  BY DEF Skip, Settled
<1>5. WorkOnce' /\ HeldIsQueued'
  BY <1>1, <1>2, <1>3, RightsKept DEF Working, BudgetInv
<1>6. ResolvedFirst'
  BY <1>1, <1>3, <1>4, ResolvedKept
<1>7. MovesOn(w)
  BY <1>2, <1>3 DEF MovesOn, Serving
<1>8. ASSUME NEW t \in Tickets PROVE Books(t)'
  <2>1. PICK m \in Messages : m = job[w].msg
    BY <1>1, WorkingIsLive
  <2>2. m \in Live(m[1]) /\ m \notin Live(m[1])'
    <3>1. m \in Live(m[1])
      BY <1>1, <2>1, WorkingIsLive
    <3>2. m \notin Live(m[1])'
      BY <1>1, <1>2, <1>3, <2>1, LastOne DEF BudgetInv, Serving
    <3>3. QED  BY <3>1, <3>2
  <2>3. SetStatus(m[1], "skipped")
    BY <1>4, <2>1
  <2>4. Books(t)
    BY DEF BudgetInv
  <2>5. QED  BY <1>1, <1>3, <1>4, <1>7, <2>2, <2>3, <2>4, SettlingKeepsBooks
<1>9. QED  BY <1>5, <1>6, <1>8 DEF BudgetInv

LEMMA StartBudget ==
    ASSUME IInv, BudgetInv, NEW w \in Workers, Start(w)
    PROVE  BudgetInv'
<1>1. job \in [Workers -> Job] /\ TypeOK /\ job[w].step = "start" /\ Working(w)
  BY DEF Start, IInv, TypeOK, Working
<1>2. PICK m \in Messages : m = job[w].msg
  BY <1>1, WorkingIsLive
<1>3. PICK t \in Tickets : t = m[1]
  BY OfTicket
<1>4. Elsewhere(w) /\ job'[w].msg = m /\ job'[w].step = "load"
  <2>1. attempts'[t] \in Nat
    BY <1>1, <1>2, <1>3 DEF Start, TypeOK
  <2>2. QED  BY <1>1, <1>2, <1>3, <2>1 DEF Start, Job, Elsewhere
<1>5. /\ queue' = queue /\ calls' = calls /\ resolves' = resolves /\ early' = early
      /\ claimed' = claimed \cup {m}
      /\ attempts' = [attempts EXCEPT ![t] = @ + 1]
  BY <1>2, <1>3 DEF Start, sqs, observed
<1>6. "running" \in Open /\ SetStatus(t, "running")
  BY <1>2, <1>3 DEF Start, Open
<1>7. WorkOnce' /\ HeldIsQueued'
  BY <1>1, <1>4, <1>5, <1>2, RightsKept DEF Working, BudgetInv
<1>8. ResolvedFirst'
  BY <1>1, <1>5, <1>6, <1>2, <1>3, ResolvedKept
<1>9. m \in Unclaimed(t) /\ m \notin Unclaimed(t)'
  BY <1>1, <1>5, <1>2, <1>3, WorkingIsLive DEF Unclaimed
<1>10. ASSUME NEW u \in Tickets
      PROVE  /\ Unclaimed(u)' \subseteq Unclaimed(u)
             /\ Live(u)' \subseteq Live(u)
             /\ Spent(u)' \subseteq Spent(u) \cup {m}
             /\ u # t => Spent(u)' \subseteq Spent(u)
  <2>1. Unclaimed(u)' \subseteq Unclaimed(u)
    BY <1>5 DEF Unclaimed
  <2>2. \A v \in Workers : v # w => job'[v] = job[v]
    BY <1>4 DEF Elsewhere
  <2>3. Live(u)' \subseteq Live(u)
    <3>1. Serves(w, u)' => u = t
      BY <1>4, <1>3 DEF Serves
    <3>2. u = t => m \in Live(u)
      BY <1>9, OfTicket
    <3>3. \A x \in Of(u) : x \in queue' \ claimed' => x \in queue \ claimed
      BY <1>5
    <3>4. QED  BY <1>4, <2>2, <3>1, <3>2, <3>3 DEF Live, Serves
  <2>4. Spent(u)' \subseteq Spent(u) \cup {m}
    BY <1>4, <1>5, <2>2 DEF Spent
  <2>5. u # t => m \notin Of(u)
    BY <1>3 DEF Of
  <2>6. QED  BY <2>1, <2>3, <2>4, <2>5, OfTicket
<1>11. ASSUME NEW u \in Tickets, u # t PROVE Books(u)'
  <2>1. Shrinks(u)
    BY <1>10, <1>11 DEF Shrinks
  <2>2. /\ attempts'[u] = attempts[u] /\ status'[u] = status[u]
        /\ u \in stale' => u \in stale
    BY <1>1, <1>5, <1>6, <1>11 DEF SetStatus, TypeOK
  <2>3. QED  BY <1>1, <1>5, <2>1, <2>2, BooksKept DEF BudgetInv
<1>12. Books(t)'
  <2>1. /\ attempts[t] \in Nat /\ resolves[t] \in Nat /\ early[t] \in Nat
        /\ MaxAttempts \in Nat /\ attempts'[t] = attempts[t] + 1
        /\ resolves'[t] = resolves[t] /\ early'[t] = early[t]
    BY <1>1, <1>5, ConstantTypes DEF TypeOK
  <2>2. t \notin stale' /\ status'[t] \notin Settled
    BY <1>1, <1>6 DEF SetStatus, TypeOK, Settled
  <2>3. Books(t)
    BY <1>1 DEF BudgetInv
  <2> DEFINE U == Unclaimed(t)
             V == Unclaimed(t)'
             L == Live(t)
             M == Live(t)'
             S == Spent(t)
             R == Spent(t)'
  <2>4. /\ U \in SUBSET Of(t) /\ V \in SUBSET Of(t) /\ L \in SUBSET Of(t)
        /\ M \in SUBSET Of(t) /\ S \in SUBSET Of(t) /\ R \in SUBSET Of(t)
        /\ m \in Of(t)
    BY <1>3, OfTicket
  <2>5. V \subseteq U /\ V # U /\ M \subseteq L /\ R \subseteq S \cup {m}
    BY <1>9, <1>10
  <2>6. /\ Cardinality(S) <= attempts[t]
        /\ Cardinality(L) <= resolves[t] + early[t]
        /\ attempts[t] + Cardinality(U) + 1 <= MaxAttempts + resolves[t] + early[t]
    BY <2>3 DEF Books
  <2>7. SUFFICES
        /\ Cardinality(R) <= attempts'[t]
        /\ Cardinality(M) <= resolves[t] + early[t]
        /\ attempts'[t] + Cardinality(V) + 1 <= MaxAttempts + resolves[t] + early[t]
    BY <2>1, <2>2 DEF Books
  <2> HIDE DEF U, V, L, M, S, R
  <2>8. Cardinality(R) <= Cardinality(S) + 1 /\ Cardinality(R) \in Nat /\ Cardinality(S) \in Nat
    BY <1>1, <2>4, <2>5, Counting
  <2>9. Cardinality(V) + 1 <= Cardinality(U) /\ Cardinality(V) \in Nat /\ Cardinality(U) \in Nat
    BY <1>1, <2>4, <2>5, Counting
  <2>10. Cardinality(M) <= Cardinality(L) /\ Cardinality(M) \in Nat /\ Cardinality(L) \in Nat
    BY <1>1, <2>4, <2>5, Counting
  <2>11. QED  BY <2>1, <2>6, <2>8, <2>9, <2>10
<1>13. QED  BY <1>7, <1>8, <1>11, <1>12 DEF BudgetInv

LEMMA LoadBudget ==
    ASSUME IInv, BudgetInv, NEW w \in Workers, LoadThread(w)
    PROVE  BudgetInv'
<1>1. job \in [Workers -> Job] /\ TypeOK /\ job[w].step = "load"
  BY DEF LoadThread, IInv, TypeOK
<1>2. /\ Elsewhere(w)
      /\ \/ job'[w].step = "idle"
         \/ job'[w].step \in {"call", "missing"} /\ job'[w].msg = job[w].msg
  BY <1>1, GotoFacts, DropFacts DEF LoadThread, Steps
<1>3. /\ queue' = queue /\ claimed' = claimed /\ calls' = calls /\ status' = status
      /\ stale' = stale /\ attempts' = attempts /\ resolves' = resolves /\ early' = early
  BY DEF LoadThread, summary, sqs, observed
<1>4. WorkOnce' /\ HeldIsQueued'
  BY <1>1, <1>2, <1>3, RightsKept DEF Working, BudgetInv
<1>5. ResolvedFirst'
  BY <1>3 DEF BudgetInv, ResolvedFirst
<1>6. MovesOn(w)
  BY <1>1, <1>2, <1>3 DEF MovesOn, Serving
<1>7. \A t \in Tickets : Books(t)'
  BY <1>1, <1>3, <1>6, QuietKeepsBooks DEF BudgetInv
<1>8. QED  BY <1>4, <1>5, <1>7 DEF BudgetInv

LEMMA CallBudget ==
    ASSUME IInv, BudgetInv, NEW w \in Workers, CallLlm(w)
    PROVE  BudgetInv'
<1>1. job \in [Workers -> Job] /\ TypeOK /\ job[w].step = "call"
  BY DEF CallLlm, IInv, TypeOK
<1>2. /\ Elsewhere(w)
      /\ \/ job'[w].step = "idle"
         \/ job'[w].step \in {"save", "fail"} /\ job'[w].msg = job[w].msg
  BY <1>1, GotoFacts, DropFacts DEF CallLlm, Steps
<1>3. /\ queue' = queue /\ claimed' = claimed /\ status' = status
      /\ stale' = stale /\ attempts' = attempts /\ resolves' = resolves /\ early' = early
      /\ calls' = [calls EXCEPT ![job[w].msg] = @ + 1]
  BY DEF CallLlm, summary, sqs
<1>4. WorkOnce' /\ HeldIsQueued'
  BY <1>1, <1>2, <1>3, RightsKept DEF Working, BudgetInv
<1>5. ResolvedFirst'
  BY <1>3 DEF BudgetInv, ResolvedFirst
<1>6. \A m \in Messages : m # job[w].msg => calls'[m] = calls[m]
  BY <1>1, <1>3 DEF TypeOK
<1>7. MovesOn(w)
  BY <1>1, <1>2, <1>3, <1>6 DEF MovesOn, Serving
<1>8. \A t \in Tickets : Books(t)'
  BY <1>1, <1>3, <1>7, QuietKeepsBooks DEF BudgetInv
<1>9. QED  BY <1>4, <1>5, <1>8 DEF BudgetInv

LEMMA WritebackBudget ==
    ASSUME IInv, BudgetInv, NEW w \in Workers, Writeback(w)
    PROVE  BudgetInv'
<1>1. job \in [Workers -> Job] /\ TypeOK /\ job[w].step = "save" /\ Working(w)
  BY DEF Writeback, IInv, TypeOK, Working
<1>2. Elsewhere(w) /\ job'[w].msg = job[w].msg /\ job'[w].step = "delete"
  BY <1>1, GotoFacts DEF Writeback, Steps
<1>3. /\ queue' = queue /\ calls' = calls /\ attempts' = attempts
      /\ resolves' = resolves /\ early' = early /\ claimed' = claimed
      /\ job[w].msg \in claimed
  BY <1>1 DEF Writeback, sqs, observed, IInv, ClaimsOK
<1>4. "succeeded" \in Settled /\ SetStatus(job[w].msg[1], "succeeded")
  BY DEF Writeback, Settled
<1>5. WorkOnce' /\ HeldIsQueued'
  BY <1>1, <1>2, <1>3, RightsKept DEF Working, BudgetInv
<1>6. ResolvedFirst'
  BY <1>1, <1>3, <1>4, ResolvedKept
<1>7. MovesOn(w)
  BY <1>2, <1>3 DEF MovesOn, Serving
<1>8. ASSUME NEW t \in Tickets PROVE Books(t)'
  <2>1. PICK m \in Messages : m = job[w].msg
    BY <1>1, WorkingIsLive
  <2>2. m \in Live(m[1])
    BY <1>1, <2>1, WorkingIsLive
  <2>3. m \notin Live(m[1])'
    BY <1>1, <1>2, <1>3, <2>1, LastOne DEF BudgetInv, Serving
  <2>4. SetStatus(m[1], "succeeded")
    BY <1>4, <2>1
  <2>5. Books(t)
    BY DEF BudgetInv
  <2>6. QED  BY <1>1, <1>3, <1>4, <1>7, <2>2, <2>3, <2>4, <2>5, SettlingKeepsBooks
<1>9. QED  BY <1>5, <1>6, <1>8 DEF BudgetInv

LEMMA MarkFailedBudget ==
    ASSUME IInv, BudgetInv, NEW w \in Workers, MarkFailed(w)
    PROVE  BudgetInv'
<1>1. job \in [Workers -> Job] /\ TypeOK /\ job[w].step \in {"fail", "missing"} /\ Working(w)
  BY DEF MarkFailed, IInv, TypeOK, Working
<1>2. /\ Elsewhere(w)
      /\ \/ job'[w].step = "idle"
         \/ job'[w].step = "delete" /\ job'[w].msg = job[w].msg
  BY <1>1, GotoFacts, DropFacts DEF MarkFailed, Steps
<1>3. /\ queue' = queue /\ calls' = calls /\ attempts' = attempts
      /\ resolves' = resolves /\ early' = early /\ claimed' = claimed
      /\ job[w].msg \in claimed
  BY <1>1 DEF MarkFailed, sqs, observed, IInv, ClaimsOK
<1>4. "failed" \in Settled
  BY DEF Settled
<1>5. SetStatus(job[w].msg[1], "failed") \/ (status' = status /\ stale' = stale)
  BY DEF MarkFailed
<1>6. WorkOnce' /\ HeldIsQueued'
  BY <1>1, <1>2, <1>3, RightsKept DEF Working, BudgetInv
<1>7. ResolvedFirst'
  <2>1. CASE SetStatus(job[w].msg[1], "failed")
    BY <1>1, <1>3, <1>4, <2>1, ResolvedKept
  <2>2. CASE status' = status
    BY <1>3, <2>2 DEF BudgetInv, ResolvedFirst
  <2>3. QED  BY <1>5, <2>1, <2>2
<1>8. MovesOn(w)
  BY <1>2, <1>3 DEF MovesOn, Serving
<1>9. ASSUME NEW t \in Tickets PROVE Books(t)'
  <2>1. PICK m \in Messages : m = job[w].msg
    BY <1>1, WorkingIsLive
  <2>2. m \in Live(m[1])
    BY <1>1, <2>1, WorkingIsLive
  <2>3. m \notin Live(m[1])'
    BY <1>1, <1>2, <1>3, <2>1, LastOne DEF BudgetInv, Serving
  <2>4. Books(t)
    BY DEF BudgetInv
  <2>5. CASE SetStatus(m[1], "failed")
    BY <1>1, <1>3, <1>4, <1>8, <2>2, <2>3, <2>4, <2>5, SettlingKeepsBooks
  <2>6. CASE status' = status /\ stale' = stale
    BY <1>1, <1>3, <1>8, <2>4, <2>6, QuietKeepsBooks
  <2>7. QED  BY <1>5, <2>1, <2>5, <2>6
<1>10. QED  BY <1>6, <1>7, <1>9 DEF BudgetInv

LEMMA DeleteBudget ==
    ASSUME IInv, BudgetInv, NEW w \in Workers, Delete(w)
    PROVE  BudgetInv'
<1>1. /\ job \in [Workers -> Job] /\ TypeOK /\ job[w].step = "delete"
      /\ job[w].msg \in claimed
  BY DEF Delete, IInv, TypeOK, ClaimsOK
<1>2. Elsewhere(w) /\ job'[w].step = "idle"
  BY <1>1, DropFacts DEF Delete
<1>3. /\ queue' = queue \ {job[w].msg} /\ claimed' = claimed /\ calls' = calls
      /\ status' = status /\ stale' = stale /\ attempts' = attempts
      /\ resolves' = resolves /\ early' = early
  BY DEF Delete, summary, observed
<1>4. WorkOnce'
  BY <1>2 DEF BudgetInv, WorkOnce, Working, Elsewhere
<1>5. HeldIsQueued'
  BY <1>1, <1>2, <1>3 DEF BudgetInv, HeldIsQueued, Elsewhere
<1>6. ResolvedFirst'
  BY <1>3 DEF BudgetInv, ResolvedFirst
<1>7. MovesOn(w)
  BY <1>2, <1>3 DEF MovesOn, Serving
<1>8. \A t \in Tickets : Books(t)'
  BY <1>1, <1>3, <1>7, QuietKeepsBooks DEF BudgetInv
<1>9. QED  BY <1>4, <1>5, <1>6, <1>8 DEF BudgetInv

LEMMA AbandonBudget ==
    ASSUME IInv, BudgetInv, NEW w \in Workers, Abandon(w)
    PROVE  BudgetInv'
<1>1. job \in [Workers -> Job] /\ TypeOK
  BY DEF IInv, TypeOK
<1>2. Elsewhere(w) /\ job'[w].step = "idle"
  BY <1>1, DropFacts DEF Abandon
<1>3. /\ queue' = queue /\ claimed' = claimed /\ calls' = calls /\ status' = status
      /\ stale' = stale /\ attempts' = attempts /\ resolves' = resolves /\ early' = early
  BY DEF Abandon, summary, sqs, observed
<1>4. WorkOnce' /\ HeldIsQueued'
  BY <1>1, <1>2, <1>3, RightsKept DEF Working, BudgetInv
<1>5. ResolvedFirst'
  BY <1>3 DEF BudgetInv, ResolvedFirst
<1>6. MovesOn(w)
  BY <1>2, <1>3 DEF MovesOn, Serving
<1>7. \A t \in Tickets : Books(t)'
  BY <1>1, <1>3, <1>6, QuietKeepsBooks DEF BudgetInv
<1>8. QED  BY <1>4, <1>5, <1>7 DEF BudgetInv

LEMMA ReceiveBudget ==
    ASSUME IInv, BudgetInv, NEW w \in Workers, NEW m \in queue, Receive(w, m)
    PROVE  BudgetInv'
<1>1. job \in [Workers -> Job] /\ TypeOK /\ job[w] = Idle
  BY DEF Receive, IInv, TypeOK
<1>2. Elsewhere(w) /\ job'[w].step = "claim" /\ job'[w].msg = m
  BY <1>1 DEF Receive, Idle, Job, Elsewhere
<1>3. /\ queue' = queue /\ claimed' = claimed /\ calls' = calls /\ status' = status
      /\ stale' = stale /\ attempts' = attempts /\ resolves' = resolves /\ early' = early
  BY DEF Receive, summary, observed
<1>4. WorkOnce'
  BY <1>2 DEF BudgetInv, WorkOnce, Working, Elsewhere
<1>5. HeldIsQueued'
  BY <1>2, <1>3 DEF BudgetInv, HeldIsQueued, Elsewhere
<1>6. ResolvedFirst'
  BY <1>3 DEF BudgetInv, ResolvedFirst
<1>7. MovesOn(w)
  BY <1>2, <1>3 DEF MovesOn, Serving
<1>8. \A t \in Tickets : Books(t)'
  BY <1>1, <1>3, <1>7, QuietKeepsBooks DEF BudgetInv
<1>9. QED  BY <1>4, <1>5, <1>6, <1>8 DEF BudgetInv

LEMMA DeadLetterBudget ==
    ASSUME IInv, BudgetInv, NEW m \in queue, DeadLetter(m)
    PROVE  BudgetInv'
<1>1. /\ queue' = queue \ {m} /\ claimed' = claimed /\ calls' = calls /\ status' = status
      /\ stale' = stale /\ attempts' = attempts /\ resolves' = resolves /\ early' = early
      /\ job' = job
  BY DEF DeadLetter, summary, observed
<1>2. \A w \in Workers : job[w].msg # m
  BY DEF DeadLetter
<1>3. WorkOnce'
  BY <1>1 DEF BudgetInv, WorkOnce, Working
<1>4. HeldIsQueued'
  BY <1>1, <1>2 DEF BudgetInv, HeldIsQueued
<1>5. ResolvedFirst'
  BY <1>1 DEF BudgetInv, ResolvedFirst
<1>6. ASSUME NEW t \in Tickets PROVE Books(t)'
  <2>1. Shrinks(t)
    BY <1>1 DEF Shrinks, Unclaimed, Live, Spent, Serves
  <2>2. QED  BY <1>1, <2>1, BooksKept DEF BudgetInv, IInv
<1>7. QED  BY <1>3, <1>4, <1>5, <1>6 DEF BudgetInv

(* A row that ages under way is given its account; one that ages with      *)
(* nothing under way has no live message and had a resolution.             *)
LEMMA AgesBudget ==
    ASSUME IInv, BudgetInv, NEW t \in Tickets, Ages(t)
    PROVE  BudgetInv'
<1>1. /\ queue' = queue /\ claimed' = claimed /\ calls' = calls /\ status' = status
      /\ attempts' = attempts /\ resolves' = resolves /\ job' = job
      /\ stale' = stale \cup {t}
  BY DEF Ages, sqs, observed, Fault
<1>2. WorkOnce' /\ HeldIsQueued' /\ ResolvedFirst'
  BY <1>1 DEF BudgetInv, WorkOnce, HeldIsQueued, ResolvedFirst, Working
<1>3. \A u \in Tickets : /\ Unclaimed(u)' = Unclaimed(u)
                         /\ Live(u)' = Live(u)
                         /\ Spent(u)' = Spent(u)
  BY <1>1 DEF Unclaimed, Live, Spent, Serves
<1>4. \A u \in Tickets : u # t => early'[u] = early[u]
  BY DEF Ages, IInv, TypeOK
<1>5. ASSUME NEW u \in Tickets, u # t PROVE Books(u)'
  <2>1. Shrinks(u)
    BY <1>3 DEF Shrinks
  <2>2. QED  BY <1>1, <1>4, <1>5, <2>1, BooksKept DEF BudgetInv, IInv
<1>6. Books(t)'
  <2>1. /\ attempts[t] \in Nat /\ resolves[t] \in Nat /\ early[t] \in Nat /\ MaxAttempts \in Nat
    BY ConstantTypes DEF IInv, TypeOK
  <2>2. Books(t) /\ resolves[t] > 0
    BY DEF BudgetInv, ResolvedFirst, Ages, Open
  <2>3. /\ Cardinality(Unclaimed(t)) \in Nat
        /\ Cardinality(Live(t)) \in Nat
    BY OfTicket, Counting
  <2>4. CASE UnderWay(t)
    <3>1. early'[t] = early[t] + 1
      BY <2>4 DEF Ages, IInv, TypeOK
    <3>2. Cardinality(Live(t)) + 1 <= resolves[t] + early[t] + 1
      BY <2>1, <2>2, <2>3 DEF Books
    <3>3. attempts[t] + Cardinality(Unclaimed(t)) + 1 <= MaxAttempts + resolves[t] + (early[t] + 1)
      BY <2>1, <2>2, <2>3 DEF Books
    <3>4. Cardinality(Live(t)) <= resolves[t] + (early[t] + 1)
      BY <2>1, <2>3, <3>2
    <3>5. QED  BY <1>1, <1>3, <2>1, <2>2, <2>3, <3>1, <3>2, <3>3, <3>4 DEF Books
  <2>5. CASE ~UnderWay(t)
    <3>1. early'[t] = early[t]
      BY <2>5 DEF Ages
    <3>2. Live(t) = {}
      BY <2>5 DEF UnderWay, Live
    <3>3. Cardinality(Live(t)) = 0
      BY <3>2, FS_EmptySet
    <3>4. Cardinality(Live(t)) + 1 <= resolves[t] + early[t]
      BY <2>1, <2>2, <3>3
    <3>5. QED  BY <1>1, <1>3, <2>2, <3>1, <3>4 DEF Books
  <2>6. QED  BY <2>4, <2>5
<1>7. QED  BY <1>2, <1>5, <1>6 DEF BudgetInv

(* What a new message of a ticket does to its sets.                        *)
LEMMA Joined ==
    ASSUME NEW t \in Tickets, NEW m \in Of(t), claimed' = claimed, calls' = calls, job' = job,
           queue' \cap Of(t) \subseteq queue \cup {m}
    PROVE  /\ Unclaimed(t)' \subseteq Unclaimed(t) \cup {m}
           /\ Live(t)' \subseteq Live(t) \cup {m}
           /\ Spent(t)' = Spent(t)
BY DEF Unclaimed, Live, Spent, Serves

LEMMA JoinedCounts ==
    ASSUME NEW t \in Tickets, NEW m \in Of(t), claimed' = claimed, calls' = calls, job' = job,
           queue' \cap Of(t) \subseteq queue \cup {m}
    PROVE  /\ Cardinality(Unclaimed(t)) \in Nat /\ Cardinality(Unclaimed(t)') \in Nat
           /\ Cardinality(Live(t)) \in Nat /\ Cardinality(Live(t)') \in Nat
           /\ Cardinality(Unclaimed(t)') <= Cardinality(Unclaimed(t)) + 1
           /\ Cardinality(Live(t)') <= Cardinality(Live(t)) + 1
           /\ Cardinality(Unclaimed(t)) <= Cardinality(Live(t))
           /\ Spent(t)' = Spent(t)
<1> DEFINE U == Unclaimed(t)
           V == Unclaimed(t)'
           L == Live(t)
           M == Live(t)'
<1>1. /\ U \in SUBSET Of(t) /\ V \in SUBSET Of(t) /\ L \in SUBSET Of(t) /\ M \in SUBSET Of(t)
      /\ U \subseteq L
  BY OfTicket
<1>2. V \subseteq U \cup {m} /\ M \subseteq L \cup {m} /\ Spent(t)' = Spent(t)
  BY Joined
<1> HIDE DEF U, V, L, M
<1>3. /\ Cardinality(U) \in Nat /\ Cardinality(V) \in Nat
      /\ Cardinality(V) <= Cardinality(U) + 1
  BY <1>1, <1>2, Counting
<1>4. /\ Cardinality(L) \in Nat /\ Cardinality(M) \in Nat
      /\ Cardinality(M) <= Cardinality(L) + 1
  BY <1>1, <1>2, Counting
<1>5. Cardinality(U) <= Cardinality(L)
  BY <1>1, Counting
<1>6. QED  BY <1>2, <1>3, <1>4, <1>5 DEF U, V, L, M

LEMMA ResolveBudget ==
    ASSUME IInv, BudgetInv, NEW t \in Tickets, Resolve(t)
    PROVE  BudgetInv'
<1>1. /\ claimed' = claimed /\ calls' = calls /\ status' = status /\ attempts' = attempts
      /\ job' = job /\ stale' = stale /\ early' = early
      /\ resolves' = [resolves EXCEPT ![t] = @ + 1]
  BY DEF Resolve, summary
<1>2. PICK m \in Of(t) : queue' = queue \cup {m}
  <2>1. <<t, published'[t]>> \in Of(t)
    BY PublishFacts DEF Resolve, IInv
  <2>2. QED  BY <2>1 DEF Resolve, Publish
<1>3. /\ resolves'[t] = resolves[t] + 1 /\ resolves[t] \in Nat
      /\ \A u \in Tickets : resolves[u] \in Nat /\ (u # t => resolves'[u] = resolves[u])
  BY <1>1 DEF IInv, TypeOK
<1>4. m[1] = t
  BY DEF Of
<1>5. WorkOnce' /\ HeldIsQueued'
  BY <1>1, <1>2 DEF BudgetInv, WorkOnce, HeldIsQueued, Working
<1>6. ResolvedFirst'
  <2>1. \A x \in queue : x[1] \in Tickets
    BY DEF IInv, TypeOK, Messages
  <2>2. \A u \in Tickets : resolves[u] > 0 => resolves'[u] > 0
    BY <1>3
  <2>3. QED  BY <1>1, <1>2, <1>3, <1>4, <2>1, <2>2 DEF BudgetInv, ResolvedFirst
<1>7. ASSUME NEW u \in Tickets, u # t PROVE Books(u)'
  <2>1. Shrinks(u)
    BY <1>1, <1>2, <1>4, <1>7 DEF Shrinks, Unclaimed, Live, Spent, Serves, Of
  <2>2. QED  BY <1>1, <1>3, <1>7, <2>1, BooksKept DEF BudgetInv, IInv
<1>8. Books(t)'
  <2>1. /\ Cardinality(Unclaimed(t)) \in Nat /\ Cardinality(Unclaimed(t)') \in Nat
        /\ Cardinality(Live(t)) \in Nat /\ Cardinality(Live(t)') \in Nat
        /\ Cardinality(Unclaimed(t)') <= Cardinality(Unclaimed(t)) + 1
        /\ Cardinality(Live(t)') <= Cardinality(Live(t)) + 1
        /\ Spent(t)' = Spent(t)
    BY <1>1, <1>2, JoinedCounts
  <2>2. /\ attempts[t] \in Nat /\ early[t] \in Nat /\ MaxAttempts \in Nat
    BY ConstantTypes DEF IInv, TypeOK
  <2>3. Books(t)
    BY DEF BudgetInv
  <2> DEFINE u == Cardinality(Unclaimed(t))
             v == Cardinality(Unclaimed(t)')
             l == Cardinality(Live(t))
             n == Cardinality(Live(t)')
  <2>4. /\ Cardinality(Spent(t)) <= attempts[t]
        /\ l <= resolves[t] + early[t]
        /\ t \in stale \/ status[t] \in Settled => l + 1 <= resolves[t] + early[t]
        /\ attempts[t] + u + 1 <= MaxAttempts + resolves[t] + early[t]
    BY <2>3 DEF Books
  <2>5. SUFFICES
        /\ n <= (resolves[t] + 1) + early[t]
        /\ t \in stale \/ status[t] \in Settled => n + 1 <= (resolves[t] + 1) + early[t]
        /\ attempts[t] + v + 1 <= MaxAttempts + (resolves[t] + 1) + early[t]
    BY <1>1, <1>3, <2>1, <2>4 DEF Books
  <2> HIDE DEF u, v, l, n
  <2>6. u \in Nat /\ v \in Nat /\ l \in Nat /\ n \in Nat /\ v <= u + 1 /\ n <= l + 1
    BY <2>1 DEF u, v, l, n
  <2>7. QED  BY <1>3, <2>2, <2>4, <2>6
<1>9. QED  BY <1>5, <1>6, <1>7, <1>8 DEF BudgetInv

(* A re-enqueued row was below the cap and, being stale, had room for one  *)
(* more message; a failed one is settled with the same room.               *)
LEMMA ReconcileBudget ==
    ASSUME IInv, BudgetInv, Reconcile
    PROVE  BudgetInv'
<1> DEFINE again == {t \in stale : ~Capped(t)}
<1>1. /\ claimed' = claimed /\ calls' = calls /\ attempts' = attempts
      /\ job' = job /\ early' = early /\ resolves' = resolves /\ stale' = {}
      /\ status' = [t \in Tickets |-> IF t \in again THEN "pending"
                                      ELSE IF t \in stale THEN "failed" ELSE status[t]]
      /\ Publish(again)
  BY DEF Reconcile, observed
<1>2. TypeOK /\ again \in SUBSET Tickets
  BY DEF IInv, TypeOK
<1>3. queue' = queue \cup {<<t, published'[t]>> : t \in again}
  BY <1>1 DEF Publish
<1>4. \A t \in again : <<t, published'[t]>> \in Of(t)
  BY <1>1, <1>2, PublishFacts
<1>5. \A t \in stale : t \in Tickets /\ status[t] # "none"
  BY <1>2 DEF TypeOK, Open
<1>6. WorkOnce' /\ HeldIsQueued'
  BY <1>1, <1>3 DEF BudgetInv, WorkOnce, HeldIsQueued, Working
<1>7. ResolvedFirst'
  <2>1. \A t \in again : resolves[t] > 0
    BY <1>5 DEF BudgetInv, ResolvedFirst
  <2>2. \A m \in queue' : resolves[m[1]] > 0
    BY <1>3, <2>1 DEF BudgetInv, ResolvedFirst
  <2>3. \A t \in Tickets : status'[t] # "none" => status[t] # "none"
    BY <1>1, <1>5
  <2>4. QED  BY <1>1, <2>2, <2>3 DEF BudgetInv, ResolvedFirst
<1>8. ASSUME NEW t \in Tickets, t \notin again PROVE Books(t)'
  <2>1. \A m \in Of(t) : m \in queue' => m \in queue
    BY <1>3, <1>8 DEF Of
  <2>2. Shrinks(t)
    BY <1>1, <2>1 DEF Shrinks, Unclaimed, Live, Spent, Serves
  <2>3. status'[t] = IF t \in stale THEN "failed" ELSE status[t]
    BY <1>1, <1>8
  <2>4. QED  BY <1>1, <1>2, <2>2, <2>3, BooksKept DEF BudgetInv
<1>9. ASSUME NEW t \in Tickets, t \in again PROVE Books(t)'
  <2>1. PICK m \in Of(t) : queue' \cap Of(t) \subseteq queue \cup {m}
    <3>1. <<t, published'[t]>> \in Of(t)
      BY <1>4, <1>9
    <3>2. \A x \in Of(t) : x \in queue' => x \in queue \/ x = <<t, published'[t]>>
      BY <1>3 DEF Of
    <3>3. QED  BY <3>1, <3>2
  <2>2. /\ Cardinality(Unclaimed(t)) \in Nat /\ Cardinality(Unclaimed(t)') \in Nat
        /\ Cardinality(Live(t)) \in Nat /\ Cardinality(Live(t)') \in Nat
        /\ Cardinality(Unclaimed(t)') <= Cardinality(Unclaimed(t)) + 1
        /\ Cardinality(Live(t)') <= Cardinality(Live(t)) + 1
        /\ Cardinality(Unclaimed(t)) <= Cardinality(Live(t))
        /\ Spent(t)' = Spent(t)
    BY <1>1, <2>1, JoinedCounts
  <2>3. /\ attempts[t] \in Nat /\ early[t] \in Nat /\ resolves[t] \in Nat /\ MaxAttempts \in Nat
    BY <1>2, ConstantTypes DEF TypeOK
  <2>4. Books(t) /\ t \in stale /\ ~(attempts[t] >= MaxAttempts)
    BY <1>9 DEF BudgetInv, Capped
  <2>5. t \notin stale' /\ status'[t] \notin Settled
    BY <1>1, <1>9 DEF Settled
  <2> DEFINE u == Cardinality(Unclaimed(t))
             v == Cardinality(Unclaimed(t)')
             l == Cardinality(Live(t))
             n == Cardinality(Live(t)')
  <2>6. /\ Cardinality(Spent(t)) <= attempts[t]
        /\ l + 1 <= resolves[t] + early[t]
    BY <2>4 DEF Books
  <2>7. SUFFICES /\ n <= resolves[t] + early[t]
                 /\ attempts[t] + v + 1 <= MaxAttempts + resolves[t] + early[t]
    BY <1>1, <2>2, <2>5, <2>6 DEF Books
  <2> HIDE DEF u, v, l, n, again
  <2>8. /\ u \in Nat /\ v \in Nat /\ l \in Nat /\ n \in Nat
        /\ v <= u + 1 /\ n <= l + 1 /\ u <= l
    BY <2>2 DEF u, v, l, n
  <2>9. attempts[t] + 1 <= MaxAttempts
    BY <2>3, <2>4
  <2>10. QED  BY <2>3, <2>6, <2>8, <2>9
<1>10. QED  BY <1>6, <1>7, <1>8, <1>9 DEF BudgetInv

-----------------------------------------------------------------------------
LEMMA BudgetStep == IInv /\ BudgetInv /\ [Next]_vars => BudgetInv'
<1> SUFFICES ASSUME IInv, BudgetInv, [Next]_vars PROVE BudgetInv'
  OBVIOUS
<1>1. CASE UNCHANGED vars
  BY <1>1 DEF vars, summary, sqs, observed, BudgetInv, WorkOnce, HeldIsQueued, ResolvedFirst,
     Working, Books, Unclaimed, Live, Spent, Serves
<1>2. ASSUME NEW t \in Tickets, Resolve(t) \/ Ages(t) PROVE BudgetInv'
  BY <1>2, ResolveBudget, AgesBudget
<1>3. ASSUME NEW w \in Workers, WorkerStep(w) PROVE BudgetInv'
  BY <1>3, ReceiveBudget, ClaimBudget, SkipBudget, StartBudget, LoadBudget, CallBudget,
     WritebackBudget, MarkFailedBudget, DeleteBudget DEF WorkerStep
<1>4. ASSUME NEW w \in Workers, Abandon(w) PROVE BudgetInv'
  BY <1>4, AbandonBudget
<1>5. ASSUME NEW m \in queue, DeadLetter(m) PROVE BudgetInv'
  BY <1>5, DeadLetterBudget
<1>6. CASE Reconcile
  BY <1>6, ReconcileBudget
<1>7. QED  BY <1>1, <1>2, <1>3, <1>4, <1>5, <1>6 DEF Next

LEMMA BudgetInitially == Init => BudgetInv
<1> SUFFICES ASSUME Init PROVE BudgetInv
  OBVIOUS
<1>1. \A w \in Workers : job[w].step = "idle"
  BY DEF Init, Idle
<1>2. WorkOnce /\ HeldIsQueued
  BY <1>1 DEF WorkOnce, HeldIsQueued, Working
<1>3. ResolvedFirst
  BY DEF Init, ResolvedFirst
<1>4. ASSUME NEW t \in Tickets PROVE Books(t)
  <2>1. Unclaimed(t) = {}
    BY DEF Init, Unclaimed
  <2>2. Live(t) = {}
    BY <1>1 DEF Init, Live, Serves
  <2>3. Spent(t) = {}
    BY <1>1 DEF Init, Spent, Of
  <2>4. Cardinality({}) = 0
    BY FS_EmptySet
  <2>5. /\ attempts[t] = 0 /\ resolves[t] = 0 /\ early[t] = 0
        /\ t \notin stale /\ status[t] = "none"
    BY DEF Init
  <2>6. QED  BY <2>1, <2>2, <2>3, <2>4, <2>5, ConstantTypes DEF Books, Settled
<1>5. QED  BY <1>2, <1>3, <1>4 DEF BudgetInv

(* The bookkeeping invariant holds in every reachable state.               *)
THEOREM BudgetInvariant == Spec => [](IInv /\ BudgetInv)
<1>1. Init => IInv /\ BudgetInv
  BY Initially, BudgetInitially
<1>2. IInv /\ BudgetInv /\ [Next]_vars => (IInv /\ BudgetInv)'
  BY InductiveStep, BudgetStep
<1>3. QED  BY <1>1, <1>2, PTL DEF Spec

(* Tx-1 counts every call before it is made, and the job's cap bounds the  *)
(* count by MAX_ATTEMPTS, plus one for each further resolution and one for *)
(* each row re-enqueued while its work was still under way.                *)
THEOREM AttemptsWithinBudget == Spec => []AttemptBudget
<1>1. IInv /\ BudgetInv => AttemptBudget
  <2> SUFFICES ASSUME IInv, BudgetInv, NEW t \in Tickets
               PROVE  /\ Cardinality({m \in Of(t) : calls[m] > 0}) <= attempts[t]
                      /\ attempts[t] <= MaxAttempts + (resolves[t] - 1) + early[t]
    BY DEF AttemptBudget
  <2> DEFINE called == {m \in Of(t) : calls[m] > 0}
             S == Spent(t)
             U == Unclaimed(t)
  <2>1. /\ attempts[t] \in Nat /\ resolves[t] \in Nat /\ early[t] \in Nat /\ MaxAttempts \in Nat
    BY ConstantTypes DEF IInv, TypeOK
  <2>2. /\ Cardinality(S) <= attempts[t]
        /\ attempts[t] + Cardinality(U) + 1 <= MaxAttempts + resolves[t] + early[t]
    BY DEF BudgetInv, Books
  <2>3. called \in SUBSET Of(t) /\ S \in SUBSET Of(t) /\ U \in SUBSET Of(t) /\ called \subseteq S
    BY OfTicket DEF Spent
  <2>4. SUFFICES /\ Cardinality(called) <= attempts[t]
                 /\ attempts[t] <= MaxAttempts + (resolves[t] - 1) + early[t]
    OBVIOUS
  <2> HIDE DEF called, S, U
  <2>5. /\ Cardinality(called) \in Nat /\ Cardinality(S) \in Nat
        /\ Cardinality(called) <= Cardinality(S)
    BY <2>3, Counting
  <2>6. Cardinality(U) \in Nat
    BY <2>3, Counting
  <2>7. QED  BY <2>1, <2>2, <2>5, <2>6
<1>2. QED  BY <1>1, BudgetInvariant, PTL

-----------------------------------------------------------------------------
(* A settled ticket of one resolution and no early aging has no live       *)
(* message, so nobody is left to write its summary.                        *)
LEMMA SettledHasNoLive ==
    ASSUME IInv, BudgetInv, NEW t \in Tickets,
           status[t] \in Settled, resolves[t] = 1, early[t] = 0
    PROVE  Live(t) = {}
<1>1. Cardinality(Live(t)) + 1 <= 1
  BY DEF BudgetInv, Books
<1>2. Live(t) \in SUBSET Of(t)
  BY OfTicket
<1>3. IsFiniteSet(Live(t)) /\ Cardinality(Live(t)) \in Nat
  BY <1>2, OfFinite, FS_Subset, FS_CardinalityType
<1>4. Cardinality(Live(t)) = 0
  BY <1>1, <1>3
<1>5. QED  BY <1>3, <1>4, FS_EmptySet

LEMMA SettledStep ==
    ASSUME IInv, BudgetInv, [Next]_vars, NEW t \in Tickets,
           status[t] \in Settled, resolves[t] = 1, early[t] = 0
    PROVE  status'[t] = status[t]
<1>1. Live(t) = {}
  BY SettledHasNoLive
<1>2. \A w \in Workers : Working(w) => job[w].msg[1] # t
  BY <1>1, WorkingIsLive
<1>3. ASSUME NEW w \in Workers, Working(w), NEW s, SetStatus(job[w].msg[1], s)
      PROVE  status'[t] = status[t]
  BY <1>2, <1>3 DEF SetStatus, IInv, TypeOK
<1>4. CASE UNCHANGED vars
  BY <1>4 DEF vars, summary
<1>5. ASSUME NEW u \in Tickets, Resolve(u) \/ Ages(u) PROVE status' = status
  BY <1>5 DEF Resolve, Ages, summary
<1>6. ASSUME NEW w \in Workers, WorkerStep(w) PROVE status'[t] = status[t]
  <2>1. ASSUME NEW m \in queue, Receive(w, m) PROVE status' = status
    BY <2>1 DEF Receive, summary
  <2>2. CASE Claim(w) \/ LoadThread(w) \/ CallLlm(w) \/ Delete(w)
    BY <2>2 DEF Claim, LoadThread, CallLlm, Delete, summary
  <2>3. CASE Skip(w)
    BY <1>3, <2>3 DEF Skip, Working
  <2>4. CASE Start(w)
    BY <1>3, <2>4 DEF Start, Working
  <2>5. CASE Writeback(w)
    BY <1>3, <2>5 DEF Writeback, Working
  <2>6. CASE MarkFailed(w)
    BY <1>3, <2>6 DEF MarkFailed, Working
  <2>7. QED  BY <1>6, <2>1, <2>2, <2>3, <2>4, <2>5, <2>6 DEF WorkerStep
<1>7. ASSUME NEW w \in Workers, Abandon(w) PROVE status' = status
  BY <1>7 DEF Abandon, summary
<1>8. ASSUME NEW m \in queue, DeadLetter(m) PROVE status' = status
  BY <1>8 DEF DeadLetter, summary
<1>9. CASE Reconcile
  <2>1. t \notin stale
    BY DEF IInv, TypeOK, Open, Settled
  <2>2. QED  BY <1>9, <2>1 DEF Reconcile
<1>10. QED  BY <1>4, <1>5, <1>6, <1>7, <1>8, <1>9 DEF Next

(* Neither a late writeback, a second message nor the job overwrites a     *)
(* settled summary, although none of their statements asks for its status: *)
(* without a second resolution or an outage none of them is left.          *)
THEOREM SettledStaysSettled == Spec => SettledIsFinal
<1> DEFINE Kept == \A t \in Tickets :
                       status[t] \in Settled /\ resolves[t] = 1 /\ early[t] = 0
                           => status'[t] = status[t]
<1>1. IInv /\ BudgetInv /\ [Next]_vars => Kept
  BY SettledStep
<1>2. SettledIsFinal <=> [][Kept]_vars
  BY PTL DEF SettledIsFinal
<1> HIDE DEF Kept
<1>3. Spec => [][Kept]_vars
  BY <1>1, BudgetInvariant, PTL DEF Spec
<1>4. QED  BY <1>2, <1>3, PTL
=============================================================================
