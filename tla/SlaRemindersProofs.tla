------------------------- MODULE SlaRemindersProofs -------------------------
(***************************************************************************)
(* Proofs about SlaReminders for every number of timers and concurrent     *)
(* calls, any policies, recipients and redrive limit, and any number of    *)
(* failures: an alert is repeated only after a lost transaction, a message *)
(* is deleted only when each of its channels has an outcome, and the       *)
(* producer keeps the contract of the timers.                              *)
(***************************************************************************)
EXTENDS SlaReminders, FiniteSetTheorems, TLAPS

-----------------------------------------------------------------------------
(* The inductive invariant                                                 *)

(* A timer that has not breached has no breach event.                      *)
UnbreachedIsOpen ==
    \A t \in Timers : state[t] \in {"none", "running"} => "breach" \notin fired[t]

(* The steps between the idempotency insert and the end of the transaction.*)
Open == {"guard", "dispatch", "commit"}

(* What a call's own record says at each step.                             *)
CallOK(j) ==
    /\ j.step # "idle" => j.msg \in Message
    /\ j.step = "ack" => j.channel = "webhook"
    /\ j.step \in {"insert", "guard", "dispatch"} => j.outcome = "absent"
    /\ j.step = "commit" => j.outcome # "absent"

CallsOK == \A h \in Handlers : CallOK(job[h])

(* The unique index: who works on a key has inserted its row, and nobody   *)
(* inserts a row that is there.                                            *)
HoldersOK ==
    /\ \A h \in Handlers : job[h].step \in Open => holder[KeyOf(h)] = h
    /\ \A k \in Keys : holder[k] # None => emission[k] = "absent"

Done(k) == emission[k] # "absent" \/ k \in undone

(* A call has been through the channels it leaves behind.                  *)
DoneBy(j) ==
    /\ j.step # "idle" /\ j.channel = "webhook" => Done(Key(j.msg, "email"))
    /\ j.step = "ack" => Done(Key(j.msg, "webhook"))

ChannelsDone == \A h \in Handlers : DoneBy(job[h])

IInv ==
    /\ TypeOK /\ UnbreachedIsOpen
    /\ CallsOK /\ HoldersOK /\ ChannelsDone
    /\ AckedHasOutcome /\ AlertsMatchRows

-----------------------------------------------------------------------------
(* Messages, keys and calls                                                *)

LEMMA PublishedIsMessage ==
    ASSUME NEW t \in Timers, NEW pc \in PctPairs, NEW b \in Boundaries
    PROVE  Published(t, pc, b) \in Message
BY DEF Message

LEMMA MessageHasKeys ==
    ASSUME NEW m \in Message, NEW ch \in Channels
    PROVE  m.timer \in Timers /\ Key(m, ch) \in Keys
<1>1. PICK t \in Timers, pc \in PctPairs, b \in Boundaries : m = Published(t, pc, b)
  BY DEF Message
<1>2. thresholdPct(pc, b) \in Pcts
  BY DEF thresholdPct, Pcts, Boundaries, Engine!Boundaries
<1>3. m.timer = t /\ m.pct = thresholdPct(pc, b)
  BY <1>1 DEF Published
<1> QED
  BY <1>2, <1>3 DEF Key, Keys

LEMMA IdleCall == Idle \in Job /\ CallOK(Idle) /\ Idle.step = "idle"
BY DEF Idle, Job, CallOK, Channels, Statuses

(* Where a call stands, as the steps below use it.                         *)
LEMMA AnyCall ==
    ASSUME IInv, NEW h \in Handlers
    PROVE  /\ job[h] \in Job /\ CallOK(job[h]) /\ DoneBy(job[h])
           /\ job[h].channel \in Channels
           /\ job[h].step # "idle" => job[h].msg \in Message /\ KeyOf(h) \in Keys
           /\ job[h].step \in Open =>
                holder[KeyOf(h)] = h /\ emission[KeyOf(h)] = "absent"
<1>1. /\ job[h] \in Job /\ CallOK(job[h]) /\ DoneBy(job[h])
      /\ job[h].step \in Open => holder[KeyOf(h)] = h
  BY DEF IInv, TypeOK, CallsOK, ChannelsDone, HoldersOK
<1>2. job[h].channel \in Channels
  BY <1>1 DEF Job
<1>3. job[h].step # "idle" => job[h].msg \in Message /\ KeyOf(h) \in Keys
  BY <1>1, <1>2, MessageHasKeys DEF CallOK, KeyOf
<1>4. job[h].step \in Open => emission[KeyOf(h)] = "absent"
  BY <1>1, <1>3, NoneAssumption DEF Open, IInv, HoldersOK
<1> QED
  BY <1>1, <1>2, <1>3, <1>4

(* NextChannel goes from the e-mail to the webhook and from there to the   *)
(* deletion of the message.                                                *)
LEMMA NextChannelFacts ==
    ASSUME NEW j \in Job, j.step # "idle", CallOK(j)
    PROVE  /\ NextChannel(j) \in Job /\ CallOK(NextChannel(j))
           /\ NextChannel(j).msg = j.msg
           /\ NextChannel(j).channel = "webhook"
           /\ \/ j.channel = "email" /\ NextChannel(j).step = "insert"
              \/ j.channel = "webhook" /\ NextChannel(j).step = "ack"
<1>1. j.msg \in Message /\ j.channel \in {"email", "webhook"} /\ j.outcome \in Statuses
  BY DEF CallOK, Job, Channels
<1>2. CASE j.channel = "email"
  <2>1. NextChannel(j) =
          [j EXCEPT !.step = "insert", !.channel = "webhook", !.outcome = "absent"]
    BY <1>2 DEF NextChannel
  <2> QED
    BY <1>1, <1>2, <2>1 DEF Job, CallOK, Channels, Statuses
<1>3. CASE j.channel = "webhook"
  <2>1. NextChannel(j) = [j EXCEPT !.step = "ack"]
    BY <1>3 DEF NextChannel
  <2> QED
    BY <1>1, <1>3, <2>1 DEF Job, CallOK, Channels
<1> QED
  BY <1>1, <1>2, <1>3

-----------------------------------------------------------------------------
(* What a step of one call has to show                                     *)

(* The call's record, the holders and the channels behind it.              *)
LEMMA CallMoves ==
    ASSUME IInv, NEW h \in Handlers, NEW j \in Job, job' = [job EXCEPT ![h] = j],
           CallOK(j), DoneBy(j)',
           \A k \in Keys : Done(k) => Done(k)',
           holder' \in [Keys -> Handlers \cup {None}],
           \A k \in Keys : \A g \in Handlers \ {h} : holder[k] = g => holder'[k] = g,
           j.step \in Open => holder'[Key(j.msg, j.channel)] = h,
           \A k \in Keys : holder'[k] # None => emission'[k] = "absent"
    PROVE  job' \in [Handlers -> Job] /\ CallsOK' /\ HoldersOK' /\ ChannelsDone'
<1>1. /\ job' \in [Handlers -> Job] /\ job'[h] = j
      /\ \A g \in Handlers \ {h} : job'[g] = job[g]
  BY DEF IInv, TypeOK
<1>2. CallsOK'
  <2> SUFFICES ASSUME NEW g \in Handlers PROVE CallOK(job'[g])
    BY DEF CallsOK, CallOK
  <2> QED
    BY <1>1, AnyCall
<1>3. HoldersOK'
  <2>1. ASSUME NEW g \in Handlers, job'[g].step \in Open
        PROVE  holder'[Key(job'[g].msg, job'[g].channel)] = g
    <3>1. CASE g = h
      BY <1>1, <2>1, <3>1
    <3>2. CASE g # h
      <4>1. job'[g] = job[g] /\ job[g].step \in Open
        BY <1>1, <2>1, <3>2
      <4>2. holder[KeyOf(g)] = g /\ KeyOf(g) \in Keys
        BY <4>1, AnyCall DEF Open
      <4> QED
        BY <3>2, <4>1, <4>2 DEF KeyOf
    <3> QED
      BY <3>1, <3>2
  <2> QED
    BY <2>1 DEF HoldersOK, KeyOf
<1>4. ChannelsDone'
  <2> SUFFICES ASSUME NEW g \in Handlers
               PROVE  DoneBy(job[g])'
    BY DEF ChannelsDone
  <2>1. CASE g = h
    BY <1>1, <2>1 DEF DoneBy, Done
  <2>2. CASE g # h
    <3>1. job'[g] = job[g] /\ DoneBy(job[g])
      BY <1>1, <2>2, AnyCall
    <3>2. job[g].step # "idle" =>
            /\ Key(job[g].msg, "email") \in Keys /\ Key(job[g].msg, "webhook") \in Keys
      BY AnyCall, MessageHasKeys DEF Channels
    <3> QED
      BY <3>1, <3>2 DEF DoneBy
  <2> QED
    BY <2>1, <2>2
<1> QED
  BY <1>1, <1>2, <1>3, <1>4

One(b) == IF b THEN 1 ELSE 0

Posting(j) == j.step = "commit" /\ j.outcome \in Alerted

(* The holder of a key is the only one to count.                           *)
LEMMA HolderCounts ==
    ASSUME NEW f, NEW h \in Handlers, NEW k,
           \A g \in Handlers \ {h} : ~(Posting(f[g]) /\ Key(f[g].msg, f[g].channel) = k),
           Key(f[h].msg, f[h].channel) = k
    PROVE  Cardinality({g \in Handlers : f[g].step = "commit" /\ f[g].outcome \in Alerted
                                           /\ Key(f[g].msg, f[g].channel) = k})
             = One(Posting(f[h]))
<1>. DEFINE S == {g \in Handlers : f[g].step = "commit" /\ f[g].outcome \in Alerted
                                     /\ Key(f[g].msg, f[g].channel) = k}
<1>1. CASE Posting(f[h])
  <2>1. S = {h}
    BY <1>1 DEF Posting
  <2> QED
    BY <1>1, <2>1, FS_Singleton DEF One
<1>2. CASE ~Posting(f[h])
  <2>1. S = {}
    BY <1>2 DEF Posting
  <2> QED
    BY <1>2, <2>1, FS_EmptySet DEF One
<1> QED
  BY <1>1, <1>2

(* A call that posts nothing, before and after.                            *)
LEMMA NothingPosted ==
    ASSUME IInv, NEW h \in Handlers, NEW j, job' = [job EXCEPT ![h] = j],
           ~Posting(job[h]), ~Posting(j), UNCHANGED <<emission, sent, lost>>
    PROVE  AlertsMatchRows'
<1> SUFFICES ASSUME NEW k \in Keys PROVE InFlight(k)' = InFlight(k)
  BY DEF AlertsMatchRows, IInv
<1>1. \A g \in Handlers : job'[g] = IF g = h THEN j ELSE job[g]
  BY DEF IInv, TypeOK
<1> QED
  BY <1>1 DEF InFlight, KeyOf, Posting

(* A step of a call that holds its key: the books stay balanced.           *)
LEMMA BooksBalance ==
    ASSUME IInv, NEW h \in Handlers, job[h].step \in Open,
           NEW j \in Job, job' = [job EXCEPT ![h] = j],
           NEW k \in Keys, k = KeyOf(h),
           Posting(j) => Key(j.msg, j.channel) = k,
           \A q \in Keys \ {k} : /\ emission'[q] = emission[q]
                                 /\ sent'[q] = sent[q] /\ lost'[q] = lost[q],
           emission'[k] \in Statuses, sent'[k] \in Nat, lost'[k] \in Nat,
           sent'[k] + One(Posting(job[h])) + lost[k]
             = sent[k] + One(emission'[k] \in Alerted) + One(Posting(j)) + lost'[k]
    PROVE  AlertsMatchRows'
<1>1. \A g \in Handlers : job'[g] = IF g = h THEN j ELSE job[g]
  BY DEF IInv, TypeOK
<1>2. \A g \in Handlers \ {h} : Posting(job[g]) => KeyOf(g) # k
  BY AnyCall DEF Posting, Open
<1>3. AlertsMatchRows
  BY DEF IInv
<1> SUFFICES ASSUME NEW q \in Keys
             PROVE  sent'[q] = One(emission'[q] \in Alerted) + InFlight(q)' + lost'[q]
  BY DEF AlertsMatchRows, One
<1>4. sent[q] = One(emission[q] \in Alerted) + InFlight(q) + lost[q]
  BY <1>3 DEF AlertsMatchRows, One
<1>5. CASE q = k
  <2>1. InFlight(k) = One(Posting(job[h]))
    BY <1>2, HolderCounts DEF InFlight, KeyOf
  <2>2. InFlight(k)' = One(Posting(j))
    <3>1. \A g \in Handlers \ {h} :
            ~(Posting(job'[g]) /\ Key(job'[g].msg, job'[g].channel) = k)
      BY <1>1, <1>2 DEF KeyOf
    <3>2. CASE Posting(j)
      <4>1. job'[h] = j /\ Key(job'[h].msg, job'[h].channel) = k
        BY <1>1, <3>2
      <4>2. Cardinality({g \in Handlers :
                            job'[g].step = "commit" /\ job'[g].outcome \in Alerted
                              /\ Key(job'[g].msg, job'[g].channel) = k}) = One(Posting(j))
        <5>1. PICK f : f = job'
          OBVIOUS
        <5>2. \A g \in Handlers \ {h} : ~(Posting(f[g]) /\ Key(f[g].msg, f[g].channel) = k)
          BY <3>1, <5>1
        <5>3. f[h] = j /\ Key(f[h].msg, f[h].channel) = k
          BY <4>1, <5>1
        <5>4. Cardinality({g \in Handlers : f[g].step = "commit" /\ f[g].outcome \in Alerted
                                              /\ Key(f[g].msg, f[g].channel) = k})
                = One(Posting(f[h]))
          BY <5>2, <5>3, HolderCounts
        <5> QED
          BY <5>1, <5>3, <5>4
      <4> QED
        BY <3>2, <4>2 DEF InFlight, KeyOf, One
    <3>3. CASE ~Posting(j)
      <4>1. {g \in Handlers : job'[g].step = "commit" /\ job'[g].outcome \in Alerted
                                /\ Key(job'[g].msg, job'[g].channel) = k} = {}
        BY <1>1, <3>1, <3>3 DEF Posting
      <4> QED
        BY <3>3, <4>1, FS_EmptySet DEF One, InFlight, KeyOf
    <3> QED
      BY <3>2, <3>3
  <2>3. emission[k] \notin Alerted
    BY AnyCall DEF Alerted
  <2>4. sent[k] \in Nat /\ lost[k] \in Nat
    BY DEF IInv, TypeOK
  <2> QED
    BY <1>4, <1>5, <2>1, <2>2, <2>3, <2>4 DEF One
<1>6. CASE q # k
  <2>1. \A g \in Handlers :
          (Posting(job'[g]) /\ Key(job'[g].msg, job'[g].channel) = q)
            <=> (Posting(job[g]) /\ KeyOf(g) = q)
    BY <1>1, <1>6 DEF KeyOf
  <2>2. InFlight(q)' = InFlight(q)
    BY <2>1 DEF InFlight, KeyOf, Posting
  <2> QED
    BY <1>4, <1>6, <2>2
<1> QED
  BY <1>5, <1>6

(* A step of one call, all of it.  The rest of the types is for the action *)
(* to show.                                                                *)
OtherTypes ==
    /\ queue \subseteq Message /\ acked \subseteq Message /\ dead \subseteq Message
    /\ receives \in [Message -> 0..MaxReceives]
    /\ emission \in [Keys -> Statuses]
    /\ sent \in [Keys -> Nat] /\ lost \in [Keys -> Nat]
    /\ undone \subseteq Keys
    /\ failed \in 0..MaxFailures

LEMMA CallKeepsInvariant ==
    ASSUME IInv, NEW h \in Handlers, NEW j \in Job, job' = [job EXCEPT ![h] = j],
           UNCHANGED external, OtherTypes',
           CallOK(j), DoneBy(j)',
           \A k \in Keys : Done(k) => Done(k)',
           holder' \in [Keys -> Handlers \cup {None}],
           \A k \in Keys : \A g \in Handlers \ {h} : holder[k] = g => holder'[k] = g,
           j.step \in Open => holder'[Key(j.msg, j.channel)] = h,
           \A k \in Keys : holder'[k] # None => emission'[k] = "absent",
           \A m \in acked' \ acked : \A ch \in Channels : Done(Key(m, ch))',
           AlertsMatchRows'
    PROVE  IInv'
<1>1. job' \in [Handlers -> Job] /\ CallsOK' /\ HoldersOK' /\ ChannelsDone'
  BY CallMoves
<1>2. TypeOK'
  BY <1>1 DEF IInv, TypeOK, OtherTypes, external, timerVars
<1>3. UnbreachedIsOpen'
  BY DEF IInv, UnbreachedIsOpen, external, timerVars
<1>4. AckedHasOutcome'
  <2> SUFFICES ASSUME NEW m \in acked', NEW ch \in Channels
               PROVE  Done(Key(m, ch))'
    BY DEF AckedHasOutcome, Done
  <2>1. CASE m \in acked
    <3>1. Key(m, ch) \in Keys /\ Done(Key(m, ch))
      BY <2>1, MessageHasKeys DEF IInv, TypeOK, AckedHasOutcome, Done
    <3> QED
      BY <3>1
  <2>2. CASE m \notin acked
    BY <2>2
  <2> QED
    BY <2>1, <2>2
<1> QED
  BY <1>1, <1>2, <1>3, <1>4 DEF IInv

(* Going on to the next channel is right once this one has its outcome.    *)
LEMMA ChannelBehind ==
    ASSUME IInv, NEW h \in Handlers, job[h].step # "idle",
           NEW j \in Job, j = NextChannel(job[h]),
           \A k \in Keys : Done(k) => Done(k)',
           NEW q \in Keys, q = KeyOf(h), Done(q)'
    PROVE  DoneBy(j)'
<1>1. PICK i \in Job : i = job[h]
  BY AnyCall
<1>2. /\ CallOK(i) /\ DoneBy(i) /\ i.step # "idle" /\ i.msg \in Message
      /\ q = Key(i.msg, i.channel)
  BY <1>1, AnyCall DEF KeyOf
<1>3. /\ j.msg = i.msg /\ j.channel = "webhook"
      /\ \/ i.channel = "email" /\ j.step = "insert"
         \/ i.channel = "webhook" /\ j.step = "ack"
  BY <1>1, <1>2, NextChannelFacts
<1>4. PICK e \in Keys : e = Key(i.msg, "email")
  BY <1>2, MessageHasKeys DEF Channels
<1>5. Done(e)'
  <2>1. CASE i.channel = "email"
    BY <1>2, <1>4, <2>1
  <2>2. CASE i.channel # "email"
    <3>1. Done(e)
      BY <1>2, <1>3, <1>4, <2>2 DEF DoneBy
    <3> QED
      BY <3>1
  <2> QED
    BY <2>1, <2>2
<1>6. j.step = "ack" => q = Key(j.msg, "webhook")
  BY <1>2, <1>3
<1> QED
  BY <1>3, <1>4, <1>5, <1>6 DEF DoneBy

-----------------------------------------------------------------------------
(* The steps of a call                                                     *)

LEMMA ReceiveStep ==
    ASSUME IInv, NEW h \in Handlers, NEW m \in queue, Receive(h, m)
    PROVE  IInv'
<1>1. /\ job[h].step = "idle" /\ m \in Message /\ receives[m] < MaxReceives
      /\ receives' = [receives EXCEPT ![m] = @ + 1]
      /\ UNCHANGED <<external, queue, acked, dead, emission, holder, sent, lost, undone, failed>>
  BY DEF Receive, IInv, TypeOK
<1>2. PICK j \in Job : /\ job' = [job EXCEPT ![h] = j]
                       /\ j.step = "insert" /\ j.msg = m /\ j.channel = "email"
                       /\ j.outcome = "absent"
  <2>1. [Idle EXCEPT !.step = "insert", !.msg = m] \in Job
    BY <1>1 DEF Idle, Job, Channels, Statuses
  <2> QED
    BY <2>1 DEF Receive, Idle
<1>3. OtherTypes'
  <2>1. receives \in [Message -> 0..MaxReceives] /\ MaxReceives \in Nat
    BY Bounds DEF IInv, TypeOK
  <2>2. receives' \in [Message -> 0..MaxReceives]
    BY <1>1, <2>1
  <2> QED
    BY <1>1, <2>2 DEF IInv, TypeOK, OtherTypes
<1>4. AlertsMatchRows'
  BY <1>1, <1>2, NothingPosted DEF Posting
<1>5. CallOK(j)
  BY <1>1, <1>2 DEF CallOK
<1>6. DoneBy(j)'
  BY <1>2 DEF DoneBy
<1>7. \A k \in Keys : Done(k)' = Done(k)
  BY <1>1 DEF Done
<1>8. /\ holder \in [Keys -> Handlers \cup {None}]
      /\ \A k \in Keys : holder[k] # None => emission[k] = "absent"
  BY DEF IInv, TypeOK, HoldersOK
<1> QED
  BY <1>1, <1>2, <1>3, <1>4, <1>5, <1>6, <1>7, <1>8, CallKeepsInvariant DEF Open

(* The key is taken, or its outcome is there already.                      *)
LEMMA InsertStep ==
    ASSUME IInv, NEW h \in Handlers, InsertEmission(h)
    PROVE  IInv'
<1>. DEFINE k == KeyOf(h)
<1>1. /\ job[h].step = "insert" /\ holder[k] = None
      /\ UNCHANGED <<external, sqsVars, emission, sent, lost, undone, failed>>
  BY DEF InsertEmission
<1>2. /\ job[h] \in Job /\ CallOK(job[h]) /\ DoneBy(job[h]) /\ k \in Keys
      /\ job[h].channel \in Channels /\ job[h].msg \in Message
  BY <1>1, AnyCall
<1>3. OtherTypes' /\ \A q \in Keys : Done(q)' = Done(q)
  BY <1>1 DEF IInv, TypeOK, OtherTypes, sqsVars, Done
<1>4. /\ holder \in [Keys -> Handlers \cup {None}]
      /\ \A q \in Keys : holder[q] # None => emission[q] = "absent"
  BY DEF IInv, TypeOK, HoldersOK
<1>5. CASE emission[k] # "absent"
  <2>1. UNCHANGED holder /\ job' = [job EXCEPT ![h] = NextChannel(job[h])]
    BY <1>2, <1>5 DEF InsertEmission, IInv, TypeOK
  <2>2. PICK j \in Job : j = NextChannel(job[h])
    BY <1>1, <1>2, NextChannelFacts
  <2>3. /\ job' = [job EXCEPT ![h] = j] /\ CallOK(j) /\ j.msg = job[h].msg
        /\ j.channel = "webhook"
        /\ \/ job[h].channel = "email" /\ j.step = "insert"
           \/ job[h].channel = "webhook" /\ j.step = "ack"
    BY <1>1, <1>2, <2>1, <2>2, NextChannelFacts
  <2>4. DoneBy(j)'
    <3>1. PICK q \in Keys : q = k
      BY <1>2
    <3>2. Done(q)'
      BY <1>1, <1>5, <3>1 DEF Done
    <3> QED
      BY <1>1, <1>3, <2>2, <3>1, <3>2, ChannelBehind
  <2>5. AlertsMatchRows'
    BY <1>1, <2>3, NothingPosted DEF Posting
  <2> QED
    BY <1>1, <1>3, <1>4, <2>1, <2>3, <2>4, <2>5, CallKeepsInvariant DEF Open, sqsVars
<1>6. CASE emission[k] = "absent"
  <2>1. /\ holder' = [holder EXCEPT ![k] = h]
        /\ job' = [job EXCEPT ![h] = [job[h] EXCEPT !.step = "guard"]]
    BY <1>2, <1>6 DEF InsertEmission, IInv, TypeOK
  <2>2. PICK j \in Job : j = [job[h] EXCEPT !.step = "guard"]
    BY <1>2 DEF Job
  <2>3. /\ job' = [job EXCEPT ![h] = j] /\ j.step = "guard" /\ j.msg = job[h].msg
        /\ j.channel = job[h].channel /\ j.outcome = job[h].outcome
    BY <1>2, <2>1, <2>2 DEF Job
  <2>4. CallOK(j)
    BY <1>1, <1>2, <2>3 DEF CallOK
  <2>5. DoneBy(j)'
    BY <1>1, <1>2, <2>3 DEF DoneBy, Done
  <2>6. AlertsMatchRows'
    BY <1>1, <2>3, NothingPosted DEF Posting
  <2>7. holder'[Key(j.msg, j.channel)] = h
    BY <1>2, <1>4, <2>1, <2>3 DEF KeyOf
  <2>8. /\ holder' \in [Keys -> Handlers \cup {None}]
        /\ \A q \in Keys : \A g \in Handlers \ {h} : holder[q] = g => holder'[q] = g
        /\ \A q \in Keys : holder'[q] # None => emission'[q] = "absent"
    <3>1. \A q \in Keys : holder'[q] = IF q = k THEN h ELSE holder[q]
      BY <1>2, <1>4, <2>1
    <3> QED
      BY <1>1, <1>2, <1>4, <1>6, <2>1, <3>1, NoneAssumption
  <2> QED
    BY <1>1, <1>3, <2>3, <2>4, <2>5, <2>6, <2>7, <2>8, CallKeepsInvariant DEF sqsVars
<1> QED
  BY <1>5, <1>6

(* The guards and the recipients decide; nothing else changes.             *)
LEMMA GuardsStep ==
    ASSUME IInv, NEW h \in Handlers, ReadGuards(h)
    PROVE  IInv'
<1>1. /\ job[h].step = "guard"
      /\ UNCHANGED <<external, sqsVars, emission, holder, sent, lost, undone, failed>>
  BY DEF ReadGuards
<1>2. /\ job[h] \in Job /\ CallOK(job[h]) /\ DoneBy(job[h]) /\ KeyOf(h) \in Keys
      /\ holder[KeyOf(h)] = h
  BY <1>1, AnyCall DEF Open
<1>3. PICK s \in {"commit", "dispatch"}, o \in {"absent", "suppressed", "unroutable"} :
        /\ job' = [job EXCEPT ![h].step = s, ![h].outcome = o]
        /\ s = "commit" => o # "absent"
        /\ s = "dispatch" => o = "absent"
  BY DEF ReadGuards
<1>4. PICK j \in Job : /\ job' = [job EXCEPT ![h] = j] /\ j.step = s /\ j.outcome = o
                       /\ j.msg = job[h].msg /\ j.channel = job[h].channel
  <2>1. [job[h] EXCEPT !.step = s, !.outcome = o] \in Job
    BY <1>2 DEF Job, Statuses
  <2>2. job' = [job EXCEPT ![h] = [job[h] EXCEPT !.step = s, !.outcome = o]]
    BY <1>3 DEF IInv, TypeOK
  <2> QED
    BY <1>2, <2>1, <2>2 DEF Job
<1>5. OtherTypes' /\ \A q \in Keys : Done(q)' = Done(q)
  BY <1>1 DEF IInv, TypeOK, OtherTypes, sqsVars, Done
<1>6. CallOK(j)
  BY <1>1, <1>2, <1>3, <1>4 DEF CallOK
<1>7. DoneBy(j)'
  BY <1>1, <1>2, <1>3, <1>4 DEF DoneBy, Done
<1>8. AlertsMatchRows'
  <2>1. ~Posting(j)
    BY <1>4 DEF Posting, Alerted
  <2> QED
    BY <1>1, <1>4, <2>1, NothingPosted DEF Posting
<1>9. /\ holder \in [Keys -> Handlers \cup {None}]
      /\ \A q \in Keys : holder[q] # None => emission[q] = "absent"
  BY DEF IInv, TypeOK, HoldersOK
<1> QED
  BY <1>1, <1>2, <1>4, <1>5, <1>6, <1>7, <1>8, <1>9, CallKeepsInvariant DEF KeyOf, sqsVars

(* An alert that is accepted is counted, and is about to have its row.     *)
LEMMA DispatchStep ==
    ASSUME IInv, NEW h \in Handlers, NEW outcome \in Statuses, Dispatch(h, outcome)
    PROVE  IInv'
<1>1. /\ job[h].step = "dispatch" /\ outcome # "absent"
      /\ job' = [job EXCEPT ![h].step = "commit", ![h].outcome = outcome]
      /\ sent' = [sent EXCEPT ![KeyOf(h)] = @ + (IF outcome \in Alerted THEN 1 ELSE 0)]
      /\ UNCHANGED <<external, sqsVars, emission, holder, lost, undone, failed>>
  BY DEF Dispatch, Thrown
<1>2. /\ job[h] \in Job /\ CallOK(job[h]) /\ DoneBy(job[h])
      /\ holder[KeyOf(h)] = h /\ emission[KeyOf(h)] = "absent"
  BY <1>1, AnyCall DEF Open
<1>3. PICK k \in Keys : k = KeyOf(h)
  BY <1>1, AnyCall
<1>4. PICK j \in Job : /\ job' = [job EXCEPT ![h] = j] /\ j.step = "commit"
                       /\ j.outcome = outcome
                       /\ j.msg = job[h].msg /\ j.channel = job[h].channel
  <2>1. [job[h] EXCEPT !.step = "commit", !.outcome = outcome] \in Job
    BY <1>2 DEF Job
  <2>2. job' = [job EXCEPT ![h] = [job[h] EXCEPT !.step = "commit", !.outcome = outcome]]
    BY <1>1 DEF IInv, TypeOK
  <2> QED
    BY <1>2, <2>1, <2>2 DEF Job
<1>5. /\ sent \in [Keys -> Nat] /\ lost \in [Keys -> Nat] /\ emission \in [Keys -> Statuses]
      /\ sent' \in [Keys -> Nat]
      /\ sent'[k] = sent[k] + One(outcome \in Alerted)
      /\ \A q \in Keys \ {k} : sent'[q] = sent[q]
  BY <1>1, <1>3 DEF IInv, TypeOK, One
<1>6. OtherTypes' /\ \A q \in Keys : Done(q)' = Done(q)
  BY <1>1, <1>5 DEF IInv, TypeOK, OtherTypes, sqsVars, Done
<1>7. CallOK(j)
  BY <1>1, <1>2, <1>4 DEF CallOK
<1>8. DoneBy(j)'
  BY <1>1, <1>2, <1>4 DEF DoneBy, Done
<1>9. AlertsMatchRows'
  <2>1. ~Posting(job[h]) /\ (Posting(j) <=> outcome \in Alerted)
    BY <1>1, <1>4 DEF Posting
  <2>2. sent'[k] + One(Posting(job[h])) + lost[k]
          = sent[k] + One(emission'[k] \in Alerted) + One(Posting(j)) + lost'[k]
    <3>1. emission'[k] \notin Alerted /\ lost'[k] = lost[k] /\ lost[k] \in Nat
          /\ sent[k] \in Nat
      BY <1>1, <1>2, <1>3, <1>5 DEF Alerted
    <3> QED
      BY <1>5, <2>1, <3>1 DEF One
  <2> QED
    <3>1. /\ job[h].step \in Open /\ (Posting(j) => Key(j.msg, j.channel) = k)
          /\ \A q \in Keys \ {k} : /\ emission'[q] = emission[q]
                                   /\ sent'[q] = sent[q] /\ lost'[q] = lost[q]
          /\ emission'[k] \in Statuses /\ sent'[k] \in Nat /\ lost'[k] \in Nat
      BY <1>1, <1>3, <1>4, <1>5 DEF KeyOf, Open
    <3> QED
      BY <1>3, <1>4, <2>2, <3>1, BooksBalance
<1>10. /\ holder \in [Keys -> Handlers \cup {None}]
       /\ \A q \in Keys : holder[q] # None => emission[q] = "absent"
  BY DEF IInv, TypeOK, HoldersOK
<1> QED
  BY <1>1, <1>2, <1>4, <1>6, <1>7, <1>8, <1>9, <1>10, CallKeepsInvariant
     DEF KeyOf, sqsVars

(* The end of a transaction frees its key and nobody else's.               *)
LEMMA KeyIsFreed ==
    ASSUME IInv, NEW h \in Handlers, NEW k \in Keys, holder[k] = h,
           holder' = [holder EXCEPT ![k] = None],
           \A q \in Keys \ {k} : emission'[q] = emission[q]
    PROVE  /\ holder' \in [Keys -> Handlers \cup {None}]
           /\ \A q \in Keys : \A g \in Handlers \ {h} : holder[q] = g => holder'[q] = g
           /\ \A q \in Keys : holder'[q] # None => emission'[q] = "absent"
<1>1. /\ holder \in [Keys -> Handlers \cup {None}]
      /\ \A q \in Keys : holder[q] # None => emission[q] = "absent"
  BY DEF IInv, TypeOK, HoldersOK
<1>2. \A q \in Keys : holder'[q] = IF q = k THEN None ELSE holder[q]
  BY <1>1
<1> QED
  BY <1>1, <1>2

(* What the call does once its transaction has ended with an outcome.      *)
LEMMA CommitStep ==
    ASSUME IInv, NEW h \in Handlers, CommitEmission(h)
    PROVE  IInv'
<1>1. /\ job[h].step = "commit"
      /\ emission' = [emission EXCEPT ![KeyOf(h)] = job[h].outcome]
      /\ holder' = [holder EXCEPT ![KeyOf(h)] = None]
      /\ UNCHANGED <<external, sqsVars, sent, lost, undone, failed>>
  BY DEF CommitEmission
<1>2. /\ job[h] \in Job /\ CallOK(job[h]) /\ job[h].outcome # "absent"
      /\ job[h].outcome \in Statuses
      /\ holder[KeyOf(h)] = h /\ emission[KeyOf(h)] = "absent"
  BY <1>1, AnyCall DEF Open, CallOK, Job
<1>3. PICK k \in Keys : k = KeyOf(h)
  BY <1>1, AnyCall
<1>4. /\ sent \in [Keys -> Nat] /\ lost \in [Keys -> Nat] /\ emission \in [Keys -> Statuses]
      /\ emission' \in [Keys -> Statuses] /\ emission'[k] = job[h].outcome
      /\ \A q \in Keys \ {k} : emission'[q] = emission[q]
  BY <1>1, <1>2, <1>3 DEF IInv, TypeOK
<1>5. OtherTypes'
  BY <1>1, <1>4 DEF IInv, TypeOK, OtherTypes, sqsVars
<1>6. Done(k)' /\ \A q \in Keys : Done(q) => Done(q)'
  BY <1>1, <1>2, <1>3, <1>4 DEF Done
<1>7. PICK j : j = AfterCommit(job[h])
  OBVIOUS
<1>8. job' = [job EXCEPT ![h] = j]
  BY <1>7 DEF CommitEmission, IInv, TypeOK
<1>9. j \in Job /\ CallOK(j) /\ DoneBy(j)' /\ j.step \notin Open /\ ~Posting(j)
  <2>1. CASE job[h].outcome \in Thrown
    <3>1. j = Idle
      BY <1>7, <2>1 DEF AfterCommit
    <3> QED
      BY <3>1, IdleCall DEF DoneBy, Open, Posting
  <2>2. CASE job[h].outcome \notin Thrown
    <3>1. j = NextChannel(job[h])
      BY <1>7, <2>2 DEF AfterCommit
    <3>2. j \in Job /\ CallOK(j) /\ j.step \in {"insert", "ack"}
      BY <1>1, <1>2, <3>1, NextChannelFacts
    <3>3. DoneBy(j)'
      BY <1>1, <1>3, <1>6, <3>1, <3>2, ChannelBehind
    <3> QED
      BY <3>2, <3>3 DEF Open, Posting
  <2> QED
    BY <2>1, <2>2
<1>10. AlertsMatchRows'
  <2>1. Posting(job[h]) <=> emission'[k] \in Alerted
    BY <1>1, <1>4 DEF Posting
  <2>2. sent[k] + One(Posting(job[h])) + lost[k]
          = sent[k] + One(emission'[k] \in Alerted) + One(Posting(j)) + lost[k]
    BY <1>4, <1>9, <2>1 DEF One
  <2> QED
    <3>1. /\ job[h].step \in Open
          /\ \A q \in Keys \ {k} : /\ emission'[q] = emission[q]
                                   /\ sent'[q] = sent[q] /\ lost'[q] = lost[q]
          /\ emission'[k] \in Statuses /\ sent'[k] = sent[k] /\ lost'[k] = lost[k]
          /\ sent[k] \in Nat /\ lost[k] \in Nat
      BY <1>1, <1>3, <1>4 DEF Open
    <3> QED
      BY <1>3, <1>8, <1>9, <2>2, <3>1, BooksBalance
<1>11. /\ holder' \in [Keys -> Handlers \cup {None}]
       /\ \A q \in Keys : \A g \in Handlers \ {h} : holder[q] = g => holder'[q] = g
       /\ \A q \in Keys : holder'[q] # None => emission'[q] = "absent"
  BY <1>1, <1>2, <1>3, <1>4, KeyIsFreed
<1> QED
  BY <1>1, <1>5, <1>6, <1>8, <1>9, <1>10, <1>11, CallKeepsInvariant DEF sqsVars

(* An audit failure undoes the row, and the call goes on all the same.     *)
LEMMA AuditStep ==
    ASSUME IInv, NEW h \in Handlers, AuditFails(h)
    PROVE  IInv'
<1>1. /\ job[h].step = "commit" /\ failed < MaxFailures /\ failed' = failed + 1
      /\ holder' = [holder EXCEPT ![KeyOf(h)] = None]
      /\ undone' = undone \cup {KeyOf(h)}
      /\ lost' = [lost EXCEPT ![KeyOf(h)] =
                    @ + (IF job[h].outcome \in Alerted THEN 1 ELSE 0)]
      /\ UNCHANGED <<external, sqsVars, emission, sent>>
  BY DEF AuditFails
<1>2. /\ job[h] \in Job /\ CallOK(job[h])
      /\ holder[KeyOf(h)] = h /\ emission[KeyOf(h)] = "absent"
  BY <1>1, AnyCall DEF Open
<1>3. PICK k \in Keys : k = KeyOf(h)
  BY <1>1, AnyCall
<1>4. /\ sent \in [Keys -> Nat] /\ lost \in [Keys -> Nat] /\ emission \in [Keys -> Statuses]
      /\ lost' \in [Keys -> Nat] /\ lost'[k] = lost[k] + One(Posting(job[h]))
      /\ \A q \in Keys \ {k} : lost'[q] = lost[q]
  BY <1>1, <1>3 DEF IInv, TypeOK, One, Posting
<1>5. OtherTypes'
  <2>1. failed' \in 0..MaxFailures
    BY <1>1, Bounds DEF IInv, TypeOK
  <2> QED
    BY <1>1, <1>3, <1>4, <2>1 DEF IInv, TypeOK, OtherTypes, sqsVars
<1>6. Done(k)' /\ \A q \in Keys : Done(q) => Done(q)'
  BY <1>1, <1>3 DEF Done
<1>7. PICK j \in Job : j = NextChannel(job[h])
  BY <1>1, <1>2, NextChannelFacts
<1>8. job' = [job EXCEPT ![h] = j]
  BY <1>7 DEF AuditFails, IInv, TypeOK
<1>9. CallOK(j) /\ j.step \in {"insert", "ack"} /\ DoneBy(j)'
  <2>1. CallOK(j) /\ j.step \in {"insert", "ack"}
    BY <1>1, <1>2, <1>7, NextChannelFacts
  <2> QED
    BY <1>1, <1>3, <1>6, <1>7, <2>1, ChannelBehind
<1>10. AlertsMatchRows'
  <2>1. ~Posting(j)
    BY <1>9 DEF Posting
  <2>2. sent[k] + One(Posting(job[h])) + lost[k]
          = sent[k] + One(emission[k] \in Alerted) + One(Posting(j)) + lost'[k]
    BY <1>2, <1>3, <1>4, <2>1 DEF One, Alerted
  <2>3. /\ job[h].step \in Open
        /\ \A q \in Keys \ {k} : /\ emission'[q] = emission[q]
                                 /\ sent'[q] = sent[q] /\ lost'[q] = lost[q]
        /\ emission'[k] = emission[k] /\ emission[k] \in Statuses
        /\ sent'[k] = sent[k] /\ sent[k] \in Nat /\ lost'[k] \in Nat
    BY <1>1, <1>4 DEF Open
  <2> QED
    BY <1>3, <1>8, <2>1, <2>2, <2>3, BooksBalance
<1>11. /\ holder' \in [Keys -> Handlers \cup {None}]
       /\ \A q \in Keys : \A g \in Handlers \ {h} : holder[q] = g => holder'[q] = g
       /\ \A q \in Keys : holder'[q] # None => emission'[q] = "absent"
  BY <1>1, <1>2, <1>3, KeyIsFreed
<1> QED
  BY <1>1, <1>5, <1>6, <1>7, <1>8, <1>9, <1>10, <1>11, CallKeepsInvariant DEF Open, sqsVars

(* Only a call that is through with both channels deletes the message.     *)
LEMMA AcknowledgeStep ==
    ASSUME IInv, NEW h \in Handlers, Acknowledge(h)
    PROVE  IInv'
<1>1. /\ job[h].step = "ack" /\ job' = [job EXCEPT ![h] = Idle]
      /\ UNCHANGED <<external, dead, receives, emission, holder, sent, lost, undone>>
      /\ queue' \subseteq queue /\ acked' \subseteq acked \cup {job[h].msg}
      /\ failed' \in {failed, failed + 1} /\ (failed' # failed => failed < MaxFailures)
  BY DEF Acknowledge, IInv, TypeOK
<1>2. PICK m \in Message : m = job[h].msg
  BY <1>1, AnyCall
<1>3. OtherTypes'
  <2>1. failed' \in 0..MaxFailures
    BY <1>1, Bounds DEF IInv, TypeOK
  <2> QED
    BY <1>1, <1>2, <2>1 DEF IInv, TypeOK, OtherTypes
<1>4. \A q \in Keys : Done(q)' = Done(q)
  BY <1>1 DEF Done
<1>5. \A ch \in Channels : Done(Key(m, ch))'
  <2>1. Done(Key(m, "email")) /\ Done(Key(m, "webhook"))
    BY <1>1, <1>2, AnyCall DEF DoneBy, CallOK
  <2> QED
    BY <1>1, <2>1 DEF Done, Channels
<1>6. AlertsMatchRows'
  BY <1>1, IdleCall, NothingPosted DEF Posting
<1>7. DoneBy(Idle)'
  BY IdleCall DEF DoneBy, Idle
<1>8. /\ holder \in [Keys -> Handlers \cup {None}]
      /\ \A q \in Keys : holder[q] # None => emission[q] = "absent"
  BY DEF IInv, TypeOK, HoldersOK
<1>9. PICK j : j = Idle
  OBVIOUS
<1>10. DoneBy(j)' /\ \A n \in acked' \ acked : \A ch \in Channels : Done(Key(n, ch))'
  BY <1>1, <1>2, <1>5, <1>9, IdleCall DEF DoneBy
<1> QED
  BY <1>1, <1>3, <1>4, <1>6, <1>8, <1>9, <1>10, IdleCall, CallKeepsInvariant DEF Open

(* A crash or a failed statement: the key is free, an alert is lost count. *)
LEMMA FailsStep ==
    ASSUME IInv, NEW h \in Handlers, HandlerFails(h)
    PROVE  IInv'
<1>1. /\ job[h].step # "idle" /\ failed < MaxFailures /\ failed' = failed + 1
      /\ job' = [job EXCEPT ![h] = Idle]
      /\ UNCHANGED <<external, sqsVars, emission, sent, undone>>
  BY DEF HandlerFails
<1>2. PICK k \in Keys : k = KeyOf(h)
  BY <1>1, AnyCall
<1>3. PICK j : j = Idle
  OBVIOUS
<1>4. /\ j \in Job /\ CallOK(j) /\ j.step = "idle" /\ DoneBy(j)' /\ ~Posting(j)
      /\ job' = [job EXCEPT ![h] = j]
  BY <1>1, <1>3, IdleCall DEF DoneBy, Posting
<1>5. \A q \in Keys : Done(q)' = Done(q)
  BY <1>1 DEF Done
<1>6. /\ holder \in [Keys -> Handlers \cup {None}] /\ sent \in [Keys -> Nat]
      /\ lost \in [Keys -> Nat] /\ emission \in [Keys -> Statuses]
      /\ \A q \in Keys : holder[q] # None => emission[q] = "absent"
  BY DEF IInv, TypeOK, HoldersOK
<1>7. failed' \in 0..MaxFailures
  BY <1>1, Bounds DEF IInv, TypeOK
<1>8. CASE job[h].step \in Open
  <2>1. /\ holder' = [holder EXCEPT ![k] = None]
        /\ lost' = IF job[h].outcome \in Alerted THEN [lost EXCEPT ![k] = @ + 1] ELSE lost
        /\ holder[k] = h /\ emission[k] = "absent" /\ CallOK(job[h])
    BY <1>2, <1>8, AnyCall DEF HandlerFails, Open
  <2>2. Posting(job[h]) <=> job[h].outcome \in Alerted
    BY <1>8, <2>1 DEF Posting, CallOK, Open, Alerted
  <2>3. /\ lost' \in [Keys -> Nat] /\ lost'[k] = lost[k] + One(Posting(job[h]))
        /\ \A q \in Keys \ {k} : lost'[q] = lost[q]
    BY <1>6, <2>1, <2>2 DEF One
  <2>4. OtherTypes'
    BY <1>1, <1>7, <2>3 DEF IInv, TypeOK, OtherTypes, sqsVars
  <2>5. AlertsMatchRows'
    <3>1. sent[k] + One(Posting(job[h])) + lost[k]
            = sent[k] + One(emission[k] \in Alerted) + One(Posting(j)) + lost'[k]
      BY <1>4, <1>6, <2>1, <2>3 DEF One, Alerted
    <3>2. /\ \A q \in Keys \ {k} : /\ emission'[q] = emission[q]
                                   /\ sent'[q] = sent[q] /\ lost'[q] = lost[q]
          /\ emission'[k] = emission[k] /\ emission[k] \in Statuses
          /\ sent'[k] = sent[k] /\ sent[k] \in Nat /\ lost'[k] \in Nat
      BY <1>1, <1>6, <2>3
    <3> QED
      BY <1>2, <1>4, <1>8, <3>1, <3>2, BooksBalance
  <2>6. /\ holder' \in [Keys -> Handlers \cup {None}]
        /\ \A q \in Keys : \A g \in Handlers \ {h} : holder[q] = g => holder'[q] = g
        /\ \A q \in Keys : holder'[q] # None => emission'[q] = "absent"
    BY <1>1, <2>1, KeyIsFreed
  <2> QED
    BY <1>1, <1>4, <1>5, <2>4, <2>5, <2>6, CallKeepsInvariant DEF Open, sqsVars
<1>9. CASE job[h].step \notin Open
  <2>1. UNCHANGED <<holder, lost>>
    BY <1>9 DEF HandlerFails, Open
  <2>2. OtherTypes'
    BY <1>1, <1>7, <2>1 DEF IInv, TypeOK, OtherTypes, sqsVars
  <2>3. AlertsMatchRows'
    BY <1>1, <1>4, <1>9, <2>1, NothingPosted DEF Posting, Open
  <2> QED
    BY <1>1, <1>4, <1>5, <1>6, <2>1, <2>2, <2>3, CallKeepsInvariant DEF Open, sqsVars
<1> QED
  BY <1>8, <1>9

-----------------------------------------------------------------------------
(* The timers and the queue                                                *)

(* Steps in which no call moves and no row changes.                        *)
LEMMA CallsAreStill ==
    ASSUME IInv, UNCHANGED <<acked, emission, holder, job, sent, lost, undone>>,
           TypeOK', UnbreachedIsOpen'
    PROVE  IInv'
<1>1. \A k \in Keys : InFlight(k)' = InFlight(k)
  BY DEF InFlight, KeyOf
<1>2. AlertsMatchRows'
  BY <1>1 DEF IInv, AlertsMatchRows
<1>3. CallsOK' /\ HoldersOK'
  BY DEF IInv, CallsOK, CallOK, HoldersOK, KeyOf
<1>4. ChannelsDone' /\ AckedHasOutcome'
  BY DEF IInv, ChannelsDone, DoneBy, Done, AckedHasOutcome
<1> QED
  BY <1>2, <1>3, <1>4 DEF IInv

LEMMA DeadLetterStep ==
    ASSUME IInv, NEW m \in queue, DeadLetter(m)
    PROVE  IInv'
<1>1. TypeOK' /\ UnbreachedIsOpen'
  BY DEF DeadLetter, IInv, TypeOK, UnbreachedIsOpen, external, timerVars
<1> QED
  BY <1>1, CallsAreStill DEF DeadLetter

(* A tick publishes boundaries that have not fired.                        *)
LEMMA FiringFacts ==
    ASSUME IInv, NEW t \in Timers, NEW B \in SUBSET Boundaries, NEW pc \in PctPairs,
           TimerFires(t, B, pc)
    PROVE  /\ fired' \in [Timers -> SUBSET Boundaries]
           /\ events' \in [Timers -> [Boundaries -> Nat]]
           /\ state' \in [Timers -> Engine!TimerStates]
           /\ fired'[t] = fired[t] \cup B
           /\ \A b \in Boundaries : events'[t][b] = events[t][b] + One(b \in B)
           /\ state'[t] = IF "breach" \in B THEN "breached" ELSE "running"
           /\ \A u \in Timers \ {t} : /\ state'[u] = state[u] /\ fired'[u] = fired[u]
                                      /\ events'[u] = events[u]
<1>1. /\ state \in [Timers -> Engine!TimerStates]
      /\ fired \in [Timers -> SUBSET Boundaries]
      /\ events \in [Timers -> [Boundaries -> Nat]]
  BY DEF IInv, TypeOK
<1>2. fired' = [fired EXCEPT ![t] = @ \cup B]
  BY DEF TimerFires
<1>3. events' = [events EXCEPT ![t] =
                   [b \in Boundaries |-> events[t][b] + (IF b \in B THEN 1 ELSE 0)]]
  BY <1>1 DEF TimerFires
<1>4. [b \in Boundaries |-> events[t][b] + (IF b \in B THEN 1 ELSE 0)] \in [Boundaries -> Nat]
  BY <1>1
<1>5. state' = [state EXCEPT ![t] = IF "breach" \in B THEN "breached" ELSE "running"]
  BY DEF TimerFires
<1>6. {"breached", "running"} \subseteq Engine!TimerStates
  BY DEF Engine!TimerStates, Engine!Settled
<1> QED
  BY <1>1, <1>2, <1>3, <1>4, <1>5, <1>6 DEF One

LEMMA TimerStep ==
    ASSUME IInv, NEW t \in Timers,
           \/ TimerStarts(t) \/ TimerSettles(t) \/ TicketCloses(t)
           \/ \E B \in SUBSET Boundaries, pc \in PctPairs : TimerFires(t, B, pc)
    PROVE  IInv'
<1>1. UNCHANGED <<acked, dead, receives, emission, holder, job, sent, lost, undone, failed>>
  BY DEF TimerStarts, TimerSettles, TicketCloses, TimerFires, workerVars
<1>2. CASE TimerStarts(t) \/ TimerSettles(t) \/ TicketCloses(t)
  <2>1. {"running", "met"} \subseteq Engine!TimerStates
    BY DEF Engine!TimerStates, Engine!Settled
  <2>2. TypeOK' /\ UnbreachedIsOpen'
    BY <1>1, <1>2, <2>1 DEF TimerStarts, TimerSettles, TicketCloses, timerVars, IInv, TypeOK,
                            UnbreachedIsOpen
  <2> QED
    BY <1>1, <2>2, CallsAreStill
<1>3. CASE \E B \in SUBSET Boundaries, pc \in PctPairs : TimerFires(t, B, pc)
  <2>1. PICK B \in SUBSET Boundaries, pc \in PctPairs : TimerFires(t, B, pc)
    BY <1>3
  <2>2. queue' \subseteq Message
    BY <2>1, PublishedIsMessage DEF TimerFires, IInv, TypeOK
  <2>3. TypeOK'
    <3>1. /\ fired' \in [Timers -> SUBSET Boundaries]
          /\ events' \in [Timers -> [Boundaries -> Nat]]
          /\ state' \in [Timers -> Engine!TimerStates]
      BY <2>1, FiringFacts
    <3>2. closed' = closed
      BY <2>1 DEF TimerFires
    <3> QED
      BY <1>1, <2>2, <3>1, <3>2 DEF IInv, TypeOK
  <2>4. UnbreachedIsOpen'
    BY <2>1, FiringFacts DEF TimerFires, IInv, UnbreachedIsOpen
  <2> QED
    BY <1>1, <2>3, <2>4, CallsAreStill
<1> QED
  BY <1>2, <1>3

-----------------------------------------------------------------------------
THEOREM InitInvariant == Init => IInv
<1> SUFFICES ASSUME Init PROVE IInv
  OBVIOUS
<1>1. \A h \in Handlers : job[h] = Idle
  BY DEF Init
<1>2. TypeOK
  BY IdleCall, Bounds DEF Init, Engine!Init, Engine!TimerStates, Engine!Boundaries, TypeOK,
                          Boundaries, Statuses
<1>3. UnbreachedIsOpen
  BY DEF Init, Engine!Init, UnbreachedIsOpen
<1>4. CallsOK /\ HoldersOK
  BY <1>1, IdleCall DEF Init, CallsOK, HoldersOK, Open
<1>5. ChannelsDone /\ AckedHasOutcome
  BY <1>1, IdleCall DEF Init, ChannelsDone, DoneBy, AckedHasOutcome
<1>6. AlertsMatchRows
  <2>1. \A k \in Keys : InFlight(k) = 0
    <3> SUFFICES ASSUME NEW k \in Keys PROVE InFlight(k) = 0
      OBVIOUS
    <3>1. {h \in Handlers : job[h].step = "commit" /\ job[h].outcome \in Alerted
                              /\ KeyOf(h) = k} = {}
      BY <1>1, IdleCall
    <3> QED
      BY <3>1, FS_EmptySet DEF InFlight
  <2> QED
    BY <2>1 DEF Init, AlertsMatchRows, Alerted
<1> QED
  BY <1>2, <1>3, <1>4, <1>5, <1>6 DEF IInv

THEOREM NextInvariant == IInv /\ [Next]_vars => IInv'
<1> SUFFICES ASSUME IInv, [Next]_vars PROVE IInv'
  OBVIOUS
<1>1. CASE \E t \in Timers :
             \/ TimerStarts(t) \/ TimerSettles(t) \/ TicketCloses(t)
             \/ \E B \in SUBSET Boundaries, pc \in PctPairs : TimerFires(t, B, pc)
  BY <1>1, TimerStep
<1>2. CASE \E h \in Handlers : \E m \in queue : Receive(h, m)
  BY <1>2, ReceiveStep
<1>3. CASE \E h \in Handlers : InsertEmission(h)
  BY <1>3, InsertStep
<1>4. CASE \E h \in Handlers : ReadGuards(h)
  BY <1>4, GuardsStep
<1>5. CASE \E h \in Handlers : \E outcome \in Statuses : Dispatch(h, outcome)
  BY <1>5, DispatchStep
<1>6. CASE \E h \in Handlers : CommitEmission(h)
  BY <1>6, CommitStep
<1>7. CASE \E h \in Handlers : Acknowledge(h)
  BY <1>7, AcknowledgeStep
<1>8. CASE \E h \in Handlers : AuditFails(h)
  BY <1>8, AuditStep
<1>9. CASE \E h \in Handlers : HandlerFails(h)
  BY <1>9, FailsStep
<1>10. CASE \E m \in queue : DeadLetter(m)
  BY <1>10, DeadLetterStep
<1>11. CASE UNCHANGED vars
  <2>1. TypeOK' /\ UnbreachedIsOpen'
    BY <1>11 DEF vars, timerVars, sqsVars, IInv, TypeOK, UnbreachedIsOpen
  <2> QED
    BY <1>11, <2>1, CallsAreStill DEF vars, sqsVars
<1> QED
  BY <1>1, <1>2, <1>3, <1>4, <1>5, <1>6, <1>7, <1>8, <1>9, <1>10, <1>11 DEF Next, HandlerStep

THEOREM Invariant == Spec => []IInv
BY InitInvariant, NextInvariant, PTL DEF Spec

-----------------------------------------------------------------------------
(* What a reader should know of                                            *)

(* Every reachable state is of the declared types: no redelivery, crash or *)
(* audit failure takes the bookkeeping of the worker out of its domain.    *)
THEOREM TypeCorrect == Spec => []TypeOK
<1>1. IInv => TypeOK
  BY DEF IInv
<1> QED
  BY <1>1, Invariant, PTL

(* A message is deleted only when both its channels have an outcome,       *)
(* whatever reception of it got how far (handleMessage).                   *)
THEOREM AckedMessagesHandled == Spec => []AckedHasOutcome
<1>1. IInv => AckedHasOutcome
  BY DEF IInv
<1> QED
  BY <1>1, Invariant, PTL

(* Redelivery and overlapping receptions never repeat an alert: each one   *)
(* accepted has its own row or its own lost transaction, for any number of *)
(* concurrent calls (the unique index of sla_reminder_emissions).          *)
THEOREM AlertsAreAccounted == Spec => []AlertsMatchRows
<1>1. IInv => AlertsMatchRows
  BY DEF IInv
<1> QED
  BY <1>1, Invariant, PTL

-----------------------------------------------------------------------------
(* Who holds a key is at work on it.  IInv says that a working call holds  *)
(* its key; this is the converse.                                          *)

(* A step of one call gives no key to another, and what is left to it is   *)
(* the key it works on.                                                    *)
LEMMA HolderMoves ==
    ASSUME IInv, HoldersWork, NEW h \in Handlers, NEW j \in Job,
           job' = [job EXCEPT ![h] = j],
           \A k \in Keys : \/ holder'[k] = None
                           \/ holder'[k] = holder[k] /\ holder[k] # h
                           \/ /\ holder'[k] = h
                              /\ j.step \in Open /\ Key(j.msg, j.channel) = k
    PROVE  HoldersWork'
<1>1. \A g \in Handlers : job'[g] = IF g = h THEN j ELSE job[g]
  BY DEF IInv, TypeOK
<1>2. SUFFICES ASSUME NEW k \in Keys, holder'[k] # None
               PROVE  /\ job'[holder'[k]].step \in Open
                      /\ Key(job'[holder'[k]].msg, job'[holder'[k]].channel) = k
  BY DEF HoldersWork, KeyOf, Open
<1>3. CASE holder'[k] = holder[k] /\ holder[k] # h
  <2>1. /\ holder[k] \in Handlers
        /\ job[holder[k]].step \in Open /\ KeyOf(holder[k]) = k
    BY <1>2, <1>3 DEF IInv, TypeOK, HoldersWork, Open
  <2> QED
    BY <1>1, <1>3, <2>1 DEF KeyOf
<1>4. CASE holder'[k] = h /\ j.step \in Open /\ Key(j.msg, j.channel) = k
  BY <1>1, <1>4
<1> QED
  BY <1>2, <1>3, <1>4

(* A call that is outside a transaction holds nothing; one that is inside  *)
(* holds its own key only.                                                 *)
LEMMA HoldsOnlyItsKey ==
    ASSUME IInv, HoldersWork, NEW h \in Handlers, NEW k \in Keys, holder[k] = h
    PROVE  job[h].step \in Open /\ KeyOf(h) = k
BY NoneAssumption DEF HoldersWork, Open

(* The steps after which the call holds no key.                            *)
LEMMA HolderLetsGo ==
    ASSUME IInv, HoldersWork, NEW h \in Handlers, NEW j \in Job,
           job' = [job EXCEPT ![h] = j],
           \/ job[h].step \notin Open /\ UNCHANGED holder
           \/ holder' = [holder EXCEPT ![KeyOf(h)] = None]
    PROVE  HoldersWork'
<1>1. \A k \in Keys : holder'[k] = None \/ (holder'[k] = holder[k] /\ holder[k] # h)
  BY HoldsOnlyItsKey DEF IInv, TypeOK
<1> QED
  BY <1>1, HolderMoves

LEMMA HoldersStep ==
    ASSUME IInv, HoldersWork, NEW h \in Handlers,
           HandlerStep(h) \/ AuditFails(h) \/ HandlerFails(h)
    PROVE  HoldersWork'
<1>1. /\ job \in [Handlers -> Job] /\ job[h] \in Job /\ CallOK(job[h])
      /\ holder \in [Keys -> Handlers \cup {None}]
      /\ job[h].step # "idle" => KeyOf(h) \in Keys
      /\ job[h].step \in Open => holder[KeyOf(h)] = h
  BY AnyCall DEF IInv, TypeOK
<1>2. CASE \E m \in queue : Receive(h, m)
  <2>1. PICK m \in queue : Receive(h, m)
    BY <1>2
  <2>2. m \in Message /\ [Idle EXCEPT !.step = "insert", !.msg = m] \in Job
    BY DEF IInv, TypeOK, Idle, Job, Channels, Statuses
  <2> QED
    BY <2>1, <2>2, HolderLetsGo DEF Receive, Open
<1>3. CASE InsertEmission(h)
  <2>1. job[h].step = "insert" /\ job[h].step \notin Open
    BY <1>3 DEF InsertEmission, Open
  <2>2. CASE emission[KeyOf(h)] # "absent"
    <3>1. /\ job' = [job EXCEPT ![h] = NextChannel(job[h])] /\ UNCHANGED holder
          /\ NextChannel(job[h]) \in Job
      BY <1>1, <1>3, <2>1, <2>2, NextChannelFacts DEF InsertEmission
    <3> QED
      BY <2>1, <3>1, HolderLetsGo
  <2>3. CASE emission[KeyOf(h)] = "absent"
    <3>1. PICK j : j = [job[h] EXCEPT !.step = "guard"]
      OBVIOUS
    <3>2. /\ j \in Job /\ job' = [job EXCEPT ![h] = j] /\ j.step \in Open
          /\ Key(j.msg, j.channel) = KeyOf(h)
          /\ holder' = [holder EXCEPT ![KeyOf(h)] = h]
      BY <1>1, <1>3, <2>3, <3>1 DEF InsertEmission, Job, Open, KeyOf
    <3>3. \A k \in Keys : \/ k = KeyOf(h) /\ holder'[k] = h
                          \/ holder'[k] = holder[k] /\ holder[k] # h
      BY <1>1, <2>1, <3>2, HoldsOnlyItsKey
    <3> QED
      BY <3>2, <3>3, HolderMoves
  <2> QED
    BY <2>2, <2>3
<1>4. ASSUME NEW s \in {"dispatch", "commit"}, NEW o \in Statuses, UNCHANGED holder,
             job[h].step \in {"guard", "dispatch"},
             job' = [job EXCEPT ![h].step = s, ![h].outcome = o]
      PROVE  HoldersWork'
  <2>1. PICK j : j = [job[h] EXCEPT !.step = s, !.outcome = o]
    OBVIOUS
  <2>2. /\ j \in Job /\ job' = [job EXCEPT ![h] = j] /\ j.step \in Open
        /\ Key(j.msg, j.channel) = KeyOf(h)
    BY <1>1, <1>4, <2>1 DEF Job, Open, KeyOf
  <2>3. \A k \in Keys : \/ holder'[k] = None
                        \/ holder'[k] = holder[k] /\ holder[k] # h
                        \/ holder'[k] = h /\ KeyOf(h) = k
    BY <1>1, <1>4, HoldsOnlyItsKey
  <2> QED
    BY <2>2, <2>3, HolderMoves
<1>5. CASE ReadGuards(h)
  <2>1. PICK s \in {"commit", "dispatch"}, o \in {"absent", "suppressed", "unroutable"} :
          job' = [job EXCEPT ![h].step = s, ![h].outcome = o]
    BY <1>5 DEF ReadGuards
  <2> QED
    BY <1>4, <1>5, <2>1 DEF ReadGuards, Statuses
<1>6. CASE \E outcome \in Statuses : Dispatch(h, outcome)
  BY <1>4, <1>6 DEF Dispatch
<1>7. CASE CommitEmission(h)
  <2>1. AfterCommit(job[h]) \in Job
    BY <1>1, <1>7, IdleCall, NextChannelFacts DEF CommitEmission, AfterCommit
  <2> QED
    BY <1>1, <1>7, <2>1, HolderLetsGo DEF CommitEmission
<1>8. CASE Acknowledge(h)
  BY <1>8, IdleCall, HolderLetsGo DEF Acknowledge, Open
<1>9. CASE AuditFails(h)
  <2>1. NextChannel(job[h]) \in Job
    BY <1>1, <1>9, NextChannelFacts DEF AuditFails
  <2> QED
    BY <1>1, <1>9, <2>1, HolderLetsGo DEF AuditFails
<1>10. CASE HandlerFails(h)
  BY <1>10, IdleCall, HolderLetsGo DEF HandlerFails, Open
<1> QED
  BY <1>2, <1>3, <1>5, <1>6, <1>7, <1>8, <1>9, <1>10 DEF HandlerStep

(* No call waits for a call that waits: the holder of a key is inside the  *)
(* transaction that inserted it, for any number of concurrent calls and    *)
(* wherever they die, so processChannel's inserts cannot deadlock.         *)
THEOREM NoCircularWait == Spec => []HoldersWork
<1>1. Init => HoldersWork
  BY DEF Init, HoldersWork
<1>2. IInv /\ HoldersWork /\ [Next]_vars => HoldersWork'
  <2> SUFFICES ASSUME IInv, HoldersWork, [Next]_vars PROVE HoldersWork'
    OBVIOUS
  <2>1. CASE \E h \in Handlers : HandlerStep(h) \/ AuditFails(h) \/ HandlerFails(h)
    BY <2>1, HoldersStep
  <2>2. CASE UNCHANGED <<holder, job>>
    BY <2>2 DEF HoldersWork, KeyOf
  <2> QED
    BY <2>1, <2>2 DEF Next, TimerStarts, TimerSettles, TicketCloses, TimerFires, DeadLetter,
                      workerVars, vars
<1> QED
  BY <1>1, <1>2, Invariant, PTL DEF Spec

-----------------------------------------------------------------------------
(* Every step of the producer is a step of the timer contract.             *)
LEMMA ContractStep ==
    ASSUME IInv, IInv', [Next]_vars
    PROVE  [Engine!Next]_(Engine!vars)
<1>1. /\ state' \in [Timers -> Engine!TimerStates]
      /\ fired' \in [Timers -> SUBSET Engine!Boundaries]
      /\ events' \in [Timers -> [Engine!Boundaries -> Nat]]
  BY DEF IInv, TypeOK, Boundaries
<1>2. CASE \E t \in Timers : TimerStarts(t) \/ TimerSettles(t)
  <2>1. PICK t \in Timers : TimerStarts(t) \/ TimerSettles(t)
    BY <1>2
  <2>2. /\ UNCHANGED <<fired, events>>
        /\ \A u \in Timers \ {t} : state'[u] = state[u]
        /\ \/ state[t] = "none" /\ state'[t] = "running"
           \/ state[t] = "running" /\ state'[t] = "met"
    BY <2>1 DEF TimerStarts, TimerSettles, IInv, TypeOK
  <2>3. \A u \in Timers : Engine!Quiet(u) \/ Engine!Create(u) \/ Engine!Settle(u)
    BY <2>2 DEF Engine!Quiet, Engine!Create, Engine!Settle
  <2> QED
    BY <1>1, <2>3 DEF Engine!Next
<1>3. CASE \E t \in Timers, B \in SUBSET Boundaries, pc \in PctPairs : TimerFires(t, B, pc)
  <2>1. PICK t \in Timers, B \in SUBSET Boundaries, pc \in PctPairs : TimerFires(t, B, pc)
    BY <1>3
  <2>2. /\ state[t] = "running" /\ B # {} /\ B \cap fired[t] = {}
        /\ Engine!InOrder(fired[t] \cup B)
    BY <2>1 DEF TimerFires
  <2>3. "breach" \notin fired[t]
    BY <2>2 DEF IInv, UnbreachedIsOpen
  <2>4. fired'[t] = fired[t] \cup B /\ fired'[t] \ fired[t] = B
    <3>1. fired'[t] = fired[t] \cup B
      BY <2>1, FiringFacts
    <3> QED
      BY <2>2, <3>1
  <2>5. \A b \in Engine!Boundaries :
          events'[t][b] = events[t][b] + (IF b \in fired'[t] \ fired[t] THEN 1 ELSE 0)
    <3>1. \A b \in Boundaries : events'[t][b] = events[t][b] + One(b \in B)
      BY <2>1, FiringFacts
    <3> QED
      BY <2>4, <3>1 DEF Boundaries, One
  <2>6. state'[t] = IF "breach" \in fired'[t] THEN "breached" ELSE "running"
    BY <2>1, <2>3, <2>4, FiringFacts
  <2>7. Engine!Fire(t)
    BY <2>2, <2>4, <2>5, <2>6 DEF Engine!Fire
  <2>8. \A u \in Timers \ {t} : Engine!Quiet(u)
    BY <2>1, FiringFacts DEF Engine!Quiet
  <2> QED
    BY <1>1, <2>7, <2>8 DEF Engine!Next
<1>4. CASE UNCHANGED timerVars
  BY <1>4 DEF timerVars, Engine!vars
<1>5. \/ \E t \in Timers : TimerStarts(t) \/ TimerSettles(t)
      \/ \E t \in Timers, B \in SUBSET Boundaries, pc \in PctPairs : TimerFires(t, B, pc)
      \/ UNCHANGED timerVars
  BY DEF Next, HandlerStep, TicketCloses, Receive, InsertEmission, ReadGuards, Dispatch,
         CommitEmission, Acknowledge, AuditFails, HandlerFails, DeadLetter, external, vars
<1> QED
  BY <1>2, <1>3, <1>4, <1>5

(* The producer of the messages implements the contract that the scheduler *)
(* implements too: what is shown of the worker holds behind SlaScheduler.  *)
THEOREM ProducerImplementsContract == Spec => ProducerKeepsContract
<1>1. Init => Engine!Init
  BY DEF Init
<1>2. IInv /\ IInv' /\ [Next]_vars => [Engine!Next]_(Engine!vars)
  BY ContractStep
<1> QED
  BY <1>1, <1>2, Invariant, PTL DEF Spec, ProducerKeepsContract, Engine!Spec
=============================================================================
