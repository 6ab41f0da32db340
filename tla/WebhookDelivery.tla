-------------------------- MODULE WebhookDelivery --------------------------
(***************************************************************************)
(* The webhook worker: one pod that receives delivery messages from SQS    *)
(* and posts them to tenants' endpoints (webhook-worker/src), with the     *)
(* endpoint administration of the API beside it.                           *)
(*                                                                         *)
(* A call of handleMessage uses a pooled connection for a first            *)
(* transaction, gives it back, takes a concurrency slot in Redis, posts,   *)
(* gives the slot back and records the outcome in a second transaction.    *)
(* Its outer catch rolls back and releases the FIRST connection once more, *)
(* whoever uses it by then, so connections, the pool and the open          *)
(* transactions are part of the model.                                     *)
(***************************************************************************)
EXTENDS Naturals, FiniteSets, Sequences, SequencesExt

CONSTANTS
    Endpoints,
    Messages,      \* one message per (event, endpoint) that parseEnvelope accepts;
                   \* its body never changes.  One it refuses is deleted, no more
    EndpointOf,    \* EndpointOf[m]
    Attempt,       \* Attempt[m], the attempt number in the body of m
    Handlers,      \* concurrent handleMessage calls of the pod
    Conns,         \* the connections of its pool
    Cap,           \* WEBHOOK_CONCURRENCY_CAP
    Threshold,     \* WEBHOOK_AUTO_DISABLE_THRESHOLD
    MaxAttempts,   \* MAX_WEBHOOK_DELIVERY_ATTEMPTS
    MaxLimited,    \* bound: how often the tenant's rate limit refuses
    MaxFaults,     \* bound: failed calls and statements, restarts, visibility
                   \* timeouts that pass while a message is being handled
    MaxEdits,      \* bound: endpoint changes by administrators
    None

(* DispatchOutcome.  'dropped' is written without a post.                  *)
Outcomes == {"delivered", "failed_retryable", "failed_permanent", "dropped", "blocked"}

ASSUME FiniteCalls == IsFiniteSet(Handlers) /\ IsFiniteSet(Conns)

ASSUME Bounds ==
    /\ EndpointOf \in [Messages -> Endpoints]
    /\ Attempt \in [Messages -> Nat \ {0}]
    /\ Cap \in Nat \ {0} /\ Threshold \in Nat \ {0} /\ MaxAttempts \in Nat \ {0}
    /\ MaxLimited \in Nat /\ MaxFaults \in Nat /\ MaxEdits \in Nat
    /\ None \notin Messages \cup Conns \cup Handlers \cup Outcomes

VARIABLES
    queue,       \* messages SQS holds; the others were deleted
    endpoint,    \* rows of webhook_endpoints
    row,         \* row[m]: the outcome in the webhook_deliveries row of m
    notified,    \* endpoints with a row for their notification
    slots,       \* slots[e]: the counter wh:conc:<e>
    idle,        \* the pool's idle connections, the last released last
    tx,          \* tx[c]: the transaction open on connection c
    job,         \* job[h]: what handler h is doing
    limited, faults, edits,     \* counters for the bounds
    \* observers
    expired,     \* endpoints whose counter expired under a post
    abandoned,   \* connections a finished call left checked out
    torn,        \* messages whose COMMIT found no transaction
    charged,     \* posts of m that nothing excuses
    failedPosts  \* posts to e that failed since its last recorded success, up to
                 \* Threshold

db == <<endpoint, row, notified>>
redis == <<slots, expired>>
pool == <<idle, tx, abandoned>>
bounds == <<limited, faults, edits>>
observers == <<torn, charged, failedPosts>>
vars == <<queue, db, redis, pool, job, bounds, observers>>

Statuses == {"active", "disabled", "auto_disabled", "deleted"}

Failures == {"failed_retryable", "failed_permanent"}

Steps == {"idle", "load", "gate", "dispatch", "record", "count", "commit",
          "catch", "free"}

Idle == [step |-> "idle", msg |-> None, first |-> None, second |-> None,
         outcome |-> "dropped", overlap |-> FALSE, posted |-> FALSE]

NoTx == [open |-> FALSE, writes |-> <<>>]

Min2(a, b) == IF a < b THEN a ELSE b

Target(h) == EndpointOf[job[h].msg]

InFlight(e) == {h \in Handlers : job[h].step = "dispatch" /\ Target(h) = e}

(* Calls whose post to e failed and that have not recorded it yet.         *)
Pending(e) == {h \in Handlers : /\ job[h].step \in {"record", "count", "commit"}
                                /\ job[h].outcome \in Failures
                                /\ Target(h) = e}

Inactive(e) == endpoint[e].deletedAt \/ endpoint[e].status = "auto_disabled"

Init ==
    /\ queue = Messages
    /\ endpoint = [e \in Endpoints |->
           [status |-> "active", deletedAt |-> FALSE, failures |-> 0]]
    /\ row = [m \in Messages |-> None]
    /\ notified = {}
    /\ slots = [e \in Endpoints |-> 0]
    /\ idle = SetToSeq(Conns)
    /\ tx = [c \in Conns |-> NoTx]
    /\ job = [h \in Handlers |-> Idle]
    /\ limited = 0 /\ faults = 0 /\ edits = 0
    /\ expired = {} /\ abandoned = {} /\ torn = {}
    /\ charged = [m \in Messages |-> 0]
    /\ failedPosts = [e \in Endpoints |-> 0]

Fault == faults < MaxFaults /\ faults' = faults + 1 /\ UNCHANGED <<limited, edits>>

Goto(h, s) == job' = [job EXCEPT ![h].step = s]

(* pool.connect() takes the connection released last (pg-pool).            *)
Taken(c) == idle # <<>> /\ c = Last(idle) /\ idle' = Front(idle)

(* client.release(): the pool takes the connection back from its current   *)
(* holder; when nobody holds it the call throws.                           *)
Released(c) == IF Contains(idle, c) THEN idle ELSE Append(idle, c)

-----------------------------------------------------------------------------
(* What a transaction writes                                               *)

(* The outcomes that bump consecutive_failures.                            *)
Counted(o) == o \in Failures

(* Mutant: a success leaves consecutive_failures alone.                    *)
Apply_NoReset(d, w) ==
    IF w.kind = "row"
    THEN [d EXCEPT !.row[w.msg] = IF @ = None THEN w.outcome ELSE @]
    ELSE LET e == EndpointOf[w.msg]
             n == Min2(d.endpoint[e].failures + 1, Threshold)
         IN  IF w.outcome = "delivered" THEN d
             ELSE [d EXCEPT !.endpoint[e].failures = n,
                            !.endpoint[e].status =
                                IF n >= Threshold THEN "auto_disabled" ELSE @,
                            !.notified =
                                IF n >= Threshold THEN @ \cup {e} ELSE @]

(* INSERT ... ON CONFLICT DO NOTHING of the delivery row; the reset or the *)
(* increment of consecutive_failures, with the status and the notification *)
(* that go with it.  The notification's dedupeKey is made of the endpoint  *)
(* alone: of an endpoint disabled a second time nobody is told.  Counting  *)
(* stops at Threshold: only >= is ever asked.                              *)
Apply(d, w) ==
    IF w.kind = "row"
    THEN [d EXCEPT !.row[w.msg] = IF @ = None THEN w.outcome ELSE @]
    ELSE LET e == EndpointOf[w.msg]
             n == Min2(d.endpoint[e].failures + 1, Threshold)
         IN  IF w.outcome = "delivered"
             THEN [d EXCEPT !.endpoint[e].failures = 0]
             ELSE [d EXCEPT !.endpoint[e].failures = n,
                            !.endpoint[e].status =
                                IF n >= Threshold THEN "auto_disabled" ELSE @,
                            !.notified =
                                IF n >= Threshold THEN @ \cup {e} ELSE @]

Committed(writes) ==
    LET d[i \in 0..Len(writes)] ==
            IF i = 0 THEN [endpoint |-> endpoint, row |-> row, notified |-> notified]
            ELSE Apply(d[i - 1], writes[i])
    IN  d[Len(writes)]

(* The writes record a success of e.                                       *)
Succeeds(writes, e) ==
    \E i \in 1..Len(writes) : /\ writes[i].kind = "count"
                              /\ writes[i].outcome = "delivered"
                              /\ EndpointOf[writes[i].msg] = e

(* COMMIT on c: whatever its transaction holds becomes visible; without an *)
(* open transaction it is a warning.  After a success the failures counted *)
(* from are the ones still to be recorded.                                 *)
CommitOn(c, more) ==
    LET d == Committed(tx[c].writes \o more)
    IN  /\ endpoint' = d.endpoint /\ row' = d.row /\ notified' = d.notified
        /\ tx' = [tx EXCEPT ![c] = NoTx]
        /\ failedPosts' = [e \in Endpoints |->
               IF Succeeds(tx[c].writes \o more, e)
               THEN Min2(Cardinality(Pending(e)), Threshold) ELSE failedPosts[e]]

(* BEGIN inside an open transaction is a warning too.                      *)
BeginOn(c) == tx' = [tx EXCEPT ![c].open = TRUE]

RollbackOn(c) == tx' = [tx EXCEPT ![c] = NoTx]

-----------------------------------------------------------------------------
(* The queue                                                               *)

Overlaps(h, m) == \E g \in Handlers \ {h} : job[g].msg = m

(* ReceiveMessage, pool.connect(), BEGIN, set_config.  A message reappears *)
(* after its visibility timeout, even while another call still handles it. *)
(* A call that gets no connection in time throws before its try and has    *)
(* changed nothing.                                                        *)
Receive(h, m, c) ==
    /\ job[h].step = "idle"
    /\ m \in queue
    /\ IF Overlaps(h, m) THEN Fault ELSE UNCHANGED bounds
    /\ Taken(c)
    /\ BeginOn(c)
    /\ job' = [job EXCEPT ![h] = [Idle EXCEPT !.step = "load", !.msg = m, !.first = c,
                                              !.overlap = Overlaps(h, m)]]
    /\ UNCHANGED <<queue, db, redis, abandoned, observers>>

(* handleMessage returns: DeleteMessage, and the message comes again when  *)
(* that fails.                                                             *)
Deleted(m) ==
    \/ queue' = queue \ {m} /\ UNCHANGED bounds
    \/ Fault /\ UNCHANGED queue

-----------------------------------------------------------------------------
(* The catch of handleMessage                                              *)

(* A post whose transaction is lost may be repeated.                       *)
Excuse(h) ==
    charged' = IF job[h].posted THEN [charged EXCEPT ![job[h].msg] = @ - 1] ELSE charged

Throw(h) ==
    /\ job' = [job EXCEPT ![h] =
           [Idle EXCEPT !.step = "catch", !.msg = job[h].msg, !.first = job[h].first]]
    /\ Excuse(h)

(* client.query('ROLLBACK') on the first connection, held or not ...       *)
CatchRollback(h) ==
    /\ job[h].step = "catch"
    /\ RollbackOn(job[h].first)
    /\ Goto(h, "free")
    /\ UNCHANGED <<queue, db, redis, idle, abandoned, bounds, observers>>

(* Mutant: the catch rolls back and forgets the connection.                *)
CatchRelease_Forgets(h) ==
    /\ job[h].step = "free"
    /\ job' = [job EXCEPT ![h] = Idle]
    /\ UNCHANGED <<queue, db, redis, idle, tx, abandoned, bounds, observers>>

(* ... and client.release(); that it may throw changes nothing here.       *)
CatchRelease(h) ==
    /\ job[h].step = "free"
    /\ idle' = Released(job[h].first)
    /\ abandoned' = abandoned \ {job[h].first}
    /\ job' = [job EXCEPT ![h] = Idle]
    /\ UNCHANGED <<queue, db, redis, tx, bounds, observers>>

-----------------------------------------------------------------------------
(* The first transaction                                                   *)

(* Mutant: an inactive endpoint's delivery is dropped without a row.       *)
LoadStops_Silent(h) ==
    LET m == job[h].msg
        c == job[h].first
    IN  /\ job[h].step = "load"
        /\ tx[c].open
        /\ Inactive(Target(h)) \/ row[m] # None
        /\ CommitOn(c, <<>>)
        /\ abandoned' = abandoned \cup {c}
        /\ job' = [job EXCEPT ![h] = Idle]
        /\ Deleted(m)
        /\ UNCHANGED <<redis, idle, torn, charged>>

(* The endpoint is inactive, or the attempt has its row already: COMMIT    *)
(* and return, with the connection still checked out.                      *)
LoadStops(h) ==
    LET m == job[h].msg
        c == job[h].first
        drop == [kind |-> "row", msg |-> m, outcome |-> "dropped"]
    IN  /\ job[h].step = "load"
        /\ tx[c].open
        /\ Inactive(Target(h)) \/ row[m] # None
        /\ CommitOn(c, IF Inactive(Target(h)) THEN <<drop>> ELSE <<>>)
        /\ abandoned' = abandoned \cup {c}
        /\ job' = [job EXCEPT ![h] = Idle]
        /\ Deleted(m)
        /\ UNCHANGED <<redis, idle, torn, charged>>

(* Mutant: no idempotency check.                                           *)
LoadGoesOn_Unchecked(h) ==
    /\ job[h].step = "load"
    /\ tx[job[h].first].open
    /\ ~Inactive(Target(h))
    /\ CommitOn(job[h].first, <<>>)
    /\ idle' = Released(job[h].first)
    /\ Goto(h, IF Contains(idle, job[h].first) THEN "catch" ELSE "gate")
    /\ UNCHANGED <<queue, redis, abandoned, bounds, torn, charged>>

(* COMMIT and release, which throws when the connection has been released  *)
(* behind this call's back.                                                *)
LoadGoesOn(h) ==
    /\ job[h].step = "load"
    /\ tx[job[h].first].open
    /\ ~Inactive(Target(h)) /\ row[job[h].msg] = None
    /\ CommitOn(job[h].first, <<>>)
    /\ idle' = Released(job[h].first)
    /\ Goto(h, IF Contains(idle, job[h].first) THEN "catch" ELSE "gate")
    /\ UNCHANGED <<queue, redis, abandoned, bounds, torn, charged>>

(* A statement fails: by itself, or because the transaction that binds the *)
(* tenant is gone and the row policies cannot be evaluated.                *)
LoadFails(h) ==
    /\ job[h].step = "load"
    /\ IF tx[job[h].first].open THEN Fault ELSE UNCHANGED bounds
    /\ Goto(h, "catch")
    /\ UNCHANGED <<queue, db, redis, pool, observers>>

-----------------------------------------------------------------------------
(* Gating and dispatch                                                     *)

(* Mutant: one too many.                                                   *)
FreeSlot_OffByOne(e) == slots[e] <= Cap

(* ACQUIRE_SEMAPHORE_SCRIPT counts below the cap only.                     *)
FreeSlot(e) == slots[e] < Cap

(* Both scripts admit the delivery.                                        *)
GateAdmits(h) ==
    LET e == Target(h)
    IN  /\ job[h].step = "gate"
        /\ FreeSlot(e)
        /\ slots' = [slots EXCEPT ![e] = @ + 1]
        /\ Goto(h, "dispatch")
        /\ UNCHANGED <<queue, db, expired, pool, bounds, observers>>

(* Mutant: a slot is given back whether or not one was taken.              *)
GateRequeues_Releases(h) ==
    LET e == Target(h)
    IN  /\ job[h].step = "gate"
        /\ ~FreeSlot(e)
        /\ slots' = [slots EXCEPT ![e] = @ - 1]
        /\ job' = [job EXCEPT ![h] = Idle]
        /\ UNCHANGED <<queue, db, expired, pool, bounds, observers>>

(* No slot, or a slot but no token: the message reappears in a second, and *)
(* a slot that was taken is kept.                                          *)
GateRequeues(h) ==
    LET e == Target(h)
    IN  /\ job[h].step = "gate"
        /\ \/ /\ ~FreeSlot(e)
              /\ UNCHANGED <<slots, bounds>>
           \/ /\ FreeSlot(e)
              /\ limited < MaxLimited
              /\ limited' = limited + 1
              /\ slots' = [slots EXCEPT ![e] = @ + 1]
              /\ UNCHANGED <<faults, edits>>
        /\ job' = [job EXCEPT ![h] = Idle]
        /\ UNCHANGED <<queue, db, expired, pool, observers>>

(* Redis or KMS fails: a slot that was taken is kept here as well.         *)
GateFails(h) ==
    /\ job[h].step \in {"gate", "dispatch"}
    /\ Fault
    /\ Goto(h, "catch")
    /\ \/ UNCHANGED slots
       \/ job[h].step = "gate" /\ FreeSlot(Target(h))
            /\ slots' = [slots EXCEPT ![Target(h)] = @ + 1]
    /\ UNCHANGED <<queue, db, expired, pool, observers>>

(* RELEASE_SEMAPHORE_SCRIPT, never below 0; an error is ignored.           *)
ReleaseSlot(h) ==
    LET e == Target(h)
    IN  \/ slots' = [slots EXCEPT ![e] = IF @ > 0 THEN @ - 1 ELSE 0] /\ UNCHANGED bounds
        \/ Fault /\ UNCHANGED slots

(* dispatchWebhook: a post with its outcome, or refused by the URL check;  *)
(* then the slot is given back.                                            *)
Dispatch(h, o) ==
    LET charge == o # "blocked" /\ ~job[h].overlap
    IN  /\ job[h].step = "dispatch"
        /\ o \in Outcomes \ {"dropped"}
        /\ ReleaseSlot(h)
        /\ job' = [job EXCEPT ![h].step = "record", ![h].outcome = o, ![h].posted = charge]
        /\ charged' = IF charge THEN [charged EXCEPT ![job[h].msg] = @ + 1] ELSE charged
        /\ failedPosts' = IF o \in Failures
                          THEN [failedPosts EXCEPT ![Target(h)] = Min2(@ + 1, Threshold)]
                          ELSE failedPosts
        /\ UNCHANGED <<queue, db, expired, pool, torn>>

(* The counter's key expires CONCURRENCY_TTL_SECONDS after it left 0.  A   *)
(* dispatch may take longer: it has as long to connect, as long again for  *)
(* the headers and then the body's time.                                   *)
Expire(e) ==
    /\ slots[e] > 0
    /\ slots' = [slots EXCEPT ![e] = 0]
    /\ expired' = IF InFlight(e) = {} THEN expired ELSE expired \cup {e}
    /\ UNCHANGED <<queue, db, pool, job, bounds, observers>>

-----------------------------------------------------------------------------
(* The second transaction                                                  *)

(* pool.connect() for client2, BEGIN, set_config, recordAttempt.           *)
RecordAttempt(h, c) ==
    /\ job[h].step = "record"
    /\ Taken(c)
    /\ tx' = [tx EXCEPT ![c] = [open |-> TRUE, writes |-> Append(@.writes,
           [kind |-> "row", msg |-> job[h].msg, outcome |-> job[h].outcome])]]
    /\ job' = [job EXCEPT ![h].step = "count", ![h].second = c]
    /\ UNCHANGED <<queue, db, redis, abandoned, bounds, observers>>

(* No connection within connectionTimeoutMillis, after the post.           *)
ReconnectTimesOut(h) ==
    /\ job[h].step = "record"
    /\ idle = <<>>
    /\ Throw(h)
    /\ UNCHANGED <<queue, db, redis, pool, bounds, torn, failedPosts>>

(* The counter of the endpoint, whether or not the row was new.            *)
CountOutcome(h) ==
    LET o == job[h].outcome
    IN  /\ job[h].step = "count"
        /\ \/ /\ o = "delivered" \/ Counted(o)
              /\ tx[job[h].second].open
              /\ tx' = [tx EXCEPT ![job[h].second].writes = Append(@,
                     [kind |-> "count", msg |-> job[h].msg, outcome |-> o])]
           \/ o # "delivered" /\ ~Counted(o) /\ UNCHANGED tx
        /\ Goto(h, "commit")
        /\ UNCHANGED <<queue, db, redis, idle, abandoned, bounds, observers>>

(* classifyRetry, as far as the consumer uses it.                          *)
Retries(o, attempt) == o = "failed_retryable" /\ attempt < MaxAttempts

(* COMMIT and release.  A retry only makes the same message visible again  *)
(* after a delay: nextAttempt goes to the log.                             *)
CommitOutcome(h) ==
    LET m == job[h].msg
        c == job[h].second
    IN  /\ job[h].step = "commit"
        /\ CommitOn(c, <<>>)
        /\ idle' = Released(c)
        /\ \/ /\ Contains(idle, c)
              /\ job' = [job EXCEPT ![h] =
                     [Idle EXCEPT !.step = "catch", !.msg = m, !.first = job[h].first]]
              /\ UNCHANGED <<queue, bounds>>
           \/ /\ ~Contains(idle, c)
              /\ job' = [job EXCEPT ![h] = Idle]
              /\ IF Retries(job[h].outcome, Attempt[m])
                 THEN UNCHANGED <<queue, bounds>> ELSE Deleted(m)
        /\ IF row'[m] = None
           THEN torn' = torn \cup {m} /\ Excuse(h)
           ELSE UNCHANGED <<torn, charged>>
        /\ UNCHANGED <<redis, abandoned>>

(* A statement of it fails, by itself or for want of a tenant: ROLLBACK,   *)
(* release, rethrow into the outer catch.                                  *)
OutcomeFails(h) ==
    LET c == job[h].second
    IN  /\ job[h].step \in {"count", "commit"}
        /\ IF tx[c].open \/ job[h].step = "commit" THEN Fault ELSE UNCHANGED bounds
        /\ RollbackOn(c)
        /\ idle' = Released(c)
        /\ Throw(h)
        /\ UNCHANGED <<queue, db, redis, abandoned, torn, failedPosts>>

-----------------------------------------------------------------------------
(* The rest of the world                                                   *)

(* The pod dies: its transactions are rolled back, its calls forgotten.    *)
Restart ==
    /\ Fault
    /\ job' = [h \in Handlers |-> Idle]
    /\ tx' = [c \in Conns |-> NoTx]
    /\ idle' = SetToSeq(Conns) /\ abandoned' = {}
    /\ charged' = [m \in Messages |->
           charged[m] - Cardinality({h \in Handlers : job[h].msg = m /\ job[h].posted})]
    /\ UNCHANGED <<queue, db, slots, expired, torn, failedPosts>>

(* disable, enable and delete of WebhookEndpointsService.  Enabling keeps  *)
(* consecutive_failures.                                                   *)
EditEndpoint(e, s) ==
    /\ s \in {"active", "disabled", "deleted"}
    /\ edits < MaxEdits
    /\ ~endpoint[e].deletedAt
    /\ edits' = edits + 1
    /\ endpoint' = [endpoint EXCEPT ![e].status = s, ![e].deletedAt = (s = "deleted")]
    /\ UNCHANGED <<queue, row, notified, redis, pool, job, limited, faults, observers>>

(* What happens to a call without a failure of its own.                    *)
HandlerStep(h) ==
    \/ \E c \in Conns : \/ \E m \in queue : ~Overlaps(h, m) /\ Receive(h, m, c)
                       \/ RecordAttempt(h, c)
    \/ LoadStops(h) \/ LoadGoesOn(h)
    \/ GateAdmits(h) \/ GateRequeues(h)
    \/ \E o \in Outcomes : Dispatch(h, o)
    \/ ReconnectTimesOut(h) \/ CountOutcome(h) \/ CommitOutcome(h)
    \/ (job[h].step = "load" /\ ~tx[job[h].first].open /\ LoadFails(h))
    \/ (job[h].step = "count" /\ ~tx[job[h].second].open /\ OutcomeFails(h))
    \/ CatchRollback(h) \/ CatchRelease(h)

Next ==
    \/ \E h \in Handlers : \/ HandlerStep(h)
                           \/ \E m \in queue, c \in Conns : Receive(h, m, c)
                           \/ LoadFails(h) \/ GateFails(h) \/ OutcomeFails(h)
    \/ \E e \in Endpoints : Expire(e) \/ \E s \in Statuses : EditEndpoint(e, s)
    \/ Restart

Spec == Init /\ [][Next]_vars

-----------------------------------------------------------------------------
(* Properties                                                              *)

TypeOK ==
    /\ queue \subseteq Messages
    /\ endpoint \in [Endpoints -> [status : Statuses, deletedAt : BOOLEAN,
                                   failures : 0..Threshold]]
    /\ row \in [Messages -> Outcomes \cup {None}]
    /\ notified \subseteq Endpoints
    /\ slots \in [Endpoints -> 0..Cap]
    /\ ToSet(idle) \subseteq Conns /\ IsInjective(idle) /\ abandoned \subseteq Conns
    /\ \A c \in Conns : tx[c].open \in BOOLEAN /\ Len(tx[c].writes) <= 2 * Cardinality(Handlers)
    /\ job \in [Handlers -> [step : Steps, msg : Messages \cup {None},
                             first : Conns \cup {None}, second : Conns \cup {None},
                             outcome : Outcomes, overlap : BOOLEAN, posted : BOOLEAN]]
    /\ limited \in 0..MaxLimited /\ faults \in 0..MaxFaults /\ edits \in 0..MaxEdits
    /\ expired \subseteq Endpoints /\ torn \subseteq Messages
    /\ charged \in [Messages -> Nat]
    /\ failedPosts \in [Endpoints -> 0..Threshold]

(* redis-gating.ts: the calls posting to an endpoint all hold a counted    *)
(* slot, so there are never more of them than the cap, whatever slots      *)
(* other calls leaked or failed to give back, until a key expires under    *)
(* calls that still post.                                                  *)
SlotsCoverPosts ==
    \A e \in Endpoints \ expired : Cardinality(InFlight(e)) <= slots[e]

(* handleMessage: a message that parses is deleted only with a row that    *)
(* says what became of it, unless another call's catch ended its           *)
(* transaction.                                                            *)
DeletedHasRow == \A m \in Messages \ queue : row[m] # None \/ m \in torn

(* An endpoint becomes auto_disabled only when Threshold posts to it have  *)
(* failed since its last recorded success (consecutive_failures), whatever *)
(* order calls that post at once commit in, whichever connection carries   *)
(* their writes and whoever edits the endpoint between.  "Since" is in the *)
(* order in which outcomes are recorded: a failure posted before a success *)
(* and recorded after it counts.                                           *)
DisabledByFailures ==
    [][\A e \in Endpoints :
          endpoint[e].status # "auto_disabled" /\ endpoint'[e].status = "auto_disabled"
              => failedPosts[e] = Threshold]_vars

Held == {job[h].first : h \in {g \in Handlers : job[g].step \in {"load", "catch", "free"}}}
        \cup {job[h].second : h \in Handlers}

(* A connection that is out is in the hands of a call that will give it    *)
(* back, or was left behind by a call that found the endpoint inactive or  *)
(* the attempt recorded (delivery.handler.ts:101 and :121): no error path  *)
(* loses one.                                                              *)
PoolAccounted == Conns \ ToSet(idle) \subseteq Held \cup abandoned

(* A post that was recorded is not repeated: a second one needs a call     *)
(* that lost its transaction, or a reception that overlaps another.        *)
OnePostPerRecord == \A m \in Messages : charged[m] <= 1

(* docs/site/guides/webhooks/index.md: "Non-2xx responses and connection   *)
(* errors trigger automatic retries", "After 6 attempts without a 2xx      *)
(* response, the event is routed to the dead-letter queue": a message      *)
(* whose post failed retryably is deleted only at the last attempt.        *)
RetriedUntilExhausted ==
    \A m \in Messages \ queue : row[m] = "failed_retryable" => Attempt[m] >= MaxAttempts
=============================================================================
