------------------------ MODULE WebhookOutcomeProofs ------------------------
(***************************************************************************)
(* What WebhookDelivery promises about the outcomes it records, for any    *)
(* numbers of endpoints, messages, calls and connections and any limits:   *)
(* types, no message deleted without a record, no post repeated without an *)
(* excuse, no endpoint disabled but by failures.  What the transactions    *)
(* wrote is read off the run of Committed over their writes.               *)
(***************************************************************************)
EXTENDS WebhookDeliveryProofs, WellFoundedInduction

Write == [kind : {"row", "count"}, msg : Messages, outcome : Outcomes]

EndpointRow == [status : Statuses, deletedAt : BOOLEAN, failures : 0..Threshold]

Database == [endpoint : [Endpoints -> EndpointRow],
             row : [Messages -> Outcomes \cup {None}],
             notified : SUBSET Endpoints]

Current == [endpoint |-> endpoint, row |-> row, notified |-> notified]

(* The write adds a failure to the endpoint's counter.                     *)
Bumps(w, e) == w.kind # "row" /\ EndpointOf[w.msg] = e /\ w.outcome # "delivered"

BumpsAmong(ws, n, e) == {i \in 1..n : Bumps(ws[i], e)}

(* The write records a success of the endpoint.                            *)
Resets(w, e) == w.kind = "count" /\ w.outcome = "delivered" /\ EndpointOf[w.msg] = e

ResetAmong(ws, n, e) == \E i \in 1..n : Resets(ws[i], e)

-----------------------------------------------------------------------------
(* Running a transaction's writes.                                         *)

LEMMA SetInduction ==
    ASSUME NEW T \in SUBSET Nat, 0 \in T, \A n \in T : n + 1 \in T
    PROVE  T = Nat
<1> DEFINE R == {p \in Nat \X Nat : p[1] < p[2]}
           U == Nat \ T
<1>1. IsWellFoundedOn(R, Nat)
  BY NatLessThanWellFounded DEF OpToRel
<1>2. ASSUME U # {} PROVE FALSE
  <2>1. \E x \in U : \A y \in U : ~ (<<y, x>> \in R)
    <3> HIDE DEF R
    <3>1. U \subseteq Nat
      OBVIOUS
    <3> QED  BY <1>1, <1>2, <3>1, WFMin
  <2>2. PICK n \in U : \A m \in U : ~ (<<m, n>> \in R)
    BY <2>1
  <2>3. n # 0 /\ n - 1 \in Nat /\ n - 1 \notin T
    BY <2>2
  <2>4. <<n - 1, n>> \in R
    BY <2>2, <2>3
  <2> QED  BY <2>2, <2>3, <2>4
<1> QED  BY <1>2

(* d lists the states the first n writes of ws lead through.               *)
Runs(d, ws, n) ==
    d = [i \in 0..n |-> IF i = 0 THEN Current ELSE Apply(d[i - 1], ws[i])]

LEMMA RunExists ==
    ASSUME NEW ws, NEW n \in Nat
    PROVE  \E d : Runs(d, ws, n)
<1> DEFINE T == {k \in Nat : \E d : Runs(d, ws, k)}
<1>1. 0 \in T
  <2> DEFINE f == [i \in 0..0 |-> Current]
  <2>1. Runs(f, ws, 0)
    BY DEF Runs
  <2> QED  BY <2>1
<1>2. ASSUME NEW k \in T PROVE k + 1 \in T
  <2>1. PICK d : Runs(d, ws, k)
    OBVIOUS
  <2> DEFINE f == [i \in 0..(k + 1) |-> IF i <= k THEN d[i] ELSE Apply(d[k], ws[k + 1])]
             g == [i \in 0..(k + 1) |-> IF i = 0 THEN Current ELSE Apply(f[i - 1], ws[i])]
  <2>2. ASSUME NEW i \in 0..(k + 1) PROVE f[i] = g[i]
    <3>1. CASE i = 0
      BY <2>1, <3>1 DEF Runs
    <3>2. CASE i # 0 /\ i <= k
      <4>1. i \in 0..k /\ i - 1 \in 0..k /\ i - 1 \in 0..(k + 1) /\ i - 1 <= k
        BY <3>2
      <4>2. d[i] = Apply(d[i - 1], ws[i])
        BY <2>1, <3>2, <4>1 DEF Runs
      <4> QED  BY <3>2, <4>1, <4>2
    <3>3. CASE i = k + 1
      BY <3>3
    <3> QED  BY <3>1, <3>2, <3>3
  <2>3. f = g
    BY <2>2
  <2>4. Runs(f, ws, k + 1)
    BY <2>3 DEF Runs
  <2> QED  BY <2>4
<1> HIDE DEF T
<1>3. T = Nat
  BY <1>1, <1>2, SetInduction DEF T
<1> QED  BY <1>3 DEF T

LEMMA CommittedRun ==
    ASSUME NEW ws, Len(ws) \in Nat
    PROVE  \E d : Runs(d, ws, Len(ws)) /\ Committed(ws) = d[Len(ws)]
<1>1. \E d : Runs(d, ws, Len(ws))
  BY RunExists
<1> DEFINE D == CHOOSE d : Runs(d, ws, Len(ws))
<1>2. Runs(D, ws, Len(ws))
  BY <1>1
<1>3. Committed(ws) = D[Len(ws)]
  BY DEF Committed, Runs, Current
<1> QED  BY <1>2, <1>3

(* One write.                                                              *)
LEMMA ApplyRow ==
    ASSUME NEW d \in Database, NEW w \in Write, w.kind = "row"
    PROVE  /\ Apply(d, w) \in Database
           /\ Apply(d, w).endpoint = d.endpoint
           /\ \A m \in Messages : d.row[m] # None => Apply(d, w).row[m] # None
           /\ Apply(d, w).row[w.msg] # None
<1>1. Apply(d, w) = [d EXCEPT !.row[w.msg] = IF @ = None THEN w.outcome ELSE @]
  BY DEF Apply
<1>2. w.msg \in Messages /\ w.outcome \in Outcomes /\ None \notin Outcomes
  BY Bounds DEF Write
<1> QED  BY <1>1, <1>2 DEF Database

LEMMA ApplyCount ==
    ASSUME NEW d \in Database, NEW w \in Write, w.kind # "row"
    PROVE  /\ Apply(d, w) \in Database
           /\ Apply(d, w).row = d.row
           /\ \A e \in Endpoints :
                 /\ Apply(d, w).endpoint[e].failures
                      <= d.endpoint[e].failures + (IF Bumps(w, e) THEN 1 ELSE 0)
                 /\ Resets(w, e) => Apply(d, w).endpoint[e].failures = 0
                 /\ Apply(d, w).endpoint[e].status = "auto_disabled" =>
                      \/ d.endpoint[e].status = "auto_disabled"
                      \/ Bumps(w, e) /\ d.endpoint[e].failures + 1 >= Threshold
<1> DEFINE e == EndpointOf[w.msg]
           n == Min2(d.endpoint[e].failures + 1, Threshold)
           s == IF n >= Threshold THEN "auto_disabled" ELSE d.endpoint[e].status
<1>1. e \in Endpoints /\ Threshold \in Nat /\ Threshold > 0
  BY Bounds DEF Write
<1>2. /\ d.endpoint \in [Endpoints -> EndpointRow] /\ d.endpoint[e] \in EndpointRow
      /\ d.endpoint[e].failures \in 0..Threshold /\ d.endpoint[e].status \in Statuses
      /\ \A f \in Endpoints : d.endpoint[f].failures \in Nat
  BY <1>1 DEF Database, EndpointRow
<1>3. /\ n \in 0..Threshold /\ n <= d.endpoint[e].failures + 1
      /\ n >= Threshold => d.endpoint[e].failures + 1 >= Threshold
  BY <1>1, <1>2 DEF Min2
<1>4. "auto_disabled" \in Statuses /\ s \in Statuses
  BY <1>2 DEF Statuses
<1>5. CASE w.outcome = "delivered"
  <2>1. Apply(d, w) = [d EXCEPT !.endpoint[e].failures = 0]
    BY <1>5 DEF Apply
  <2>2. 0 \in 0..Threshold
    BY <1>1
  <2> HIDE DEF e
  <2> DEFINE E == [d.endpoint EXCEPT ![e].failures = 0]
  <2>3. d = [endpoint |-> d.endpoint, row |-> d.row, notified |-> d.notified]
    BY DEF Database
  <2>4. E \in [Endpoints -> EndpointRow]
    BY <1>1, <1>2, <2>2 DEF EndpointRow
  <2>5. Apply(d, w) = [endpoint |-> E, row |-> d.row, notified |-> d.notified]
    BY <2>1, <2>3
  <2>6. /\ Apply(d, w) \in Database
        /\ Apply(d, w).row = d.row
        /\ Apply(d, w).endpoint = E
    <3> HIDE DEF E
    <3>1. /\ d.row \in [Messages -> Outcomes \cup {None}]
          /\ d.notified \in SUBSET Endpoints
      BY DEF Database
    <3> QED  BY <2>4, <2>5, <3>1 DEF Database
  <2>7. \A f \in Endpoints : /\ E[f].failures <= d.endpoint[f].failures
                             /\ E[f].status = d.endpoint[f].status
                             /\ f = e => E[f].failures = 0
    BY <1>1, <1>2 DEF EndpointRow
  <2> HIDE DEF E
  <2>8. \A f \in Endpoints : ~Bumps(w, f) /\ (Resets(w, f) => f = e)
    BY <1>5 DEF Bumps, Resets, e
  <2> QED  BY <1>2, <2>6, <2>7, <2>8
<1>6. CASE w.outcome # "delivered"
  <2>1. Apply(d, w) = [d EXCEPT !.endpoint[e].failures = n, !.endpoint[e].status = s,
                                !.notified = IF n >= Threshold THEN @ \cup {e} ELSE @]
    BY <1>6 DEF Apply
  <2>2. /\ Bumps(w, e) /\ \A f \in Endpoints : f # e => ~Bumps(w, f)
        /\ \A f \in Endpoints : ~Resets(w, f)
    BY <1>6 DEF Bumps, Resets
  <2>3. s = "auto_disabled" => d.endpoint[e].status = "auto_disabled" \/ n >= Threshold
    OBVIOUS
  <2> HIDE DEF e, n, s
  <2> DEFINE E == [d.endpoint EXCEPT ![e].failures = n, ![e].status = s]
             N == IF n >= Threshold THEN d.notified \cup {e} ELSE d.notified
  <2>4. E \in [Endpoints -> EndpointRow] /\ N \in SUBSET Endpoints
    BY <1>1, <1>2, <1>3, <1>4 DEF Database, EndpointRow
  <2>5. d = [endpoint |-> d.endpoint, row |-> d.row, notified |-> d.notified]
    BY DEF Database
  <2>6. Apply(d, w) = [endpoint |-> E, row |-> d.row, notified |-> N]
    BY <2>1, <2>5
  <2>7. /\ Apply(d, w) \in Database /\ Apply(d, w).row = d.row
        /\ Apply(d, w).endpoint = E
    <3> HIDE DEF E, N
    <3>1. d.row \in [Messages -> Outcomes \cup {None}]
      BY DEF Database
    <3> QED  BY <2>4, <2>6, <3>1 DEF Database
  <2>8. /\ Apply(d, w).endpoint[e].failures = n /\ Apply(d, w).endpoint[e].status = s
        /\ \A f \in Endpoints : f # e => Apply(d, w).endpoint[f] = d.endpoint[f]
    BY <1>1, <1>2, <2>7 DEF EndpointRow
  <2>9. ASSUME NEW f \in Endpoints
        PROVE  /\ Apply(d, w).endpoint[f].failures
                    <= d.endpoint[f].failures + (IF Bumps(w, f) THEN 1 ELSE 0)
               /\ Resets(w, f) => Apply(d, w).endpoint[f].failures = 0
               /\ Apply(d, w).endpoint[f].status = "auto_disabled" =>
                    \/ d.endpoint[f].status = "auto_disabled"
                    \/ Bumps(w, f) /\ d.endpoint[f].failures + 1 >= Threshold
    <3>1. CASE f = e
      BY <1>3, <2>2, <2>3, <2>7, <2>8, <3>1
    <3>2. CASE f # e
      BY <1>2, <2>2, <2>8, <3>2
    <3> QED  BY <3>1, <3>2
  <2> QED  BY <2>7, <2>9
<1> QED  BY <1>5, <1>6

LEMMA BumpsCount ==
    ASSUME NEW ws, NEW n \in Nat, NEW e
    PROVE  /\ IsFiniteSet(BumpsAmong(ws, n, e)) /\ Cardinality(BumpsAmong(ws, n, e)) \in Nat
           /\ Cardinality(BumpsAmong(ws, n + 1, e)) = Cardinality(BumpsAmong(ws, n, e))
                + (IF Bumps(ws[n + 1], e) THEN 1 ELSE 0)
<1> DEFINE A == BumpsAmong(ws, n, e)
           B == BumpsAmong(ws, n + 1, e)
<1>1. IsFiniteSet(1..n)
  BY FS_Interval
<1>2. A \in SUBSET (1..n)
  BY DEF BumpsAmong
<1>3. IsFiniteSet(A) /\ Cardinality(A) \in Nat
  BY <1>1, <1>2, FS_Subset, FS_CardinalityType
<1>4. n + 1 \notin A
  BY DEF BumpsAmong
<1>5. B = IF Bumps(ws[n + 1], e) THEN A \cup {n + 1} ELSE A
  BY DEF BumpsAmong
<1> HIDE DEF A, B
<1>6. Cardinality(A \cup {n + 1}) = Cardinality(A) + 1
  BY <1>3, <1>4, FS_AddElement
<1> QED  BY <1>3, <1>5, <1>6 DEF A, B

(* What n writes make of the database.                                     *)
Outcome(d, ws, n) ==
    /\ d[n] \in Database
    /\ \A m \in Messages : row[m] # None => d[n].row[m] # None
    /\ \A i \in 1..n : ws[i].kind = "row" => d[n].row[ws[i].msg] # None
    /\ \A e \in Endpoints :
          /\ d[n].endpoint[e].failures
               <= endpoint[e].failures + Cardinality(BumpsAmong(ws, n, e))
          /\ ResetAmong(ws, n, e) =>
               d[n].endpoint[e].failures <= Cardinality(BumpsAmong(ws, n, e))
          /\ d[n].endpoint[e].status = "auto_disabled" =>
               \/ endpoint[e].status = "auto_disabled"
               \/ endpoint[e].failures + Cardinality(BumpsAmong(ws, n, e)) >= Threshold

LEMMA OneMore ==
    ASSUME Current \in Database, NEW n \in Nat, NEW ws, NEW d, Outcome(d, ws, n),
           \A i \in 1..(n + 1) : ws[i] \in Write, d[n + 1] = Apply(d[n], ws[n + 1])
    PROVE  Outcome(d, ws, n + 1)
<1> DEFINE w == ws[n + 1]
           x == d[n]
           y == d[n + 1]
<1>1. x \in Database /\ w \in Write /\ y = Apply(x, w)
  BY DEF Outcome
<1>2. /\ y \in Database
      /\ \A m \in Messages : x.row[m] # None => y.row[m] # None
      /\ w.kind = "row" => y.row[w.msg] # None
      /\ \A e \in Endpoints :
            /\ y.endpoint[e].failures <= x.endpoint[e].failures + (IF Bumps(w, e) THEN 1 ELSE 0)
            /\ Resets(w, e) => y.endpoint[e].failures = 0
            /\ y.endpoint[e].status = "auto_disabled" =>
                 \/ x.endpoint[e].status = "auto_disabled"
                 \/ Bumps(w, e) /\ x.endpoint[e].failures + 1 >= Threshold
  <2> HIDE DEF w, x, y
  <2>1. CASE w.kind = "row"
    <3>1. \A e \in Endpoints :
             ~Bumps(w, e) /\ ~Resets(w, e) /\ x.endpoint[e].failures \in Nat
      BY <1>1, <2>1 DEF Bumps, Resets, Database, EndpointRow
    <3>2. /\ y \in Database /\ y.endpoint = x.endpoint
          /\ \A m \in Messages : x.row[m] # None => y.row[m] # None
          /\ y.row[w.msg] # None
      BY <1>1, <2>1, ApplyRow
    <3> QED  BY <3>1, <3>2
  <2>2. CASE w.kind # "row"
    BY <1>1, <2>2, ApplyCount
  <2> QED  BY <2>1, <2>2
<1>3. \A i \in 1..n : ws[i].kind = "row" => x.row[ws[i].msg] # None
  BY DEF Outcome
<1>4. \A m \in Messages : row[m] # None => x.row[m] # None
  BY DEF Outcome
<1>6. \A i \in 1..(n + 1) : ws[i].kind = "row" => y.row[ws[i].msg] # None
  <2> SUFFICES ASSUME NEW i \in 1..(n + 1), ws[i].kind = "row" PROVE y.row[ws[i].msg] # None
    OBVIOUS
  <2>1. CASE i = n + 1
    BY <1>2, <2>1
  <2>2. CASE i # n + 1
    <3>1. i \in 1..n /\ x.row[ws[i].msg] # None
      BY <1>3, <2>2
    <3>2. ws[i].msg \in Messages
      BY DEF Write
    <3> QED  BY <1>2, <3>1, <3>2
  <2> QED  BY <2>1, <2>2
<1>7. ASSUME NEW e \in Endpoints
      PROVE  /\ y.endpoint[e].failures
                  <= endpoint[e].failures + Cardinality(BumpsAmong(ws, n + 1, e))
             /\ ResetAmong(ws, n + 1, e) =>
                  y.endpoint[e].failures <= Cardinality(BumpsAmong(ws, n + 1, e))
             /\ y.endpoint[e].status = "auto_disabled" =>
                  \/ endpoint[e].status = "auto_disabled"
                  \/ endpoint[e].failures + Cardinality(BumpsAmong(ws, n + 1, e)) >= Threshold
  <2> DEFINE k == Cardinality(BumpsAmong(ws, n, e))
             l == Cardinality(BumpsAmong(ws, n + 1, e))
             b == IF Bumps(w, e) THEN 1 ELSE 0
  <2>1. k \in Nat /\ l = k + b
    BY BumpsCount
  <2>2. /\ x.endpoint[e].failures \in Nat /\ y.endpoint[e].failures \in Nat
        /\ endpoint[e].failures \in Nat /\ Threshold \in Nat
    BY <1>1, <1>2, Bounds DEF Current, Database, EndpointRow
  <2>3. /\ x.endpoint[e].failures <= endpoint[e].failures + k
        /\ ResetAmong(ws, n, e) => x.endpoint[e].failures <= k
        /\ x.endpoint[e].status = "auto_disabled" =>
             \/ endpoint[e].status = "auto_disabled"
             \/ endpoint[e].failures + k >= Threshold
    BY DEF Outcome
  <2>4. /\ y.endpoint[e].failures <= x.endpoint[e].failures + b
        /\ Resets(w, e) => y.endpoint[e].failures = 0
        /\ y.endpoint[e].status = "auto_disabled" =>
             \/ x.endpoint[e].status = "auto_disabled"
             \/ b = 1 /\ x.endpoint[e].failures + 1 >= Threshold
    BY <1>2
  <2>5. b \in {0, 1}
    OBVIOUS
  <2>6. ResetAmong(ws, n + 1, e) => ResetAmong(ws, n, e) \/ Resets(w, e)
    BY DEF ResetAmong
  <2> HIDE DEF k, l, b, x, y
  <2>7. y.endpoint[e].failures <= endpoint[e].failures + l
    BY <2>1, <2>2, <2>3, <2>4, <2>5
  <2>8. ResetAmong(ws, n + 1, e) => y.endpoint[e].failures <= l
    BY <2>1, <2>2, <2>3, <2>4, <2>5, <2>6
  <2>9. ASSUME y.endpoint[e].status = "auto_disabled", endpoint[e].status # "auto_disabled"
        PROVE  endpoint[e].failures + l >= Threshold
    <3>1. CASE x.endpoint[e].status = "auto_disabled"
      <4>1. endpoint[e].failures + k >= Threshold
        BY <2>3, <2>9, <3>1
      <4> QED  BY <2>1, <2>2, <2>5, <4>1
    <3>2. CASE x.endpoint[e].status # "auto_disabled"
      <4>1. b = 1 /\ x.endpoint[e].failures + 1 >= Threshold
        BY <2>4, <2>9, <3>2
      <4> QED  BY <2>1, <2>2, <2>3, <4>1
    <3> QED  BY <3>1, <3>2
  <2> QED  BY <2>7, <2>8, <2>9 DEF l
<1>8. \A m \in Messages : row[m] # None => y.row[m] # None
  BY <1>2, <1>4
<1> QED  BY <1>2, <1>6, <1>7, <1>8 DEF Outcome

LEMMA CommittedOutcome ==
    ASSUME Current \in Database, NEW ws \in Seq(Write)
    PROVE  \E d : Outcome(d, ws, Len(ws)) /\ Committed(ws) = d[Len(ws)]
<1>1. Len(ws) \in Nat /\ \A i \in 1..Len(ws) : ws[i] \in Write
  OBVIOUS
<1>2. PICK d : Runs(d, ws, Len(ws)) /\ Committed(ws) = d[Len(ws)]
  BY <1>1, CommittedRun
<1> DEFINE T == {n \in Nat : n <= Len(ws) => Outcome(d, ws, n)}
<1>3. 0 \in T
  <2>1. d[0] = Current
    BY <1>1, <1>2 DEF Runs
  <2>2. \A e : BumpsAmong(ws, 0, e) = {}
    BY DEF BumpsAmong
  <2>3. Cardinality({}) = 0
    BY FS_EmptySet
  <2>4. \A e \in Endpoints : endpoint[e].failures \in Nat
    BY DEF Current, Database, EndpointRow
  <2>5. d[0] \in Database /\ d[0].row = row /\ d[0].endpoint = endpoint
    <3>1. Current.row = row /\ Current.endpoint = endpoint
      BY DEF Current
    <3> QED  BY <2>1, <3>1
  <2>6. ASSUME NEW e \in Endpoints
        PROVE  endpoint[e].failures <= endpoint[e].failures + Cardinality(BumpsAmong(ws, 0, e))
    <3>1. Cardinality(BumpsAmong(ws, 0, e)) = 0
      BY <2>2, <2>3
    <3>2. endpoint[e].failures \in Nat
      BY <2>4
    <3> QED  BY <3>1, <3>2
  <2>7. (\A i \in 1..0 : FALSE) /\ \A e : ~ResetAmong(ws, 0, e)
    BY DEF ResetAmong
  <2>8. Outcome(d, ws, 0)
    BY <2>5, <2>6, <2>7 DEF Outcome
  <2> QED  BY <2>8
<1>4. ASSUME NEW n \in T PROVE n + 1 \in T
  <2> SUFFICES ASSUME n + 1 <= Len(ws) PROVE Outcome(d, ws, n + 1)
    OBVIOUS
  <2>1. n \in Nat /\ n <= Len(ws) /\ Outcome(d, ws, n)
    BY <1>1
  <2>2. d[n + 1] = Apply(d[n], ws[n + 1])
    BY <1>1, <1>2, <2>1 DEF Runs
  <2>3. \A i \in 1..(n + 1) : ws[i] \in Write
    BY <1>1, <2>1
  <2> QED  BY <2>1, <2>2, <2>3, OneMore
<1> HIDE DEF T
<1>5. T = Nat
  BY <1>3, <1>4, SetInduction DEF T
<1> QED  BY <1>1, <1>2, <1>5 DEF T

-----------------------------------------------------------------------------
(* The transactions: who writes, and how much.                             *)

Others(h) == \A g \in Handlers \ {h} : job'[g] = job[g]

LEMMA OthersStay ==
    ASSUME Inv, NEW h \in Handlers,
           \/ \E m \in queue, c \in Conns : Receive(h, m, c)
           \/ \E c \in Conns : RecordAttempt(h, c)
           \/ LoadStops(h) \/ LoadGoesOn(h) \/ LoadFails(h)
           \/ GateAdmits(h) \/ GateRequeues(h) \/ GateFails(h)
           \/ \E o \in Outcomes : Dispatch(h, o)
           \/ ReconnectTimesOut(h) \/ CountOutcome(h) \/ CommitOutcome(h) \/ OutcomeFails(h)
           \/ CatchRollback(h) \/ CatchRelease(h)
    PROVE  Others(h)
<1>1. job \in [Handlers -> Jobs]
  BY DEF Inv, IInv, Shape
<1>2. \A g, s : g \in Handlers \ {h} /\ job' = [job EXCEPT ![h] = s] => job'[g] = job[g]
  BY <1>1
<1>3. CASE \/ \E m \in queue, c \in Conns : Receive(h, m, c)
           \/ \E c \in Conns : RecordAttempt(h, c)
           \/ LoadStops(h) \/ LoadGoesOn(h) \/ LoadFails(h)
  BY <1>1, <1>3 DEF Others, Receive, RecordAttempt, LoadStops, LoadGoesOn, LoadFails, Goto
<1>4. CASE \/ GateAdmits(h) \/ GateRequeues(h) \/ GateFails(h)
           \/ \E o \in Outcomes : Dispatch(h, o)
  BY <1>1, <1>4 DEF Others, GateAdmits, GateRequeues, GateFails, Dispatch, Goto
<1>5. CASE \/ ReconnectTimesOut(h) \/ CountOutcome(h) \/ CommitOutcome(h) \/ OutcomeFails(h)
           \/ CatchRollback(h) \/ CatchRelease(h)
  BY <1>1, <1>5 DEF Others, ReconnectTimesOut, CountOutcome, CommitOutcome, OutcomeFails,
     CatchRollback, CatchRelease, Goto, Throw
<1> QED  BY <1>3, <1>4, <1>5

TxOK == tx \in [Conns -> [open : BOOLEAN, writes : Seq(Write)]]

Users(c) == {h \in Handlers : job[h].second = c}

Committers(c) == {h \in Users(c) : job[h].step = "commit"}

(* A transaction holds one write for each call past recordAttempt and one  *)
(* more for each past the counter: a call that leaves clears it.           *)
WritesHeld ==
    \A c \in Conns :
        Len(tx[c].writes) <= Cardinality(Users(c)) + Cardinality(Committers(c))

LEMMA UsersCount ==
    ASSUME NEW A \in SUBSET Handlers, NEW B \in SUBSET Handlers
    PROVE  /\ Cardinality(A) \in Nat /\ Cardinality(B) \in Nat
           /\ Cardinality(A) <= Cardinality(Handlers) /\ Cardinality(Handlers) \in Nat
           /\ A \subseteq B => Cardinality(A) <= Cardinality(B)
           /\ \A h \in B \ A : A \subseteq B => Cardinality(A) + 1 <= Cardinality(B)
           /\ \A h : B \subseteq A \cup {h} => Cardinality(B) <= Cardinality(A) + 1
<1>1. IsFiniteSet(A) /\ IsFiniteSet(B) /\ Cardinality(A) <= Cardinality(Handlers)
  BY FiniteCalls, FS_Subset
<1>2. Cardinality(A) \in Nat /\ Cardinality(B) \in Nat /\ Cardinality(Handlers) \in Nat
  BY <1>1, FiniteCalls, FS_CardinalityType
<1>3. A \subseteq B => Cardinality(A) <= Cardinality(B) /\ (Cardinality(B) = Cardinality(A) => B = A)
  BY <1>1, FS_Subset
<1>4. ASSUME NEW h, B \subseteq A \cup {h} PROVE Cardinality(B) <= Cardinality(A) + 1
  <2>1. /\ IsFiniteSet(A \cup {h})
        /\ Cardinality(A \cup {h}) = IF h \in A THEN Cardinality(A) ELSE Cardinality(A) + 1
    BY <1>1, FS_AddElement
  <2>2. Cardinality(B) <= Cardinality(A \cup {h}) /\ Cardinality(A \cup {h}) \in Nat
    BY <1>4, <2>1, FS_Subset, FS_CardinalityType
  <2> QED  BY <1>2, <2>1, <2>2
<1>5. ASSUME NEW h \in B \ A, A \subseteq B PROVE Cardinality(A) + 1 <= Cardinality(B)
  BY <1>2, <1>3, <1>5
<1> QED  BY <1>1, <1>2, <1>3, <1>4, <1>5

LEMMA UsersAreCalls ==
    \A c : /\ Users(c) \in SUBSET Handlers /\ Committers(c) \in SUBSET Handlers
           /\ Users(c)' \in SUBSET Handlers /\ Committers(c)' \in SUBSET Handlers
BY DEF Users, Committers

(* A call that stays, or leaves a transaction without writes.              *)
LEMMA WritesKept ==
    ASSUME TxOK, TxOK', WritesHeld, NEW h \in Handlers, Others(h),
           \A c \in Conns :
               \/ tx'[c].writes = <<>>
               \/ tx'[c].writes = tx[c].writes /\ job[h].second # c
    PROVE  WritesHeld'
<1> SUFFICES ASSUME NEW c \in Conns
             PROVE  Len(tx'[c].writes) <= Cardinality(Users(c)') + Cardinality(Committers(c)')
  BY DEF WritesHeld
<1> DEFINE U == Users(c)
           V == Users(c)'
           C == Committers(c)
           D == Committers(c)'
<1>1. /\ U \in SUBSET Handlers /\ V \in SUBSET Handlers
      /\ C \in SUBSET Handlers /\ D \in SUBSET Handlers
  BY UsersAreCalls
<1>2. CASE tx'[c].writes = <<>>
  <2> HIDE DEF V, D
  <2>1. Cardinality(V) \in Nat /\ Cardinality(D) \in Nat
    BY <1>1, UsersCount
  <2>2. Len(tx'[c].writes) = 0
    BY <1>2
  <2> QED  BY <2>1, <2>2 DEF V, D
<1>3. CASE tx'[c].writes = tx[c].writes /\ job[h].second # c
  <2>1. U \subseteq V /\ C \subseteq D
    BY <1>3 DEF Users, Committers, Others
  <2>2. Len(tx[c].writes) <= Cardinality(U) + Cardinality(C) /\ Len(tx[c].writes) \in Nat
    BY DEF WritesHeld, TxOK
  <2> HIDE DEF U, V, C, D
  <2>3. Cardinality(U) <= Cardinality(V) /\ Cardinality(U) \in Nat /\ Cardinality(V) \in Nat
    BY <1>1, <2>1, UsersCount
  <2>4. Cardinality(C) <= Cardinality(D) /\ Cardinality(C) \in Nat /\ Cardinality(D) \in Nat
    BY <1>1, <2>1, UsersCount
  <2>5. Len(tx'[c].writes) <= Cardinality(V) + Cardinality(D)
    BY <1>3, <2>2, <2>3, <2>4
  <2> QED  BY <2>5 DEF V, D
<1> QED  BY <1>2, <1>3

LEMMA Clearing ==
    ASSUME Inv, TxOK, WritesHeld, NEW h \in Handlers, Others(h), NEW c \in Conns,
           tx' = [tx EXCEPT ![c] = NoTx], job[h].second \in {None, c}
    PROVE  TxOK' /\ WritesHeld'
<1>1. NoTx \in [open : BOOLEAN, writes : Seq(Write)] /\ NoTx.writes = <<>>
  BY DEF NoTx
<1>2. TxOK'
  BY <1>1 DEF TxOK
<1>3. tx'[c].writes = <<>> /\ \A b \in Conns : b # c => tx'[b].writes = tx[b].writes
  BY <1>1 DEF TxOK
<1>4. None \notin Conns
  BY Bounds
<1> QED  BY <1>2, <1>3, <1>4, WritesKept

LEMMA Uninvolved ==
    ASSUME Inv, TxOK, WritesHeld, NEW h \in Handlers, Others(h),
           TxOK', \A c \in Conns : tx'[c].writes = tx[c].writes, job[h].second = None
    PROVE  TxOK' /\ WritesHeld'
<1>1. None \notin Conns
  BY Bounds
<1> QED  BY <1>1, WritesKept

LEMMA RecordTx ==
    ASSUME Inv, TxOK, WritesHeld, NEW h \in Handlers, NEW c \in Conns, RecordAttempt(h, c)
    PROVE  TxOK' /\ WritesHeld'
<1> DEFINE w == [kind |-> "row", msg |-> job[h].msg, outcome |-> job[h].outcome]
<1>1. /\ IInv /\ job \in [Handlers -> Jobs] /\ job[h].step = "record"
      /\ job' = [job EXCEPT ![h].step = "count", ![h].second = c]
      /\ tx' = [tx EXCEPT ![c] = [open |-> TRUE, writes |-> Append(@.writes, w)]]
  BY DEF RecordAttempt, Inv, IInv, Shape
<1>2. Others(h)
  BY OthersStay
<1>3. w \in Write
  BY <1>1, AnyCall DEF Jobs, Write
<1>4. job[h].second = None /\ job'[h].second = c /\ None \notin Conns
  BY <1>1, AnyCall DEF Jobs
<1> HIDE DEF w
<1>5. /\ tx[c].writes \in Seq(Write) /\ Append(tx[c].writes, w) \in Seq(Write)
      /\ Len(Append(tx[c].writes, w)) = Len(tx[c].writes) + 1
  BY <1>3 DEF TxOK
<1>6. TxOK'
  BY <1>1, <1>5 DEF TxOK
<1>7. tx'[c].writes = Append(tx[c].writes, w) /\ \A b \in Conns : b # c => tx'[b] = tx[b]
  BY <1>1 DEF TxOK
<1>8. WritesHeld'
  <2> SUFFICES ASSUME NEW b \in Conns
               PROVE  Len(tx'[b].writes) <= Cardinality(Users(b)') + Cardinality(Committers(b)')
    BY DEF WritesHeld
  <2> DEFINE U == Users(b)
             V == Users(b)'
             C == Committers(b)
             D == Committers(b)'
  <2>1. /\ U \in SUBSET Handlers /\ V \in SUBSET Handlers
        /\ C \in SUBSET Handlers /\ D \in SUBSET Handlers
    BY UsersAreCalls
  <2>2. /\ U \subseteq V /\ C \subseteq D /\ (b = c => h \in V \ U)
        /\ Len(tx[b].writes) <= Cardinality(U) + Cardinality(C) /\ Len(tx[b].writes) \in Nat
    <3>1. U \subseteq V /\ C \subseteq D /\ (b = c => h \in V \ U)
      BY <1>2, <1>4 DEF Users, Committers, Others
    <3> QED  BY <3>1 DEF WritesHeld, TxOK
  <2>3. Len(tx'[b].writes) = IF b = c THEN Len(tx[b].writes) + 1 ELSE Len(tx[b].writes)
    BY <1>5, <1>7
  <2> HIDE DEF U, V, C, D
  <2>4. /\ Cardinality(U) <= Cardinality(V) /\ Cardinality(U) \in Nat /\ Cardinality(V) \in Nat
        /\ b = c => Cardinality(U) + 1 <= Cardinality(V)
    BY <2>1, <2>2, UsersCount
  <2>5. Cardinality(C) <= Cardinality(D) /\ Cardinality(C) \in Nat /\ Cardinality(D) \in Nat
    BY <2>1, <2>2, UsersCount
  <2>6. Len(tx'[b].writes) <= Cardinality(V) + Cardinality(D)
    BY <2>2, <2>3, <2>4, <2>5
  <2> QED  BY <2>6 DEF V, D
<1> QED  BY <1>6, <1>8

LEMMA CountTx ==
    ASSUME Inv, TxOK, WritesHeld, NEW h \in Handlers, CountOutcome(h)
    PROVE  TxOK' /\ WritesHeld'
<1> DEFINE w == [kind |-> "count", msg |-> job[h].msg, outcome |-> job[h].outcome]
<1>1. /\ IInv /\ job \in [Handlers -> Jobs] /\ job[h].step = "count"
      /\ job' = [job EXCEPT ![h].step = "commit"]
      /\ \/ tx' = [tx EXCEPT ![job[h].second].writes = Append(@, w)]
         \/ tx' = tx
  BY DEF CountOutcome, Inv, IInv, Shape, Goto
<1>2. Others(h)
  BY OthersStay
<1>3. PICK c \in Conns : c = job[h].second /\ c # None
  BY <1>1, AnyCall
<1>4. w \in Write
  BY <1>1, AnyCall DEF Jobs, Write
<1>5. job'[h].second = c /\ job'[h].step = "commit"
  BY <1>1, <1>3
<1> HIDE DEF w
<1>6. /\ tx[c].writes \in Seq(Write) /\ Append(tx[c].writes, w) \in Seq(Write)
      /\ Len(Append(tx[c].writes, w)) = Len(tx[c].writes) + 1
      /\ tx[c] \in [open : BOOLEAN, writes : Seq(Write)]
  BY <1>4 DEF TxOK
<1>7. TxOK'
  <2>1. CASE tx' = tx
    BY <2>1 DEF TxOK
  <2>2. CASE tx' = [tx EXCEPT ![job[h].second].writes = Append(@, w)]
    <3>1. tx' = [tx EXCEPT ![c] = [tx[c] EXCEPT !.writes = Append(tx[c].writes, w)]]
      BY <1>3, <2>2
    <3>2. [tx[c] EXCEPT !.writes = Append(tx[c].writes, w)]
            \in [open : BOOLEAN, writes : Seq(Write)]
      BY <1>6
    <3> QED  BY <3>1, <3>2 DEF TxOK
  <2> QED  BY <1>1, <2>1, <2>2
<1>8. /\ tx'[c].writes \in {tx[c].writes, Append(tx[c].writes, w)}
      /\ \A b \in Conns : b # c => tx'[b] = tx[b]
  BY <1>1, <1>3, <1>6 DEF TxOK
<1>9. WritesHeld'
  <2> SUFFICES ASSUME NEW b \in Conns
               PROVE  Len(tx'[b].writes) <= Cardinality(Users(b)') + Cardinality(Committers(b)')
    BY DEF WritesHeld
  <2> DEFINE U == Users(b)
             V == Users(b)'
             C == Committers(b)
             D == Committers(b)'
  <2>1. /\ U \in SUBSET Handlers /\ V \in SUBSET Handlers
        /\ C \in SUBSET Handlers /\ D \in SUBSET Handlers
    BY UsersAreCalls
  <2>2. /\ U \subseteq V /\ C \subseteq D /\ (b = c => h \in D \ C)
        /\ Len(tx[b].writes) <= Cardinality(U) + Cardinality(C) /\ Len(tx[b].writes) \in Nat
    <3>1. U \subseteq V /\ C \subseteq D /\ (b = c => h \in D \ C)
      BY <1>1, <1>2, <1>3, <1>5 DEF Users, Committers, Others
    <3> QED  BY <3>1 DEF WritesHeld, TxOK
  <2>3. Len(tx'[b].writes) <= IF b = c THEN Len(tx[b].writes) + 1 ELSE Len(tx[b].writes)
    BY <1>6, <1>8, <2>2
  <2>4. Len(tx'[b].writes) \in Nat
    BY <1>7 DEF TxOK
  <2> HIDE DEF U, V, C, D
  <2>5. Cardinality(U) <= Cardinality(V) /\ Cardinality(U) \in Nat /\ Cardinality(V) \in Nat
    BY <2>1, <2>2, UsersCount
  <2>6. /\ Cardinality(C) <= Cardinality(D) /\ Cardinality(C) \in Nat /\ Cardinality(D) \in Nat
        /\ b = c => Cardinality(C) + 1 <= Cardinality(D)
    BY <2>1, <2>2, UsersCount
  <2>7. Len(tx'[b].writes) <= Cardinality(V) + Cardinality(D)
    <3> DEFINE i == IF b = c THEN 1 ELSE 0
    <3>1. PICK k \in Nat, l \in Nat, u \in Nat, v \in Nat, m \in Nat, n \in Nat :
            /\ k = Len(tx'[b].writes) /\ l = Len(tx[b].writes)
            /\ u = Cardinality(U) /\ v = Cardinality(V)
            /\ m = Cardinality(C) /\ n = Cardinality(D)
      BY <2>2, <2>4, <2>5, <2>6
    <3>2. k <= l + i
      <4>1. CASE b = c
        <5>1. Len(tx'[b].writes) <= Len(tx[b].writes) + 1
          BY <2>3, <4>1
        <5> QED  BY <3>1, <4>1, <5>1
      <4>2. CASE b # c
        <5>1. Len(tx'[b].writes) <= Len(tx[b].writes)
          BY <2>3, <4>2
        <5> QED  BY <3>1, <4>2, <5>1
      <4> QED  BY <4>1, <4>2
    <3>3. m + i <= n
      BY <2>6, <3>1
    <3>4. i \in {0, 1} /\ l <= u + m /\ u <= v
      BY <2>2, <2>5, <3>1
    <3> HIDE DEF i
    <3>5. k <= v + n
      BY <3>2, <3>3, <3>4
    <3> QED  BY <3>1, <3>5
  <2> QED  BY <2>7 DEF V, D
<1> QED  BY <1>7, <1>9

LEMMA TxStep ==
    ASSUME Inv, TxOK, WritesHeld, [Next]_vars
    PROVE  TxOK' /\ WritesHeld'
<1>1. IInv
  BY DEF Inv
<1>2. ASSUME NEW h \in Handlers, LoadStops(h) \/ LoadGoesOn(h) \/ CatchRollback(h)
      PROVE  TxOK' /\ WritesHeld'
  <2>1. Others(h)
    BY <1>2, OthersStay
  <2>2. /\ job[h].step \in {"load", "catch"}
        /\ tx' = [tx EXCEPT ![job[h].first] = NoTx]
    BY <1>2 DEF LoadStops, LoadGoesOn, CatchRollback, CommitOn, RollbackOn
  <2>3. job[h].second = None /\ job[h].first \in Conns
    BY <1>1, <2>2, AnyCall
  <2> QED  BY <2>1, <2>2, <2>3, Clearing
<1>3. ASSUME NEW h \in Handlers, CommitOutcome(h) \/ OutcomeFails(h)
      PROVE  TxOK' /\ WritesHeld'
  <2>1. Others(h)
    BY <1>3, OthersStay
  <2>2. /\ job[h].step \in {"count", "commit"}
        /\ tx' = [tx EXCEPT ![job[h].second] = NoTx]
    BY <1>3 DEF CommitOutcome, OutcomeFails, CommitOn, RollbackOn
  <2>3. PICK c \in Conns : c = job[h].second
    BY <1>1, <2>2, AnyCall
  <2>4. tx' = [tx EXCEPT ![c] = NoTx]
    BY <2>2, <2>3
  <2> QED  BY <2>1, <2>3, <2>4, Clearing
<1>4. ASSUME NEW h \in Handlers,
             \/ LoadFails(h) \/ GateAdmits(h) \/ GateRequeues(h) \/ GateFails(h)
             \/ \E o \in Outcomes : Dispatch(h, o)
             \/ ReconnectTimesOut(h) \/ CatchRelease(h)
      PROVE  TxOK' /\ WritesHeld'
  <2>1. Others(h)
    BY <1>4, OthersStay
  <2>2. job[h].step \notin {"count", "commit"} /\ tx' = tx
    BY <1>4 DEF LoadFails, GateAdmits, GateRequeues, GateFails, Dispatch, ReconnectTimesOut,
       CatchRelease, pool
  <2>3. job[h].second = None
    BY <1>1, <2>2, AnyCall
  <2> QED  BY <2>1, <2>2, <2>3, Uninvolved DEF TxOK
<1>5. ASSUME NEW h \in Handlers, NEW m \in queue, NEW c \in Conns, Receive(h, m, c)
      PROVE  TxOK' /\ WritesHeld'
  <2>1. Others(h)
    BY <1>5, OthersStay
  <2>2. job[h].step = "idle" /\ tx' = [tx EXCEPT ![c].open = TRUE]
    BY <1>5 DEF Receive, BeginOn
  <2>3. job[h].second = None
    BY <1>1, <2>2, AnyCall
  <2>4. TxOK' /\ \A b \in Conns : tx'[b].writes = tx[b].writes
    BY <2>2 DEF TxOK
  <2> QED  BY <2>1, <2>3, <2>4, Uninvolved
<1>6. CASE Restart
  <2>1. TxOK'
    BY <1>6 DEF Restart, TxOK, NoTx
  <2>2. \A c \in Conns : tx'[c].writes = <<>>
    BY <1>6 DEF Restart, NoTx
  <2>3. ASSUME NEW c \in Conns
        PROVE  Len(tx'[c].writes) <= Cardinality(Users(c)') + Cardinality(Committers(c)')
    <3> DEFINE V == Users(c)'
               D == Committers(c)'
    <3>1. V \in SUBSET Handlers /\ D \in SUBSET Handlers
      BY UsersAreCalls
    <3>2. Len(tx'[c].writes) = 0
      BY <2>2
    <3> HIDE DEF V, D
    <3>3. Cardinality(V) \in Nat /\ Cardinality(D) \in Nat
      BY <3>1, UsersCount
    <3>4. Len(tx'[c].writes) <= Cardinality(V) + Cardinality(D)
      BY <3>2, <3>3
    <3> QED  BY <3>4 DEF V, D
  <2> QED  BY <2>1, <2>3 DEF WritesHeld
<1>7. CASE UNCHANGED <<tx, job>>
  BY <1>7 DEF TxOK, WritesHeld, Users, Committers
<1>8. CASE \E e \in Endpoints : Expire(e) \/ \E s \in Statuses : EditEndpoint(e, s)
  BY <1>7, <1>8 DEF Expire, EditEndpoint, pool
<1>9. CASE UNCHANGED vars
  BY <1>7, <1>9 DEF vars, pool
<1> QED
  BY <1>2, <1>3, <1>4, <1>5, <1>6, <1>8, <1>9, RecordTx, CountTx DEF Next, HandlerStep

-----------------------------------------------------------------------------
(* The database: what becomes visible by a step.                           *)

RowsStay == \A m \in Messages : row[m] # None => row'[m] # None

(* What COMMIT on c makes of the database, c holding the writes ws.        *)
Visible(ws) ==
    /\ Current' \in Database
    /\ RowsStay
    /\ \A i \in 1..Len(ws) : ws[i].kind = "row" => row'[ws[i].msg] # None
    /\ \A e \in Endpoints :
          /\ endpoint'[e].failures
               <= endpoint[e].failures + Cardinality(BumpsAmong(ws, Len(ws), e))
          /\ Succeeds(ws, e) =>
               endpoint'[e].failures <= Cardinality(BumpsAmong(ws, Len(ws), e))
          /\ endpoint'[e].status = "auto_disabled" =>
               \/ endpoint[e].status = "auto_disabled"
               \/ endpoint[e].failures + Cardinality(BumpsAmong(ws, Len(ws), e)) >= Threshold
    /\ failedPosts' = [e \in Endpoints |->
          IF Succeeds(ws, e) THEN Min2(Cardinality(Pending(e)), Threshold) ELSE failedPosts[e]]

LEMMA CommitShows ==
    ASSUME Current \in Database, NEW c, NEW more, tx[c].writes \o more \in Seq(Write),
           CommitOn(c, more)
    PROVE  Visible(tx[c].writes \o more)
<1> DEFINE ws == tx[c].writes \o more
<1>1. PICK d : Outcome(d, ws, Len(ws)) /\ Committed(ws) = d[Len(ws)]
  BY CommittedOutcome
<1>2. PICK x : x = d[Len(ws)]
  OBVIOUS
<1>3. endpoint' = x.endpoint /\ row' = x.row /\ notified' = x.notified
  BY <1>1, <1>2 DEF CommitOn
<1>4. x \in Database
  BY <1>1, <1>2 DEF Outcome
<1>5. Current' = x
  BY <1>3, <1>4 DEF Current, Database
<1>6. failedPosts' = [e \in Endpoints |->
        IF Succeeds(ws, e) THEN Min2(Cardinality(Pending(e)), Threshold) ELSE failedPosts[e]]
  BY DEF CommitOn
<1>7. \A e \in Endpoints : Succeeds(ws, e) => ResetAmong(ws, Len(ws), e)
  BY DEF Succeeds, ResetAmong, Resets
<1> HIDE DEF ws
<1>8. Visible(ws)
  BY <1>1, <1>2, <1>3, <1>4, <1>5, <1>6, <1>7 DEF Visible, Outcome, RowsStay
<1> QED  BY <1>8 DEF ws

LEMMA LoadShows ==
    ASSUME Inv, TxOK, Current \in Database, NEW h \in Handlers, LoadStops(h) \/ LoadGoesOn(h)
    PROVE  /\ job[h].first \in Conns
           /\ tx' = [tx EXCEPT ![job[h].first] = NoTx]
           /\ \E ws \in Seq(Write) :
                /\ Visible(ws)
                /\ \A e : BumpsAmong(ws, Len(ws), e) =
                            BumpsAmong(tx[job[h].first].writes, Len(tx[job[h].first].writes), e)
           /\ LoadStops(h) => row'[job[h].msg] # None
<1> DEFINE c == job[h].first
           m == job[h].msg
           drop == [kind |-> "row", msg |-> m, outcome |-> "dropped"]
           old == tx[c].writes
<1>1. IInv /\ job[h].step = "load"
  BY DEF Inv, LoadStops, LoadGoesOn
<1>2. c \in Conns /\ m \in Messages
  BY <1>1, AnyCall
<1>3. old \in Seq(Write) /\ drop \in Write
  BY <1>2 DEF TxOK, Write, Outcomes
<1>4. tx' = [tx EXCEPT ![c] = NoTx]
  BY DEF LoadStops, LoadGoesOn, CommitOn
<1> HIDE DEF old, drop
<1>5. CASE LoadStops(h) /\ Inactive(Target(h))
  <2>1. CommitOn(c, <<drop>>)
    BY <1>5 DEF LoadStops, drop
  <2> DEFINE ws == old \o <<drop>>
  <2>2. /\ ws \in Seq(Write) /\ Len(ws) = Len(old) + 1 /\ Len(old) \in Nat
        /\ ws[Len(old) + 1] = drop /\ \A i \in 1..Len(old) : ws[i] = old[i]
    BY <1>3
  <2>3. Visible(ws)
    BY <2>1, <2>2, CommitShows DEF old
  <2> HIDE DEF ws
  <2>4. row'[m] # None
    BY <2>2, <2>3 DEF Visible, drop
  <2>5. \A e : ~Bumps(drop, e)
    BY DEF Bumps, drop
  <2>6. \A e : BumpsAmong(ws, Len(ws), e) = BumpsAmong(old, Len(old), e)
    BY <2>2, <2>5 DEF BumpsAmong
  <2> QED  BY <1>2, <1>4, <2>2, <2>3, <2>4, <2>6 DEF old
<1>6. CASE LoadGoesOn(h) \/ (LoadStops(h) /\ ~Inactive(Target(h)))
  <2>1. CommitOn(c, <<>>) /\ (LoadStops(h) => row[m] # None)
    BY <1>6 DEF LoadStops, LoadGoesOn
  <2>2. old \o <<>> = old
    BY <1>3
  <2>3. Visible(old)
    BY <1>3, <2>1, <2>2, CommitShows DEF old
  <2>4. LoadStops(h) => row'[m] # None
    BY <1>2, <2>1, <2>3 DEF Visible, RowsStay
  <2> QED  BY <1>2, <1>3, <1>4, <2>3, <2>4 DEF old
<1> QED  BY <1>5, <1>6

LEMMA OutcomeShows ==
    ASSUME Inv, TxOK, Current \in Database, NEW h \in Handlers, CommitOutcome(h)
    PROVE  /\ job[h].second \in Conns
           /\ tx' = [tx EXCEPT ![job[h].second] = NoTx]
           /\ Visible(tx[job[h].second].writes)
<1> DEFINE c == job[h].second
           old == tx[c].writes
<1>1. IInv /\ job[h].step = "commit" /\ CommitOn(c, <<>>)
  BY DEF Inv, CommitOutcome
<1>2. c \in Conns
  BY <1>1, AnyCall
<1>3. old \in Seq(Write)
  BY <1>2 DEF TxOK
<1>4. tx' = [tx EXCEPT ![c] = NoTx]
  BY <1>1 DEF CommitOn
<1> HIDE DEF old
<1>5. old \o <<>> = old
  BY <1>3
<1>6. Visible(old)
  BY <1>1, <1>3, <1>5, CommitShows DEF old
<1> QED  BY <1>2, <1>4, <1>6 DEF old

-----------------------------------------------------------------------------
(* Which failed posts are on their way into the counter of an endpoint.    *)

(* Written in a transaction and not committed.                             *)
Written(e) == {p \in Conns \X Nat : /\ p[2] \in 1..Len(tx[p[1]].writes)
                                    /\ Bumps(tx[p[1]].writes[p[2]], e)}

(* Posted and not written.                                                 *)
Unwritten(e) == {h \in Handlers : /\ job[h].step \in {"record", "count"}
                                  /\ job[h].outcome \in Failures
                                  /\ Target(h) = e}

(* The counter never runs ahead of the posts that failed.                  *)
Ledger(e) ==
    failedPosts[e] < Threshold =>
        endpoint[e].failures + Cardinality(Written(e)) + Cardinality(Unwritten(e))
          <= failedPosts[e]

DataOK ==
    /\ Current \in Database
    /\ failedPosts \in [Endpoints -> 0..Threshold]
    /\ \A e \in Endpoints : Ledger(e)

(* What DisabledByFailures says of a step.                                 *)
DisabledNow ==
    \A e \in Endpoints :
        endpoint[e].status # "auto_disabled" /\ endpoint'[e].status = "auto_disabled"
            => failedPosts[e] = Threshold

(* The calls that wrote a failure of the endpoint and have to commit it.   *)
Recorders(e) == {h \in Handlers : /\ job[h].step = "commit"
                                  /\ job[h].outcome \in Failures
                                  /\ Target(h) = e}

(* f gives each failure in a transaction a call of its own that commits it.*)
Owners(f, e) ==
    /\ f \in [Written(e) -> Recorders(e)]
    /\ \A p \in Written(e), q \in Written(e) : f[p] = f[q] => p = q
    /\ \A p \in Written(e) : job[f[p]].second = p[1]

Owned == \A e \in Endpoints : \E f : Owners(f, e)

LedgerFinite ==
    \A e \in Endpoints :
        /\ IsFiniteSet(Written(e)) /\ Cardinality(Written(e)) \in Nat
        /\ IsFiniteSet(Unwritten(e)) /\ Cardinality(Unwritten(e)) \in Nat

LEMMA LedgerCounts == TxOK /\ WritesHeld => LedgerFinite
<1> SUFFICES ASSUME TxOK, WritesHeld, NEW e \in Endpoints
             PROVE  /\ IsFiniteSet(Written(e)) /\ Cardinality(Written(e)) \in Nat
                    /\ IsFiniteSet(Unwritten(e)) /\ Cardinality(Unwritten(e)) \in Nat
  BY DEF LedgerFinite
<1> DEFINE n == Cardinality(Handlers)
<1>1. n \in Nat
  BY FiniteCalls, FS_CardinalityType
<1>2. ASSUME NEW c \in Conns PROVE Len(tx[c].writes) \in Nat /\ Len(tx[c].writes) <= n + n
  <2> DEFINE U == Users(c)
             C == Committers(c)
  <2>1. U \in SUBSET Handlers /\ C \in SUBSET Handlers
    BY UsersAreCalls
  <2>2. Len(tx[c].writes) \in Nat /\ Len(tx[c].writes) <= Cardinality(U) + Cardinality(C)
    BY DEF TxOK, WritesHeld
  <2> HIDE DEF U, C
  <2>3. Cardinality(U) \in Nat /\ Cardinality(U) <= n
    BY <2>1, UsersCount
  <2>4. Cardinality(C) \in Nat /\ Cardinality(C) <= n
    BY <2>1, UsersCount
  <2> QED  BY <1>1, <2>2, <2>3, <2>4
<1> HIDE DEF n
<1>3. IsFiniteSet(Conns) /\ IsFiniteSet(1..(n + n))
  BY <1>1, FiniteCalls, FS_Interval
<1>4. IsFiniteSet(Conns \X (1..(n + n)))
  BY <1>3, FS_Product
<1>5. Written(e) \in SUBSET (Conns \X (1..(n + n)))
  <2> SUFFICES ASSUME NEW p \in Written(e) PROVE p \in Conns \X (1..(n + n))
    OBVIOUS
  <2>1. p \in Conns \X Nat /\ p[2] \in 1..Len(tx[p[1]].writes)
    BY DEF Written
  <2>2. p[1] \in Conns /\ Len(tx[p[1]].writes) \in Nat /\ Len(tx[p[1]].writes) <= n + n
    BY <1>2, <2>1
  <2> QED  BY <1>1, <2>1, <2>2
<1>6. IsFiniteSet(Written(e)) /\ Cardinality(Written(e)) \in Nat
  BY <1>4, <1>5, FS_Subset, FS_CardinalityType
<1>7. IsFiniteSet(Unwritten(e)) /\ Cardinality(Unwritten(e)) \in Nat
  <2>1. Unwritten(e) \in SUBSET Handlers
    BY DEF Unwritten
  <2> QED  BY <2>1, FiniteCalls, FS_Subset, FS_CardinalityType
<1> QED  BY <1>6, <1>7

LEMMA LedgerCountsNext == TxOK' /\ WritesHeld' => LedgerFinite'
BY LedgerCounts, PTL

(* The types behind the ledger.                                            *)
LEMMA LedgerTypes ==
    ASSUME DataOK, NEW e \in Endpoints
    PROVE  /\ endpoint[e].failures \in Nat /\ failedPosts[e] \in Nat
           /\ failedPosts[e] <= Threshold /\ Threshold \in Nat /\ Threshold > 0
BY Bounds DEF DataOK, Current, Database, EndpointRow

LEMMA LedgerKept ==
    ASSUME TxOK, WritesHeld, TxOK', WritesHeld', DataOK, NEW e \in Endpoints,
           Written(e)' \subseteq Written(e), Unwritten(e)' \subseteq Unwritten(e),
           endpoint'[e].failures = endpoint[e].failures, failedPosts' = failedPosts
    PROVE  Ledger(e)'
<1> DEFINE W == Written(e)
           V == Written(e)'
           U == Unwritten(e)
           X == Unwritten(e)'
<1>1. /\ IsFiniteSet(W) /\ Cardinality(W) \in Nat /\ IsFiniteSet(U) /\ Cardinality(U) \in Nat
      /\ IsFiniteSet(V) /\ Cardinality(V) \in Nat /\ IsFiniteSet(X) /\ Cardinality(X) \in Nat
  BY LedgerCounts, LedgerCountsNext DEF LedgerFinite
<1>2. endpoint[e].failures \in Nat /\ failedPosts[e] \in Nat
  BY LedgerTypes
<1>3. failedPosts[e] < Threshold =>
        endpoint[e].failures + Cardinality(W) + Cardinality(U) <= failedPosts[e]
  BY DEF DataOK, Ledger
<1>4. SUFFICES failedPosts[e] < Threshold =>
        endpoint[e].failures + Cardinality(V) + Cardinality(X) <= failedPosts[e]
  BY DEF Ledger
<1>5. V \in SUBSET W /\ X \in SUBSET U
  OBVIOUS
<1> HIDE DEF W, V, U, X
<1>6. Cardinality(V) <= Cardinality(W) /\ Cardinality(X) <= Cardinality(U)
  BY <1>1, <1>5, FS_Subset
<1> QED  BY <1>1, <1>2, <1>3, <1>6

LEMMA UnwrittenKept ==
    ASSUME NEW h \in Handlers, Others(h),
           job'[h].step \in {"record", "count"} =>
               /\ job[h].step \in {"record", "count"}
               /\ job'[h].outcome = job[h].outcome /\ job'[h].msg = job[h].msg
    PROVE  \A e : Unwritten(e)' \subseteq Unwritten(e)
BY DEF Unwritten, Others, Target

LEMMA WrittenKept ==
    ASSUME \A c \in Conns : tx'[c].writes \in {<<>>, tx[c].writes}
    PROVE  \A e : Written(e)' \subseteq Written(e)
<1> SUFFICES ASSUME NEW e, NEW p \in Written(e)' PROVE p \in Written(e)
  OBVIOUS
<1>1. /\ p \in Conns \X Nat /\ p[1] \in Conns /\ p[2] \in 1..Len(tx'[p[1]].writes)
      /\ Bumps(tx'[p[1]].writes[p[2]], e)
  BY DEF Written, Bumps
<1>2. tx'[p[1]].writes # <<>>
  BY <1>1
<1>3. tx'[p[1]].writes = tx[p[1]].writes
  BY <1>1, <1>2
<1> QED  BY <1>1, <1>3 DEF Written

(* A step that leaves the database and the posts alone.                    *)
LEMMA DataQuiet ==
    ASSUME TxOK, WritesHeld, TxOK', WritesHeld', DataOK,
           \A e \in Endpoints : Written(e)' \subseteq Written(e),
           \A e \in Endpoints : Unwritten(e)' \subseteq Unwritten(e),
           UNCHANGED <<endpoint, row, notified, failedPosts>>
    PROVE  DataOK' /\ DisabledNow
<1>1. \A e \in Endpoints : Ledger(e)'
  BY LedgerKept
<1>2. Current' \in Database /\ DisabledNow
  BY DEF DataOK, Current, DisabledNow
<1> QED  BY <1>1, <1>2 DEF DataOK

(* Every failure in a transaction, and every one still to be written,      *)
(* belongs to a call of its own among those that have not recorded it.     *)
LEMMA OwnedCount ==
    ASSUME TxOK, WritesHeld, Owned, NEW e \in Endpoints
    PROVE  /\ Cardinality(Pending(e)) \in Nat
           /\ Cardinality(Written(e)) + Cardinality(Unwritten(e)) <= Cardinality(Pending(e))
<1> DEFINE W == Written(e)
           U == Unwritten(e)
           R == Recorders(e)
<1>1. PICK f : Owners(f, e)
  BY DEF Owned
<1>2. f \in Injection(W, R)
  BY <1>1 DEF Owners, Injection, IsInjective
<1>3. R \in SUBSET Handlers /\ U \in SUBSET Handlers
  BY DEF Recorders, Unwritten
<1>4. /\ IsFiniteSet(R) /\ Cardinality(R) \in Nat /\ IsFiniteSet(U) /\ Cardinality(U) \in Nat
  BY <1>3, FiniteCalls, FS_Subset, FS_CardinalityType
<1>5. Cardinality(W) \in Nat
  BY LedgerCounts DEF LedgerFinite
<1>6. R \cap U = {} /\ Pending(e) = R \cup U
  BY DEF Recorders, Unwritten, Pending
<1> HIDE DEF W, U, R
<1>7. Cardinality(W) <= Cardinality(R)
  BY <1>2, <1>4, FS_Injection
<1>8. Cardinality(R \cap U) = 0
  BY <1>6, FS_EmptySet
<1>9. Cardinality(R \cup U) = Cardinality(R) + Cardinality(U)
  <2>1. Cardinality(R \cup U) = Cardinality(R) + Cardinality(U) - Cardinality(R \cap U)
    BY <1>4, FS_Union
  <2> QED  BY <1>4, <1>8, <2>1
<1>10. Cardinality(Pending(e)) = Cardinality(R) + Cardinality(U)
  BY <1>6, <1>9
<1> QED  BY <1>4, <1>5, <1>7, <1>10 DEF W, U

LEMMA Carry ==
    ASSUME NEW f \in Nat, NEW g \in Nat, NEW p \in Nat, NEW t \in Nat, NEW b \in Nat,
           NEW w \in Nat, NEW v \in Nat, NEW u \in Nat, NEW x \in Nat,
           g <= f + b, v + b <= w, x <= u, p <= t, p < t => f + w + u <= p
    PROVE  (p < t => g + v + x <= p) /\ (f + b >= t => p = t)
OBVIOUS

LEMMA Restarted ==
    ASSUME NEW g \in Nat, NEW p \in Nat, NEW t \in Nat, NEW b \in Nat,
           NEW w \in Nat, NEW v \in Nat, NEW u \in Nat, NEW x \in Nat, NEW r \in Nat,
           g <= b, v + b <= w, x <= u, w + u <= r, p = Min2(r, t)
    PROVE  p < t => g + v + x <= p
BY DEF Min2

(* A commit moves what its transaction holds from the ledger's list into   *)
(* the counter, and disables an endpoint only when its posts have failed.  *)
(* A success starts the count again from the failures still to come.       *)
LEMMA CommitLedger ==
    ASSUME TxOK, WritesHeld, TxOK', WritesHeld', DataOK, Owned, NEW c \in Conns,
           tx' = [tx EXCEPT ![c] = NoTx], NEW ws, Visible(ws),
           \A e : BumpsAmong(ws, Len(ws), e) = BumpsAmong(tx[c].writes, Len(tx[c].writes), e),
           \A e \in Endpoints : Unwritten(e)' \subseteq Unwritten(e)
    PROVE  DataOK' /\ DisabledNow
<1>1. ASSUME NEW e \in Endpoints
      PROVE  /\ failedPosts'[e] \in 0..Threshold
             /\ Ledger(e)'
             /\ endpoint[e].status # "auto_disabled" /\ endpoint'[e].status = "auto_disabled" =>
                  failedPosts[e] = Threshold
  <2> DEFINE W == Written(e)
             V == Written(e)'
             U == Unwritten(e)
             X == Unwritten(e)'
             R == Pending(e)
             B == BumpsAmong(ws, Len(ws), e)
             old == tx[c].writes
  <2>1. /\ IsFiniteSet(W) /\ Cardinality(W) \in Nat /\ IsFiniteSet(U) /\ Cardinality(U) \in Nat
        /\ IsFiniteSet(V) /\ Cardinality(V) \in Nat /\ IsFiniteSet(X) /\ Cardinality(X) \in Nat
    BY LedgerCounts, LedgerCountsNext DEF LedgerFinite
  <2>2. /\ endpoint[e].failures \in Nat /\ failedPosts[e] \in Nat /\ endpoint'[e].failures \in Nat
        /\ failedPosts[e] <= Threshold /\ Threshold \in Nat
    <3>1. endpoint'[e].failures \in Nat
      BY Bounds DEF Visible, Current, Database, EndpointRow
    <3> QED  BY <3>1, LedgerTypes
  <2>3. Len(old) \in Nat /\ B = BumpsAmong(old, Len(old), e)
    BY DEF TxOK
  <2>4. IsFiniteSet(B) /\ Cardinality(B) \in Nat
    BY <2>3, BumpsCount
  <2>5. tx'[c].writes = <<>> /\ \A b \in Conns : b # c => tx'[b].writes = tx[b].writes
    BY DEF TxOK, NoTx
  <2>6. V \subseteq W /\ \A p \in V : p[1] # c
    <3>1. V \subseteq W
      BY <2>5, WrittenKept
    <3>2. \A p \in V : p[2] \in 1..Len(tx'[p[1]].writes)
      BY DEF Written
    <3>3. \A p \in V : p[1] # c
      BY <2>5, <3>2
    <3> QED  BY <3>1, <3>3
  <2>7. {c} \X B \subseteq W
    BY <2>3 DEF Written, BumpsAmong
  <2>8. X \in SUBSET U
    OBVIOUS
  <2>9. failedPosts[e] < Threshold =>
          endpoint[e].failures + Cardinality(W) + Cardinality(U) <= failedPosts[e]
    BY DEF DataOK, Ledger
  <2>10. /\ endpoint'[e].failures <= endpoint[e].failures + Cardinality(B)
         /\ Succeeds(ws, e) => endpoint'[e].failures <= Cardinality(B)
         /\ endpoint'[e].status = "auto_disabled" =>
              \/ endpoint[e].status = "auto_disabled"
              \/ endpoint[e].failures + Cardinality(B) >= Threshold
         /\ failedPosts'[e] = IF Succeeds(ws, e) THEN Min2(Cardinality(R), Threshold)
                                                 ELSE failedPosts[e]
    BY DEF Visible
  <2>11. Cardinality(R) \in Nat /\ Cardinality(W) + Cardinality(U) <= Cardinality(R)
    BY OwnedCount
  <2>12. Ledger(e)' <=> (failedPosts'[e] < Threshold =>
           endpoint'[e].failures + Cardinality(V) + Cardinality(X) <= failedPosts'[e])
    BY DEF Ledger
  <2> HIDE DEF W, V, U, X, R, B, old
  <2>13. Cardinality(V) + Cardinality(B) <= Cardinality(W)
    <3> DEFINE P == {c} \X B
    <3>1. IsFiniteSet({c}) /\ Cardinality({c}) = 1
      BY FS_Singleton
    <3>2. IsFiniteSet(P) /\ Cardinality(P) = 1 * Cardinality(B)
      BY <2>4, <3>1, FS_Product
    <3>3. V \cap P = {} /\ V \cup P \in SUBSET W
      BY <2>6, <2>7
    <3> HIDE DEF P
    <3>4. Cardinality(V \cup P) = Cardinality(V) + Cardinality(P) - Cardinality(V \cap P)
      BY <2>1, <3>2, FS_Union
    <3>5. Cardinality(V \cap P) = 0
      BY <3>3, FS_EmptySet
    <3>6. Cardinality(V \cup P) <= Cardinality(W)
      BY <2>1, <3>3, FS_Subset
    <3> QED  BY <2>1, <2>4, <3>2, <3>4, <3>5, <3>6
  <2>14. Cardinality(X) <= Cardinality(U)
    BY <2>1, <2>8, FS_Subset
  <2>15. /\ failedPosts[e] < Threshold =>
              endpoint'[e].failures + Cardinality(V) + Cardinality(X) <= failedPosts[e]
         /\ endpoint[e].failures + Cardinality(B) >= Threshold => failedPosts[e] = Threshold
    <3>1. PICK f \in Nat, g \in Nat, p \in Nat, t \in Nat :
            /\ f = endpoint[e].failures /\ g = endpoint'[e].failures
            /\ p = failedPosts[e] /\ t = Threshold
      BY <2>2
    <3>2. PICK b \in Nat, w \in Nat, v \in Nat, u \in Nat, x \in Nat :
            /\ b = Cardinality(B) /\ w = Cardinality(W) /\ v = Cardinality(V)
            /\ u = Cardinality(U) /\ x = Cardinality(X)
      BY <2>1, <2>4
    <3>3. /\ g <= f + b /\ v + b <= w /\ x <= u /\ p <= t
          /\ p < t => f + w + u <= p
      BY <2>2, <2>9, <2>10, <2>13, <2>14, <3>1, <3>2
    <3>4. (p < t => g + v + x <= p) /\ (f + b >= t => p = t)
      BY <3>3, Carry
    <3> QED  BY <3>1, <3>2, <3>4
  <2>16. CASE Succeeds(ws, e)
    <3>1. failedPosts'[e] = Min2(Cardinality(R), Threshold)
      BY <2>10, <2>16
    <3>2. failedPosts'[e] \in Nat /\ failedPosts'[e] <= Threshold
      BY <2>2, <2>11, <3>1 DEF Min2
    <3>3. failedPosts'[e] < Threshold =>
            endpoint'[e].failures + Cardinality(V) + Cardinality(X) <= failedPosts'[e]
      BY <2>1, <2>2, <2>4, <2>10, <2>11, <2>13, <2>14, <2>16, <3>1, <3>2, Restarted
    <3> QED  BY <2>2, <2>10, <2>12, <2>15, <3>2, <3>3
  <2>17. CASE ~Succeeds(ws, e)
    BY <2>2, <2>10, <2>12, <2>15, <2>17
  <2> QED  BY <2>16, <2>17
<1>2. failedPosts' \in [Endpoints -> 0..Threshold]
  BY <1>1 DEF Visible
<1>3. Current' \in Database
  BY DEF Visible
<1> QED  BY <1>1, <1>2, <1>3 DEF DataOK, DisabledNow

-----------------------------------------------------------------------------
(* The ledger, step by step.                                               *)

(* Both transactions' books are in order before and after the step.        *)
TxBoth == TxOK /\ WritesHeld /\ TxOK' /\ WritesHeld'

(* One more write adds one failure to the list, or none.                   *)
LEMMA Appended ==
    ASSUME TxOK, NEW c \in Conns, NEW w \in Write,
           tx'[c].writes = Append(tx[c].writes, w),
           \A b \in Conns : b # c => tx'[b].writes = tx[b].writes, NEW e
    PROVE  /\ Written(e)' \subseteq Written(e) \cup {<<c, Len(tx[c].writes) + 1>>}
           /\ ~Bumps(w, e) => Written(e)' \subseteq Written(e)
<1> DEFINE n == Len(tx[c].writes)
           s == tx[c].writes
<1>1. s \in Seq(Write) /\ n \in Nat
  BY DEF TxOK
<1>2. /\ Len(Append(s, w)) = n + 1 /\ Append(s, w)[n + 1] = w
      /\ \A i \in 1..n : Append(s, w)[i] = s[i]
  BY <1>1
<1>3. ASSUME NEW p \in Written(e)'
      PROVE  p \in Written(e) \/ (p = <<c, n + 1>> /\ Bumps(w, e))
  <2>1. /\ p \in Conns \X Nat /\ p[1] \in Conns /\ p[2] \in 1..Len(tx'[p[1]].writes)
        /\ Bumps(tx'[p[1]].writes[p[2]], e) /\ p = <<p[1], p[2]>>
    BY <1>3 DEF Written, Bumps
  <2>2. CASE p[1] # c
    <3>1. tx'[p[1]].writes = tx[p[1]].writes
      BY <2>1, <2>2
    <3> QED  BY <2>1, <3>1 DEF Written
  <2>3. CASE p[1] = c /\ p[2] = n + 1
    <3>1. tx'[p[1]].writes[p[2]] = w
      BY <1>2, <2>3
    <3> QED  BY <2>1, <2>3, <3>1
  <2>4. CASE p[1] = c /\ p[2] # n + 1
    <3>1. p[2] \in 1..n
      BY <1>1, <1>2, <2>1, <2>4
    <3>2. tx'[p[1]].writes[p[2]] = tx[p[1]].writes[p[2]]
      BY <1>2, <2>4, <3>1
    <3>3. p[2] \in 1..Len(tx[p[1]].writes)
      BY <2>4, <3>1
    <3> QED  BY <2>1, <3>2, <3>3 DEF Written
  <2> QED  BY <2>2, <2>3, <2>4
<1> QED  BY <1>3

LEMMA DataLoad ==
    ASSUME Inv, TxBoth, DataOK, Owned, NEW h \in Handlers, LoadStops(h) \/ LoadGoesOn(h)
    PROVE  DataOK' /\ DisabledNow
<1>1. IInv /\ job \in [Handlers -> Jobs] /\ TxOK /\ Current \in Database
  BY DEF Inv, IInv, Shape, TxBoth, DataOK
<1>2. job'[h].step \notin {"record", "count"}
  <2>1. CASE LoadStops(h)
    BY <1>1, <2>1, IdleFacts DEF LoadStops
  <2>2. CASE LoadGoesOn(h)
    BY <1>1, <2>2 DEF LoadGoesOn, Goto, Jobs
  <2> QED  BY <2>1, <2>2
<1>3. \A e : Unwritten(e)' \subseteq Unwritten(e)
  BY <1>2, OthersStay, UnwrittenKept
<1>4. PICK c \in Conns : c = job[h].first
  BY <1>1, LoadShows
<1>5. PICK ws \in Seq(Write) :
        /\ Visible(ws)
        /\ \A e : BumpsAmong(ws, Len(ws), e) = BumpsAmong(tx[c].writes, Len(tx[c].writes), e)
  BY <1>1, <1>4, LoadShows
<1>6. tx' = [tx EXCEPT ![c] = NoTx]
  BY <1>1, <1>4, LoadShows
<1> QED  BY <1>3, <1>5, <1>6, CommitLedger DEF TxBoth

LEMMA DataCommit ==
    ASSUME Inv, TxBoth, DataOK, Owned, NEW h \in Handlers, CommitOutcome(h)
    PROVE  DataOK' /\ DisabledNow
<1>1. IInv /\ job \in [Handlers -> Jobs] /\ TxOK /\ Current \in Database
  BY DEF Inv, IInv, Shape, TxBoth, DataOK
<1>2. job'[h].step \notin {"record", "count"}
  <2>1. \/ job' = [job EXCEPT ![h] = Catching(job[h].msg, job[h].first)]
        \/ job' = [job EXCEPT ![h] = Idle]
    BY DEF CommitOutcome, Catching
  <2>2. job[h].msg \in Messages /\ job[h].first \in Conns
    BY <1>1, AnyCall DEF CommitOutcome
  <2> QED  BY <1>1, <2>1, <2>2, IdleFacts, CatchingFacts
<1>3. \A e : Unwritten(e)' \subseteq Unwritten(e)
  BY <1>2, OthersStay, UnwrittenKept
<1>4. PICK c \in Conns : c = job[h].second
  BY <1>1, OutcomeShows
<1>5. Visible(tx[c].writes) /\ tx' = [tx EXCEPT ![c] = NoTx]
  BY <1>1, <1>4, OutcomeShows
<1> QED  BY <1>3, <1>5, CommitLedger DEF TxBoth

(* A failed post opens an entry.                                           *)
LEMMA DataDispatch ==
    ASSUME Inv, TxBoth, DataOK, NEW h \in Handlers, NEW o \in Outcomes, Dispatch(h, o)
    PROVE  DataOK' /\ DisabledNow
<1>1. IInv /\ job \in [Handlers -> Jobs] /\ Others(h) /\ job[h].step = "dispatch"
  BY OthersStay DEF Inv, IInv, Shape, Dispatch
<1>2. PICK t \in Endpoints : t = Target(h)
  BY <1>1, AnyCall
<1>3. /\ tx' = tx /\ UNCHANGED <<endpoint, row, notified>>
      /\ failedPosts' = IF o \in Failures
                        THEN [failedPosts EXCEPT ![t] = Min2(@ + 1, Threshold)]
                        ELSE failedPosts
  BY <1>2 DEF Dispatch, pool, db
<1>4. \A e : Written(e)' \subseteq Written(e)
  BY <1>3, WrittenKept
<1>5. ASSUME NEW e
      PROVE  Unwritten(e)' \subseteq Unwritten(e) \cup
               (IF o \in Failures /\ e = t THEN {h} ELSE {})
  <2>1. job'[h].outcome = o /\ job'[h].msg = job[h].msg
    BY <1>1 DEF Dispatch, Jobs
  <2> QED  BY <1>1, <1>2, <2>1 DEF Unwritten, Others, Target
<1>6. CASE o \notin Failures
  BY <1>3, <1>4, <1>5, <1>6, DataQuiet DEF TxBoth
<1>7. CASE o \in Failures
  <2>1. failedPosts \in [Endpoints -> 0..Threshold] /\ Threshold \in Nat
    BY Bounds DEF DataOK
  <2>2. /\ failedPosts' = [failedPosts EXCEPT ![t] = Min2(@ + 1, Threshold)]
        /\ \A e \in Endpoints : failedPosts[e] \in Nat /\ failedPosts[e] <= Threshold
    BY <1>3, <1>7, <2>1
  <2>3. ASSUME NEW e \in Endpoints
        PROVE  failedPosts'[e] = IF e = t THEN Min2(failedPosts[e] + 1, Threshold)
                                          ELSE failedPosts[e]
    BY <2>1, <2>2
  <2>4. \A e \in Endpoints : failedPosts'[e] \in 0..Threshold
    BY <2>1, <2>2, <2>3 DEF Min2
  <2>5. failedPosts' \in [Endpoints -> 0..Threshold]
    BY <2>1, <2>2, <2>4
  <2>6. ASSUME NEW e \in Endpoints PROVE Ledger(e)'
    <3> DEFINE W == Written(e)
               V == Written(e)'
               U == Unwritten(e)
               X == Unwritten(e)'
    <3>1. /\ IsFiniteSet(W) /\ Cardinality(W) \in Nat /\ Cardinality(U) \in Nat
          /\ Cardinality(V) \in Nat /\ Cardinality(X) \in Nat
      BY LedgerCounts, LedgerCountsNext DEF LedgerFinite, TxBoth
    <3>2. V \in SUBSET W
      BY <1>4
    <3>3. U \in SUBSET Handlers /\ X \in SUBSET Handlers
      BY DEF Unwritten
    <3>4. X \subseteq U \cup {h} /\ (e # t => X \subseteq U)
      BY <1>5
    <3>5. endpoint[e].failures \in Nat
      BY LedgerTypes
    <3>6. failedPosts[e] < Threshold =>
            endpoint[e].failures + Cardinality(W) + Cardinality(U) <= failedPosts[e]
      BY DEF DataOK, Ledger
    <3>7. SUFFICES failedPosts'[e] < Threshold =>
            endpoint[e].failures + Cardinality(V) + Cardinality(X) <= failedPosts'[e]
      BY <1>3 DEF Ledger
    <3> HIDE DEF W, V, U, X
    <3>8. Cardinality(V) <= Cardinality(W)
      BY <3>1, <3>2, FS_Subset
    <3>9. /\ Cardinality(X) <= Cardinality(U) + 1
          /\ e # t => Cardinality(X) <= Cardinality(U)
      BY <3>3, <3>4, UsersCount
    <3> QED  BY <2>1, <2>2, <2>3, <3>1, <3>5, <3>6, <3>8, <3>9 DEF Min2
  <2>7. DisabledNow
    BY <1>3 DEF DisabledNow
  <2> QED  BY <1>3, <2>5, <2>6, <2>7 DEF DataOK, Current
<1> QED  BY <1>6, <1>7

LEMMA DataRecord ==
    ASSUME Inv, TxBoth, DataOK, NEW h \in Handlers, NEW c \in Conns, RecordAttempt(h, c)
    PROVE  DataOK' /\ DisabledNow
<1> DEFINE w == [kind |-> "row", msg |-> job[h].msg, outcome |-> job[h].outcome]
<1>1. /\ IInv /\ job \in [Handlers -> Jobs] /\ Others(h) /\ job[h].step = "record" /\ TxOK
      /\ job' = [job EXCEPT ![h].step = "count", ![h].second = c]
      /\ tx' = [tx EXCEPT ![c] = [open |-> TRUE, writes |-> Append(@.writes, w)]]
      /\ UNCHANGED <<endpoint, row, notified, failedPosts>>
  BY OthersStay DEF Inv, IInv, Shape, RecordAttempt, db, observers, TxBoth
<1>2. w \in Write /\ \A e : ~Bumps(w, e)
  BY <1>1, AnyCall DEF Jobs, Write, Bumps
<1> HIDE DEF w
<1>3. /\ tx'[c].writes = Append(tx[c].writes, w)
      /\ \A b \in Conns : b # c => tx'[b].writes = tx[b].writes
  BY <1>1 DEF TxOK
<1>4. \A e : Written(e)' \subseteq Written(e)
  BY <1>1, <1>2, <1>3, Appended
<1>5. \A e : Unwritten(e)' \subseteq Unwritten(e)
  BY <1>1, UnwrittenKept DEF Jobs
<1> QED  BY <1>1, <1>4, <1>5, DataQuiet DEF TxBoth

(* The entry moves from the call to its transaction.                       *)
LEMMA DataCount ==
    ASSUME Inv, TxBoth, DataOK, NEW h \in Handlers, CountOutcome(h)
    PROVE  DataOK' /\ DisabledNow
<1> DEFINE w == [kind |-> "count", msg |-> job[h].msg, outcome |-> job[h].outcome]
           o == job[h].outcome
<1>1. /\ IInv /\ job \in [Handlers -> Jobs] /\ Others(h) /\ job[h].step = "count" /\ TxOK
      /\ job' = [job EXCEPT ![h].step = "commit"]
      /\ UNCHANGED <<endpoint, row, notified, failedPosts>>
  BY OthersStay DEF Inv, IInv, Shape, CountOutcome, Goto, db, observers, TxBoth
<1>2. PICK c \in Conns : c = job[h].second
  BY <1>1, AnyCall
<1>3. PICK t \in Endpoints : t = Target(h)
  BY <1>1, AnyCall
<1>4. \A e : Unwritten(e)' \subseteq Unwritten(e) \ {h}
  BY <1>1 DEF Unwritten, Others, Target
<1>5. w \in Write /\ \A e : Bumps(w, e) => e = t /\ o # "delivered"
  BY <1>1, <1>3, AnyCall DEF Jobs, Write, Bumps, Target
<1>6. CASE tx' = tx
  BY <1>1, <1>4, <1>6, WrittenKept, DataQuiet DEF TxBoth
<1>7. CASE /\ o = "delivered" \/ o \in Failures
           /\ tx' = [tx EXCEPT ![job[h].second].writes = Append(@, w)]
  <2> HIDE DEF w
  <2>1. tx[c] \in [open : BOOLEAN, writes : Seq(Write)]
    BY <1>1 DEF TxOK
  <2>2. tx' = [tx EXCEPT ![c] = [tx[c] EXCEPT !.writes = Append(tx[c].writes, w)]]
    BY <1>2, <1>7
  <2>3. /\ tx'[c].writes = Append(tx[c].writes, w)
        /\ \A b \in Conns : b # c => tx'[b].writes = tx[b].writes
    BY <1>1, <2>1, <2>2 DEF TxOK
  <2>4. ASSUME NEW e
        PROVE  /\ Written(e)' \subseteq Written(e) \cup {<<c, Len(tx[c].writes) + 1>>}
               /\ ~Bumps(w, e) => Written(e)' \subseteq Written(e)
    BY <1>1, <1>5, <2>3, Appended
  <2>5. CASE o = "delivered"
    <3>1. \A e : Written(e)' \subseteq Written(e) /\ Unwritten(e)' \subseteq Unwritten(e)
      BY <1>4, <1>5, <2>4, <2>5
    <3> QED  BY <1>1, <3>1, DataQuiet DEF TxBoth
  <2>6. CASE o \in Failures
    <3>1. h \in Unwritten(t)
      BY <1>1, <1>3, <2>6 DEF Unwritten
    <3>2. ASSUME NEW e \in Endpoints PROVE Ledger(e)'
      <4> DEFINE W == Written(e)
                 V == Written(e)'
                 U == Unwritten(e)
                 X == Unwritten(e)'
                 p == <<c, Len(tx[c].writes) + 1>>
      <4>1. /\ IsFiniteSet(W) /\ Cardinality(W) \in Nat /\ Cardinality(U) \in Nat
            /\ IsFiniteSet(V) /\ Cardinality(V) \in Nat /\ Cardinality(X) \in Nat
        BY LedgerCounts, LedgerCountsNext DEF LedgerFinite, TxBoth
      <4>2. /\ V \subseteq W \cup {p} /\ (e # t => V \subseteq W)
            /\ X \subseteq U \ {h} /\ (e = t => h \in U)
        BY <1>4, <1>5, <2>4, <3>1
      <4>3. U \in SUBSET Handlers /\ X \in SUBSET Handlers
        BY DEF Unwritten
      <4>4. endpoint[e].failures \in Nat /\ failedPosts[e] \in Nat /\ Threshold \in Nat
        BY LedgerTypes
      <4>5. failedPosts[e] < Threshold =>
              endpoint[e].failures + Cardinality(W) + Cardinality(U) <= failedPosts[e]
        BY DEF DataOK, Ledger
      <4>6. SUFFICES failedPosts[e] < Threshold =>
              endpoint[e].failures + Cardinality(V) + Cardinality(X) <= failedPosts[e]
        BY <1>1 DEF Ledger
      <4> HIDE DEF W, V, U, X, p
      <4>7. Cardinality(V) <= Cardinality(W) + 1 /\ (e # t => Cardinality(V) <= Cardinality(W))
        <5>1. /\ IsFiniteSet(W \cup {p})
              /\ Cardinality(W \cup {p}) =
                   IF p \in W THEN Cardinality(W) ELSE Cardinality(W) + 1
          BY <4>1, FS_AddElement
        <5>2. Cardinality(V) <= Cardinality(W \cup {p})
          BY <4>2, <5>1, FS_Subset
        <5>3. e # t => Cardinality(V) <= Cardinality(W)
          BY <4>1, <4>2, FS_Subset
        <5> QED  BY <4>1, <5>1, <5>2, <5>3
      <4>8. Cardinality(X) <= Cardinality(U) /\ (e = t => Cardinality(X) + 1 <= Cardinality(U))
        <5>1. X \subseteq U /\ (e = t => h \in U \ X)
          BY <4>2
        <5> QED  BY <4>3, <5>1, UsersCount
      <4>9. CASE e = t
        BY <4>1, <4>4, <4>5, <4>7, <4>8, <4>9
      <4>10. CASE e # t
        BY <4>1, <4>4, <4>5, <4>7, <4>8, <4>10
      <4> QED  BY <4>9, <4>10
    <3> QED  BY <1>1, <3>2 DEF DataOK, Current, DisabledNow
  <2> QED  BY <1>7, <2>5, <2>6
<1> QED  BY <1>6, <1>7 DEF CountOutcome, Counted

LEMMA DataStep ==
    ASSUME Inv, TxBoth, DataOK, Owned, [Next]_vars
    PROVE  DataOK' /\ DisabledNow
<1>1. IInv /\ job \in [Handlers -> Jobs] /\ TxOK
  BY DEF Inv, IInv, Shape, TxBoth
<1>2. ASSUME NEW h \in Handlers, LoadFails(h) \/ GateAdmits(h) \/ GateRequeues(h) \/ GateFails(h)
      PROVE  DataOK' /\ DisabledNow
  <2>1. /\ tx' = tx /\ UNCHANGED <<endpoint, row, notified, failedPosts>>
        /\ \E s \in {"catch", "dispatch"} : Goto(h, s) \/ job' = [job EXCEPT ![h] = Idle]
    BY <1>2 DEF LoadFails, GateAdmits, GateRequeues, GateFails, pool, db, observers
  <2>2. job'[h].step \notin {"record", "count"} /\ Others(h)
    BY <1>1, <1>2, <2>1, IdleFacts, OthersStay DEF Goto, Jobs
  <2> QED  BY <2>1, <2>2, WrittenKept, UnwrittenKept, DataQuiet DEF TxBoth
<1>3. ASSUME NEW h \in Handlers,
             ReconnectTimesOut(h) \/ OutcomeFails(h) \/ CatchRollback(h) \/ CatchRelease(h)
      PROVE  DataOK' /\ DisabledNow
  <2>1. /\ job[h].step # "idle" /\ UNCHANGED <<endpoint, row, notified, failedPosts>>
        /\ \/ tx' = tx
           \/ tx' = [tx EXCEPT ![job[h].first] = NoTx]
           \/ tx' = [tx EXCEPT ![job[h].second] = NoTx]
        /\ \/ Goto(h, "free") \/ job' = [job EXCEPT ![h] = Idle]
           \/ job' = [job EXCEPT ![h] = Catching(job[h].msg, job[h].first)]
    BY <1>3 DEF ReconnectTimesOut, OutcomeFails, CatchRollback, CatchRelease, RollbackOn,
       Throw, Catching, pool, db, observers
  <2>2. job[h].msg \in Messages /\ job[h].first \in Conns
    BY <1>1, <2>1, AnyCall
  <2>3. job'[h].step \notin {"record", "count"} /\ Others(h)
    BY <1>1, <1>3, <2>1, <2>2, IdleFacts, CatchingFacts, OthersStay DEF Goto, Jobs
  <2>4. \A c \in Conns : tx'[c].writes \in {<<>>, tx[c].writes}
    BY <1>1, <2>1 DEF TxOK, NoTx
  <2> QED  BY <2>1, <2>3, <2>4, WrittenKept, UnwrittenKept, DataQuiet DEF TxBoth
<1>4. ASSUME NEW h \in Handlers, NEW m \in queue, NEW c \in Conns, Receive(h, m, c)
      PROVE  DataOK' /\ DisabledNow
  <2>1. /\ tx' = [tx EXCEPT ![c].open = TRUE]
        /\ UNCHANGED <<endpoint, row, notified, failedPosts>>
        /\ job'[h].step = "load"
    BY <1>1, <1>4 DEF Receive, BeginOn, db, observers, Idle
  <2>2. Others(h)
    BY <1>4, OthersStay
  <2>3. \A b \in Conns : tx'[b].writes = tx[b].writes
    BY <1>1, <2>1 DEF TxOK
  <2> QED  BY <2>1, <2>2, <2>3, WrittenKept, UnwrittenKept, DataQuiet DEF TxBoth
<1>5. CASE Restart
  <2>1. /\ \A c \in Conns : tx'[c].writes = <<>>
        /\ \A h \in Handlers : job'[h].step = "idle"
        /\ UNCHANGED <<endpoint, row, notified, failedPosts>>
    BY <1>5, IdleFacts DEF Restart, NoTx, db
  <2>2. \A e : Unwritten(e)' \subseteq Unwritten(e)
    BY <2>1 DEF Unwritten
  <2> QED  BY <2>1, <2>2, WrittenKept, DataQuiet DEF TxBoth
<1>6. ASSUME NEW f \in Endpoints, NEW s \in Statuses, EditEndpoint(f, s)
      PROVE  DataOK' /\ DisabledNow
  <2>1. /\ endpoint' = [endpoint EXCEPT ![f].status = s, ![f].deletedAt = (s = "deleted")]
        /\ UNCHANGED <<row, notified, failedPosts, tx, job>> /\ s # "auto_disabled"
    BY <1>6 DEF EditEndpoint, pool, observers
  <2>2. endpoint \in [Endpoints -> EndpointRow] /\ Current \in Database
    BY DEF DataOK, Current, Database
  <2>3. /\ endpoint' \in [Endpoints -> EndpointRow]
        /\ \A e \in Endpoints :
             /\ endpoint'[e].failures = endpoint[e].failures
             /\ endpoint'[e].status \in {endpoint[e].status, s}
    BY <2>1, <2>2 DEF EndpointRow
  <2>4. Current' \in Database
    BY <2>1, <2>2, <2>3 DEF Current, Database
  <2>5. \A e : Written(e)' \subseteq Written(e) /\ Unwritten(e)' \subseteq Unwritten(e)
    BY <2>1 DEF Written, Bumps, Unwritten, Target
  <2>6. \A e \in Endpoints : Ledger(e)'
    BY <2>1, <2>3, <2>5, LedgerKept DEF TxBoth
  <2>7. DisabledNow
    BY <2>1, <2>3 DEF DisabledNow
  <2> QED  BY <2>1, <2>4, <2>6, <2>7 DEF DataOK
<1>7. CASE (\E e \in Endpoints : Expire(e)) \/ UNCHANGED vars
  <2>1. UNCHANGED <<tx, job, endpoint, row, notified, failedPosts>>
    BY <1>7 DEF Expire, vars, pool, db, observers
  <2>2. \A e : Written(e)' \subseteq Written(e) /\ Unwritten(e)' \subseteq Unwritten(e)
    BY <2>1 DEF Written, Bumps, Unwritten, Target
  <2> QED  BY <2>1, <2>2, DataQuiet DEF TxBoth
<1> QED
  BY <1>2, <1>3, <1>4, <1>5, <1>6, <1>7, DataLoad, DataCommit, DataDispatch, DataRecord,
     DataCount DEF Next, HandlerStep

-----------------------------------------------------------------------------
(* Whose failures the transactions carry.                                  *)

(* A call that is not committing, or one that leaves no write behind.      *)
LEMMA OwnedKept ==
    ASSUME Owned, NEW h \in Handlers, Others(h),
           \A e \in Endpoints : Written(e)' \subseteq Written(e),
           job[h].step = "commit" =>
               \A e \in Endpoints : \A p \in Written(e)' : p[1] # job[h].second
    PROVE  Owned'
<1> SUFFICES ASSUME NEW e \in Endpoints PROVE \E f : Owners(f, e)'
  BY DEF Owned
<1>1. PICK f : Owners(f, e)
  BY DEF Owned
<1> DEFINE V == Written(e)'
           g == [p \in V |-> f[p]]
<1>2. ASSUME NEW p \in V
      PROVE  /\ p \in Written(e) /\ f[p] \in Recorders(e) /\ job[f[p]].second = p[1]
             /\ f[p] # h /\ job'[f[p]] = job[f[p]]
  <2>1. p \in Written(e) /\ f[p] \in Recorders(e) /\ job[f[p]].second = p[1]
    BY <1>1 DEF Owners
  <2>2. f[p] \in Handlers /\ job[f[p]].step = "commit"
    BY <2>1 DEF Recorders
  <2>3. f[p] # h
    BY <2>1, <2>2
  <2> QED  BY <2>1, <2>2, <2>3 DEF Others
<1>3. ASSUME NEW p \in V PROVE f[p] \in Recorders(e)' /\ job'[f[p]].second = p[1]
  BY <1>2 DEF Recorders, Target
<1>4. \A p \in V, q \in V : f[p] = f[q] => p = q
  BY <1>1, <1>2 DEF Owners
<1> HIDE DEF V
<1>5. PICK k : /\ k \in [V -> Recorders(e)']
               /\ \A p \in V, q \in V : k[p] = k[q] => p = q
               /\ \A p \in V : job'[k[p]].second = p[1]
  <2>1. /\ g \in [V -> Recorders(e)']
        /\ \A p \in V, q \in V : g[p] = g[q] => p = q
        /\ \A p \in V : job'[g[p]].second = p[1]
    BY <1>3, <1>4
  <2> HIDE DEF g
  <2> QED  BY <2>1
<1>6. Owners(k, e)'
  BY <1>5 DEF Owners, V
<1> QED  BY <1>6

(* The call that counts owns what it adds.                                 *)
LEMMA OwnedCounts ==
    ASSUME Inv, TxOK, Owned, NEW h \in Handlers, CountOutcome(h)
    PROVE  Owned'
<1> DEFINE w == [kind |-> "count", msg |-> job[h].msg, outcome |-> job[h].outcome]
           o == job[h].outcome
<1>1. /\ IInv /\ job \in [Handlers -> Jobs] /\ Others(h) /\ job[h].step = "count"
      /\ job' = [job EXCEPT ![h].step = "commit"]
  BY OthersStay DEF Inv, IInv, Shape, CountOutcome, Goto
<1>2. PICK c \in Conns : c = job[h].second
  BY <1>1, AnyCall
<1>3. PICK t \in Endpoints : t = Target(h)
  BY <1>1, AnyCall
<1>4. w \in Write /\ \A e : Bumps(w, e) => e = t /\ o # "delivered"
  BY <1>1, <1>3, AnyCall DEF Jobs, Write, Bumps, Target
<1>5. /\ job'[h].step = "commit" /\ job'[h].outcome = o /\ job'[h].msg = job[h].msg
      /\ job'[h].second = c
  BY <1>1, <1>2 DEF Jobs
<1>6. CASE tx' = tx
  BY <1>1, <1>6, WrittenKept, OwnedKept
<1>7. CASE /\ o = "delivered" \/ o \in Failures
           /\ tx' = [tx EXCEPT ![job[h].second].writes = Append(@, w)]
  <2> HIDE DEF w
  <2>1. tx[c] \in [open : BOOLEAN, writes : Seq(Write)]
    BY DEF TxOK
  <2>2. tx' = [tx EXCEPT ![c] = [tx[c] EXCEPT !.writes = Append(tx[c].writes, w)]]
    BY <1>2, <1>7
  <2>3. /\ tx'[c].writes = Append(tx[c].writes, w)
        /\ \A b \in Conns : b # c => tx'[b].writes = tx[b].writes
    BY <2>1, <2>2 DEF TxOK
  <2> DEFINE a == <<c, Len(tx[c].writes) + 1>>
  <2>4. ASSUME NEW e
        PROVE  /\ Written(e)' \subseteq Written(e) \cup {a}
               /\ ~Bumps(w, e) => Written(e)' \subseteq Written(e)
    BY <1>4, <2>3, Appended
  <2> HIDE DEF a
  <2>5. ASSUME NEW e \in Endpoints PROVE \E f : Owners(f, e)'
    <3>1. PICK f : Owners(f, e)
      BY DEF Owned
    <3> DEFINE V == Written(e)'
               g == [p \in V |-> IF p \in Written(e) THEN f[p] ELSE h]
    <3>2. ASSUME NEW p \in V, p \in Written(e)
          PROVE  f[p] \in Recorders(e)' /\ job'[f[p]].second = p[1] /\ f[p] # h
      <4>1. f[p] \in Recorders(e) /\ job[f[p]].second = p[1]
        BY <3>2, <3>1 DEF Owners
      <4>2. f[p] \in Handlers /\ f[p] # h
        BY <1>1, <4>1 DEF Recorders
      <4>3. job'[f[p]] = job[f[p]]
        BY <1>1, <4>2 DEF Others
      <4> QED  BY <4>1, <4>2, <4>3 DEF Recorders, Target
    <3>3. ASSUME NEW p \in V, p \notin Written(e)
          PROVE  h \in Recorders(e)' /\ job'[h].second = p[1] /\ p = a
      <4>1. p = a /\ Bumps(w, e)
        BY <2>4, <3>3
      <4>2. e = t /\ o \in Failures
        BY <1>4, <1>7, <4>1
      <4>3. p[1] = c
        BY <4>1 DEF a
      <4> QED  BY <1>3, <1>5, <4>1, <4>2, <4>3 DEF Recorders, Target
    <3>4. ASSUME NEW p \in V, NEW q \in V, p \in Written(e), q \in Written(e), f[p] = f[q]
          PROVE  p = q
      BY <3>1, <3>4 DEF Owners
    <3> HIDE DEF V
    <3>5. PICK k : /\ k \in [V -> Recorders(e)']
                   /\ \A p \in V, q \in V : k[p] = k[q] => p = q
                   /\ \A p \in V : job'[k[p]].second = p[1]
      <4>1. /\ g \in [V -> Recorders(e)']
            /\ \A p \in V, q \in V : g[p] = g[q] => p = q
            /\ \A p \in V : job'[g[p]].second = p[1]
        BY <3>2, <3>3, <3>4
      <4> HIDE DEF g
      <4> QED  BY <4>1
    <3>6. Owners(k, e)'
      BY <3>5 DEF Owners, V
    <3> QED  BY <3>6
  <2> QED  BY <2>5 DEF Owned
<1> QED  BY <1>6, <1>7 DEF CountOutcome, Counted

LEMMA OwnedStep ==
    ASSUME Inv, TxBoth, Current \in Database, Owned, [Next]_vars
    PROVE  Owned'
<1>1. IInv /\ job \in [Handlers -> Jobs] /\ TxOK
  BY DEF Inv, IInv, Shape, TxBoth
<1>2. ASSUME NEW h \in Handlers, job[h].step # "commit", Others(h),
             \A c \in Conns : tx'[c].writes \in {<<>>, tx[c].writes}
      PROVE  Owned'
  BY <1>2, WrittenKept, OwnedKept
<1>3. ASSUME NEW h \in Handlers, CommitOutcome(h) \/ OutcomeFails(h)
      PROVE  Owned'
  <2>1. Others(h) /\ job[h].step \in {"count", "commit"} /\ tx' = [tx EXCEPT ![job[h].second] = NoTx]
    BY <1>3, OthersStay DEF CommitOutcome, CommitOn, OutcomeFails, RollbackOn
  <2>2. PICK c \in Conns : c = job[h].second
    BY <1>1, <2>1, AnyCall
  <2>3. tx'[c].writes = <<>> /\ \A b \in Conns : tx'[b].writes \in {<<>>, tx[b].writes}
    BY <1>1, <2>1, <2>2 DEF TxOK, NoTx
  <2>4. \A e \in Endpoints : \A p \in Written(e)' : p[1] # c
    <3> SUFFICES ASSUME NEW e \in Endpoints, NEW p \in Written(e)', p[1] = c PROVE FALSE
      OBVIOUS
    <3>1. p[2] \in 1..Len(tx'[c].writes)
      BY DEF Written
    <3> QED  BY <2>3, <3>1
  <2> QED  BY <2>1, <2>2, <2>3, <2>4, WrittenKept, OwnedKept
<1>4. ASSUME NEW h \in Handlers, LoadStops(h) \/ LoadGoesOn(h)
      PROVE  Owned'
  <2>1. job[h].step = "load" /\ Others(h) /\ job[h].first \in Conns
        /\ tx' = [tx EXCEPT ![job[h].first] = NoTx]
    BY <1>1, <1>4, OthersStay, LoadShows DEF LoadStops, LoadGoesOn
  <2>2. \A c \in Conns : tx'[c].writes \in {<<>>, tx[c].writes}
    BY <1>1, <2>1 DEF TxOK, NoTx
  <2> QED  BY <1>2, <2>1, <2>2
<1>5. ASSUME NEW h \in Handlers,
             \/ LoadFails(h) \/ GateAdmits(h) \/ GateRequeues(h) \/ GateFails(h)
             \/ (\E o \in Outcomes : Dispatch(h, o))
             \/ ReconnectTimesOut(h) \/ CatchRollback(h) \/ CatchRelease(h)
      PROVE  Owned'
  <2>1. Others(h) /\ job[h].step # "commit"
    BY <1>5, OthersStay DEF LoadFails, GateAdmits, GateRequeues, GateFails, Dispatch,
       ReconnectTimesOut, CatchRollback, CatchRelease
  <2>2. tx' = tx \/ tx' = [tx EXCEPT ![job[h].first] = NoTx]
    BY <1>5 DEF LoadFails, GateAdmits, GateRequeues, GateFails, Dispatch,
       ReconnectTimesOut, CatchRollback, CatchRelease, RollbackOn, pool
  <2>3. \A c \in Conns : tx'[c].writes \in {<<>>, tx[c].writes}
    BY <1>1, <2>2 DEF TxOK, NoTx
  <2> QED  BY <1>2, <2>1, <2>3
<1>6. ASSUME NEW h \in Handlers, NEW m \in queue, NEW c \in Conns, Receive(h, m, c)
      PROVE  Owned'
  <2>1. Others(h) /\ job[h].step = "idle" /\ tx' = [tx EXCEPT ![c].open = TRUE]
    BY <1>6, OthersStay DEF Receive, BeginOn
  <2>2. \A b \in Conns : tx'[b].writes = tx[b].writes
    BY <1>1, <2>1 DEF TxOK
  <2> QED  BY <1>2, <2>1, <2>2
<1>7. ASSUME NEW h \in Handlers, NEW c \in Conns, RecordAttempt(h, c)
      PROVE  Owned'
  <2> DEFINE w == [kind |-> "row", msg |-> job[h].msg, outcome |-> job[h].outcome]
  <2>1. /\ Others(h) /\ job[h].step = "record"
        /\ tx' = [tx EXCEPT ![c] = [open |-> TRUE, writes |-> Append(@.writes, w)]]
    BY <1>7, OthersStay DEF RecordAttempt
  <2>2. w \in Write /\ \A e : ~Bumps(w, e)
    BY <1>1, <2>1, AnyCall DEF Jobs, Write, Bumps
  <2> HIDE DEF w
  <2>3. /\ tx'[c].writes = Append(tx[c].writes, w)
        /\ \A b \in Conns : b # c => tx'[b].writes = tx[b].writes
    BY <1>1, <2>1 DEF TxOK
  <2>4. \A e : Written(e)' \subseteq Written(e)
    BY <1>1, <2>2, <2>3, Appended
  <2> QED  BY <2>1, <2>4, OwnedKept
<1>8. CASE Restart
  <2> SUFFICES ASSUME NEW e \in Endpoints PROVE \E f : Owners(f, e)'
    BY DEF Owned
  <2>1. \A c \in Conns : tx'[c].writes = <<>>
    BY <1>8 DEF Restart, NoTx
  <2>2. Written(e)' = {}
    <3>1. \A p \in Written(e)' : p[1] \in Conns /\ p[2] \in 1..Len(tx'[p[1]].writes)
      BY DEF Written
    <3> QED  BY <2>1, <3>1
  <2>3. Owners([p \in {} |-> p], e)'
    BY <2>2 DEF Owners
  <2> QED  BY <2>3
<1>9. CASE \/ \E e \in Endpoints : Expire(e) \/ \E s \in Statuses : EditEndpoint(e, s)
           \/ UNCHANGED vars
  <2>1. ASSUME NEW e, Expire(e) PROVE UNCHANGED <<tx, job>>
    BY <2>1 DEF Expire, pool
  <2>2. ASSUME NEW e, NEW s, EditEndpoint(e, s) PROVE UNCHANGED <<tx, job>>
    BY <2>2 DEF EditEndpoint, pool
  <2>3. UNCHANGED <<tx, job>>
    BY <1>9, <2>1, <2>2 DEF vars, pool
  <2>4. \A e : Written(e)' = Written(e) /\ Recorders(e)' = Recorders(e)
    BY <2>3 DEF Written, Bumps, Recorders, Target
  <2>5. \A f, e : Owners(f, e) => Owners(f, e)'
    BY <2>3, <2>4 DEF Owners
  <2> QED  BY <2>5 DEF Owned
<1>10. ASSUME NEW h \in Handlers, CountOutcome(h) PROVE Owned'
  BY <1>1, <1>10, OwnedCounts
<1> QED
  BY <1>3, <1>4, <1>5, <1>6, <1>7, <1>8, <1>9, <1>10 DEF Next, HandlerStep

-----------------------------------------------------------------------------
(* Posts and what excuses them.                                            *)

(* A call between ReceiveMessage and its end or its catch.                 *)
Active(h) == job[h].step \in {"load", "gate", "dispatch", "record", "count", "commit"}

(* Of the calls that handle a message at once, one does not know of others. *)
OneUndisturbed ==
    \A g, h \in Handlers :
        Active(g) /\ Active(h) /\ job[g].msg = job[h].msg /\ ~job[g].overlap /\ ~job[h].overlap
            => g = h

(* A charged post has a row, or a call that will write one.                *)
PostsRecorded ==
    \A m \in Messages :
        charged[m] = 1 => row[m] # None \/ \E h \in Handlers : job[h].posted /\ job[h].msg = m

PostedCalls ==
    \A h \in Handlers :
        job[h].posted => /\ job[h].step \in {"record", "count", "commit"}
                         /\ ~job[h].overlap /\ charged[job[h].msg] = 1

CallsToPost ==
    \A h \in Handlers :
        job[h].step \in {"gate", "dispatch"} /\ ~job[h].overlap => charged[job[h].msg] = 0

ChargesOK ==
    /\ charged \in [Messages -> {0, 1}]
    /\ OneUndisturbed /\ PostsRecorded /\ PostedCalls /\ CallsToPost

LEMMA RowsKept ==
    ASSUME Inv, TxOK, Current \in Database, [Next]_vars
    PROVE  RowsStay
<1>1. CASE \E h \in Handlers : LoadStops(h) \/ LoadGoesOn(h)
  BY <1>1, LoadShows DEF Visible
<1>2. CASE \E h \in Handlers : CommitOutcome(h)
  BY <1>2, OutcomeShows DEF Visible
<1>3. CASE \E h \in Handlers :
             \/ \E m \in queue, c \in Conns : Receive(h, m, c)
             \/ \E c \in Conns : RecordAttempt(h, c)
             \/ \E o \in Outcomes : Dispatch(h, o)
             \/ LoadFails(h) \/ GateAdmits(h) \/ GateRequeues(h) \/ GateFails(h)
             \/ ReconnectTimesOut(h) \/ CountOutcome(h) \/ OutcomeFails(h)
             \/ CatchRollback(h) \/ CatchRelease(h)
  <2>1. row' = row
    BY <1>3 DEF Receive, RecordAttempt, Dispatch, LoadFails, GateAdmits, GateRequeues,
       GateFails, ReconnectTimesOut, CountOutcome, OutcomeFails, CatchRollback, CatchRelease, db
  <2> QED  BY <2>1 DEF RowsStay
<1>4. CASE \/ \E e \in Endpoints : Expire(e) \/ \E s \in Statuses : EditEndpoint(e, s)
           \/ Restart \/ UNCHANGED vars
  <2>1. row' = row
    BY <1>4 DEF Expire, EditEndpoint, Restart, vars, db
  <2> QED  BY <2>1 DEF RowsStay
<1> QED  BY <1>1, <1>2, <1>3, <1>4 DEF Next, HandlerStep

LEMMA UndisturbedKept ==
    ASSUME OneUndisturbed, NEW h \in Handlers, Others(h),
           Active(h)' => /\ Active(h) /\ job'[h].msg = job[h].msg
                         /\ job'[h].overlap = job[h].overlap
    PROVE  OneUndisturbed'
<1>1. ASSUME NEW g \in Handlers, Active(g)'
      PROVE  Active(g) /\ job'[g].msg = job[g].msg /\ job'[g].overlap = job[g].overlap
  BY <1>1 DEF Active, Others
<1> QED  BY <1>1 DEF OneUndisturbed

(* The posts stay as they are, and h has one after the step iff it had one. *)
LEMMA ChargesQuiet ==
    ASSUME ChargesOK, RowsStay, NEW h \in Handlers, Others(h), charged' = charged,
           Active(h)' => /\ Active(h) /\ job'[h].msg = job[h].msg
                         /\ job'[h].overlap = job[h].overlap,
           job'[h].posted = job[h].posted,
           job[h].posted => job'[h].step \in {"record", "count", "commit"},
           job'[h].step \in {"gate", "dispatch"} /\ ~job'[h].overlap =>
               charged[job'[h].msg] = 0
    PROVE  ChargesOK'
<1>1. OneUndisturbed'
  BY UndisturbedKept DEF ChargesOK
<1>2. job[h].posted => /\ Active(h) /\ job'[h].msg = job[h].msg
                       /\ job'[h].overlap = job[h].overlap
  BY DEF Active
<1>3. PostedCalls'
  BY <1>2 DEF ChargesOK, PostedCalls, Others
<1>4. CallsToPost'
  BY DEF ChargesOK, CallsToPost, Others
<1>5. PostsRecorded'
  <2> SUFFICES ASSUME NEW m \in Messages, charged[m] = 1, row'[m] = None
               PROVE  \E g \in Handlers : job'[g].posted /\ job'[g].msg = m
    BY DEF PostsRecorded
  <2>1. PICK g \in Handlers : job[g].posted /\ job[g].msg = m
    BY DEF ChargesOK, PostsRecorded, RowsStay
  <2> QED  BY <1>2, <2>1 DEF Others
<1> QED  BY <1>1, <1>3, <1>4, <1>5 DEF ChargesOK

(* A call ends whose post, if it made one, has its row.                    *)
LEMMA ChargesSettled ==
    ASSUME ChargesOK, RowsStay, NEW h \in Handlers, Others(h), charged' = charged,
           ~Active(h)', ~job'[h].posted,
           job[h].posted => row'[job[h].msg] # None
    PROVE  ChargesOK'
<1>1. OneUndisturbed'
  BY UndisturbedKept DEF ChargesOK
<1>2. PostedCalls' /\ CallsToPost'
  BY DEF ChargesOK, PostedCalls, CallsToPost, Others, Active
<1>3. PostsRecorded'
  <2> SUFFICES ASSUME NEW m \in Messages, charged[m] = 1, row'[m] = None
               PROVE  \E g \in Handlers : job'[g].posted /\ job'[g].msg = m
    BY DEF PostsRecorded
  <2>1. PICK g \in Handlers : job[g].posted /\ job[g].msg = m
    BY DEF ChargesOK, PostsRecorded, RowsStay
  <2>2. g # h
    BY <2>1
  <2> QED  BY <2>1, <2>2 DEF Others
<1> QED  BY <1>1, <1>2, <1>3 DEF ChargesOK

(* A call gives up whose post, if it made one, may be repeated.            *)
LEMMA ChargesExcused ==
    ASSUME IInv, ChargesOK, RowsStay, NEW h \in Handlers, Others(h), Excuse(h),
           ~Active(h)', ~job'[h].posted
    PROVE  ChargesOK'
<1>1. CASE ~job[h].posted
  BY <1>1, ChargesSettled DEF Excuse
<1>2. CASE job[h].posted
  <2>1. job[h].step # "idle" /\ Active(h) /\ ~job[h].overlap /\ charged[job[h].msg] = 1
    BY <1>2 DEF ChargesOK, PostedCalls, Active
  <2>2. PICK k \in Messages : k = job[h].msg
    BY <2>1, AnyCall
  <2>3. charged' = [charged EXCEPT ![k] = @ - 1] /\ charged[k] = 1
        /\ charged \in [Messages -> {0, 1}]
    BY <1>2, <2>1, <2>2 DEF Excuse, ChargesOK
  <2>4. /\ charged' \in [Messages -> {0, 1}] /\ charged'[k] = 0
        /\ \A m \in Messages : m # k => charged'[m] = charged[m]
    BY <2>3
  <2>5. OneUndisturbed'
    BY UndisturbedKept DEF ChargesOK
  <2>6. ASSUME NEW g \in Handlers, job[g].posted, job[g].msg = k PROVE g = h
    <3>1. Active(g) /\ ~job[g].overlap
      BY <2>6 DEF ChargesOK, PostedCalls, Active
    <3> QED  BY <2>1, <2>2, <2>6, <3>1 DEF ChargesOK, OneUndisturbed
  <2>7. ASSUME NEW g \in Handlers, job'[g].posted
        PROVE  /\ job[g].posted /\ job'[g] = job[g] /\ job[g].msg \in Messages
               /\ job[g].msg # k
    <3>1. g # h /\ job'[g] = job[g] /\ job[g].posted
      BY <2>7 DEF Others
    <3>2. job[g].step # "idle"
      BY <3>1 DEF ChargesOK, PostedCalls
    <3>3. job[g].msg # k
      BY <2>6, <3>1
    <3> QED  BY <3>1, <3>2, <3>3, AnyCall
  <2>8. PostedCalls'
    BY <2>4, <2>7 DEF ChargesOK, PostedCalls
  <2>9. CallsToPost'
    <3> SUFFICES ASSUME NEW g \in Handlers, job'[g].step \in {"gate", "dispatch"},
                        ~job'[g].overlap
                 PROVE  charged'[job'[g].msg] = 0
      BY DEF CallsToPost
    <3>1. g # h /\ job'[g] = job[g]
      BY DEF Active, Others
    <3>2. charged[job[g].msg] = 0 /\ job[g].msg \in Messages
      BY <3>1, AnyCall DEF ChargesOK, CallsToPost
    <3> QED  BY <2>4, <3>1, <3>2
  <2>10. PostsRecorded'
    <3> SUFFICES ASSUME NEW m \in Messages, charged'[m] = 1, row'[m] = None
                 PROVE  \E g \in Handlers : job'[g].posted /\ job'[g].msg = m
      BY DEF PostsRecorded
    <3>1. m # k /\ charged[m] = 1 /\ row[m] = None
      BY <2>4 DEF RowsStay
    <3>2. PICK g \in Handlers : job[g].posted /\ job[g].msg = m
      BY <3>1 DEF ChargesOK, PostsRecorded
    <3>3. g # h
      BY <2>2, <3>1, <3>2
    <3> QED  BY <3>2, <3>3 DEF Others
  <2> QED  BY <2>4, <2>5, <2>8, <2>9, <2>10 DEF ChargesOK
<1> QED  BY <1>1, <1>2

LEMMA ChargesReceive ==
    ASSUME IInv, ChargesOK, RowsStay, NEW h \in Handlers, NEW m \in queue, NEW c \in Conns,
           Receive(h, m, c), Others(h)
    PROVE  ChargesOK'
<1>1. /\ job[h].step = "idle" /\ charged' = charged /\ job \in [Handlers -> Jobs]
      /\ ~job[h].posted
  BY DEF Receive, observers, IInv, Shape, ChargesOK, PostedCalls
<1>2. /\ job'[h].step = "load" /\ job'[h].msg = m /\ job'[h].overlap = Overlaps(h, m)
      /\ ~job'[h].posted
  BY <1>1 DEF Receive, Idle
<1>3. OneUndisturbed'
  <2>1. ASSUME NEW g \in Handlers \ {h}, Active(g)', job'[g].msg = m
        PROVE  job'[h].overlap
    BY <1>2, <2>1 DEF Others, Overlaps
  <2>2. ASSUME NEW g \in Handlers \ {h}
        PROVE  job'[g] = job[g] /\ (Active(g)' <=> Active(g))
    BY DEF Others, Active
  <2> QED  BY <1>2, <2>1, <2>2 DEF ChargesOK, OneUndisturbed
<1>4. PostedCalls' /\ CallsToPost'
  BY <1>1, <1>2 DEF ChargesOK, PostedCalls, CallsToPost, Others
<1>5. PostsRecorded'
  <2> SUFFICES ASSUME NEW k \in Messages, charged[k] = 1, row'[k] = None
               PROVE  \E g \in Handlers : job'[g].posted /\ job'[g].msg = k
    BY <1>1 DEF PostsRecorded
  <2>1. PICK g \in Handlers : job[g].posted /\ job[g].msg = k
    BY DEF ChargesOK, PostsRecorded, RowsStay
  <2> QED  BY <1>1, <2>1 DEF Others
<1> QED  BY <1>1, <1>3, <1>4, <1>5 DEF ChargesOK

(* An undisturbed post is the first, or the first since the last excuse.   *)
LEMMA ChargesDispatch ==
    ASSUME IInv, ChargesOK, RowsStay, NEW h \in Handlers, NEW o \in Outcomes,
           Dispatch(h, o), Others(h)
    PROVE  ChargesOK'
<1>1. job[h].step = "dispatch" /\ job \in [Handlers -> Jobs] /\ ~job[h].posted /\ Active(h)
  BY DEF Dispatch, IInv, Shape, ChargesOK, PostedCalls, Active
<1>2. PICK k \in Messages : k = job[h].msg
  BY <1>1, AnyCall
<1>3. PICK p \in BOOLEAN : p <=> o # "blocked" /\ ~job[h].overlap
  OBVIOUS
<1>4. /\ job' = [job EXCEPT ![h].step = "record", ![h].outcome = o,
                            ![h].posted = (o # "blocked" /\ ~job[h].overlap)]
      /\ p => charged' = [charged EXCEPT ![k] = @ + 1]
      /\ ~p => charged' = charged
  BY <1>2, <1>3 DEF Dispatch
<1>5. /\ job'[h].step = "record" /\ job'[h].msg = k /\ job'[h].overlap = job[h].overlap
      /\ job'[h].posted <=> p
  BY <1>1, <1>2, <1>3, <1>4 DEF Jobs
<1>6. CASE ~p
  BY <1>1, <1>2, <1>4, <1>5, <1>6, ChargesQuiet DEF Jobs
<1>7. CASE p
  <2>1. charged[k] = 0 /\ charged \in [Messages -> {0, 1}] /\ ~job[h].overlap
    BY <1>1, <1>2, <1>3, <1>7 DEF ChargesOK, CallsToPost
  <2>2. /\ charged' \in [Messages -> {0, 1}] /\ charged'[k] = 1
        /\ \A m \in Messages : m # k => charged'[m] = charged[m]
    BY <1>4, <1>7, <2>1
  <2>3. OneUndisturbed'
    BY <1>1, <1>2, <1>5, UndisturbedKept DEF ChargesOK
  <2>4. PostedCalls'
    <3> SUFFICES ASSUME NEW g \in Handlers, job'[g].posted
                 PROVE  /\ job'[g].step \in {"record", "count", "commit"}
                        /\ ~job'[g].overlap /\ charged'[job'[g].msg] = 1
      BY DEF PostedCalls
    <3>1. CASE g = h
      BY <1>5, <2>1, <2>2, <3>1
    <3>2. CASE g # h
      <4>1. job'[g] = job[g]
        BY <3>2 DEF Others
      <4>2. /\ job[g].step \in {"record", "count", "commit"} /\ ~job[g].overlap
            /\ charged[job[g].msg] = 1
        BY <4>1 DEF ChargesOK, PostedCalls
      <4>3. job[g].msg \in Messages
        BY <4>2, AnyCall
      <4> QED  BY <2>1, <2>2, <4>1, <4>2, <4>3
    <3> QED  BY <3>1, <3>2
  <2>5. CallsToPost'
    <3> SUFFICES ASSUME NEW g \in Handlers, job'[g].step \in {"gate", "dispatch"},
                        ~job'[g].overlap
                 PROVE  charged'[job'[g].msg] = 0
      BY DEF CallsToPost
    <3>1. g # h /\ job'[g] = job[g] /\ Active(g)
      BY <1>5 DEF Active, Others
    <3>2. charged[job[g].msg] = 0 /\ job[g].msg \in Messages
      BY <3>1, AnyCall DEF ChargesOK, CallsToPost
    <3>3. job[g].msg # k
      BY <1>1, <1>2, <2>1, <3>1 DEF ChargesOK, OneUndisturbed
    <3> QED  BY <2>2, <3>1, <3>2, <3>3
  <2>6. PostsRecorded'
    <3> SUFFICES ASSUME NEW m \in Messages, charged'[m] = 1, row'[m] = None
                 PROVE  \E g \in Handlers : job'[g].posted /\ job'[g].msg = m
      BY DEF PostsRecorded
    <3>1. CASE m = k
      BY <1>5, <1>7, <3>1
    <3>2. CASE m # k
      <4>1. charged[m] = 1 /\ row[m] = None
        BY <2>2, <3>2 DEF RowsStay
      <4>2. PICK g \in Handlers : job[g].posted /\ job[g].msg = m
        BY <4>1 DEF ChargesOK, PostsRecorded
      <4> QED  BY <1>1, <4>2 DEF Others
    <3> QED  BY <3>1, <3>2
  <2> QED  BY <2>2, <2>3, <2>4, <2>5, <2>6 DEF ChargesOK
<1> QED  BY <1>6, <1>7

(* The calls of a dead pod are forgotten, and what they posted is excused. *)
LEMMA ChargesRestart ==
    ASSUME IInv, ChargesOK, Restart
    PROVE  ChargesOK'
<1> DEFINE Lost(m) == {h \in Handlers : job[h].msg = m /\ job[h].posted}
<1>1. /\ \A h \in Handlers : job'[h].step = "idle" /\ ~job'[h].posted
      /\ row' = row /\ charged \in [Messages -> {0, 1}]
      /\ charged' = [m \in Messages |-> charged[m] - Cardinality(Lost(m))]
  BY DEF Restart, Idle, db, ChargesOK
<1>2. ASSUME NEW m \in Messages
      PROVE  /\ charged'[m] \in {0, 1}
             /\ charged'[m] = 1 => row[m] # None
  <2>1. CASE Lost(m) = {}
    <3> DEFINE L == Lost(m)
    <3>1. Cardinality(L) = 0
      BY <2>1, FS_EmptySet
    <3>2. charged'[m] = charged[m] - Cardinality(L)
      BY <1>1
    <3> HIDE DEF L
    <3>3. charged'[m] = charged[m]
      BY <1>1, <3>1, <3>2
    <3>4. charged[m] = 1 => row[m] # None
      BY <2>1 DEF ChargesOK, PostsRecorded
    <3> QED  BY <1>1, <3>3, <3>4
  <2>2. CASE Lost(m) # {}
    <3> DEFINE L == Lost(m)
    <3>1. PICK h \in L : h \in Handlers
      BY <2>2
    <3>2. ASSUME NEW g \in L PROVE g = h
      <4>1. /\ g \in Handlers /\ job[g].posted /\ job[g].msg = m
            /\ h \in Handlers /\ job[h].posted /\ job[h].msg = m
        BY <3>1, <3>2
      <4>2. Active(g) /\ ~job[g].overlap /\ Active(h) /\ ~job[h].overlap
        BY <4>1 DEF ChargesOK, PostedCalls, Active
      <4> QED  BY <4>1, <4>2 DEF ChargesOK, OneUndisturbed
    <3>3. charged[m] = 1
      BY <3>1 DEF ChargesOK, PostedCalls
    <3>4. charged'[m] = charged[m] - Cardinality(L)
      BY <1>1
    <3> HIDE DEF L
    <3>5. L = {h}
      BY <3>1, <3>2
    <3>6. Cardinality(L) = 1
      BY <3>5, FS_Singleton
    <3>7. charged'[m] = 0
      BY <3>3, <3>4, <3>6
    <3> QED  BY <3>7
  <2> QED  BY <2>1, <2>2
<1>3. charged' \in [Messages -> {0, 1}]
  BY <1>1, <1>2
<1> QED  BY <1>1, <1>2, <1>3 DEF ChargesOK, OneUndisturbed, PostsRecorded, PostedCalls,
           CallsToPost, Active

LEMMA ChargesStep ==
    ASSUME Inv, TxOK, Current \in Database, ChargesOK, [Next]_vars
    PROVE  ChargesOK'
<1>1. IInv /\ job \in [Handlers -> Jobs] /\ RowsStay
  BY RowsKept DEF Inv, IInv, Shape
<1>2. ASSUME NEW h \in Handlers, LoadStops(h)
      PROVE  ChargesOK'
  <2>1. ~job[h].posted /\ charged' = charged /\ job' = [job EXCEPT ![h] = Idle]
    BY <1>2 DEF LoadStops, observers, ChargesOK, PostedCalls
  <2>2. ~Active(h)' /\ ~job'[h].posted
    BY <1>1, <2>1 DEF Idle, Active
  <2>3. Others(h)
    BY <1>2, OthersStay
  <2> QED  BY <1>1, <2>1, <2>2, <2>3, ChargesSettled
<1>3. ASSUME NEW h \in Handlers, LoadGoesOn(h)
      PROVE  ChargesOK'
  <2>1. /\ ~job[h].posted /\ charged' = charged /\ Active(h) /\ job[h].step = "load"
        /\ row[job[h].msg] = None
        /\ \E s \in {"catch", "gate"} : Goto(h, s)
    BY <1>3 DEF LoadGoesOn, observers, ChargesOK, PostedCalls, Active
  <2>2. PICK k \in Messages : k = job[h].msg
    BY <1>1, <2>1, AnyCall
  <2>3. /\ job'[h].msg = k /\ job'[h].overlap = job[h].overlap
        /\ job'[h].posted = job[h].posted
    BY <1>1, <2>1, <2>2 DEF Goto, Jobs
  <2>4. ASSUME ~job[h].overlap PROVE charged[k] = 0
    <3>1. ASSUME NEW g \in Handlers, job[g].posted, job[g].msg = k PROVE FALSE
      <4>1. Active(g) /\ ~job[g].overlap /\ job[g].step # "load"
        BY <3>1 DEF ChargesOK, PostedCalls, Active
      <4> QED  BY <2>1, <2>2, <2>4, <3>1, <4>1 DEF ChargesOK, OneUndisturbed
    <3> QED  BY <2>1, <2>2, <3>1 DEF ChargesOK, PostsRecorded
  <2>5. Others(h)
    BY <1>3, OthersStay
  <2>6. /\ Active(h)' => /\ Active(h) /\ job'[h].msg = job[h].msg
                         /\ job'[h].overlap = job[h].overlap
        /\ job'[h].step \in {"gate", "dispatch"} /\ ~job'[h].overlap =>
               charged[job'[h].msg] = 0
    BY <2>1, <2>2, <2>3, <2>4
  <2> QED  BY <1>1, <2>1, <2>3, <2>5, <2>6, ChargesQuiet
<1>4. ASSUME NEW h \in Handlers, LoadFails(h) \/ GateFails(h) \/ CatchRollback(h)
      PROVE  ChargesOK'
  <2>1. /\ ~job[h].posted /\ charged' = charged
        /\ \E s \in {"catch", "free"} : Goto(h, s)
    BY <1>4 DEF LoadFails, GateFails, CatchRollback, observers, ChargesOK, PostedCalls
  <2>2. ~Active(h)' /\ ~job'[h].posted
    BY <1>1, <2>1 DEF Goto, Active, Jobs
  <2>3. Others(h)
    BY <1>4, OthersStay
  <2> QED  BY <1>1, <2>1, <2>2, <2>3, ChargesSettled
<1>5. ASSUME NEW h \in Handlers, GateRequeues(h) \/ CatchRelease(h)
      PROVE  ChargesOK'
  <2>1. ~job[h].posted /\ charged' = charged /\ job' = [job EXCEPT ![h] = Idle]
    BY <1>5 DEF GateRequeues, CatchRelease, observers, ChargesOK, PostedCalls
  <2>2. ~Active(h)' /\ ~job'[h].posted
    BY <1>1, <2>1 DEF Idle, Active
  <2>3. Others(h)
    BY <1>5, OthersStay
  <2> QED  BY <1>1, <2>1, <2>2, <2>3, ChargesSettled
<1>6. ASSUME NEW h \in Handlers, GateAdmits(h)
      PROVE  ChargesOK'
  <2>1. charged' = charged /\ job[h].step = "gate" /\ Goto(h, "dispatch") /\ ~job[h].posted
    BY <1>6 DEF GateAdmits, observers, ChargesOK, PostedCalls
  <2>2. /\ job'[h].step = "dispatch" /\ job'[h].msg = job[h].msg
        /\ job'[h].overlap = job[h].overlap /\ job'[h].posted = job[h].posted
    BY <1>1, <2>1 DEF Goto, Jobs
  <2>3. ~job[h].overlap => charged[job[h].msg] = 0
    BY <2>1 DEF ChargesOK, CallsToPost
  <2>4. Others(h)
    BY <1>6, OthersStay
  <2> QED  BY <1>1, <2>1, <2>2, <2>3, <2>4, ChargesQuiet DEF Active
<1>7. ASSUME NEW h \in Handlers, (\E c \in Conns : RecordAttempt(h, c)) \/ CountOutcome(h)
      PROVE  ChargesOK'
  <2>1. /\ charged' = charged /\ job[h].step \in {"record", "count"}
        /\ \/ Goto(h, "commit")
           \/ \E c \in Conns : job' = [job EXCEPT ![h].step = "count", ![h].second = c]
    BY <1>7 DEF RecordAttempt, CountOutcome, observers
  <2>2. /\ job'[h].step \in {"count", "commit"} /\ job'[h].msg = job[h].msg
        /\ job'[h].overlap = job[h].overlap /\ job'[h].posted = job[h].posted
    BY <1>1, <2>1 DEF Goto, Jobs
  <2>3. Others(h)
    BY <1>7, OthersStay
  <2> QED  BY <1>1, <2>1, <2>2, <2>3, ChargesQuiet DEF Active
<1>8. ASSUME NEW h \in Handlers, ReconnectTimesOut(h) \/ OutcomeFails(h) \/ CommitOutcome(h)
      PROVE  ChargesOK'
  <2>1. /\ job[h].step \in {"record", "count", "commit"}
        /\ \/ job' = [job EXCEPT ![h] = Catching(job[h].msg, job[h].first)]
           \/ job' = [job EXCEPT ![h] = Idle]
        /\ Excuse(h) \/ (charged' = charged /\ row'[job[h].msg] # None)
    BY <1>8 DEF ReconnectTimesOut, OutcomeFails, CommitOutcome, Throw, Catching
  <2>2. ~Active(h)' /\ ~job'[h].posted
    <3>1. job'[h] \in {Idle, Catching(job[h].msg, job[h].first)}
      BY <1>1, <2>1
    <3>2. /\ Idle.step = "idle" /\ ~Idle.posted
          /\ Catching(job[h].msg, job[h].first).step = "catch"
          /\ ~Catching(job[h].msg, job[h].first).posted
      BY DEF Catching, Idle
    <3> QED  BY <3>1, <3>2 DEF Active
  <2>3. Others(h)
    BY <1>8, OthersStay
  <2> QED  BY <1>1, <2>1, <2>2, <2>3, ChargesExcused, ChargesSettled
<1>9. CASE UNCHANGED <<job, row, charged>>
  BY <1>9 DEF ChargesOK, OneUndisturbed, PostsRecorded, PostedCalls, CallsToPost, Active
<1>10. CASE \/ \E e \in Endpoints : Expire(e) \/ \E s \in Statuses : EditEndpoint(e, s)
            \/ UNCHANGED vars
  BY <1>9, <1>10 DEF Expire, EditEndpoint, vars, db, observers
<1>11. ASSUME NEW h \in Handlers, NEW m \in queue, NEW c \in Conns, Receive(h, m, c)
       PROVE  ChargesOK'
  BY <1>1, <1>11, OthersStay, ChargesReceive
<1>12. ASSUME NEW h \in Handlers, NEW o \in Outcomes, Dispatch(h, o)
       PROVE  ChargesOK'
  BY <1>1, <1>12, OthersStay, ChargesDispatch
<1> QED
  BY <1>1, <1>2, <1>3, <1>4, <1>5, <1>6, <1>7, <1>8, <1>10, <1>11, <1>12, ChargesRestart
  DEF Next, HandlerStep

-----------------------------------------------------------------------------
(* Messages leave the queue with a row.                                    *)

LEMMA DeletedStep ==
    ASSUME Inv, TxOK, Current \in Database, DeletedHasRow, [Next]_vars
    PROVE  DeletedHasRow'
<1>1. IInv /\ RowsStay
  BY RowsKept DEF Inv
<1>2. CASE queue' = queue /\ torn \subseteq torn'
  BY <1>1, <1>2 DEF DeletedHasRow, RowsStay
<1>3. ASSUME NEW h \in Handlers, LoadStops(h)
      PROVE  DeletedHasRow'
  <2>1. row'[job[h].msg] # None
    BY <1>3, LoadShows
  <2>2. torn' = torn /\ queue \subseteq queue' \cup {job[h].msg}
    BY <1>3 DEF LoadStops, Deleted, observers
  <2> QED  BY <1>1, <2>1, <2>2 DEF DeletedHasRow, RowsStay
<1>4. ASSUME NEW h \in Handlers, CommitOutcome(h)
      PROVE  DeletedHasRow'
  <2>1. /\ torn \subseteq torn' /\ queue \subseteq queue' \cup {job[h].msg}
        /\ row'[job[h].msg] # None \/ job[h].msg \in torn'
    BY <1>4 DEF CommitOutcome, Deleted
  <2> QED  BY <1>1, <2>1 DEF DeletedHasRow, RowsStay
<1>5. CASE \E h \in Handlers :
             \/ \E m \in queue, c \in Conns : Receive(h, m, c)
             \/ \E c \in Conns : RecordAttempt(h, c)
             \/ \E o \in Outcomes : Dispatch(h, o)
             \/ LoadGoesOn(h) \/ LoadFails(h) \/ GateAdmits(h) \/ GateRequeues(h)
             \/ GateFails(h) \/ ReconnectTimesOut(h) \/ CountOutcome(h) \/ OutcomeFails(h)
             \/ CatchRollback(h) \/ CatchRelease(h)
  <2>1. queue' = queue /\ torn' = torn
    BY <1>5 DEF Receive, RecordAttempt, Dispatch, LoadGoesOn, LoadFails, GateAdmits,
       GateRequeues, GateFails, ReconnectTimesOut, CountOutcome, OutcomeFails, CatchRollback,
       CatchRelease, observers
  <2> QED  BY <1>2, <2>1
<1>6. CASE \/ \E e \in Endpoints : Expire(e) \/ \E s \in Statuses : EditEndpoint(e, s)
           \/ Restart \/ UNCHANGED vars
  BY <1>2, <1>6 DEF Expire, EditEndpoint, Restart, vars, observers
<1> QED  BY <1>3, <1>4, <1>5, <1>6 DEF Next, HandlerStep

-----------------------------------------------------------------------------
(* The rest of the types.                                                  *)

Counters ==
    /\ slots \in [Endpoints -> 0..Cap]
    /\ limited \in 0..MaxLimited /\ faults \in 0..MaxFaults /\ edits \in 0..MaxEdits
    /\ expired \subseteq Endpoints /\ abandoned \subseteq Conns /\ torn \subseteq Messages

(* A step that moves no counter but by a fault or a deletion.              *)
LEMMA CountersKept ==
    ASSUME Counters, UNCHANGED <<slots, expired>>,
           UNCHANGED bounds \/ Fault,
           abandoned' \subseteq Conns, torn' \subseteq Messages
    PROVE  Counters'
BY Bounds DEF Counters, bounds, Fault

LEMMA CountersStep ==
    ASSUME Inv, Counters, [Next]_vars
    PROVE  Counters'
<1>1. IInv /\ Cap \in Nat /\ MaxLimited \in Nat /\ MaxFaults \in Nat /\ MaxEdits \in Nat
  BY Bounds DEF Inv
<1>2. /\ slots \in [Endpoints -> 0..Cap]
      /\ limited \in 0..MaxLimited /\ faults \in 0..MaxFaults /\ edits \in 0..MaxEdits
      /\ expired \subseteq Endpoints /\ abandoned \subseteq Conns /\ torn \subseteq Messages
  BY DEF Counters
<1>3. ASSUME NEW h \in Handlers,
             LoadStops(h) \/ CommitOutcome(h) \/ CatchRelease(h)
      PROVE  Counters'
  <2>1. job[h].step # "idle"
    BY <1>3 DEF LoadStops, CommitOutcome, CatchRelease
  <2>2. job[h].msg \in Messages /\ job[h].first \in Conns
    BY <1>1, <2>1, AnyCall
  <2>3. /\ UNCHANGED <<slots, expired>>
        /\ UNCHANGED bounds \/ Fault
        /\ abandoned' \in {abandoned, abandoned \cup {job[h].first},
                           abandoned \ {job[h].first}}
        /\ torn' \in {torn, torn \cup {job[h].msg}}
    BY <1>3 DEF LoadStops, CommitOutcome, CatchRelease, Deleted, redis, observers
  <2> QED  BY <1>2, <2>2, <2>3, CountersKept
<1>4. CASE \E h \in Handlers :
             \/ \E m \in queue, c \in Conns : Receive(h, m, c)
             \/ \E c \in Conns : RecordAttempt(h, c)
             \/ LoadGoesOn(h) \/ LoadFails(h) \/ ReconnectTimesOut(h) \/ CountOutcome(h)
             \/ OutcomeFails(h) \/ CatchRollback(h)
  <2>1. /\ UNCHANGED <<slots, expired, abandoned, torn>>
        /\ UNCHANGED bounds \/ Fault
    BY <1>4 DEF Receive, RecordAttempt, LoadGoesOn, LoadFails, ReconnectTimesOut,
       CountOutcome, OutcomeFails, CatchRollback, redis, pool, observers
  <2> QED  BY <1>2, <2>1, CountersKept
<1>5. ASSUME NEW h \in Handlers, GateAdmits(h) \/ GateRequeues(h)
      PROVE  Counters'
  <2>1. job[h].step # "idle"
    BY <1>5 DEF GateAdmits, GateRequeues
  <2>2. PICK e \in Endpoints : e = Target(h)
    BY <1>1, <2>1, AnyCall
  <2>3. /\ UNCHANGED <<expired, abandoned, torn, faults, edits>>
        /\ limited' = limited \/ (limited < MaxLimited /\ limited' = limited + 1)
        /\ slots' = slots \/ (slots[e] < Cap /\ slots' = [slots EXCEPT ![e] = @ + 1])
    BY <1>5, <2>2 DEF GateAdmits, GateRequeues, FreeSlot, bounds, pool, observers
  <2>4. slots' \in [Endpoints -> 0..Cap]
    BY <1>1, <1>2, <2>3
  <2>5. limited' \in 0..MaxLimited
    BY <1>1, <1>2, <2>3
  <2> QED  BY <1>2, <2>3, <2>4, <2>5 DEF Counters
<1>6. ASSUME NEW h \in Handlers, GateFails(h) \/ (\E o \in Outcomes : Dispatch(h, o))
      PROVE  Counters'
  <2>1. job[h].step # "idle"
    BY <1>6 DEF GateFails, Dispatch
  <2>2. PICK e \in Endpoints : e = Target(h)
    BY <1>1, <2>1, AnyCall
  <2>3. /\ UNCHANGED <<expired, abandoned, torn>>
        /\ UNCHANGED bounds \/ Fault
        /\ \/ slots' = slots
           \/ slots[e] < Cap /\ slots' = [slots EXCEPT ![e] = @ + 1]
           \/ slots' = [slots EXCEPT ![e] = IF @ > 0 THEN @ - 1 ELSE 0]
    BY <1>6, <2>2 DEF GateFails, Dispatch, ReleaseSlot, FreeSlot, pool, observers
  <2>4. slots' \in [Endpoints -> 0..Cap]
    <3>1. CASE slots' = slots
      BY <1>2, <3>1
    <3>2. CASE slots[e] < Cap /\ slots' = [slots EXCEPT ![e] = @ + 1]
      BY <1>1, <1>2, <3>2
    <3>3. CASE slots' = [slots EXCEPT ![e] = IF @ > 0 THEN @ - 1 ELSE 0]
      BY <1>1, <1>2, <3>3
    <3> QED  BY <2>3, <3>1, <3>2, <3>3
  <2>5. faults' \in 0..MaxFaults /\ limited' = limited /\ edits' = edits
    BY <1>1, <1>2, <2>3 DEF bounds, Fault
  <2> QED  BY <1>2, <2>3, <2>4, <2>5 DEF Counters
<1>7. ASSUME NEW e \in Endpoints, Expire(e)
      PROVE  Counters'
  <2>1. /\ slots' = [slots EXCEPT ![e] = 0] /\ expired' \in {expired, expired \cup {e}}
        /\ UNCHANGED <<abandoned, limited, faults, edits, torn>>
    BY <1>7 DEF Expire, pool, bounds, observers
  <2>2. slots' \in [Endpoints -> 0..Cap]
    BY <1>1, <1>2, <2>1
  <2> QED  BY <1>2, <2>1, <2>2 DEF Counters
<1>8. CASE \E e \in Endpoints, s \in Statuses : EditEndpoint(e, s)
  <2>1. /\ UNCHANGED <<slots, expired, abandoned, limited, faults, torn>>
        /\ edits < MaxEdits /\ edits' = edits + 1
    BY <1>8 DEF EditEndpoint, redis, pool, observers
  <2> QED  BY <1>1, <1>2, <2>1 DEF Counters
<1>9. CASE Restart
  <2>1. UNCHANGED <<slots, expired, torn>> /\ Fault /\ abandoned' = {}
    BY <1>9 DEF Restart
  <2>2. faults' \in 0..MaxFaults /\ limited' = limited /\ edits' = edits
    BY <1>1, <1>2, <2>1 DEF Fault
  <2> QED  BY <1>2, <2>1, <2>2 DEF Counters
<1>10. CASE UNCHANGED vars
  BY <1>2, <1>10, CountersKept DEF vars, redis, pool, observers
<1> QED
  BY <1>3, <1>4, <1>5, <1>6, <1>7, <1>8, <1>9, <1>10 DEF Next, HandlerStep

(* No connection is in the pool twice.                                     *)
LEMMA OnceMore ==
    ASSUME NEW s \in Seq(Conns), IsInjective(s), NEW c \in Conns
    PROVE  IsInjective(IF Contains(s, c) THEN s ELSE Append(s, c))
<1>1. CASE Contains(s, c)
  BY <1>1
<1>2. CASE ~Contains(s, c)
  <2> DEFINE r == Append(s, c)
             n == Len(s)
  <2>1. /\ n \in Nat /\ DOMAIN r = 1..(n + 1) /\ DOMAIN s = 1..n /\ r[n + 1] = c
        /\ \A i \in 1..n : r[i] = s[i]
    OBVIOUS
  <2>2. \A i \in 1..n : s[i] # c
    BY <1>2 DEF Contains
  <2> HIDE DEF r, n
  <2>3. ASSUME NEW a \in DOMAIN r, NEW b \in DOMAIN r, r[a] = r[b] PROVE a = b
    <3>1. CASE a \in 1..n /\ b \in 1..n
      BY <2>1, <2>3, <3>1 DEF IsInjective
    <3>2. CASE a = n + 1 \/ b = n + 1
      BY <2>1, <2>2, <2>3, <3>2
    <3> QED  BY <2>1, <3>1, <3>2
  <2> QED  BY <1>2, <2>3 DEF IsInjective, r
<1> QED  BY <1>1, <1>2

LEMMA AllOnce == IsInjective(SetToSeq(Conns))
<1> DEFINE n == Cardinality(Conns)
<1>1. n \in Nat /\ ExistsBijection(1 .. n, Conns)
  BY FiniteCalls, FS_CardinalityType
<1>2. \E f \in [1 .. n -> Conns] : IsInjective(f)
  BY <1>1 DEF ExistsBijection, Bijection, Injection
<1> QED  BY <1>2 DEF SetToSeq

LEMMA OnceStep ==
    ASSUME Inv, IsInjective(idle), [Next]_vars
    PROVE  IsInjective(idle')
<1>1. IInv /\ Shape /\ idle \in Seq(Conns)
  BY DEF Inv, IInv, Shape
<1>2. ASSUME NEW c, Taken(c) PROVE IsInjective(idle')
  <2>1. /\ idle' \in Seq(Conns) /\ Len(idle') = Len(idle) - 1
        /\ \A i \in 1 .. Len(idle) - 1 : idle'[i] = idle[i]
    BY <1>1, <1>2, TakenFacts
  <2>2. DOMAIN idle' = 1..(Len(idle) - 1) /\ DOMAIN idle = 1..Len(idle) /\ Len(idle) \in Nat
    BY <1>1, <2>1
  <2> QED  BY <2>1, <2>2 DEF IsInjective
<1>3. ASSUME NEW c \in Conns, idle' = Released(c) PROVE IsInjective(idle')
  BY <1>1, <1>3, OnceMore DEF Released
<1>4. ASSUME NEW h \in Handlers,
             LoadGoesOn(h) \/ CatchRelease(h) \/ CommitOutcome(h) \/ OutcomeFails(h)
      PROVE  IsInjective(idle')
  <2>1. /\ idle' \in {Released(job[h].first), Released(job[h].second)}
        /\ job[h].step # "idle"
        /\ idle' # Released(job[h].first) => job[h].step \in {"count", "commit"}
    BY <1>4 DEF LoadGoesOn, CatchRelease, CommitOutcome, OutcomeFails
  <2>2. job[h].first \in Conns /\ (idle' # Released(job[h].first) => job[h].second \in Conns)
    BY <1>1, <2>1, AnyCall
  <2> QED  BY <1>3, <2>1, <2>2
<1>5. CASE \E h \in Handlers : \/ \E m \in queue, c \in Conns : Receive(h, m, c)
                               \/ \E c \in Conns : RecordAttempt(h, c)
  BY <1>2, <1>5 DEF Receive, RecordAttempt
<1>6. CASE idle' = idle
  BY <1>6
<1>7. CASE \E h \in Handlers :
             \/ LoadStops(h) \/ LoadFails(h) \/ GateAdmits(h) \/ GateRequeues(h)
             \/ GateFails(h) \/ (\E o \in Outcomes : Dispatch(h, o))
             \/ ReconnectTimesOut(h) \/ CountOutcome(h) \/ CatchRollback(h)
  BY <1>6, <1>7 DEF LoadStops, LoadFails, GateAdmits, GateRequeues, GateFails, Dispatch,
     ReconnectTimesOut, CountOutcome, CatchRollback, pool
<1>8. CASE \/ \E e \in Endpoints : Expire(e) \/ \E s \in Statuses : EditEndpoint(e, s)
           \/ UNCHANGED vars
  BY <1>6, <1>8 DEF Expire, EditEndpoint, vars, pool
<1>9. CASE Restart
  BY <1>9, AllOnce DEF Restart
<1> QED  BY <1>4, <1>5, <1>7, <1>8, <1>9 DEF Next, HandlerStep

-----------------------------------------------------------------------------
(* The theorems.                                                           *)

OutcomeInv ==
    /\ TxOK /\ WritesHeld
    /\ DataOK /\ Owned
    /\ ChargesOK
    /\ DeletedHasRow
    /\ Counters /\ IsInjective(idle)

LEMMA OutcomeInit == Init => Inv /\ OutcomeInv
<1> SUFFICES ASSUME Init PROVE Inv /\ OutcomeInv
  OBVIOUS
<1>1. Inv
  BY InitInvariant DEF Init, Inv
<1>2. /\ \A h \in Handlers : /\ job[h].step = "idle" /\ ~job[h].posted
      /\ \A c \in Conns : tx[c].writes = <<>>
      /\ Threshold \in Nat \ {0} /\ Cap \in Nat \ {0}
      /\ MaxLimited \in Nat /\ MaxFaults \in Nat /\ MaxEdits \in Nat
  BY Bounds DEF Init, Idle, NoTx
<1>3. TxOK
  BY DEF Init, TxOK, NoTx
<1>4. WritesHeld
  <2> SUFFICES ASSUME NEW c \in Conns
               PROVE  Len(tx[c].writes) <= Cardinality(Users(c)) + Cardinality(Committers(c))
    BY DEF WritesHeld
  <2> DEFINE U == Users(c)
             C == Committers(c)
  <2>1. U \in SUBSET Handlers /\ C \in SUBSET Handlers
    BY UsersAreCalls
  <2>2. Len(tx[c].writes) = 0
    BY <1>2
  <2> HIDE DEF U, C
  <2>3. Cardinality(U) \in Nat /\ Cardinality(C) \in Nat
    BY <2>1, UsersCount
  <2>4. Len(tx[c].writes) <= Cardinality(U) + Cardinality(C)
    BY <2>2, <2>3
  <2> QED  BY <2>4 DEF U, C
<1>5. DataOK
  <2>1. Current \in Database
    BY <1>2 DEF Init, Current, Database, EndpointRow, Statuses
  <2>2. failedPosts \in [Endpoints -> 0..Threshold]
    BY <1>2 DEF Init
  <2>3. ASSUME NEW e \in Endpoints PROVE Ledger(e)
    <3> DEFINE W == Written(e)
               U == Unwritten(e)
    <3>1. U = {}
      BY <1>2 DEF Unwritten
    <3>2. W = {}
      <4>1. \A p \in W : p[1] \in Conns /\ p[2] \in 1..Len(tx[p[1]].writes)
        BY DEF Written
      <4> QED  BY <1>2, <4>1
    <3>3. endpoint[e].failures = 0 /\ failedPosts[e] = 0
      BY DEF Init
    <3>4. SUFFICES endpoint[e].failures + Cardinality(W) + Cardinality(U) <= failedPosts[e]
      BY DEF Ledger
    <3> HIDE DEF W, U
    <3>5. Cardinality(W) = 0 /\ Cardinality(U) = 0
      BY <3>1, <3>2, FS_EmptySet
    <3> QED  BY <3>3, <3>5
  <2> QED  BY <2>1, <2>2, <2>3 DEF DataOK
<1>6. ChargesOK
  BY <1>2 DEF Init, ChargesOK, OneUndisturbed, PostsRecorded, PostedCalls, CallsToPost, Active
<1>7. DeletedHasRow
  BY DEF Init, DeletedHasRow
<1>8. Counters
  BY <1>2 DEF Init, Counters
<1>9. IsInjective(idle)
  BY AllOnce DEF Init
<1>10. Owned
  <2> SUFFICES ASSUME NEW e \in Endpoints PROVE \E f : Owners(f, e)
    BY DEF Owned
  <2>1. Written(e) = {}
    <3>1. \A p \in Written(e) : p[1] \in Conns /\ p[2] \in 1..Len(tx[p[1]].writes)
      BY DEF Written
    <3> QED  BY <1>2, <3>1
  <2>2. Owners([p \in {} |-> p], e)
    BY <2>1 DEF Owners
  <2> QED  BY <2>2
<1> QED  BY <1>1, <1>3, <1>4, <1>5, <1>6, <1>7, <1>8, <1>9, <1>10 DEF OutcomeInv

LEMMA OutcomeNext == Inv /\ OutcomeInv /\ [Next]_vars => OutcomeInv' /\ DisabledNow
<1> SUFFICES ASSUME Inv, OutcomeInv, [Next]_vars PROVE OutcomeInv' /\ DisabledNow
  OBVIOUS
<1>1. /\ TxOK /\ WritesHeld /\ DataOK /\ Owned /\ ChargesOK /\ DeletedHasRow /\ Counters
      /\ IsInjective(idle) /\ Current \in Database
  BY DEF OutcomeInv, DataOK
<1>2. TxOK' /\ WritesHeld'
  BY <1>1, TxStep
<1>3. DataOK' /\ DisabledNow /\ Owned'
  BY <1>1, <1>2, DataStep, OwnedStep DEF TxBoth
<1>4. ChargesOK' /\ DeletedHasRow'
  BY <1>1, ChargesStep, DeletedStep
<1>5. Counters' /\ IsInjective(idle')
  BY <1>1, CountersStep, OnceStep
<1> QED  BY <1>2, <1>3, <1>4, <1>5 DEF OutcomeInv

(* What the connections carry, what posts are on their way into which      *)
(* counter and which posts may be repeated, kept by every step of the      *)
(* worker and of the administrators.                                       *)
THEOREM OutcomeInvariance == Spec => [](Inv /\ OutcomeInv)
<1>1. Init => Inv /\ OutcomeInv
  BY OutcomeInit
<1>2. Inv /\ OutcomeInv /\ [Next]_vars => (Inv /\ OutcomeInv)'
  BY NextInvariant, OutcomeNext
<1> QED  BY <1>1, <1>2, PTL DEF Spec

(* Every variable keeps its type; no connection is in the pool twice       *)
(* although the outer catch releases one the call may not hold, and a      *)
(* transaction never collects more than two writes per call.               *)
THEOREM TypeCorrect == Spec => []TypeOK
<1>1. Inv /\ OutcomeInv => TypeOK
  <2> SUFFICES ASSUME Inv, OutcomeInv PROVE TypeOK
    OBVIOUS
  <2>1. /\ queue \subseteq Messages /\ job \in [Handlers -> Jobs] /\ idle \in Seq(Conns)
    BY DEF Inv, IInv, Shape
  <2>2. /\ endpoint \in [Endpoints -> EndpointRow]
        /\ row \in [Messages -> Outcomes \cup {None}] /\ notified \subseteq Endpoints
        /\ failedPosts \in [Endpoints -> 0..Threshold]
    BY DEF OutcomeInv, DataOK, Current, Database
  <2>3. ASSUME NEW c \in Conns
        PROVE  tx[c].open \in BOOLEAN /\ Len(tx[c].writes) <= 2 * Cardinality(Handlers)
    <3> DEFINE U == Users(c)
               C == Committers(c)
               n == Cardinality(Handlers)
    <3>1. U \in SUBSET Handlers /\ C \in SUBSET Handlers
      BY UsersAreCalls
    <3>2. /\ tx[c].open \in BOOLEAN /\ Len(tx[c].writes) \in Nat
          /\ Len(tx[c].writes) <= Cardinality(U) + Cardinality(C)
      BY DEF OutcomeInv, TxOK, WritesHeld
    <3> HIDE DEF U, C
    <3>3. Cardinality(U) \in Nat /\ Cardinality(U) <= n /\ n \in Nat
      BY <3>1, UsersCount
    <3>4. Cardinality(C) \in Nat /\ Cardinality(C) <= n
      BY <3>1, UsersCount
    <3> HIDE DEF n
    <3>5. Len(tx[c].writes) <= 2 * n
      BY <3>2, <3>3, <3>4
    <3> QED  BY <3>2, <3>5 DEF n
  <2>4. charged \in [Messages -> Nat]
    BY DEF OutcomeInv, ChargesOK
  <2>5. Counters /\ IsInjective(idle)
    BY DEF OutcomeInv
  <2>6. ToSet(idle) \subseteq Conns
    BY <2>1 DEF ToSet
  <2> QED  BY <2>1, <2>2, <2>3, <2>4, <2>5, <2>6 DEF TypeOK, Counters, Jobs, EndpointRow
<1> QED  BY <1>1, OutcomeInvariance, PTL

(* A message is deleted only with a row that says what became of it        *)
(* (handleMessage), unless another call's catch ended its transaction.     *)
THEOREM DeletedIsRecorded == Spec => []DeletedHasRow
<1>1. Inv /\ OutcomeInv => DeletedHasRow
  BY DEF OutcomeInv
<1> QED  BY <1>1, OutcomeInvariance, PTL

(* An endpoint becomes auto_disabled only when Threshold posts to it have  *)
(* failed since its last recorded success, whatever order the calls commit *)
(* in and whoever edits it (recordAttempt and the failure counter,         *)
(* delivery.handler.ts).                                                   *)
THEOREM DisabledOnlyByFailures == Spec => DisabledByFailures
<1>1. Inv /\ OutcomeInv /\ [Next]_vars => [DisabledNow]_vars
  BY OutcomeNext
<1>2. Spec => [][DisabledNow]_vars
  BY <1>1, OutcomeInvariance, PTL DEF Spec
<1> QED  BY <1>2 DEF DisabledByFailures, DisabledNow

(* A recorded post is not repeated but by a call that lost its transaction *)
(* or a reception that overlaps another (the idempotency check).           *)
THEOREM PostsNotRepeated == Spec => []OnePostPerRecord
<1>1. Inv /\ OutcomeInv => OnePostPerRecord
  BY DEF OutcomeInv, ChargesOK, OnePostPerRecord
<1> QED  BY <1>1, OutcomeInvariance, PTL
=============================================================================
