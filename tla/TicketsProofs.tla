---------------------------- MODULE TicketsProofs ----------------------------
(***************************************************************************)
(* What Tickets promises, for any number of concurrent requests, any       *)
(* permissions and any bound on the versions.  The argument is the one an  *)
(* optimistic version stands on: a request's version is at most the one it *)
(* read, which is at most the committed one, and equal versions mean equal *)
(* rows; so an UPDATE that matches on the version, and keeps the row       *)
(* locked until it commits, decided on the row it changes.                 *)
(***************************************************************************)
EXTENDS Tickets, FiniteSetTheorems, TLAPS

-----------------------------------------------------------------------------
(* The inductive invariant.                                                *)

ReadsAreOld ==
  \A r \in Requests :
    /\ req[r].version <= req[r].seen.version
    /\ req[r].seen.version <= ticket.version
    /\ req[r].step # "idle" /\ req[r].seen.version = ticket.version =>
         /\ req[r].seen.status = ticket.status
         /\ req[r].seen.custom = ticket.custom

LockedRowMatches ==
  \A r \in Requests :
    req[r].step = "commit" =>
      /\ Matches(r)
      /\ req[r].kind # "comment" => ticket.version < MaxVersion

(* What a request may be about to do, given the status it read.            *)
Justified(r, kind, from, to, adds) ==
  /\ kind = "reply" => TRUE \in Settings /\ from = "closed" /\ to = "open"
  /\ kind \in {"reply", "comment"} => ~adds
  /\ kind \in {"patch", "resolve"} =>
       to = from \/ validateTransition(r, from, to)

DecidedOnSeen ==
  \A r \in Requests :
    req[r].step # "idle" =>
      /\ req[r].step = "reopen" => req[r].kind = "reply"
      /\ Justified(r, req[r].kind, req[r].seen.status, req[r].to, req[r].adds)

IInv ==
  /\ TypeOK
  /\ ReadsAreOld
  /\ LockedRowMatches
  /\ DecidedOnSeen
  /\ HistoryIsChain
  /\ NoUpdateLost
  /\ FirstResponseOnce
  /\ ResolutionsAnnounced

-----------------------------------------------------------------------------
THEOREM InitInvariant == Init => IInv
<1> SUFFICES ASSUME Init PROVE IInv
  OBVIOUS
<1>. USE TicketConstants DEF Init
<1>1. TypeOK
  <2>1. NewTicket \in Tickets /\ Idle.step = "idle"
    BY DEF NewTicket, Tickets, Statuses, Idle
  <2>2. Idle \in [step : Steps, kind : Kinds, to : Statuses,
                  version : 1..MaxVersion, adds : BOOLEAN, seen : Tickets]
    BY <2>1 DEF Idle, Steps, Kinds, Statuses
  <2>. QED
    BY <2>1, <2>2 DEF TypeOK
<1>2. \A r \in Requests : req[r] = Idle
  OBVIOUS
<1>3. ReadsAreOld /\ LockedRowMatches /\ DecidedOnSeen
  BY <1>2 DEF ReadsAreOld, LockedRowMatches, DecidedOnSeen, Idle, NewTicket
<1>4. HistoryIsChain /\ NoUpdateLost /\ FirstResponseOnce
  BY DEF HistoryIsChain, NoUpdateLost, FirstResponseOnce, NewTicket
<1>5. ResolutionsAnnounced
  <2>1. {i \in DOMAIN history : history[i][2] = "resolved"} = {}
    OBVIOUS
  <2>. QED
    BY <2>1, FS_EmptySet DEF ResolutionsAnnounced
<1>. QED
  BY <1>1, <1>3, <1>4, <1>5 DEF IInv

(* A request that reads the row and nothing else disturbs no invariant.    *)
LEMMA BeginPreserves ==
  ASSUME IInv, NEW r \in Requests, NEW kind \in Kinds, NEW step \in Steps,
         step \in {"reopen", "write"}, step = "reopen" => kind = "reply",
         NEW version \in 1..ticket.version, NEW to \in Statuses,
         NEW adds \in BOOLEAN, Begin(r, kind, step, version, to, adds),
         Justified(r, kind, ticket.status, to, adds)
  PROVE  IInv'
<1>. USE DEF Begin, IInv
<1>1. ticket' = ticket /\ history' = history /\ lock' = lock
      /\ announced' = announced /\ stamped' = stamped /\ accepted' = accepted
  OBVIOUS
<1>2. req' = [req EXCEPT ![r] = [step |-> step, kind |-> kind,
                version |-> version, to |-> to, adds |-> adds,
                seen |-> ticket]]
  OBVIOUS
<1>3. ticket \in Tickets /\ version \in 1..MaxVersion
  BY TicketConstants DEF TypeOK, Tickets
<1>4. TypeOK'
  BY <1>1, <1>2, <1>3 DEF TypeOK
<1>5. ReadsAreOld'
  BY <1>1, <1>2, <1>3 DEF ReadsAreOld, TypeOK, Tickets
<1>6. LockedRowMatches'
  BY <1>1, <1>2 DEF LockedRowMatches, Matches, TypeOK
<1>7. DecidedOnSeen'
  BY <1>1, <1>2 DEF DecidedOnSeen, TypeOK
<1>8. HistoryIsChain' /\ NoUpdateLost' /\ FirstResponseOnce'
      /\ ResolutionsAnnounced'
  BY <1>1 DEF HistoryIsChain, NoUpdateLost, FirstResponseOnce,
              ResolutionsAnnounced
<1>. QED
  BY <1>4, <1>5, <1>6, <1>7, <1>8

(* A request that ends without a write gives back the lock, if it had it.  *)
LEMMA EndPreserves ==
  ASSUME IInv, NEW r \in Requests,
         req' = [req EXCEPT ![r] = Idle],
         lock' = IF lock = r THEN None ELSE lock,
         UNCHANGED <<ticket, history, announced, stamped, accepted>>
  PROVE  IInv'
<1>. USE DEF IInv
<1>1. Idle \in [step : Steps, kind : Kinds, to : Statuses,
                version : 1..MaxVersion, adds : BOOLEAN, seen : Tickets]
  BY TicketConstants DEF Idle, NewTicket, Steps, Kinds, Statuses, Tickets
<1>2. TypeOK'
  <2>1. req' \in [Requests -> [step : Steps, kind : Kinds, to : Statuses,
                   version : 1..MaxVersion, adds : BOOLEAN, seen : Tickets]]
    BY <1>1 DEF TypeOK
  <2>2. \A q \in Requests : lock' = q <=> req'[q].step = "commit"
    BY TicketConstants DEF TypeOK, Idle
  <2>. QED
    BY <2>1, <2>2 DEF TypeOK
<1>3. ReadsAreOld'
  <2>1. Idle.version = 1 /\ Idle.seen.version = 1 /\ Idle.step = "idle"
    BY DEF Idle, NewTicket
  <2>2. ticket.version \in 1..MaxVersion
    BY DEF TypeOK, Tickets
  <2>. QED
    BY <2>1, <2>2, TicketConstants DEF ReadsAreOld, TypeOK
<1>4. LockedRowMatches' /\ DecidedOnSeen'
  BY DEF LockedRowMatches, DecidedOnSeen, Matches, Idle, TypeOK
<1>5. HistoryIsChain' /\ NoUpdateLost' /\ FirstResponseOnce'
      /\ ResolutionsAnnounced'
  BY DEF HistoryIsChain, NoUpdateLost, FirstResponseOnce,
         ResolutionsAnnounced
<1>. QED
  BY <1>2, <1>3, <1>4, <1>5

LEMMA ReopenPreserves ==
  ASSUME IInv, NEW r \in Requests, reopenFromPortal(r)
  PROVE  IInv'
<1>. USE DEF IInv, reopenFromPortal
<1>1. CASE ticket.status # "closed"
  BY <1>1, TicketConstants, EndPreserves DEF TypeOK
<1>2. CASE ticket.status = "closed"
  <2> DEFINE read == [req[r] EXCEPT !.step = "write", !.seen = ticket,
                                    !.version = ticket.version]
  <2>0. /\ read \in [step : Steps, kind : Kinds, to : Statuses,
                     version : 1..MaxVersion, adds : BOOLEAN, seen : Tickets]
        /\ read.step = "write" /\ read.kind = req[r].kind
        /\ read.version = ticket.version /\ read.to = req[r].to
        /\ read.adds = req[r].adds /\ read.seen = ticket
    <3>1. req[r] \in [step : Steps, kind : Kinds, to : Statuses,
                      version : 1..MaxVersion, adds : BOOLEAN, seen : Tickets]
      BY DEF TypeOK
    <3>2. ticket.version \in 1..MaxVersion /\ ticket \in Tickets
      BY DEF TypeOK, Tickets
    <3>3. read \in [step : Steps, kind : Kinds, to : Statuses,
                    version : 1..MaxVersion, adds : BOOLEAN, seen : Tickets]
      BY <3>1, <3>2 DEF Steps
    <3>4. /\ read.step = "write" /\ read.kind = req[r].kind
          /\ read.version = ticket.version /\ read.to = req[r].to
          /\ read.seen = ticket
      BY <3>1
    <3>5. read.adds = req[r].adds
      BY <3>1
    <3>. QED
      BY <3>3, <3>4, <3>5
  <2>1. req' = [req EXCEPT ![r] = read]
    BY <1>2 DEF TypeOK
  <2> HIDE DEF read
  <2>2. TypeOK'
    <3>1. req' \in [Requests -> [step : Steps, kind : Kinds, to : Statuses,
                     version : 1..MaxVersion, adds : BOOLEAN, seen : Tickets]]
      BY <2>0, <2>1 DEF TypeOK
    <3>2. \A q \in Requests : lock' = q <=> req'[q].step = "commit"
      BY <2>0, <2>1 DEF TypeOK
    <3>. QED
      BY <3>1, <3>2 DEF TypeOK
  <2>3. ReadsAreOld'
    BY <2>0, <2>1 DEF ReadsAreOld, TypeOK, Tickets
  <2>4. LockedRowMatches'
    BY <2>0, <2>1 DEF LockedRowMatches, Matches, TypeOK
  <2>5. DecidedOnSeen'
    <3>1. /\ req[r].kind = "reply" /\ TRUE \in Settings
          /\ req[r].to = "open" /\ ~req[r].adds
      BY DEF DecidedOnSeen, Justified
    <3>2. req'[r] = read /\ ~read.adds
      BY <2>0, <2>1, <3>1 DEF TypeOK
    <3>3. ASSUME NEW q \in Requests, q # r, req'[q].step # "idle"
          PROVE  /\ req'[q].step = "reopen" => req'[q].kind = "reply"
                 /\ Justified(q, req'[q].kind, req'[q].seen.status,
                              req'[q].to, req'[q].adds)
      <4>1. req'[q] = req[q]
        BY <2>1, <3>3 DEF TypeOK
      <4>. QED
        BY <3>3, <4>1 DEF DecidedOnSeen
    <3>4. Justified(r, read.kind, read.seen.status, read.to, read.adds)
      BY <1>2, <2>0, <3>1, <3>2 DEF Justified
    <3>5. read.step = "write"
      BY <2>0
    <3>. QED
      BY <3>2, <3>3, <3>4, <3>5 DEF DecidedOnSeen
  <2>6. HistoryIsChain' /\ NoUpdateLost' /\ FirstResponseOnce'
        /\ ResolutionsAnnounced'
    BY DEF HistoryIsChain, NoUpdateLost, FirstResponseOnce,
           ResolutionsAnnounced
  <2>. QED
    BY <2>2, <2>3, <2>4, <2>5, <2>6
<1>. QED
  BY <1>1, <1>2

(* The UPDATE matched the row under its lock.                              *)
LEMMA UpdatePreserves ==
  ASSUME IInv, NEW r \in Requests, updateTicket(r)
  PROVE  IInv'
<1>. USE DEF IInv, updateTicket
<1>1. req' = [req EXCEPT ![r].step = "commit"] /\ lock = None /\ lock' = r
  OBVIOUS
<1>2. TypeOK'
  <2>1. \A q \in Requests : req[q].step # "commit"
    BY <1>1, TicketConstants DEF TypeOK
  <2>2. req' \in [Requests -> [step : Steps, kind : Kinds, to : Statuses,
                   version : 1..MaxVersion, adds : BOOLEAN, seen : Tickets]]
    BY <1>1 DEF TypeOK, Steps
  <2>3. \A q \in Requests : lock' = q <=> req'[q].step = "commit"
    BY <1>1, <2>1 DEF TypeOK
  <2>. QED
    BY <1>1, <2>2, <2>3 DEF TypeOK
<1>3. ReadsAreOld' /\ LockedRowMatches' /\ DecidedOnSeen'
  BY <1>1 DEF ReadsAreOld, LockedRowMatches, DecidedOnSeen, Matches, TypeOK
<1>4. HistoryIsChain' /\ NoUpdateLost' /\ FirstResponseOnce'
      /\ ResolutionsAnnounced'
  BY DEF HistoryIsChain, NoUpdateLost, FirstResponseOnce,
         ResolutionsAnnounced
<1>. QED
  BY <1>2, <1>3, <1>4

LEMMA ConflictPreserves ==
  ASSUME IInv, NEW r \in Requests, Conflict(r)
  PROVE  IInv'
<1>1. lock # r
  BY DEF IInv, TypeOK, Conflict
<1>. QED
  BY <1>1, EndPreserves DEF Conflict

LEMMA RollbackPreserves ==
  ASSUME IInv, NEW r \in Requests, Rollback(r)
  PROVE  IInv'
  BY EndPreserves DEF Rollback

-----------------------------------------------------------------------------
(* The COMMIT: the row it writes is still the row its request read.        *)

LEMMA RowIsSeen ==
  ASSUME IInv, NEW r \in Requests, req[r].step = "commit",
         req[r].kind # "comment"
  PROVE  /\ req[r].seen.status = ticket.status
         /\ req[r].seen.custom = ticket.custom
         /\ ticket.version < MaxVersion
<1>1. req[r].version = ticket.version /\ ticket.version < MaxVersion
  BY DEF IInv, LockedRowMatches, Matches
<1>2. req[r].seen.version = ticket.version
  BY <1>1 DEF IInv, ReadsAreOld, TypeOK, Tickets
<1>. QED
  BY <1>1, <1>2 DEF IInv, ReadsAreOld

(* A comment's transaction moves nothing and adds nothing.                 *)
LEMMA CommentOnlyStamps ==
  ASSUME IInv, NEW r \in Requests, req[r].step = "commit",
         req[r].kind = "comment"
  PROVE  /\ ~Moves(r) /\ ~req[r].adds /\ ~ticket.responded
         /\ Written(r) = [ticket EXCEPT !.responded = TRUE]
  BY DEF IInv, DecidedOnSeen, Justified, LockedRowMatches, Matches, Moves,
         Written

LEMMA WrittenRow ==
  ASSUME IInv, NEW r \in Requests, req[r].step = "commit"
  PROVE  /\ Written(r) \in Tickets
         /\ Written(r).version =
              ticket.version + IF req[r].kind = "comment" THEN 0 ELSE 1
         /\ Written(r).status = IF Moves(r) THEN req[r].to ELSE ticket.status
         /\ Written(r).custom =
              IF req[r].adds THEN ticket.custom \cup {r} ELSE ticket.custom
         /\ Written(r).responded =
              (req[r].kind = "comment" \/ ticket.responded)
<1>1. /\ ticket \in Tickets
      /\ req[r] \in [step : Steps, kind : Kinds, to : Statuses,
                     version : 1..MaxVersion, adds : BOOLEAN, seen : Tickets]
  BY DEF IInv, TypeOK
<1>2. CASE req[r].kind = "comment"
  <2>1. /\ Written(r) = [ticket EXCEPT !.responded = TRUE]
        /\ ~Moves(r) /\ ~req[r].adds
    BY <1>2, CommentOnlyStamps
  <2>2. Written(r) \in Tickets
    BY <1>1, <2>1 DEF Tickets
  <2>3. /\ Written(r).version = ticket.version
        /\ Written(r).status = ticket.status
        /\ Written(r).custom = ticket.custom
        /\ Written(r).responded = TRUE
    BY <1>1, <2>1 DEF Tickets
  <2>4. ticket.version + 0 = ticket.version
    BY <1>1 DEF Tickets
  <2>5. Written(r).version =
          ticket.version + IF req[r].kind = "comment" THEN 0 ELSE 1
    BY <1>2, <2>3, <2>4
  <2>. QED
    BY <1>2, <2>1, <2>2, <2>3, <2>5
<1>3. CASE req[r].kind # "comment"
  <2>1. req[r].seen.custom = ticket.custom /\ ticket.version < MaxVersion
    BY <1>3, RowIsSeen
  <2>2. ticket.version + 1 \in 1..MaxVersion
    BY <1>1, <2>1, TicketConstants DEF Tickets
  <2>. QED
    BY <1>1, <1>3, <2>1, <2>2 DEF Written, Tickets
<1>. QED
  BY <1>2, <1>3

(* One more resolution in the history is one more announced.               *)
LEMMA AppendCounts ==
  ASSUME NEW h \in Seq(Statuses \X Statuses),
         NEW from \in Statuses, NEW to \in Statuses
  PROVE  LET Count(s) ==
               Cardinality({i \in DOMAIN s : s[i][2] = "resolved"})
         IN  /\ Count(h) \in Nat
             /\ Count(Append(h, <<from, to>>)) =
                  Count(h) + IF to = "resolved" THEN 1 ELSE 0
<1> DEFINE n == Len(h)
           g == Append(h, <<from, to>>)
           Old == {i \in DOMAIN h : h[i][2] = "resolved"}
           New == {i \in DOMAIN g : g[i][2] = "resolved"}
<1>1. /\ n \in Nat /\ DOMAIN h = 1..n /\ DOMAIN g = 1..(n + 1)
      /\ \A i \in 1..n : g[i] = h[i]
      /\ g[n + 1] = <<from, to>>
  OBVIOUS
<1>2. IsFiniteSet(Old) /\ Cardinality(Old) \in Nat
  <2>1. IsFiniteSet(1..n)
    BY <1>1, FS_Interval
  <2>2. Old \in SUBSET (1..n)
    BY <1>1
  <2>. QED
    BY <2>1, <2>2, FS_Subset, FS_CardinalityType
<1>3. New = IF to = "resolved" THEN Old \cup {n + 1} ELSE Old
  BY <1>1
<1>4. n + 1 \notin Old
  BY <1>1
<1>5. Cardinality(New) =
        Cardinality(Old) + IF to = "resolved" THEN 1 ELSE 0
  <2>. HIDE DEF n, g, Old, New
  <2>1. CASE to = "resolved"
    <3>1. Cardinality(Old \cup {n + 1}) = Cardinality(Old) + 1
      BY <1>2, <1>4, FS_AddElement
    <3>. QED
      BY <1>3, <2>1, <3>1
  <2>2. CASE to # "resolved"
    BY <1>2, <1>3, <2>2
  <2>. QED
    BY <2>1, <2>2
<1>. QED
  BY <1>2, <1>5

LEMMA CommitPreserves ==
  ASSUME IInv, NEW r \in Requests, Commit(r)
  PROVE  IInv'
<1>. USE DEF Commit
<1>0. /\ req[r].step = "commit" /\ lock = r
      /\ req[r] \in [step : Steps, kind : Kinds, to : Statuses,
                     version : 1..MaxVersion, adds : BOOLEAN, seen : Tickets]
      /\ ticket \in Tickets /\ history \in Seq(Statuses \X Statuses)
  BY DEF IInv, TypeOK
<1>1. \A q \in Requests : q # r => req'[q] = req[q] /\ req[q].step # "commit"
  BY <1>0 DEF IInv, TypeOK
<1>2. req'[r] = Idle /\ Idle.step = "idle"
  BY DEF IInv, TypeOK, Idle
<1>3. Moves(r) =>
        /\ req[r].kind # "comment" /\ req[r].seen.status = ticket.status
        /\ req[r].seen.status \in Statuses /\ ticket'.status = req[r].to
  BY <1>0, RowIsSeen, WrittenRow DEF Moves, Tickets
<1>4. TypeOK'
  <2>1. ticket' \in Tickets
    BY <1>0, WrittenRow
  <2>2. history' \in Seq(Statuses \X Statuses)
    BY <1>0, <1>3 DEF appendStatusHistory
  <2>3. announced' \in Nat /\ stamped' \in Nat /\ accepted' \subseteq Requests
    BY DEF IInv, TypeOK
  <2>4. Idle \in [step : Steps, kind : Kinds, to : Statuses,
                  version : 1..MaxVersion, adds : BOOLEAN, seen : Tickets]
    BY TicketConstants DEF Idle, NewTicket, Steps, Kinds, Statuses, Tickets
  <2>5. req' \in [Requests -> [step : Steps, kind : Kinds, to : Statuses,
                   version : 1..MaxVersion, adds : BOOLEAN, seen : Tickets]]
    BY <2>4 DEF IInv, TypeOK
  <2>6. \A q \in Requests : lock' = q <=> req'[q].step = "commit"
    BY <1>1, <1>2, TicketConstants
  <2>. QED
    BY <2>1, <2>2, <2>3, <2>5, <2>6 DEF TypeOK
<1>5. ReadsAreOld'
  <2>1. ticket.version <= ticket'.version
        /\ (req[r].kind # "comment" => ticket'.version = ticket.version + 1)
        /\ (req[r].kind = "comment" =>
             /\ ticket'.version = ticket.version
             /\ ticket'.status = ticket.status
             /\ ticket'.custom = ticket.custom)
    <3>1. /\ ticket' = Written(r) /\ ticket.version \in Nat
          /\ ticket'.version =
               ticket.version + IF req[r].kind = "comment" THEN 0 ELSE 1
      <4>1. ticket' = Written(r) /\ ticket.version \in Nat
        BY <1>0 DEF Tickets
      <4>2. Written(r).version =
              ticket.version + IF req[r].kind = "comment" THEN 0 ELSE 1
        BY <1>0, WrittenRow
      <4>. QED
        BY <4>1, <4>2
    <3>2. CASE req[r].kind = "comment"
      <4>1. ~Moves(r) /\ ~req[r].adds
        BY <1>0, <3>2, CommentOnlyStamps
      <4>2. ticket'.status = ticket.status /\ ticket'.custom = ticket.custom
        BY <1>0, <3>1, <4>1, WrittenRow
      <4>. QED
        BY <3>1, <3>2, <4>2
    <3>3. CASE req[r].kind # "comment"
      BY <3>1, <3>3
    <3>. QED
      BY <3>2, <3>3
  <2>2. ASSUME NEW q \in Requests, q # r
        PROVE  /\ req[q].version \in Nat /\ req[q].seen.version \in Nat
               /\ req'[q] = req[q] /\ ticket.version \in Nat
    BY <1>1, <2>2 DEF IInv, TypeOK, Tickets
  <2>3. ASSUME NEW q \in Requests, q # r
        PROVE  /\ req'[q].version <= req'[q].seen.version
               /\ req'[q].seen.version <= ticket'.version
               /\ req'[q].step # "idle"
                  /\ req'[q].seen.version = ticket'.version =>
                    /\ req'[q].seen.status = ticket'.status
                    /\ req'[q].seen.custom = ticket'.custom
    BY <1>0, <2>1, <2>2, <2>3 DEF IInv, ReadsAreOld, Tickets
  <2>4. req'[r].version = 1 /\ req'[r].seen.version = 1
    BY <1>2 DEF Idle, NewTicket
  <2>5. 1 <= ticket'.version
    BY <1>4 DEF TypeOK, Tickets
  <2>. QED
    BY <1>2, <2>3, <2>4, <2>5 DEF ReadsAreOld
<1>6. LockedRowMatches' /\ DecidedOnSeen'
  BY <1>1, <1>2 DEF IInv, LockedRowMatches, DecidedOnSeen
<1>7. HistoryIsChain'
  <2>1. CASE ~Moves(r)
    <3>1. ticket'.status = ticket.status /\ history' = history
      BY <1>0, <2>1, WrittenRow DEF appendStatusHistory
    <3>. QED
      BY <3>1 DEF IInv, HistoryIsChain
  <2>2. CASE Moves(r)
    <3>1. history' = Append(history, <<ticket.status, req[r].to>>)
      BY <1>3, <2>2 DEF appendStatusHistory
    <3>2. /\ Len(history') = Len(history) + 1
          /\ \A i \in 1..Len(history) : history'[i] = history[i]
          /\ history'[Len(history) + 1] = <<ticket.status, req[r].to>>
      BY <1>0, <3>1
    <3>3. ticket'.status = req[r].to /\ Len(history) \in Nat
      BY <1>0, <1>3, <2>2
    <3> DEFINE n == Len(history)
    <3>4. /\ \A i \in 1..n :
               history[i][1] = IF i = 1 THEN "new" ELSE history[i - 1][2]
          /\ ticket.status = IF n = 0 THEN "new" ELSE history[n][2]
      BY DEF IInv, HistoryIsChain
    <3>5. ASSUME NEW i \in 1..(n + 1)
          PROVE  history'[i][1] = IF i = 1 THEN "new" ELSE history'[i - 1][2]
      <4>1. CASE i \in 1..n
        <5>1. history'[i] = history[i]
          BY <3>2, <4>1
        <5>2. i # 1 => history'[i - 1] = history[i - 1]
          BY <3>2, <3>3, <4>1
        <5>. QED
          BY <3>4, <4>1, <5>1, <5>2
      <4>2. CASE i = n + 1
        <5>1. history'[i][1] = ticket.status
          BY <3>2, <4>2
        <5>2. i # 1 => history'[i - 1] = history[n] /\ n # 0
          BY <3>2, <3>3, <4>2
        <5>3. i = 1 => n = 0
          BY <3>3, <4>2
        <5>. QED
          BY <3>4, <5>1, <5>2, <5>3
      <4>. QED
        BY <3>3, <4>1, <4>2
    <3>6. history'[n + 1][2] = req[r].to /\ n + 1 # 0
      BY <3>2, <3>3
    <3>. QED
      BY <3>2, <3>3, <3>5, <3>6 DEF HistoryIsChain
  <2>. QED
    BY <2>1, <2>2
<1>8. NoUpdateLost'
  BY <1>0, WrittenRow DEF IInv, NoUpdateLost
<1>9. FirstResponseOnce'
  <2>1. stamped = IF ticket.responded THEN 1 ELSE 0
    BY DEF IInv, FirstResponseOnce
  <2>2. CASE req[r].kind = "comment"
    <3>1. ~ticket.responded
      BY <1>0, <2>2, CommentOnlyStamps
    <3>2. ticket'.responded
      BY <1>0, <2>2, WrittenRow
    <3>3. stamped' = stamped + 1
      BY <2>2
    <3>. QED
      BY <2>1, <3>1, <3>2, <3>3 DEF FirstResponseOnce
  <2>3. CASE req[r].kind # "comment"
    <3>1. ticket'.responded = ticket.responded
      BY <1>0, <2>3, WrittenRow DEF Tickets
    <3>2. stamped' = stamped
      BY <2>3 DEF IInv, TypeOK
    <3>. QED
      BY <2>1, <3>1, <3>2 DEF FirstResponseOnce
  <2>. QED
    BY <2>2, <2>3
<1>10. ResolutionsAnnounced'
  <2>1. CASE ~Moves(r)
    <3>1. announced' = announced /\ history' = history
      BY <2>1 DEF appendStatusHistory, Announces, IInv, TypeOK
    <3>. QED
      BY <3>1 DEF IInv, ResolutionsAnnounced
  <2>2. CASE Moves(r)
    <3>1. history' = Append(history, <<req[r].seen.status, req[r].to>>)
      BY <2>2 DEF appendStatusHistory
    <3>2. announced' = announced + IF req[r].to = "resolved" THEN 1 ELSE 0
      BY <2>2 DEF Announces
    <3> DEFINE Count(h) ==
                 Cardinality({i \in DOMAIN h : h[i][2] = "resolved"})
    <3>3. Count(history') =
            Count(history) + IF req[r].to = "resolved" THEN 1 ELSE 0
      BY <1>0, <1>3, <2>2, <3>1, AppendCounts
    <3>4. announced = Count(history)
      BY DEF IInv, ResolutionsAnnounced
    <3>5. announced' = Count(history')
      <4>. HIDE DEF Count
      <4>. QED
        BY <3>2, <3>3, <3>4
    <3>. QED
      BY <3>5 DEF ResolutionsAnnounced
  <2>. QED
    BY <2>1, <2>2
<1>. QED
  BY <1>4, <1>5, <1>6, <1>7, <1>8, <1>9, <1>10 DEF IInv

-----------------------------------------------------------------------------
THEOREM NextInvariant == IInv /\ [Next]_vars => IInv'
<1> SUFFICES ASSUME IInv, [Next]_vars PROVE IInv'
  OBVIOUS
<1>0. ticket \in Tickets /\ ticket.version \in 1..ticket.version
      /\ Requested \subseteq Statuses
  BY TicketConstants DEF IInv, TypeOK, Tickets, Statuses
<1>1. ASSUME NEW r \in Requests, Patch(r) PROVE IInv'
  <2>1. PICK version \in 1..ticket.version, adds \in BOOLEAN,
             to \in Requested \cup {ticket.status} :
          /\ to = ticket.status \/ validateTransition(r, ticket.status, to)
          /\ Begin(r, "patch", "write", version, to, adds)
    BY <1>1 DEF Patch
  <2>2. to \in Statuses
    BY <1>0 DEF Tickets
  <2>3. Justified(r, "patch", ticket.status, to, adds)
    BY <2>1 DEF Justified
  <2>. QED
    BY <2>1, <2>2, <2>3, BeginPreserves DEF Kinds, Steps
<1>2. ASSUME NEW r \in Requests, Resolve(r) PROVE IInv'
  <2>1. PICK version \in 1..ticket.version :
          /\ validateTransition(r, ticket.status, "resolved")
          /\ Begin(r, "resolve", "write", version, "resolved", FALSE)
    BY <1>2 DEF Resolve
  <2>2. Justified(r, "resolve", ticket.status, "resolved", FALSE)
    BY <2>1 DEF Justified
  <2>. QED
    BY <2>1, <2>2, BeginPreserves DEF Kinds, Steps, Statuses
<1>3. ASSUME NEW r \in Requests, Comment(r) PROVE IInv'
  <2>1. Justified(r, "comment", ticket.status, ticket.status, FALSE)
    BY DEF Justified
  <2>. QED
    BY <1>0, <1>3, <2>1, BeginPreserves DEF Comment, Kinds, Steps, Tickets
<1>4. ASSUME NEW r \in Requests, Reply(r) PROVE IInv'
  <2>1. Justified(r, "reply", ticket.status, "open", FALSE)
    BY <1>4 DEF Justified, Reply
  <2>. QED
    BY <1>0, <1>4, <2>1, BeginPreserves DEF Reply, Kinds, Steps, Statuses
<1>5. CASE UNCHANGED vars
  BY <1>5 DEF vars, IInv, TypeOK, ReadsAreOld, LockedRowMatches,
              DecidedOnSeen, Matches, HistoryIsChain, NoUpdateLost,
              FirstResponseOnce, ResolutionsAnnounced
<1>. QED
  BY <1>1, <1>2, <1>3, <1>4, <1>5, ReopenPreserves, UpdatePreserves,
     ConflictPreserves, CommitPreserves, RollbackPreserves DEF Next

THEOREM Invariant == Spec => []IInv
  BY InitInvariant, NextInvariant, PTL DEF Spec

(* Rows, requests and counters keep their types, and the row's lock has    *)
(* exactly the holder that updated it (repositories/ticket.repository.ts). *)
THEOREM TypeCorrect == Spec => []TypeOK
<1>1. IInv => TypeOK
  BY DEF IInv
<1>. QED
  BY <1>1, Invariant, PTL

(* The status history never has a gap, although its from_status is read    *)
(* before the row is locked (TicketsService.update, resolve and            *)
(* reopenFromPortal).                                                      *)
THEOREM HistoryHasNoGap == Spec => []HistoryIsChain
<1>1. IInv => HistoryIsChain
  BY DEF IInv
<1>. QED
  BY <1>1, Invariant, PTL

(* No accepted PATCH is overwritten by a concurrent one, although each     *)
(* writes the whole custom_fields column (TicketsService.update).          *)
THEOREM UpdatesAreKept == Spec => []NoUpdateLost
<1>1. IInv => NoUpdateLost
  BY DEF IInv
<1>. QED
  BY <1>1, Invariant, PTL

(* Every resolution of the ticket is announced once, whichever endpoint    *)
(* made it (TicketsService.update and resolve).                            *)
THEOREM EachResolutionAnnounced == Spec => []ResolutionsAnnounced
<1>1. IInv => ResolutionsAnnounced
  BY DEF IInv
<1>. QED
  BY <1>1, Invariant, PTL

(* Exactly one of the concurrent public comments is the first response     *)
(* (CommentRepository.stampFirstResponseAt).                               *)
THEOREM FirstResponseIsUnique == Spec => []FirstResponseOnce
<1>1. IInv => FirstResponseOnce
  BY DEF IInv
<1>. QED
  BY <1>1, Invariant, PTL

(* The row only makes the moves of the transition table, each by a         *)
(* principal that may make it or by a reply the tenant lets reopen.        *)
THEOREM MovesAreLegal == Spec => LegalMoves
<1> DEFINE Legal ==
      ticket'.status # ticket.status =>
        /\ <<ticket.status, ticket'.status>> \in TRANSITION_TABLE
        /\ \E r \in Requests :
             /\ lock = r
             /\ \/ requiredPermission(ticket.status, ticket'.status)
                       \in Grants[r]
                \/ /\ req[r].kind = "reply"
                   /\ TRUE \in Settings
                   /\ ticket.status = "closed"
<1>1. ASSUME IInv, [Next]_vars PROVE [Legal]_vars
  <2>1. SUFFICES ASSUME ticket'.status # ticket.status PROVE Legal
    OBVIOUS
  <2>2. PICK r \in Requests : Commit(r)
    BY <1>1, <2>1 DEF Next, vars, Patch, Resolve, Comment, Reply, Begin,
                      reopenFromPortal, updateTicket, Conflict, Rollback
  <2>3. /\ req[r].step = "commit" /\ lock = r /\ ticket' = Written(r)
        /\ req[r].kind \in Kinds
    BY <1>1, <2>2 DEF Commit, IInv, TypeOK
  <2>4. Moves(r) /\ ticket'.status = req[r].to
    BY <1>1, <2>1, <2>3, WrittenRow
  <2>5. req[r].kind # "comment" /\ req[r].seen.status = ticket.status
    BY <1>1, <2>3, <2>4, RowIsSeen DEF Moves
  <2>6. Justified(r, req[r].kind, ticket.status, ticket'.status, req[r].adds)
    BY <1>1, <2>3, <2>4, <2>5 DEF IInv, DecidedOnSeen
  <2>7. CASE req[r].kind = "reply"
    <3>1. TRUE \in Settings /\ ticket.status = "closed"
          /\ ticket'.status = "open"
      BY <2>6, <2>7 DEF Justified
    <3>2. <<"closed", "open">> \in TRANSITION_TABLE
      BY DEF TRANSITION_TABLE
    <3>. QED
      BY <2>3, <2>7, <3>1, <3>2
  <2>8. CASE req[r].kind \in {"patch", "resolve"}
    <3>1. validateTransition(r, ticket.status, ticket'.status)
      BY <2>1, <2>6, <2>8 DEF Justified
    <3>. QED
      BY <2>3, <3>1 DEF validateTransition
  <2>. QED
    BY <2>3, <2>5, <2>7, <2>8 DEF Kinds
<1>. QED
  BY <1>1, Invariant, PTL DEF Spec, LegalMoves
=============================================================================
