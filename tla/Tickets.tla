------------------------------- MODULE Tickets -------------------------------
(***************************************************************************)
(* One ticket under concurrent requests: agents PATCH it, resolve it and   *)
(* comment on it, its customer replies from the portal.  Every request is  *)
(* one READ COMMITTED transaction (apps/api/src/data/unit-of-work.ts): it  *)
(* reads the ticket, decides on what it read, and writes with an UPDATE    *)
(* guarded by the version the client sent, under the row lock it then      *)
(* holds until it commits or rolls back.                                   *)
(*                                                                         *)
(* A principal is what the service is given: Grants[r] is the permissions  *)
(* of r's.  A client knows a version because it read it, so none is above  *)
(* the committed one.  Columns that nothing here depends on (subject,      *)
(* priority, assignee, category, tags, resolved_at, ai_status) are one     *)
(* column, custom, that a PATCH merges into as it does custom_fields; the  *)
(* outbox is the count of its ticket.resolved events.  Requests that write *)
(* nothing (a no-op PATCH, a rejected one, resolve of a resolved ticket)   *)
(* end where they began.  MaxVersion bounds the writes.                    *)
(***************************************************************************)
EXTENDS Naturals, Sequences, FiniteSets

CONSTANTS
  Requests,    \* requests in flight, each with a client and its field
  Grants,      \* the permissions of each request's principal
  Requested,   \* the statuses that clients ask for
  Settings,    \* values of the tenant's portalReopenOnReply
  MaxVersion,
  None

ASSUME TicketConstants ==
  /\ Grants \in [Requests -> SUBSET {"ticket:update", "ticket:close"}]
  /\ Requested \subseteq {"open", "pending_customer", "pending_engineering",
                          "resolved", "closed"}
  /\ Settings \subseteq BOOLEAN
  /\ MaxVersion \in Nat \ {0}
  /\ None \notin Requests

VARIABLES
  ticket,      \* the committed row
  history,     \* ticket_status_history, in commit order: <<from, to>>
  announced,   \* number of ticket.resolved events in the outbox
  stamped,     \* number of comments that were told they are the first response
  accepted,    \* fields of the PATCHes that were answered 200
  lock,        \* the request whose transaction holds the row's lock
  req          \* what each request has read and is about to do

vars == <<ticket, history, announced, stamped, accepted, lock, req>>

Statuses == {"new", "open", "pending_customer", "pending_engineering",
             "resolved", "closed"}

Pending == {"pending_customer", "pending_engineering"}

TRANSITION_TABLE ==
  LET From(s, ts) == {s} \X ts
  IN  From("new", Pending \cup {"open", "resolved"})
      \cup From("open", Pending \cup {"resolved", "closed"})
      \cup From("pending_customer",
                {"open", "pending_engineering", "resolved", "closed"})
      \cup From("pending_engineering",
                {"open", "pending_customer", "resolved", "closed"})
      \cup From("resolved", {"open", "closed"})
      \cup From("closed", {"open"})

requiredPermission(from, to) ==
  IF "closed" \in {from, to} THEN "ticket:close" ELSE "ticket:update"

NewTicket == [status |-> "new", version |-> 1, custom |-> {},
              responded |-> FALSE]

Tickets == [status : Statuses, version : 1..MaxVersion,
            custom : SUBSET Requests, responded : BOOLEAN]

Kinds == {"patch", "resolve", "comment", "reply"}

(* reopen: about to read the ticket again; write: about to UPDATE; commit: *)
(* has the lock and only inserts left to do.                               *)
Steps == {"idle", "reopen", "write", "commit"}

Idle == [step |-> "idle", kind |-> "patch", version |-> 1, to |-> "new",
         adds |-> FALSE, seen |-> NewTicket]

Init ==
  /\ ticket = NewTicket
  /\ history = <<>>
  /\ announced = 0
  /\ stamped = 0
  /\ accepted = {}
  /\ lock = None
  /\ req = [r \in Requests |-> Idle]

-----------------------------------------------------------------------------
(* Reading and deciding.                                                   *)

validateTransition_AnyRole(r, from, to) ==
  <<from, to>> \in TRANSITION_TABLE

validateTransition(r, from, to) ==
  /\ <<from, to>> \in TRANSITION_TABLE
  /\ requiredPermission(from, to) \in Grants[r]

Begin(r, kind, step, version, to, adds) ==
  /\ req[r].step = "idle"
  /\ req' = [req EXCEPT ![r] = [step |-> step, kind |-> kind,
                                version |-> version, to |-> to,
                                adds |-> adds, seen |-> ticket]]
  /\ UNCHANGED <<ticket, history, announced, stamped, accepted, lock>>

(* PATCH with a status, a field or both, once it passed validation.        *)
Patch(r) ==
  \E version \in 1..ticket.version, adds \in BOOLEAN,
     to \in Requested \cup {ticket.status} :
    /\ adds \/ to # ticket.status
    /\ to = ticket.status \/ validateTransition(r, ticket.status, to)
    /\ Begin(r, "patch", "write", version, to, adds)

Resolve(r) ==
  \E version \in 1..ticket.version :
    /\ ticket.status # "resolved"
    /\ validateTransition(r, ticket.status, "resolved")
    /\ Begin(r, "resolve", "write", version, "resolved", FALSE)

(* A public comment of an agent.                                           *)
Comment(r) ==
  Begin(r, "comment", "write", ticket.version, ticket.status, FALSE)

(* A reply from the portal: it only has something to write to the ticket   *)
(* when that was read closed and the tenant lets replies reopen it.        *)
Reply(r) ==
  /\ ticket.status = "closed"
  /\ TRUE \in Settings
  /\ Begin(r, "reply", "reopen", ticket.version, "open", FALSE)

(* reopenFromPortal reads the ticket for itself, with its version.         *)
reopenFromPortal(r) ==
  /\ req[r].step = "reopen"
  /\ req' = IF ticket.status = "closed"
            THEN [req EXCEPT ![r].step = "write", ![r].seen = ticket,
                             ![r].version = ticket.version]
            ELSE [req EXCEPT ![r] = Idle]
  /\ UNCHANGED <<ticket, history, announced, stamped, accepted, lock>>

-----------------------------------------------------------------------------
(* The UPDATE: it waits for the row's lock and tests the row it then finds. *)

Matches_Unguarded(r) ==
  req[r].kind = "comment" => ~ticket.responded

Matches_SeenUnanswered(r) ==
  IF req[r].kind = "comment" THEN ~req[r].seen.responded
  ELSE ticket.version = req[r].version

Matches(r) ==
  IF req[r].kind = "comment" THEN ~ticket.responded
  ELSE ticket.version = req[r].version

updateTicket(r) ==
  /\ req[r].step = "write"
  /\ lock = None
  /\ Matches(r)
  /\ req[r].kind # "comment" => ticket.version < MaxVersion
  /\ lock' = r
  /\ req' = [req EXCEPT ![r].step = "commit"]
  /\ UNCHANGED <<ticket, history, announced, stamped, accepted>>

(* No committed row matches, locked or not: 409 for PATCH and resolve; a    *)
(* reply goes on to insert its comment, an agent's comment is not first.   *)
Conflict(r) ==
  /\ req[r].step = "write"
  /\ ~Matches(r)
  /\ req' = [req EXCEPT ![r] = Idle]
  /\ UNCHANGED <<ticket, history, announced, stamped, accepted, lock>>

-----------------------------------------------------------------------------
(* What the transaction wrote, made visible by its COMMIT.                 *)

Moves(r) == req[r].kind # "comment" /\ req[r].to # req[r].seen.status

Written_KeepsVersion(r) ==
  IF req[r].kind = "comment" THEN [ticket EXCEPT !.responded = TRUE]
  ELSE [ticket EXCEPT
          !.version = @ + IF Moves(r) THEN 1 ELSE 0,
          !.status = IF Moves(r) THEN req[r].to ELSE @,
          !.custom = IF req[r].adds THEN req[r].seen.custom \cup {r} ELSE @]

Written_TwoBumps(r) ==
  IF req[r].kind = "comment" THEN [ticket EXCEPT !.responded = TRUE]
  ELSE [ticket EXCEPT
          !.version = @ + IF Moves(r) /\ req[r].adds THEN 2 ELSE 1,
          !.status = IF Moves(r) THEN req[r].to ELSE @,
          !.custom = IF req[r].adds THEN req[r].seen.custom \cup {r} ELSE @]

Written(r) ==
  IF req[r].kind = "comment" THEN [ticket EXCEPT !.responded = TRUE]
  ELSE [ticket EXCEPT
          !.version = @ + 1,
          !.status = IF Moves(r) THEN req[r].to ELSE @,
          !.custom = IF req[r].adds THEN req[r].seen.custom \cup {r} ELSE @]

appendStatusHistory(r) ==
  IF Moves(r) THEN Append(history, <<req[r].seen.status, req[r].to>>)
  ELSE history

Announces_ResolveOnly(r) == req[r].kind = "resolve"

Announces(r) == Moves(r) /\ req[r].to = "resolved"

Commit(r) ==
  /\ req[r].step = "commit"
  /\ ticket' = Written(r)
  /\ history' = appendStatusHistory(r)
  /\ announced' = announced + IF Announces(r) THEN 1 ELSE 0
  /\ stamped' = stamped + IF req[r].kind = "comment" THEN 1 ELSE 0
  /\ accepted' = IF req[r].adds THEN accepted \cup {r} ELSE accepted
  /\ lock' = None
  /\ req' = [req EXCEPT ![r] = Idle]

(* An error in any statement, a statement timeout while it waits for the   *)
(* lock, a lost connection, a crash of the pod.                            *)
Rollback(r) ==
  /\ req[r].step # "idle"
  /\ lock' = IF lock = r THEN None ELSE lock
  /\ req' = [req EXCEPT ![r] = Idle]
  /\ UNCHANGED <<ticket, history, announced, stamped, accepted>>

Next ==
  \E r \in Requests :
    \/ Patch(r) \/ Resolve(r) \/ Comment(r) \/ Reply(r)
    \/ reopenFromPortal(r) \/ updateTicket(r) \/ Conflict(r)
    \/ Commit(r) \/ Rollback(r)

Spec == Init /\ [][Next]_vars

-----------------------------------------------------------------------------
(* Rows, requests and counters keep their types; exactly the request that  *)
(* has updated the row holds its lock (repositories/ticket.repository.ts). *)
TypeOK ==
  /\ ticket \in Tickets
  /\ history \in Seq(Statuses \X Statuses)
  /\ announced \in Nat
  /\ stamped \in Nat
  /\ accepted \subseteq Requests
  /\ req \in [Requests -> [step : Steps, kind : Kinds, to : Statuses,
                           version : 1..MaxVersion, adds : BOOLEAN,
                           seen : Tickets]]
  /\ \A r \in Requests : lock = r <=> req[r].step = "commit"
  /\ lock \in Requests \cup {None}

(* The status history is the ticket's past without a gap: each row starts  *)
(* where the one before it ended, the last one ends at the status the      *)
(* ticket has.  Its from_status is read before the UPDATE, outside the     *)
(* lock (tickets.service.ts update 290-312, resolve 467-490, portal 765).  *)
HistoryIsChain ==
  LET n == Len(history)
  IN  /\ \A i \in 1..n :
           history[i][1] = IF i = 1 THEN "new" ELSE history[i - 1][2]
      /\ ticket.status = IF n = 0 THEN "new" ELSE history[n][2]

(* A field whose PATCH was answered 200 stays in custom_fields, although   *)
(* every PATCH writes the whole column from what it read: no concurrent    *)
(* request overwrites it (tickets.service.ts 268-271, update's step 7).    *)
NoUpdateLost == accepted \subseteq ticket.custom

(* Whatever a request read, the row itself only makes moves of the         *)
(* transition table, and a move to or from closed is made for a principal  *)
(* with ticket:close or by a reply the tenant's policy lets reopen         *)
(* (lifecycle/transition-table.ts, reopenFromPortal).                      *)
LegalMoves ==
  [][ticket'.status # ticket.status =>
       /\ <<ticket.status, ticket'.status>> \in TRANSITION_TABLE
       /\ \E r \in Requests :
            /\ lock = r
            /\ \/ requiredPermission(ticket.status, ticket'.status)
                      \in Grants[r]
               \/ /\ req[r].kind = "reply"
                  /\ TRUE \in Settings
                  /\ ticket.status = "closed"]_vars

(* Each time the ticket became resolved, by PATCH or by the resolve        *)
(* endpoint, retried or raced, its consumers got one ticket.resolved: the  *)
(* AI worker is asked for one summary per resolution.                      *)
ResolutionsAnnounced ==
  announced = Cardinality({i \in DOMAIN history : history[i][2] = "resolved"})

(* Of concurrent public comments exactly one is told that it was the first *)
(* response, and then the ticket has its stamp (comment.repository.ts      *)
(* stampFirstResponseAt).                                                  *)
FirstResponseOnce == stamped = IF ticket.responded THEN 1 ELSE 0
=============================================================================
