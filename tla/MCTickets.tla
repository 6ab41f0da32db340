------------------------------ MODULE MCTickets ------------------------------
(* A small instance of Tickets for TLC: an administrator and an agent that *)
(* may not close tickets.                                                  *)
EXTENDS Tickets

CONSTANTS admin, agent

OneAdmin ==
  [r \in Requests |-> IF r = admin THEN {"ticket:update", "ticket:close"}
                                   ELSE {"ticket:update"}]

(* open may be asked for from every other status, closed from open and     *)
(* resolved: with three statuses every kind of move happens.               *)
MostStatuses == {"open", "resolved", "closed"}
=============================================================================
