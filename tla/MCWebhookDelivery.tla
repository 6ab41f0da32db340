------------------------- MODULE MCWebhookDelivery -------------------------
(* Small instances of WebhookDelivery for TLC.                             *)
EXTENDS WebhookDelivery

CONSTANTS e1, m1, m2

OneEndpoint == [m \in Messages |-> e1]

(* Every producer in the repository starts at 1.                           *)
FirstAttempts == [m \in Messages |-> 1]

HandlerAndMessageSymmetry == Permutations(Handlers) \cup Permutations(Messages)
=============================================================================
