--------------------------- MODULE MCSlaReminders ---------------------------
(* Small instances of SlaReminders for TLC.                                *)
EXTENDS SlaReminders, TLC

HandlerSymmetry == Permutations(Handlers)

OnePctPair == {<<50, 75>>}

(* An assignee with an address, in a tenant with an endpoint.              *)
Both == {{"email", "webhook"}}

(* Nobody to write to, and perhaps an endpoint.                            *)
EndpointOrNobody == {{}, {"webhook"}}
=============================================================================
