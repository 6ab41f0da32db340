--------------------------- MODULE MCSlaScheduler ---------------------------
(* Small instances of SlaScheduler for TLC.                                *)
EXTENDS SlaScheduler

CONSTANTS fast, slow, k1, k2

(* Targets in time units: the response clock is the shorter one.           *)
MCSpan == [pol \in Policies |->
              [c \in Clocks |-> (IF pol = fast THEN 1 ELSE 2)
                                    + (IF c = "response" THEN 0 ELSE 1)]]

MCPctPairs == {<<25, 50>>, <<50, 75>>}

NoPoison == {}

(* The response clock of ticket k1 fails every time.                       *)
PoisonResponse == {<<k1, "response">>}
=============================================================================
