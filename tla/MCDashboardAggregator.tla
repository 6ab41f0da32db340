------------------------ MODULE MCDashboardAggregator ------------------------
(* A small instance of DashboardAggregator for TLC.                        *)
EXTENDS DashboardAggregator
=============================================================================
