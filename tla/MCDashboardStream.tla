-------------------------- MODULE MCDashboardStream --------------------------
(* A small instance of DashboardStream for TLC.                            *)
EXTENDS DashboardStream
=============================================================================
