---------------------------- MODULE MCDashboard ----------------------------
(* The dashboard page with a service that goes down, fills up and drops connections. *)
EXTENDS Dashboard
MCEvents == AllEvents
=============================================================================
