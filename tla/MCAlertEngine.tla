---------------------------- MODULE MCAlertEngine ----------------------------
(* Three alerts: one critical, one to push, one that is info only.         *)
EXTENDS AlertEngine

MCAlerts == {"down", "disk", "info"}
MCPushable == {"down", "disk"}
MCCritical == {"down"}

\* No quiet hours, from start to start; a night that wraps past midnight.
MCWindows == {[start |-> 1, end |-> 1], [start |-> 2, end |-> 1]}
==============================================================================
