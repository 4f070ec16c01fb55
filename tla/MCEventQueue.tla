----------------------------- MODULE MCEventQueue -----------------------------
(* Three blocking consumers, two priorities, room for two events.            *)
EXTENDS EventQueue

===============================================================================
