------------------------------ MODULE MCMsgCenter ------------------------------
(* One worker, one IoThread, two callers of stop(), one poster, a queue    *)
(* of two events that fills up, and a restart.                             *)
EXTENDS MsgCenter

===============================================================================
