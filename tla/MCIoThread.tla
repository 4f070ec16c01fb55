------------------------------ MODULE MCIoThread ------------------------------
(* Two sockets and a pipe on four numbers, so that numbers are used again, *)
(* and two lives of the thread.                                            *)
EXTENDS IoThread

===============================================================================
