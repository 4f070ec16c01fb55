------------------------------- MODULE MCUtils -------------------------------
(* The two data structures of the utils library, Buffer and LockFreeQueue. *)
(* They share no state, so letting either of them move from the start      *)
(* shows of each all that their interleaving would.                        *)
(*                                                                         *)
(* The buffer holds at most nine bytes, with all three kinds of growth     *)
(* below that and enough bytes to fill, compact and refill it.  The queue  *)
(* has more items than addresses, so that a freed address comes back while *)
(* the other thread may still hold it.                                     *)
EXTENDS Buffer, LockFreeQueue, TLC

VARIABLE turn   \* the component that moves

Addresses == Permutations(Addrs)

MCInit ==
  /\ QueueInit /\ BufferInit
  /\ turn \in {"queue", "buffer"}
  /\ turn = "queue" => buf.cap = MIN_CAPACITY

MCNext ==
  /\ UNCHANGED turn
  /\ \/ turn = "queue" /\ QueueNext /\ UNCHANGED bufferVars
     \/ turn = "buffer" /\ BufferNext /\ UNCHANGED queueVars

MCSpec == MCInit /\ [][MCNext]_<<queueVars, bufferVars, turn>>

===============================================================================
