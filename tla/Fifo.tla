--------------------------------- MODULE Fifo ---------------------------------
(***************************************************************************)
(* What a queue between one producer and one consumer promises: the items  *)
(* 1, 2, 3, ... are sent in this order, several at a time if the producer  *)
(* likes, and are received in this order, each of them once.               *)
(***************************************************************************)
EXTENDS Naturals, Sequences

VARIABLES sent,      \* how many items have been sent
          received   \* the items received, oldest first

fifoVars == <<sent, received>>

Init ==
  /\ sent = 0
  /\ received = <<>>

\* A whole batch becomes visible at once.
Send ==
  /\ sent' \in Nat /\ sent' > sent
  /\ UNCHANGED received

Receive ==
  /\ Len(received) < sent
  /\ received' = Append(received, Len(received) + 1)
  /\ UNCHANGED sent

Next == Send \/ Receive

Spec == Init /\ [][Next]_fifoVars

===============================================================================
