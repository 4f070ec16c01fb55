------------------------------- MODULE MCHooks -------------------------------
(* The two extension points of request processing, DebugChain and Callback. *)
(* They share no state, so letting either of them move from the start shows *)
(* of each all that their interleaving would.                               *)
EXTENDS DebugChain, Callback

VARIABLE turn   \* the component that moves

MCWorkers == Permutations(Workers)

MCPriority == [n \in Custom |-> IF n = 0 THEN 50 ELSE 200]

MCInit == ChainInit /\ CallbackInit /\ turn \in {"chain", "callback"}

MCNext ==
  /\ UNCHANGED turn
  /\ \/ turn = "chain" /\ ChainNext /\ UNCHANGED callbackVars
     \/ turn = "callback" /\ CallbackNext /\ UNCHANGED chainVars

MCSpec == MCInit /\ [][MCNext]_<<chainVars, callbackVars, turn>>

===============================================================================
