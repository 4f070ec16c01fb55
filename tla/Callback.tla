------------------------------- MODULE Callback -------------------------------
(***************************************************************************)
(* The registry of callback strategies (callback/source/callback.cpp):     *)
(* callback_map_ under a mutex, which makes each access of it one step,    *)
(* and calls of a strategy's functions outside the mutex, kept alive by a  *)
(* copy of the shared_ptr.  refs is the count in its control block.        *)
(*                                                                         *)
(* Everything is allowed while callbacks run, also from inside one.        *)
(***************************************************************************)
EXTENDS Naturals, FiniteSets, Functions

CONSTANTS Threads,     \* threads that invoke callbacks or copy strategies
          Ports,       \* ports strategies are registered for
          MaxStrategies \* bound: strategies registered in a behaviour

ASSUME CallbackAssumption == MaxStrategies \in Nat

NoStrategy == 0
Strategies == 1..MaxStrategies

VARIABLES
  callback_map,  \* callback_map_: the strategy of each registered port
  refs,          \* the reference count of each strategy
  alive,         \* the strategies not yet deleted
  made,          \* strategies registered so far
  registry,      \* the registry has not been destroyed
  held           \* the strategy each thread holds in its local shared_ptr

callbackVars == <<callback_map, refs, alive, made, registry, held>>

CallbackInit ==
  /\ callback_map = <<>>
  /\ refs = [s \in Strategies |-> 0]
  /\ alive = {}
  /\ made = 0
  /\ registry = TRUE
  /\ held = [t \in Threads |-> NoStrategy]

\* Each of the strategies gives up one reference; the last one deletes it.
Release(S) ==
  /\ refs' = [s \in Strategies |-> IF s \in S THEN refs[s] - 1 ELSE refs[s]]
  /\ alive' = alive \ {s \in S : refs[s] = 1}

\* A valid strategy for a port that has none; anything else changes nothing.
RegisterCallback(port) ==
  /\ registry /\ made < MaxStrategies
  /\ port \notin DOMAIN callback_map
  /\ made' = made + 1
  /\ callback_map' = [p \in DOMAIN callback_map \cup {port} |->
                       IF p = port THEN made + 1 ELSE callback_map[p]]
  /\ refs' = [refs EXCEPT ![made + 1] = 1]
  /\ alive' = alive \cup {made + 1}
  /\ UNCHANGED <<registry, held>>

DeregisterCallback(port) ==
  /\ registry /\ port \in DOMAIN callback_map
  /\ callback_map' = Restrict(callback_map, DOMAIN callback_map \ {port})
  /\ Release({callback_map[port]})
  /\ UNCHANGED <<made, registry, held>>

ClearCallbacks ==
  /\ registry /\ callback_map # <<>>
  /\ callback_map' = <<>>
  /\ Release(Range(callback_map))
  /\ UNCHANGED <<made, registry, held>>

\* callback_registry_destroy(): no call may begin any more, running ones may end.
DestroyRegistry ==
  /\ registry
  /\ registry' = FALSE
  /\ callback_map' = <<>>
  /\ Release(Range(callback_map))
  /\ UNCHANGED <<made, held>>

\* The plain pointer is taken out of the map.
LookUpRaw(t, port) ==
  /\ registry /\ held[t] = NoStrategy
  /\ port \in DOMAIN callback_map
  /\ held' = [held EXCEPT ![t] = callback_map[port]]
  /\ UNCHANGED <<callback_map, refs, alive, made, registry>>

\* invoke_parse_callback(), invoke_reply_callback() or get_callback() has
\* found the strategy and copied the shared_ptr under the lock.
LookUp(t, port) ==
  /\ registry /\ held[t] = NoStrategy
  /\ port \in DOMAIN callback_map
  /\ held' = [held EXCEPT ![t] = callback_map[port]]
  /\ refs' = [refs EXCEPT ![callback_map[port]] = @ + 1]
  /\ UNCHANGED <<callback_map, alive, made, registry>>

\* The callback has returned or thrown, or the strategy was copied.
Return(t) ==
  /\ held[t] # NoStrategy
  /\ held' = [held EXCEPT ![t] = NoStrategy]
  /\ Release({held[t]})
  /\ UNCHANGED <<callback_map, made, registry>>

CallbackNext ==
  \/ \E port \in Ports : RegisterCallback(port) \/ DeregisterCallback(port)
  \/ ClearCallbacks
  \/ DestroyRegistry
  \/ \E t \in Threads : Return(t) \/ \E port \in Ports : LookUp(t, port)

CallbackSpec == CallbackInit /\ [][CallbackNext]_callbackVars

-------------------------------------------------------------------------------
(* Properties.                                                             *)

(* A strategy exists exactly as long as the map or a running call refers   *)
(* to it, and its count says by how many: it survives its call though its  *)
(* port is deregistered, given to another strategy, or the whole registry  *)
(* destroyed meanwhile, and it does not survive the last of them.          *)
AliveWhileReferenced ==
  \A s \in Strategies :
    LET entries == {p \in DOMAIN callback_map : callback_map[p] = s}
        holders == {t \in Threads : held[t] = s}
    IN /\ refs[s] = Cardinality(entries) + Cardinality(holders)
       /\ s \in alive <=> entries # {} \/ holders # {}

===============================================================================
