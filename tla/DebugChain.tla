------------------------------ MODULE DebugChain ------------------------------
(***************************************************************************)
(* The chain of debug handlers (debug_chain/source/debug_chain.cpp): a     *)
(* vector of handler objects the chain owns, sorted lazily by the first    *)
(* pass over it, and the passes of worker threads, which call one handler  *)
(* after the other until one of them stops the chain.                      *)
(*                                                                         *)
(* Handlers are named by numbers in the order strcmp() gives their names.  *)
(* A handler that logs or delays has no effect here.  Registration is not  *)
(* concurrent with passes: debug_chain.hpp asks this of its callers.       *)
(***************************************************************************)
EXTENDS Naturals, Sequences, SequencesExt

CONSTANTS Workers,        \* threads that process requests
          Custom,         \* names of handlers other than the four default ones
          CustomPriority, \* their priorities
          Registrable,    \* names callers register and unregister
          Statuses,       \* values of http_status
          MaxObjects,     \* bound: handler objects created in a behaviour
          FirstAlone      \* the pass that sorts has the chain to itself

\* The default handlers: DelayHandler, DisconnectHandler, ErrorCodeHandler, LogHandler.
Delay == 1
Disconnect == 2
ErrorCode == 3
Log == 4
Default == {Delay, Disconnect, ErrorCode, Log}

ASSUME ChainAssumption ==
  /\ Custom \subseteq Nat /\ Custom \cap Default = {}
  /\ CustomPriority \in [Custom -> Nat]
  /\ Registrable \subseteq Default \cup Custom
  /\ 0 \notin Statuses /\ Statuses \subseteq Nat
  /\ MaxObjects \in Nat /\ MaxObjects >= 4   \* the default handlers
  /\ FirstAlone \in BOOLEAN

VARIABLES
  handlers,  \* handlers_: records of the name and the object
  sorted,    \* sorted_
  created,   \* handler objects created so far
  freed,     \* history: how often each object was destroyed
  exists,    \* the chain has not been destroyed
  wpc,       \* where each worker is
  phase,     \* the pass it makes, or makes next
  config,    \* the DebugConfig of its pass
  ctx,       \* its DebugContext
  pos,       \* its place in handlers_
  ran        \* history: the names its pass has called

chainVars == <<handlers, sorted, created, freed, exists, wpc, phase, config, ctx, pos, ran>>
tableVars == <<handlers, sorted, created, freed, exists>>
workVars == <<wpc, phase, config, ctx, pos, ran>>

priority(n) ==
  IF n \in Custom THEN CustomPriority[n]
  ELSE CASE n = Delay -> 100 [] n = Disconnect -> 200 [] n = Log -> 300 [] n = ErrorCode -> 400

NewContext == [status |-> 0, disconnect |-> FALSE]
Off == [enabled |-> FALSE, disconnect |-> FALSE, status |-> 0]
Configs == {Off} \cup [enabled : {TRUE}, disconnect : BOOLEAN, status : Statuses]

\* debug_handler_registry_create() or debug_handler_registry_create_empty().
ChainInit ==
  /\ handlers \in {<<>>, [i \in 1..4 |->
                           [name |-> <<Delay, Disconnect, Log, ErrorCode>>[i], obj |-> i]]}
  /\ sorted = FALSE
  /\ created = Len(handlers)
  /\ freed = [o \in 1..MaxObjects |-> 0]
  /\ exists = TRUE
  /\ wpc = [w \in Workers |-> "idle"]
  /\ phase = [w \in Workers |-> "request"]
  /\ config = [w \in Workers |-> Off]
  /\ ctx = [w \in Workers |-> NewContext]
  /\ pos = [w \in Workers |-> 0]
  /\ ran = [w \in Workers |-> <<>>]

-------------------------------------------------------------------------------
(* Registration, and the end of the chain.                                 *)

Quiescent == exists /\ \A w \in Workers : wpc[w] \in {"idle", "done"}
Named(n) == {i \in 1..Len(handlers) : handlers[i].name = n}
Places(o) == {i \in 1..Len(handlers) : handlers[i].obj = o}

\* sorted_ is left as it is.
RegisterUnsorted(n) ==
  /\ Quiescent /\ created < MaxObjects
  /\ created' = created + 1
  /\ Named(n) = {}
  /\ handlers' = Append(handlers, [name |-> n, obj |-> created + 1])
  /\ UNCHANGED <<sorted, freed, exists, workVars>>

Register(n) ==
  /\ Quiescent /\ created < MaxObjects
  /\ created' = created + 1
  /\ Named(n) = {}
  /\ handlers' = Append(handlers, [name |-> n, obj |-> created + 1])
  /\ sorted' = FALSE
  /\ UNCHANGED <<freed, exists, workVars>>

\* ERR_ALREADY_EXISTS: the object stays with the caller, who destroys it.
RegisterExists(n) ==
  /\ Quiescent /\ created < MaxObjects
  /\ created' = created + 1
  /\ Named(n) # {}
  /\ freed' = [freed EXCEPT ![created + 1] = @ + 1]
  /\ UNCHANGED <<handlers, sorted, exists, workVars>>

\* destroy() without the erase().
UnregisterKeeping(n) ==
  /\ Quiescent
  /\ \E i \in Named(n) :
       freed' = [freed EXCEPT ![handlers[i].obj] = @ + 1]
  /\ UNCHANGED <<handlers, sorted, created, exists, workVars>>

Unregister(n) ==
  /\ Quiescent
  /\ \E i \in Named(n) :
       /\ freed' = [freed EXCEPT ![handlers[i].obj] = @ + 1]
       /\ handlers' = RemoveAt(handlers, i)
  /\ UNCHANGED <<sorted, created, exists, workVars>>

\* debug_handler_registry_destroy() and the destructor of the chain.
DestroyChain ==
  /\ Quiescent
  /\ freed' = [o \in 1..MaxObjects |-> freed[o] + Cardinality(Places(o))]
  /\ handlers' = <<>>
  /\ exists' = FALSE
  /\ UNCHANGED <<sorted, created, workVars>>

-------------------------------------------------------------------------------
(* process_request() and process_response().                               *)

Before(m, n) ==
  \/ priority(m) < priority(n)
  \/ priority(m) = priority(n) /\ m < n

Vectors == [1..Len(handlers) -> {handlers[i] : i \in 1..Len(handlers)}]

\* What std::sort() leaves: the same handlers, in ascending order.
Ascending(t) == \A j, k \in 1..Len(handlers) : j < k => Before(t[j].name, t[k].name)

\* A pass begins; without debugging it is over at once (ERR_NOT_EXECUTED).
Process(w) ==
  /\ exists /\ wpc[w] = "idle"
  /\ FirstAlone /\ ~sorted => \A v \in Workers : wpc[v] \in {"idle", "done"}
  /\ \E c \in Configs :
       /\ config' = [config EXCEPT ![w] = c]
       /\ wpc' = [wpc EXCEPT ![w] = IF ~c.enabled THEN "done" ELSE IF sorted THEN "run" ELSE "sort"]
  /\ pos' = [pos EXCEPT ![w] = 1]
  /\ ran' = [ran EXCEPT ![w] = <<>>]
  /\ UNCHANGED <<tableVars, phase, ctx>>

\* sort_handlers().  Two threads that sort one vector leave anything in it.
Sort(w) ==
  /\ wpc[w] = "sort"
  /\ IF \E v \in Workers \ {w} : wpc[v] = "sort"
     THEN handlers' \in Vectors
     ELSE handlers' \in {t \in Vectors : Ascending(t)}
  /\ sorted' = TRUE
  /\ wpc' = [wpc EXCEPT ![w] = "run"]
  /\ UNCHANGED <<created, freed, exists, phase, config, ctx, pos, ran>>

\* The handler of error codes sets the status; a response keeps the one it has.
StatusAfter(w, n) ==
  IF n = ErrorCode /\ (phase[w] = "request" \/ ctx[w].status = 0) THEN config[w].status
  ELSE ctx[w].status

\* The handler that forces a disconnect lets the chain go on.
CallsThrough(w, n) ==
  /\ ctx' = [ctx EXCEPT ![w].disconnect = @ \/ (n = Disconnect /\ config[w].disconnect),
                        ![w].status = StatusAfter(w, n)]
  /\ \E stop \in IF n \in Custom THEN BOOLEAN ELSE {FALSE} :
       wpc' = [wpc EXCEPT ![w] = IF stop THEN "done" ELSE "run"]

\* What a handler returns and does to the context: delaying and logging do
\* nothing to it, and only custom handlers and a forced disconnect may stop.
Calls(w, n) ==
  LET forced == n = Disconnect /\ config[w].disconnect
  IN /\ ctx' = [ctx EXCEPT ![w].disconnect = @ \/ forced,
                           ![w].status = StatusAfter(w, n)]
     /\ \E stop \in IF n \in Custom THEN BOOLEAN ELSE {forced} :
          wpc' = [wpc EXCEPT ![w] = IF stop THEN "done" ELSE "run"]

CallHandler(w) ==
  /\ wpc[w] = "run" /\ pos[w] <= Len(handlers)
  /\ Calls(w, handlers[pos[w]].name)
  /\ pos' = [pos EXCEPT ![w] = @ + 1]
  /\ ran' = [ran EXCEPT ![w] = Append(@, handlers[pos[w]].name)]
  /\ UNCHANGED <<tableVars, phase, config>>

EndOfChain(w) ==
  /\ wpc[w] = "run" /\ pos[w] > Len(handlers)
  /\ wpc' = [wpc EXCEPT ![w] = "done"]
  /\ UNCHANGED <<tableVars, phase, config, ctx, pos, ran>>

\* The caller goes on: the response of the request, or another request.
NextPass(w) ==
  /\ wpc[w] = "done"
  /\ wpc' = [wpc EXCEPT ![w] = "idle"]
  /\ pos' = [pos EXCEPT ![w] = 0]
  /\ ran' = [ran EXCEPT ![w] = <<>>]
  /\ config' = [config EXCEPT ![w] = Off]
  /\ phase' = [phase EXCEPT ![w] = IF @ = "request" THEN "response" ELSE "request"]
  /\ ctx' = IF phase[w] = "request" THEN ctx ELSE [ctx EXCEPT ![w] = NewContext]
  /\ UNCHANGED tableVars

ChainNext ==
  \/ \E n \in Registrable : Register(n) \/ RegisterExists(n) \/ Unregister(n)
  \/ DestroyChain
  \/ \E w \in Workers : Process(w) \/ Sort(w) \/ CallHandler(w) \/ EndOfChain(w) \/ NextPass(w)

ChainSpec == ChainInit /\ [][ChainNext]_chainVars

-------------------------------------------------------------------------------
(* Properties.                                                             *)

(* Every pass calls the handlers by ascending priority, equal priorities   *)
(* by name, each once, and before the one it is at leaves none out that    *)
(* comes earlier, whatever was registered and unregistered since the last  *)
(* sort; a pass that reaches the end has called them all.                  *)
PassesInOrder ==
  \A w \in Workers : wpc[w] = "run" =>
    LET called == ran[w] IN
    /\ \A j, k \in 1..Len(called) : j < k => Before(called[j], called[k])
    /\ \A i \in 1..Len(handlers) :
         \/ \E j \in 1..Len(called) : called[j] = handlers[i].name
         \/ /\ pos[w] <= Len(handlers)
            /\ \A j \in 1..Len(called) : Before(called[j], handlers[i].name)

(* A forced disconnect preempts the error code: the handler that forces it *)
(* comes earlier and stops the chain, so a request that ends disconnected  *)
(* has no status set on it, wherever in the chain the two were registered. *)
DisconnectPreempts ==
  \A w \in Workers :
    phase[w] = "request" /\ ctx[w].disconnect => ctx[w].status = 0

(* The chain owns its handlers: each object is in it once and alive, or it *)
(* has been destroyed exactly once, by unregister, by the destructor or by *)
(* the caller whose registration was refused.                              *)
HandlersOwned ==
  \A o \in 1..created :
    freed[o] + Cardinality(Places(o)) = 1

===============================================================================
