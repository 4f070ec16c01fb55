--------------------------- MODULE ConnectionManager ---------------------------
(***************************************************************************)
(* Connections and the table that shares them                              *)
(* (connection/source/connection.cpp, connection_manager.cpp).             *)
(*                                                                         *)
(* Two threads: the one that serves connections (creates, looks up, moves  *)
(* through the states, removes) and the one that shuts the server down     *)
(* (Server::wait_pending_requests and close_all_connections), which closes *)
(* connections.  The manager's methods lock mutex_ and are one action;     *)
(* what they do after the unlock, and every method of Connection, which    *)
(* has no lock, is split where the other thread can interfere.             *)
(*                                                                         *)
(* A Connection lives as long as a shared_ptr to it: in the table, in the  *)
(* vector of a sweep, or in the serving thread.  Time is abstracted: a     *)
(* connection in a callback may be late or not, whenever it is looked at.  *)
(***************************************************************************)
EXTENDS Naturals, FiniteSets

CONSTANTS MaxConns,   \* bound: connections created
          Fds         \* descriptors accept() may return

NoFd == 0             \* fd_ = -1
Nobody == 0

ASSUME ConnAssumption == MaxConns \in Nat /\ Fds \subseteq Nat \ {NoFd}

Ids == 1 .. MaxConns

States == {"ACCEPTING", "TLS_HANDSHAKING", "CONNECTED", "RECEIVING", "PROCESSING",
           "SENDING", "DISCONNECTING", "DISCONNECTED"}

VARIABLES
  next_connection_id,
  connections,   \* ids in the table
  alive,         \* ids of Connection objects not destroyed
  state, fd, in_callback,
  owner,         \* kernel: the connection a descriptor was accepted for, or Nobody
  held,          \* serving thread: the connection it has a shared_ptr to, or Nobody
  writing,       \* serving thread: the state transition_to() is about to store
  spc,           \* sweeping thread: "idle", "next", "close", "clear", "finish"
  vector,        \* ids its vector refers to
  todo,          \* those it has not come to
  cur,           \* the one it is closing
  foreignClose   \* history: a close() hit a descriptor of somebody else, or of nobody

objVars == <<state, fd, in_callback>>
serveVars == <<held, writing>>
sweepVars == <<spc, vector, todo, cur>>
vars == <<next_connection_id, connections, alive, objVars, owner, serveVars, sweepVars,
          foreignClose>>

Init ==
  /\ next_connection_id = 1
  /\ connections = {} /\ alive = {}
  /\ state = [c \in Ids |-> "ACCEPTING"]
  /\ fd = [c \in Ids |-> NoFd]
  /\ in_callback = [c \in Ids |-> FALSE]
  /\ owner = [f \in Fds |-> Nobody]
  /\ held = Nobody /\ writing = "nothing"
  /\ spc = "idle" /\ vector = {} /\ todo = {} /\ cur = Nobody
  /\ foreignClose = FALSE

(* is_valid_state_transition(), for a change of state.                     *)
ValidTransition ==
  {<<"ACCEPTING", "TLS_HANDSHAKING">>, <<"TLS_HANDSHAKING", "CONNECTED">>,
   <<"CONNECTED", "RECEIVING">>, <<"RECEIVING", "PROCESSING">>,
   <<"PROCESSING", "SENDING">>, <<"SENDING", "CONNECTED">>,
   <<"DISCONNECTING", "DISCONNECTED">>}
  \cup {<<s, "DISCONNECTING">> : s \in States \ {"DISCONNECTING", "DISCONNECTED"}}

-------------------------------------------------------------------------------
(* Lifetime by the table alone, as with raw pointers outside it.           *)
ReferencedByTable(table, vec, h) == table

(* The shared_ptrs.                                                        *)
Referenced(table, vec, h) == table \cup vec \cup ({h} \ {Nobody})

(* ~Connection() without close_fd().                                       *)
DestroyLeaking(refs) ==
  /\ alive' = alive \cap refs
  /\ UNCHANGED <<fd, owner, foreignClose>>

(* The objects nobody refers to any more are destroyed: ~Connection()      *)
(* closes the descriptor if fd_ is still set.                              *)
Destroy(refs) ==
  LET dead == {c \in alive \ refs : fd[c] # NoFd} IN
  /\ alive' = alive \cap refs
  /\ owner' = [f \in Fds |-> IF \E c \in dead : fd[c] = f THEN Nobody ELSE owner[f]]
  /\ foreignClose' = (foreignClose \/ \E c \in dead : owner[fd[c]] # c)
  /\ fd' = [c \in Ids |-> IF c \in dead THEN NoFd ELSE fd[c]]

(* create_connection() on a descriptor accept() has just returned.         *)
Create(f) ==
  LET c == next_connection_id IN
  /\ held = Nobody
  /\ owner[f] = Nobody
  /\ owner' = [owner EXCEPT ![f] = c]
  /\ next_connection_id' = c + 1
  /\ connections' = connections \cup {c}
  /\ alive' = alive \cup {c}
  /\ state' = [state EXCEPT ![c] = "ACCEPTING"]
  /\ fd' = [fd EXCEPT ![c] = f]
  /\ in_callback' = [in_callback EXCEPT ![c] = FALSE]
  /\ held' = c
  /\ UNCHANGED <<writing, sweepVars, foreignClose>>

(* get_connection(), and the end of the shared_ptr it returned.            *)
Get(c) ==
  /\ held = Nobody
  /\ c \in connections
  /\ held' = c
  /\ UNCHANGED <<next_connection_id, connections, alive, objVars, owner, writing,
                 sweepVars, foreignClose>>

Release ==
  /\ held # Nobody /\ writing = "nothing"
  /\ held' = Nobody
  /\ Destroy(Referenced(connections, vector, Nobody))
  /\ UNCHANGED <<next_connection_id, connections, state, in_callback, writing, sweepVars>>

(* remove_connection(): nothing if the id is not there.                    *)
Remove(c) ==
  /\ c \in connections
  /\ connections' = connections \ {c}
  /\ Destroy(Referenced(connections', vector, held))
  /\ UNCHANGED <<next_connection_id, state, in_callback, serveVars, sweepVars>>

(* transition_to() by the serving thread, along the edges of the matrix:   *)
(* the checks ...                                                          *)
TransitionCheck(new) ==
  /\ held # Nobody /\ writing = "nothing"
  /\ <<state[held], new>> \in ValidTransition
  /\ new \notin {"DISCONNECTING", "DISCONNECTED"}
  /\ writing' = new
  /\ UNCHANGED <<next_connection_id, connections, alive, objVars, owner, held,
                 sweepVars, foreignClose>>

(* ... and the store, whatever has become of the connection in between.    *)
TransitionStore ==
  /\ writing # "nothing"
  /\ state' = [state EXCEPT ![held] = writing]
  /\ writing' = "nothing"
  /\ UNCHANGED <<next_connection_id, connections, alive, fd, in_callback, owner, held,
                 sweepVars, foreignClose>>

(* set_callback_start_time() and on_callback_complete().                   *)
CallbackStarts ==
  /\ held # Nobody /\ state[held] = "PROCESSING" /\ ~in_callback[held]
  /\ in_callback' = [in_callback EXCEPT ![held] = TRUE]
  /\ UNCHANGED <<next_connection_id, connections, alive, state, fd, owner, serveVars,
                 sweepVars, foreignClose>>

CallbackCompletes ==
  /\ held # Nobody /\ in_callback[held]
  /\ in_callback' = [in_callback EXCEPT ![held] = FALSE]
  /\ UNCHANGED <<next_connection_id, connections, alive, state, fd, owner, serveVars,
                 sweepVars, foreignClose>>

-------------------------------------------------------------------------------
(* check_callback_timeouts(): under the lock, collect the connections late *)
(* in a callback; check_timeouts(): those, and the idle ones that are not  *)
(* DISCONNECTED, for an on_timeout that closes them.                       *)
InCallback == {c \in connections : in_callback[c]}
NotDisconnected == {c \in connections : state[c] # "DISCONNECTED"}

CollectLate(late) ==
  /\ spc = "idle"
  /\ late # {}
  /\ late \subseteq InCallback \cup NotDisconnected
  /\ vector' = late /\ todo' = late
  /\ spc' = "next"
  /\ UNCHANGED <<next_connection_id, connections, alive, objVars, owner, serveVars, cur,
                 foreignClose>>

(* close_all(): under the lock, take the whole table.                      *)
CollectAll ==
  /\ spc = "idle"
  /\ connections # {}
  /\ vector' = connections /\ todo' = connections
  /\ connections' = {}
  /\ Destroy(Referenced({}, vector', held))
  /\ spc' = "next"
  /\ UNCHANGED <<next_connection_id, state, in_callback, serveVars, cur>>

(* A close that skips connections no longer in the table.                  *)
CloseBeginListed(c) ==
  /\ spc = "next" /\ c \in todo
  /\ todo' = todo \ {c}
  /\ IF state[c] = "DISCONNECTED" \/ c \notin connections
       THEN UNCHANGED <<state, spc, cur>>
       ELSE /\ state' = [state EXCEPT ![c] = "DISCONNECTING"]
            /\ spc' = "close" /\ cur' = c
  /\ UNCHANGED <<next_connection_id, connections, alive, fd, in_callback, owner, serveVars,
                 vector, foreignClose>>

(* Outside the lock, close() for each: back at once when DISCONNECTED,     *)
(* else DISCONNECTING (and the protocol handler is told).                  *)
CloseBegin(c) ==
  /\ spc = "next" /\ c \in todo
  /\ todo' = todo \ {c}
  /\ IF state[c] = "DISCONNECTED"
       THEN UNCHANGED <<state, spc, cur>>
       ELSE /\ state' = [state EXCEPT ![c] = "DISCONNECTING"]
            /\ spc' = "close" /\ cur' = c
  /\ UNCHANGED <<next_connection_id, connections, alive, fd, in_callback, owner, serveVars,
                 vector, foreignClose>>

(* close_fd(): nothing when fd_ is negative; close() ...                   *)
CloseFd ==
  /\ spc = "close"
  /\ IF fd[cur] = NoFd
       THEN spc' = "finish" /\ UNCHANGED <<owner, foreignClose>>
       ELSE /\ spc' = "clear"
            /\ owner' = [owner EXCEPT ![fd[cur]] = Nobody]
            /\ foreignClose' = (foreignClose \/ owner[fd[cur]] # cur)
  /\ UNCHANGED <<next_connection_id, connections, alive, objVars, serveVars, vector, todo, cur>>

(* fd_ left as it was.                                                     *)
ClearFdNot ==
  /\ spc = "clear" /\ spc' = "finish"
  /\ UNCHANGED <<next_connection_id, connections, alive, objVars, owner,
                 serveVars, vector, todo, cur, foreignClose>>

(* ... then fd_ = -1, a step later.                                        *)
ClearFd ==
  /\ spc = "clear" /\ spc' = "finish"
  /\ fd' = [fd EXCEPT ![cur] = NoFd]
  /\ UNCHANGED <<next_connection_id, connections, alive, state, in_callback, owner,
                 serveVars, vector, todo, cur, foreignClose>>

(* transition_to(DISCONNECTED).  The state callback may call               *)
(* remove_connection(): the manager's lock is free.                        *)
CloseFinish ==
  /\ spc = "finish" /\ spc' = "next"
  /\ state' = [state EXCEPT ![cur] = "DISCONNECTED"]
  /\ in_callback' = [in_callback EXCEPT ![cur] = FALSE]
  /\ cur' = Nobody
  /\ \/ UNCHANGED connections
     \/ cur \in connections /\ connections' = connections \ {cur}
  /\ UNCHANGED <<next_connection_id, alive, fd, owner, serveVars, vector, todo, foreignClose>>

(* The vector goes out of scope.                                           *)
SweepEnd ==
  /\ spc = "next" /\ todo = {}
  /\ spc' = "idle"
  /\ vector' = {}
  /\ Destroy(Referenced(connections, {}, held))
  /\ UNCHANGED <<next_connection_id, connections, state, in_callback, serveVars, todo, cur>>

SweepStep ==
  \/ \E c \in todo : CloseBegin(c)
  \/ CloseFd \/ ClearFd \/ CloseFinish \/ SweepEnd

Next ==
  \/ \E f \in Fds : next_connection_id <= MaxConns /\ Create(f)
  \/ \E c \in connections : Get(c) \/ Remove(c)
  \/ Release
  \/ \E new \in States : TransitionCheck(new)
  \/ TransitionStore
  \/ CallbackStarts
  \/ CallbackCompletes
  \/ \E late \in SUBSET connections : CollectLate(late)
  \/ CollectAll
  \/ SweepStep

Spec == Init /\ [][Next]_vars

-------------------------------------------------------------------------------
TypeOK ==
  /\ next_connection_id \in Nat
  /\ connections \subseteq Ids /\ alive \subseteq Ids
  /\ state \in [Ids -> States] /\ fd \in [Ids -> Fds \cup {NoFd}]
  /\ in_callback \in [Ids -> BOOLEAN]
  /\ owner \in [Fds -> Ids \cup {Nobody}]
  /\ held \in Ids \cup {Nobody} /\ writing \in States \cup {"nothing"}
  /\ spc \in {"idle", "next", "close", "clear", "finish"}
  /\ vector \subseteq Ids /\ todo \subseteq vector /\ cur \in Ids \cup {Nobody}
  /\ foreignClose \in BOOLEAN

(* Whatever a thread is about to touch still exists: a connection removed  *)
(* from the table while a sweep or the serving thread works on it lives    *)
(* until they are done.                                                    *)
NoUseAfterFree == connections \cup vector \cup ({held, cur} \ {Nobody}) \subseteq alive

(* A connection closes its own descriptor and no other, and closes it      *)
(* once, also when the kernel gives the number to a new connection between *)
(* close() and the destructor.                                             *)
ClosesOnlyItsOwn == ~foreignClose

(* No leak: every open descriptor belongs to a living connection that will *)
(* close it.                                                               *)
NoLeakedFd ==
  \A f \in Fds : owner[f] # Nobody => owner[f] \in alive /\ fd[owner[f]] = f

(* What a sweep has dealt with is closed, even if the serving thread       *)
(* removed it from the table, or moved its state, while it was swept.      *)
SweptIsClosed == \A c \in vector \ (todo \cup {cur}) : fd[c] = NoFd

===============================================================================
