-------------------------------- MODULE Server --------------------------------
(***************************************************************************)
(* The server's life cycle (server/source/server.cpp): init, start, stop   *)
(* (graceful shutdown) and cleanup over the listening sockets, the message *)
(* centre and the connection manager.                                      *)
(*                                                                         *)
(* mutex_ protects status_ alone: a method takes it for a moment, lets it  *)
(* go and works on everything else unprotected, so each method is several  *)
(* actions and Callers may interleave them.                                *)
(*                                                                         *)
(* The message centre is reduced to whether it runs and to the sockets its *)
(* IoThreads watch, the connection manager to its number of connections.   *)
(* A configuration is the sequence of its enabled ports.                   *)
(***************************************************************************)
EXTENDS Naturals, Sequences, FiniteSets

CONSTANTS Callers,       \* threads that call the Server's methods
          Configs,       \* configurations init() may be given
          Fds,           \* file descriptors the process may use
          MaxConns,      \* bound: connections at a time
          PendingTicks,  \* MAX_CALLBACK_TIMEOUT_SECONDS, in polls of wait_pending_requests
          CloseTicks,    \* MAX_CONN_CLOSE_WAIT_SECONDS, in polls of close_all_connections
          MaxInits       \* bound: init() calls

NoConfig == <<0>>        \* config_ null: no configuration listens on port 0
Closed == 0              \* the socket table's entry for a closed descriptor
BadFd == 0               \* what socket() returns when it fails (-1)

ASSUME ServerAssumption ==
  /\ Fds \subseteq Nat \ {BadFd}
  /\ Configs \subseteq Seq(Nat \ {0})
  /\ MaxConns \in Nat /\ PendingTicks \in Nat /\ CloseTicks \in Nat /\ MaxInits \in Nat

VARIABLES
  status,             \* status_
  running,            \* running_
  graceful_shutdown,  \* graceful_shutdown_
  resources_cleaned,  \* resources_cleaned_
  config,             \* config_
  centre,             \* msg_center_: "null", "idle" or "running"
  registered,         \* <<fd, port>> pairs its IoThreads watch
  conn_manager,       \* conn_manager_ is not null
  conns,              \* get_connection_count()
  listen_fds, listen_ports,
  socket,             \* the port each descriptor is bound to, or Closed
  pc,                 \* where each caller is
  i,                  \* its loop index, or the polls it has made
  inits,              \* init() calls so far
  badClose            \* history: close() of a descriptor that was not open

stateVars == <<status, running, graceful_shutdown, resources_cleaned>>
moduleVars == <<config, centre, registered, conn_manager, conns>>
socketVars == <<listen_fds, listen_ports, socket, badClose>>
vars == <<stateVars, moduleVars, socketVars, pc, i, inits>>

Statuses == {"STOPPED", "INITIALIZING", "RUNNING", "SHUTTING_DOWN", "ERROR"}

Steps == {"idle",
          "init.sockets", "init.rollback", "init.error", "init.modules", "init.done",
          "start.centre", "start.error", "start.register",
          "stop.flag", "stop.remove", "stop.close", "stop.wait", "stop.closeall",
          "stop.closewait", "stop.cas", "stop.centre", "stop.done",
          "cleanup.close", "cleanup.cas", "cleanup.centre", "cleanup.reset", "cleanup.done"}

Init ==
  /\ status = "STOPPED" /\ running = FALSE
  /\ graceful_shutdown = FALSE /\ resources_cleaned = FALSE
  /\ config = NoConfig /\ centre = "null" /\ registered = {}
  /\ conn_manager = FALSE /\ conns = 0
  /\ listen_fds = <<>> /\ listen_ports = <<>>
  /\ socket = [fd \in Fds |-> Closed] /\ badClose = FALSE
  /\ pc = [c \in Callers |-> "idle"]
  /\ i = [c \in Callers |-> 1]
  /\ inits = 0

At(c, from, to) == pc[c] = from /\ pc' = [pc EXCEPT ![c] = to]

Listed == {listen_fds[k] : k \in DOMAIN listen_fds}
Open == {fd \in Fds : socket[fd] # Closed}

(* close() of every descriptor listen_fds_ names.                          *)
CloseListed ==
  /\ socket' = [fd \in Fds |-> IF fd \in Listed THEN Closed ELSE socket[fd]]
  /\ badClose' = (badClose \/ Cardinality(Listed \cap Open) # Len(listen_fds))

-------------------------------------------------------------------------------
(* init(): only when STOPPED.  The configuration is loaded and validated,  *)
(* or not; config_ is set before either is known.                          *)
InitBegin(c, cfg) ==
  /\ At(c, "idle", "init.sockets")
  /\ status = "STOPPED"
  /\ status' = "INITIALIZING"
  /\ config' = cfg
  /\ i' = [i EXCEPT ![c] = 1]
  /\ inits' = inits + 1
  /\ UNCHANGED <<running, graceful_shutdown, resources_cleaned, centre, registered,
                 conn_manager, conns, socketVars>>

InitConfigFails(c) ==
  /\ At(c, "init.sockets", "init.error")
  /\ i[c] = 1
  /\ UNCHANGED <<stateVars, moduleVars, socketVars, i, inits>>

(* init_listen_sockets(): one socket per port.  The lowest free descriptor *)
(* is the one the kernel hands out.                                        *)
InitSocket(c) ==
  /\ pc[c] = "init.sockets"
  /\ i[c] <= Len(config)
  /\ \E fd \in Fds \ Open :
       /\ \A other \in Fds \ Open : fd <= other
       /\ socket' = [socket EXCEPT ![fd] = config[i[c]]]
       /\ listen_fds' = Append(listen_fds, fd)
       /\ listen_ports' = Append(listen_ports, config[i[c]])
  /\ i' = [i EXCEPT ![c] = @ + 1]
  /\ UNCHANGED <<stateVars, moduleVars, badClose, pc, inits>>

(* socket, setsockopt, inet_pton, bind or listen fails; the descriptor of  *)
(* this port, if there is one, is closed again on the spot.                *)
InitSocketFails(c) ==
  /\ At(c, "init.sockets", "init.rollback")
  /\ i[c] <= Len(config)
  /\ UNCHANGED <<stateVars, moduleVars, socketVars, i, inits>>

(* rollback_listen_sockets() that forgets to close.                        *)
RollbackLeaking(c) ==
  /\ At(c, "init.rollback", "init.error")
  /\ listen_fds' = <<>> /\ listen_ports' = <<>>
  /\ UNCHANGED <<stateVars, moduleVars, socket, badClose, i, inits>>

(* rollback_listen_sockets().                                              *)
Rollback(c) ==
  /\ At(c, "init.rollback", "init.error")
  /\ CloseListed
  /\ listen_fds' = <<>> /\ listen_ports' = <<>>
  /\ UNCHANGED <<stateVars, moduleVars, i, inits>>

(* handle_init_error(): ERROR, then cleanup().                             *)
InitError(c) ==
  /\ At(c, "init.error", "cleanup.close")
  /\ status' = "ERROR"
  /\ UNCHANGED <<running, graceful_shutdown, resources_cleaned, moduleVars, socketVars,
                 i, inits>>

InitSocketsDone(c) ==
  /\ At(c, "init.sockets", "init.modules")
  /\ i[c] > Len(config)
  /\ UNCHANGED <<stateVars, moduleVars, socketVars, i, inits>>

(* New sub-modules; the old ones, if any, are destroyed, and a destroyed   *)
(* message centre stops.                                                   *)
InitModules(c) ==
  /\ At(c, "init.modules", "init.done")
  /\ conn_manager' = TRUE /\ conns' = 0
  /\ centre' = "idle" /\ registered' = {}
  /\ UNCHANGED <<stateVars, config, socketVars, i, inits>>

InitDone(c) ==
  /\ At(c, "init.done", "idle")
  /\ status' = "STOPPED"
  /\ UNCHANGED <<running, graceful_shutdown, resources_cleaned, moduleVars, socketVars,
                 i, inits>>

-------------------------------------------------------------------------------
(* start(): only with a configuration and when STOPPED.                    *)
StartBegin(c) ==
  /\ At(c, "idle", "start.centre")
  /\ config # NoConfig /\ status = "STOPPED"
  /\ status' = "RUNNING" /\ running' = TRUE
  /\ i' = [i EXCEPT ![c] = 1]
  /\ UNCHANGED <<graceful_shutdown, resources_cleaned, moduleVars, socketVars, inits>>

(* start() that ignores the result of msg_center_->start().                *)
StartCentreUnchecked(c) ==
  /\ \/ At(c, "start.centre", "start.register") /\ centre = "idle" /\ centre' = "running"
     \/ At(c, "start.centre", "start.register") /\ UNCHANGED centre
  /\ UNCHANGED <<stateVars, config, registered, conn_manager, conns, socketVars, i, inits>>

(* msg_center_->start(): refused when it runs already, and may fail.       *)
StartCentre(c) ==
  /\ \/ At(c, "start.centre", "start.register") /\ centre = "idle" /\ centre' = "running"
     \/ At(c, "start.centre", "start.error") /\ UNCHANGED centre
  /\ UNCHANGED <<stateVars, config, registered, conn_manager, conns, socketVars, i, inits>>

StartError(c) ==
  /\ At(c, "start.error", "cleanup.close")
  /\ status' = "ERROR" /\ running' = FALSE
  /\ UNCHANGED <<graceful_shutdown, resources_cleaned, moduleVars, socketVars, i, inits>>

(* add_listen_fd() for every listening socket.  It fails for a negative    *)
(* descriptor only, which listen_fds_ never holds.                         *)
StartRegister(c) ==
  /\ pc[c] = "start.register"
  /\ i[c] <= Len(listen_fds)
  /\ registered' = registered \cup {<<listen_fds[i[c]], listen_ports[i[c]]>>}
  /\ i' = [i EXCEPT ![c] = @ + 1]
  /\ UNCHANGED <<stateVars, config, centre, conn_manager, conns, socketVars, pc, inits>>

StartDone(c) ==
  /\ At(c, "start.register", "idle")
  /\ i[c] > Len(listen_fds)
  /\ UNCHANGED <<stateVars, moduleVars, socketVars, i, inits>>

-------------------------------------------------------------------------------
(* stop(): the status is checked in one critical section ...               *)
StopCheck(c) ==
  /\ At(c, "idle", "stop.flag")
  /\ status = "RUNNING"
  /\ UNCHANGED <<stateVars, moduleVars, socketVars, i, inits>>

(* ... and changed, by graceful_shutdown(), in another.                    *)
StopFlag(c) ==
  /\ At(c, "stop.flag", "stop.remove")
  /\ graceful_shutdown' = TRUE
  /\ status' = "SHUTTING_DOWN"
  /\ i' = [i EXCEPT ![c] = 1]
  /\ UNCHANGED <<running, resources_cleaned, moduleVars, socketVars, inits>>

(* stop_accepting() that leaves the socket with the message centre.        *)
StopRemoveNot(c) ==
  /\ \/ /\ At(c, "stop.remove", "stop.close")
        /\ centre # "null" /\ i[c] <= Len(listen_fds)
        /\ UNCHANGED <<listen_fds, i>>
     \/ /\ At(c, "stop.remove", "stop.wait")
        /\ centre = "null" \/ i[c] > Len(listen_fds)
        /\ listen_fds' = IF centre = "null" THEN listen_fds ELSE <<>>
        /\ i' = [i EXCEPT ![c] = 1]
  /\ UNCHANGED <<stateVars, moduleVars, listen_ports, socket, badClose, inits>>

(* stop_accepting(): for each socket, first remove_listen_fd ...  At the   *)
(* end listen_fds_ is emptied, listen_ports_ is not.  Without a message    *)
(* centre it does nothing.                                                 *)
StopRemove(c) ==
  /\ \/ /\ At(c, "stop.remove", "stop.close")
        /\ centre # "null" /\ i[c] <= Len(listen_fds)
        /\ registered' = {r \in registered : r[1] # listen_fds[i[c]]}
        /\ UNCHANGED <<listen_fds, i>>
     \/ /\ At(c, "stop.remove", "stop.wait")
        /\ centre = "null" \/ i[c] > Len(listen_fds)
        /\ listen_fds' = IF centre = "null" THEN listen_fds ELSE <<>>
        /\ i' = [i EXCEPT ![c] = 1]
        /\ UNCHANGED registered
  /\ UNCHANGED <<stateVars, config, centre, conn_manager, conns,
                 listen_ports, socket, badClose, inits>>

(* ... then close().  Another caller may have emptied the vector.          *)
StopClose(c) ==
  /\ At(c, "stop.close", "stop.remove")
  /\ IF i[c] <= Len(listen_fds)
       THEN /\ socket' = [socket EXCEPT ![listen_fds[i[c]]] = Closed]
            /\ badClose' = (badClose \/ socket[listen_fds[i[c]]] = Closed)
       ELSE UNCHANGED <<socket, badClose>>
  /\ i' = [i EXCEPT ![c] = @ + 1]
  /\ UNCHANGED <<stateVars, moduleVars, listen_fds, listen_ports, inits>>

(* The two polling loops of the shutdown leave when no connection is left  *)
(* or their time is up.  A callback timeout closes a connection and leaves *)
(* it in the manager's table, so it does not change the count.             *)
PollAgain(c) ==
  /\ \/ pc[c] = "stop.wait" /\ i[c] < PendingTicks
     \/ pc[c] = "stop.closewait" /\ i[c] < CloseTicks
  /\ conns > 0
  /\ i' = [i EXCEPT ![c] = @ + 1]
  /\ UNCHANGED <<stateVars, moduleVars, socketVars, pc, inits>>

(* A wait for the connections without a time limit.                        *)
WaitDoneUntimed(c) ==
  /\ At(c, "stop.wait", "stop.closeall")
  /\ conns = 0
  /\ UNCHANGED <<stateVars, moduleVars, socketVars, i, inits>>

WaitDone(c) ==
  /\ At(c, "stop.wait", "stop.closeall")
  /\ conns = 0 \/ i[c] >= PendingTicks
  /\ UNCHANGED <<stateVars, moduleVars, socketVars, i, inits>>

(* close_all(): the table is emptied.                                      *)
CloseAll(c) ==
  /\ At(c, "stop.closeall", "stop.closewait")
  /\ conns' = 0
  /\ i' = [i EXCEPT ![c] = 1]
  /\ UNCHANGED <<stateVars, config, centre, registered, conn_manager, socketVars, inits>>

CloseWaitDone(c) ==
  /\ At(c, "stop.closewait", "stop.cas")
  /\ conns = 0 \/ i[c] >= CloseTicks
  /\ UNCHANGED <<stateVars, moduleVars, socketVars, i, inits>>

(* cleanup_resources(), of stop() and of cleanup(): whoever flips          *)
(* resources_cleaned_ does the work, the others skip it.                   *)
ResourcesCas(c) ==
  /\ \/ /\ ~resources_cleaned
        /\ resources_cleaned' = TRUE
        /\ At(c, "stop.cas", "stop.centre") \/ At(c, "cleanup.cas", "cleanup.centre")
     \/ /\ resources_cleaned
        /\ UNCHANGED resources_cleaned
        /\ At(c, "stop.cas", "stop.done") \/ At(c, "cleanup.cas", "cleanup.reset")
  /\ UNCHANGED <<status, running, graceful_shutdown, moduleVars, socketVars, i, inits>>

(* The work: msg_center_->stop(), then the flags.  The step is the return  *)
(* of that call, and the call need not return (see InCentreStop): until    *)
(* then the caller stays where it is, the centre counts as running, and    *)
(* connections come and go.                                                *)
ResourcesStop(c) ==
  /\ At(c, "stop.centre", "stop.done") \/ At(c, "cleanup.centre", "cleanup.reset")
  /\ centre' = IF centre = "running" THEN "idle" ELSE centre
  /\ registered' = {}
  /\ running' = FALSE /\ graceful_shutdown' = FALSE
  /\ UNCHANGED <<status, resources_cleaned, config, conn_manager, conns, socketVars, i, inits>>

StopDone(c) ==
  /\ At(c, "stop.done", "idle")
  /\ status' = "STOPPED"
  /\ UNCHANGED <<running, graceful_shutdown, resources_cleaned, moduleVars, socketVars,
                 i, inits>>

-------------------------------------------------------------------------------
(* cleanup(): in any state, also while RUNNING.                            *)
CleanupCall(c) ==
  /\ At(c, "idle", "cleanup.close")
  /\ UNCHANGED <<stateVars, moduleVars, socketVars, i, inits>>

CleanupClose(c) ==
  /\ At(c, "cleanup.close", "cleanup.cas")
  /\ CloseListed
  /\ listen_fds' = <<>> /\ listen_ports' = <<>>
  /\ UNCHANGED <<stateVars, moduleVars, i, inits>>

CleanupReset(c) ==
  /\ At(c, "cleanup.reset", "cleanup.done")
  /\ centre' = "null" /\ registered' = {}
  /\ conn_manager' = FALSE /\ conns' = 0
  /\ config' = NoConfig
  /\ UNCHANGED <<stateVars, socketVars, i, inits>>

CleanupDone(c) ==
  /\ At(c, "cleanup.done", "idle")
  /\ status' = "STOPPED"
  /\ resources_cleaned' = FALSE
  /\ UNCHANGED <<running, graceful_shutdown, moduleVars, socketVars, i, inits>>

(* Connections come while the message centre runs, and may end.            *)
ConnOpens ==
  /\ centre = "running" /\ conn_manager
  /\ conns' = conns + 1
  /\ UNCHANGED <<stateVars, config, centre, registered, conn_manager, socketVars,
                 pc, i, inits>>

ConnEnds ==
  /\ conns > 0
  /\ conns' = conns - 1
  /\ UNCHANGED <<stateVars, config, centre, registered, conn_manager, socketVars,
                 pc, i, inits>>

-------------------------------------------------------------------------------
CallerStep(c) ==
  \/ InitConfigFails(c) \/ InitSocket(c) \/ InitSocketFails(c) \/ Rollback(c)
  \/ InitError(c) \/ InitSocketsDone(c) \/ InitModules(c) \/ InitDone(c)
  \/ StartCentre(c) \/ StartError(c) \/ StartRegister(c) \/ StartDone(c)
  \/ StopFlag(c) \/ StopRemove(c) \/ StopClose(c) \/ PollAgain(c) \/ WaitDone(c)
  \/ CloseAll(c) \/ CloseWaitDone(c) \/ ResourcesCas(c) \/ ResourcesStop(c) \/ StopDone(c)
  \/ CleanupClose(c) \/ CleanupReset(c) \/ CleanupDone(c)

Next ==
  \/ \E c \in Callers :
       \/ \E cfg \in Configs : inits < MaxInits /\ InitBegin(c, cfg)
       \/ StartBegin(c)
       \/ StopCheck(c)
       \/ CleanupCall(c)
       \/ CallerStep(c)
  \/ conns < MaxConns /\ ConnOpens
  \/ ConnEnds

(* A caller inside MsgCenter::stop() of a centre that runs: called by      *)
(* cleanup_resources(), or by the destructor of a centre that init() or    *)
(* cleanup() replaces while it runs.  The call joins the worker threads,   *)
(* and a worker can miss the notification of WorkerPool::stop() and sleep  *)
(* on (StopReturns of WorkerPool is violated), so it may never return.     *)
InCentreStop(c) ==
  /\ pc[c] \in {"stop.centre", "cleanup.centre", "init.modules", "cleanup.reset"}
  /\ centre = "running"

(* A caller inside a method goes on, except inside MsgCenter::stop(), of   *)
(* which nothing is assumed.  Nobody has to call a method, and no          *)
(* connection has to end.                                                  *)
Fairness == \A c \in Callers : WF_vars(~InCentreStop(c) /\ CallerStep(c))

Spec == Init /\ [][Next]_vars

FairSpec == Spec /\ Fairness

-------------------------------------------------------------------------------
TypeOK ==
  /\ status \in Statuses
  /\ running \in BOOLEAN /\ graceful_shutdown \in BOOLEAN /\ resources_cleaned \in BOOLEAN
  /\ config \in Configs \cup {NoConfig}
  /\ centre \in {"null", "idle", "running"}
  /\ registered \subseteq Fds \X Nat
  /\ conn_manager \in BOOLEAN /\ conns \in Nat
  /\ listen_fds \in Seq(Fds) /\ listen_ports \in Seq(Nat)
  /\ socket \in [Fds -> Nat] /\ badClose \in BOOLEAN
  /\ pc \in [Callers -> Steps] /\ i \in [Callers -> Nat]
  /\ inits \in Nat

Quiet == \A c \in Callers : pc[c] = "idle"

(* Listening descriptors are accounted for: between calls the open ones    *)
(* are those listen_fds_ names, each once, so that no failure of init(),   *)
(* no shutdown and no cleanup leaks a socket; none is ever closed twice;   *)
(* and start() finds a port for each in listen_ports_ (a port, not always  *)
(* the socket's own: stop() leaves the old ports in front of the new).     *)
FdsAccounted ==
  /\ Quiet => Listed = Open /\ Cardinality(Listed) = Len(listen_fds)
  /\ ~badClose
  /\ Len(listen_fds) <= Len(listen_ports)

(* Between calls, RUNNING means that the message centre runs and watches   *)
(* every listening socket.                                                 *)
RunningServes ==
  Quiet /\ status = "RUNNING"
    => running /\ centre = "running" /\ Listed = {r[1] : r \in registered}

(* During a graceful shutdown the IoThreads watch no closed socket: each   *)
(* is removed before it is closed.  It is about stop() alone: cleanup()    *)
(* and the destructor, called while RUNNING, close what is still watched.  *)
NoClosedFdWatched ==
  status = "SHUTTING_DOWN" => \A r \in registered : r[1] \in Open

(* A graceful shutdown ends, also when connections never do, unless it     *)
(* hangs in msg_center_->stop(): its two waits for connections are bounded *)
(* and bring it to that call, and once the call returns the status does    *)
(* change.                                                                 *)
ShutdownFinishes ==
  (status = "SHUTTING_DOWN")
    ~> (status # "SHUTTING_DOWN" \/ \E c \in Callers : InCentreStop(c))

(* Between calls, STOPPED means that the message centre does not run and   *)
(* running_ is false: stop() stops the centre.                             *)
StoppedMeansStopped == Quiet /\ status = "STOPPED" => centre # "running" /\ ~running

===============================================================================
