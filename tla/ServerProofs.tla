----------------------------- MODULE ServerProofs -----------------------------
(***************************************************************************)
(* The server's sockets and its message centre through any sequence of     *)
(* calls of init(), start(), stop() and cleanup(), whatever fails in them, *)
(* for any configurations, time limits and number of connections, as long  *)
(* as the calls do not overlap (OneCaller).  Overlapping calls do break    *)
(* these properties: the methods let mutex_ go before they work.           *)
(*                                                                         *)
(* The open sockets are the listed ones, each listed once, except in the   *)
(* loop of stop_accepting(), where the ones before the loop index are      *)
(* closed already (Sockets).  What the IoThreads watch is what start() has *)
(* registered so far, and in the loop of stop_accepting() at most what is  *)
(* still to come (Watch).  Where the caller is says what status_ is        *)
(* (Phases).                                                               *)
(***************************************************************************)
EXTENDS Server, FiniteSetTheorems, SequenceTheorems, TLAPS

(* The calls do not overlap.                                               *)
OneCaller == \E c : Callers = {c}

InitSteps == {"init.sockets", "init.rollback", "init.error", "init.modules", "init.done"}
LoopSteps == {"stop.remove", "stop.close"}
AfterLoop == {"stop.wait", "stop.closeall", "stop.closewait", "stop.cas", "stop.centre",
              "stop.done"}
CleanupSteps == {"cleanup.close", "cleanup.cas", "cleanup.centre", "cleanup.reset",
                 "cleanup.done"}

(* The listed descriptors from place k on, and before place k.             *)
From(k) == {listen_fds[j] : j \in {n \in DOMAIN listen_fds : n >= k}}
Upto(k) == {listen_fds[j] : j \in {n \in DOMAIN listen_fds : n < k}}
Watched == {r[1] : r \in registered}

Distinct ==
  /\ \A j, k \in DOMAIN listen_fds : listen_fds[j] = listen_fds[k] => j = k
  /\ Len(listen_fds) <= Len(listen_ports)
  /\ ~badClose

Sockets ==
  \A c \in Callers :
    /\ pc[c] \notin LoopSteps => Open = Listed
    /\ pc[c] \in LoopSteps => Open = From(i[c])
    /\ pc[c] = "stop.close" => i[c] <= Len(listen_fds)

Watch ==
  /\ centre # "running" => registered = {}
  /\ \A c \in Callers :
       /\ pc[c] \in {"idle", "stop.flag"} /\ status = "RUNNING"
            => running /\ centre = "running" /\ Watched = Listed
       /\ pc[c] = "start.centre" => running /\ i[c] = 1
       /\ pc[c] = "start.register" => running /\ centre = "running" /\ Watched = Upto(i[c])
       /\ pc[c] = "stop.remove" => centre = "running" /\ Watched \subseteq From(i[c])
       /\ pc[c] = "stop.close" => centre = "running" /\ Watched \subseteq From(i[c] + 1)
       /\ pc[c] \in AfterLoop => registered = {}

Phases ==
  \A c \in Callers :
    /\ i[c] >= 1
    /\ pc[c] = "idle" => status \in {"STOPPED", "RUNNING"}
    /\ pc[c] \in InitSteps => status = "INITIALIZING" /\ config \in Configs
    /\ pc[c] \in {"start.centre", "start.error", "start.register", "stop.flag"}
         => status = "RUNNING"
    /\ pc[c] \in LoopSteps \cup AfterLoop <=> status = "SHUTTING_DOWN"

ServerInv == TypeOK /\ Distinct /\ Sockets /\ Watch /\ Phases

-------------------------------------------------------------------------------
(* What the loop index means at its ends.                                  *)
LEMMA FromEnds ==
  ASSUME listen_fds \in Seq(Fds)
  PROVE  /\ Upto(1) = {} /\ From(1) = Listed
         /\ \A k \in Nat : k > Len(listen_fds) => From(k) = {} /\ Upto(k) = Listed
<1>1. DOMAIN listen_fds = 1 .. Len(listen_fds) /\ Len(listen_fds) \in Nat
  BY LenProperties
<1>2. QED
  BY <1>1 DEF From, Upto, Listed

(* Descriptors listed once each are as many as the list is long.           *)
LEMMA ListedCount ==
  ASSUME listen_fds \in Seq(Fds), Distinct
  PROVE  Cardinality(Listed) = Len(listen_fds)
<1>1. DOMAIN listen_fds = 1 .. Len(listen_fds) /\ Len(listen_fds) \in Nat
  BY LenProperties
<1>2. /\ listen_fds \in [DOMAIN listen_fds -> Listed]
      /\ listen_fds \in Injection(DOMAIN listen_fds, Listed)
      /\ listen_fds \in Surjection(DOMAIN listen_fds, Listed)
  <2>1. listen_fds \in [DOMAIN listen_fds -> Listed]
    BY DEF Listed
  <2>2. QED
    BY <2>1 DEF Distinct, Listed, Injection, Surjection, IsInjective
<1>3. listen_fds \in Bijection(1 .. Len(listen_fds), Listed)
  BY <1>1, <1>2 DEF Bijection
<1>4. QED
  BY <1>1, <1>3, FS_CountingElements DEF ExistsBijection


LEMMA InitInv == Init => ServerInv
<1> SUFFICES ASSUME Init PROVE ServerInv
  OBVIOUS
<1>1. /\ listen_fds = <<>> /\ listen_ports = <<>> /\ <<>> \in Seq(Fds) /\ <<>> \in Seq(Nat)
      /\ Len(<<>>) = 0 /\ DOMAIN <<>> = {}
  BY EmptySeq DEF Init
<1>2. TypeOK
  <2>1. socket \in [Fds -> Nat] /\ i \in [Callers -> Nat] /\ conns \in Nat /\ inits \in Nat
    BY DEF Init, Closed
  <2>2. pc \in [Callers -> Steps] /\ status \in Statuses
    BY DEF Init, Steps, Statuses
  <2>3. QED
    BY <1>1, <2>1, <2>2 DEF Init, TypeOK
<1>3. Distinct
  BY <1>1 DEF Init, Distinct
<1>4. Open = {} /\ Listed = {}
  BY <1>1 DEF Init, Open, Listed
<1>5. Sockets
  BY <1>4 DEF Init, Sockets, LoopSteps
<1>6. Watch /\ Phases
  BY DEF Init, Watch, Phases, AfterLoop, InitSteps, LoopSteps
<1>7. QED
  BY <1>2, <1>3, <1>5, <1>6 DEF ServerInv

-------------------------------------------------------------------------------
(* A step that leaves every descriptor and the lists alone, outside the    *)
(* loop of stop_accepting().                                               *)
LEMMA SameSockets ==
  ASSUME ServerInv, NEW c, Callers = {c}, UNCHANGED socketVars,
         pc[c] \notin LoopSteps, pc'[c] \notin LoopSteps
  PROVE  Distinct' /\ Sockets' /\ Listed' = Listed /\ Open' = Open
<1>1. UNCHANGED <<listen_fds, listen_ports, socket, badClose>>
  BY DEF socketVars
<1>2. Listed' = Listed /\ Open' = Open /\ Distinct'
  BY <1>1 DEF ServerInv, Listed, Open, Distinct
<1>3. Open = Listed
  BY DEF ServerInv, Sockets
<1>4. QED
  BY <1>2, <1>3 DEF Sockets, LoopSteps

(* init(), apart from its sockets and its modules.                         *)
LEMMA InitStepsKeepInv ==
  ASSUME ServerInv, NEW c, Callers = {c},
         \/ \E cfg \in Configs : InitBegin(c, cfg)
         \/ InitConfigFails(c) \/ InitSocketFails(c) \/ InitError(c) \/ InitSocketsDone(c)
         \/ InitDone(c)
  PROVE  ServerInv'
<1> USE DEF ServerInv
<1>1. PICK to \in {"init.sockets", "init.error", "init.rollback", "cleanup.close",
                   "init.modules", "idle"} : pc' = [pc EXCEPT ![c] = to]
  BY DEF InitBegin, InitConfigFails, InitSocketFails, InitError, InitSocketsDone, InitDone, At
<1>2. /\ UNCHANGED <<running, graceful_shutdown, resources_cleaned, centre, registered,
                     conn_manager, conns, socketVars>>
      /\ pc[c] \in {"idle"} \cup InitSteps
      /\ config' \in Configs \cup {NoConfig} /\ status' \in Statuses
      /\ inits' \in Nat /\ i' \in [Callers -> Nat] /\ i'[c] >= 1
  <2>1. /\ inits \in Nat /\ i \in [Callers -> Nat] /\ config \in Configs \cup {NoConfig}
        /\ status \in Statuses /\ i[c] >= 1
    BY DEF TypeOK, Phases
  <2>2. QED
    BY <2>1 DEF InitBegin, InitConfigFails, InitSocketFails, InitError, InitSocketsDone,
              InitDone, At, InitSteps, Statuses, moduleVars, stateVars
<1>3. pc'[c] = to /\ pc' \in [Callers -> Steps]
  BY <1>1 DEF TypeOK, Steps
<1>4. Distinct' /\ Sockets' /\ Listed' = Listed /\ Open' = Open
  BY <1>2, <1>3, SameSockets DEF LoopSteps, InitSteps
<1>5. TypeOK'
  BY <1>2, <1>3 DEF TypeOK, socketVars
<1>6. /\ to \in InitSteps => status' = "INITIALIZING" /\ config' \in Configs
      /\ to = "idle" => status' = "STOPPED"
      /\ to = "cleanup.close" => status' = "ERROR"
      /\ status' # "SHUTTING_DOWN"
  <2>1. CASE \E cfg \in Configs : InitBegin(c, cfg)
    BY <2>1, <1>3 DEF InitBegin, At, TypeOK, InitSteps
  <2>2. CASE InitConfigFails(c) \/ InitSocketFails(c) \/ InitSocketsDone(c)
    <3>1. pc[c] \in InitSteps /\ UNCHANGED <<status, config>> /\ to \in InitSteps
      BY <2>2, <1>3 DEF InitConfigFails, InitSocketFails, InitSocketsDone, At, InitSteps,
                        stateVars, moduleVars, TypeOK
    <3>2. status = "INITIALIZING" /\ config \in Configs
      BY <3>1 DEF Phases
    <3>3. QED
      BY <3>1, <3>2 DEF InitSteps
  <2>3. CASE InitError(c)
    BY <2>3, <1>3 DEF InitError, At, TypeOK, InitSteps
  <2>4. CASE InitDone(c)
    BY <2>4, <1>3 DEF InitDone, At, TypeOK, InitSteps
  <2>5. QED
    BY <2>1, <2>2, <2>3, <2>4
<1>7. Phases'
  BY <1>2, <1>3, <1>6 DEF Phases, InitSteps, LoopSteps, AfterLoop
<1>8. Watch'
  BY <1>2, <1>3, <1>6 DEF Watch, AfterLoop
<1>9. QED
  BY <1>4, <1>5, <1>7, <1>8

(* The sockets of init(): the new descriptor was not open, so not listed.  *)
LEMMA InitSocketKeepsInv ==
  ASSUME ServerInv, NEW c, Callers = {c}, InitSocket(c)
  PROVE  ServerInv'
<1> USE DEF ServerInv
<1>1. PICK fd \in Fds \ Open :
        /\ socket' = [socket EXCEPT ![fd] = config[i[c]]]
        /\ listen_fds' = Append(listen_fds, fd)
        /\ listen_ports' = Append(listen_ports, config[i[c]])
  BY DEF InitSocket
<1>2. /\ pc[c] = "init.sockets" /\ i[c] <= Len(config) /\ i' = [i EXCEPT ![c] = @ + 1]
      /\ UNCHANGED <<stateVars, moduleVars, badClose, pc, inits>>
  BY DEF InitSocket
<1>3. /\ i \in [Callers -> Nat] /\ i[c] \in Nat /\ i[c] >= 1 /\ config \in Configs
      /\ listen_fds \in Seq(Fds) /\ listen_ports \in Seq(Nat) /\ socket \in [Fds -> Nat]
  BY <1>2 DEF TypeOK, Phases, InitSteps
<1>4. PICK port : port = config[i[c]]
  OBVIOUS
<1>5. port \in Nat /\ port # 0
  <2>1. config \in Seq(Nat \ {0})
    BY <1>3, ServerAssumption
  <2>2. i[c] \in 1 .. Len(config)
    BY <1>2, <1>3, <2>1, LenProperties
  <2>3. QED
    BY <1>4, <2>1, <2>2, ElementOfSeq
<1>6. PICK n \in Nat : n = Len(listen_fds)
  BY <1>3, LenProperties
<1>7. /\ listen_fds' \in Seq(Fds) /\ Len(listen_fds') = n + 1
      /\ DOMAIN listen_fds' = 1 .. n + 1 /\ listen_fds'[n + 1] = fd
      /\ \A j \in 1 .. n : listen_fds'[j] = listen_fds[j]
      /\ DOMAIN listen_fds = 1 .. n
  BY <1>1, <1>3, <1>6, AppendProperties, LenProperties
<1>8. listen_ports' \in Seq(Nat) /\ Len(listen_ports') = Len(listen_ports) + 1
  BY <1>1, <1>3, <1>4, <1>5, AppendProperties
<1>9. Listed' = Listed \cup {fd}
  BY <1>7 DEF Listed
<1>10. Open' = Open \cup {fd}
  BY <1>1, <1>3, <1>4, <1>5 DEF Open, Closed
<1>11. Open = Listed
  BY <1>2 DEF Sockets, LoopSteps
<1>12. \A j \in 1 .. n : listen_fds[j] # fd
  BY <1>1, <1>7, <1>11 DEF Listed
<1>13. Distinct'
  <2>1. \A j, k \in 1 .. n + 1 : listen_fds'[j] = listen_fds'[k] => j = k
    <3> SUFFICES ASSUME NEW j \in 1 .. n + 1, NEW k \in 1 .. n + 1,
                        listen_fds'[j] = listen_fds'[k]
                 PROVE  j = k
      OBVIOUS
    <3>1. CASE j \in 1 .. n /\ k \in 1 .. n
      BY <3>1, <1>7 DEF Distinct
    <3>2. CASE j = n + 1 /\ k \in 1 .. n
      BY <3>2, <1>7, <1>12
    <3>3. CASE j \in 1 .. n /\ k = n + 1
      BY <3>3, <1>7, <1>12
    <3>4. QED
      BY <3>1, <3>2, <3>3
  <2>2. n <= Len(listen_ports) /\ Len(listen_ports) \in Nat /\ ~badClose
    BY <1>3, <1>6, LenProperties DEF Distinct
  <2>3. Len(listen_fds') <= Len(listen_ports')
    BY <1>7, <1>8, <2>2
  <2>4. QED
    BY <1>2, <1>7, <2>1, <2>2, <2>3 DEF Distinct
<1>14. pc' = pc /\ UNCHANGED <<status, config, centre, registered>>
  BY <1>2 DEF stateVars, moduleVars
<1>15. Sockets'
  BY <1>2, <1>9, <1>10, <1>11, <1>14 DEF Sockets, LoopSteps
<1>16. socket' \in [Fds -> Nat] /\ i' \in [Callers -> Nat] /\ i'[c] >= 1
  BY <1>1, <1>2, <1>3, <1>4, <1>5
<1>17. TypeOK'
  BY <1>2, <1>7, <1>8, <1>16 DEF TypeOK, stateVars, moduleVars
<1>18. Phases'
  BY <1>14, <1>16 DEF Phases
<1>19. Watch'
  BY <1>2, <1>14 DEF Watch, AfterLoop
<1>20. QED
  BY <1>13, <1>15, <1>17, <1>18, <1>19

(* rollback_listen_sockets() and the first step of cleanup(): what is      *)
(* closed is open, and all that is open is closed.                         *)
LEMMA CloseListedKeepsInv ==
  ASSUME ServerInv, NEW c, Callers = {c}, Rollback(c) \/ CleanupClose(c)
  PROVE  ServerInv'
<1> USE DEF ServerInv
<1>1. PICK to \in {"init.error", "cleanup.cas"} :
        /\ pc' = [pc EXCEPT ![c] = to]
        /\ pc[c] = IF to = "init.error" THEN "init.rollback" ELSE "cleanup.close"
  BY DEF Rollback, CleanupClose, At
<1>2. /\ CloseListed /\ listen_fds' = <<>> /\ listen_ports' = <<>>
      /\ UNCHANGED <<status, running, graceful_shutdown, resources_cleaned, config, centre,
                     registered, conn_manager, conns, i, inits>>
  BY DEF Rollback, CleanupClose, stateVars, moduleVars
<1>3. pc'[c] = to /\ pc' \in [Callers -> Steps]
  BY <1>1 DEF TypeOK, Steps
<1>4. Open = Listed
  BY <1>1 DEF Sockets, LoopSteps
<1>5. Cardinality(Listed \cap Open) = Len(listen_fds)
  <2>1. Listed \cap Open = Listed
    BY <1>4
  <2>2. QED
    BY <2>1, ListedCount DEF TypeOK
<1>6. badClose' = FALSE
  BY <1>2, <1>5 DEF CloseListed, Distinct
<1>7. /\ <<>> \in Seq(Fds) /\ <<>> \in Seq(Nat) /\ Len(<<>>) = 0 /\ DOMAIN <<>> = {}
  BY EmptySeq
<1>8. Distinct'
  BY <1>2, <1>6, <1>7 DEF Distinct
<1>9. socket' \in [Fds -> Nat] /\ Open' = {}
  BY <1>2, <1>4 DEF CloseListed, TypeOK, Closed, Open
<1>10. Listed' = {}
  BY <1>2, <1>7 DEF Listed
<1>11. Sockets'
  BY <1>3, <1>9, <1>10 DEF Sockets, LoopSteps
<1>12. TypeOK'
  BY <1>2, <1>3, <1>6, <1>7, <1>9 DEF TypeOK
<1>13. Phases'
  BY <1>1, <1>2, <1>3 DEF Phases, InitSteps, LoopSteps, AfterLoop
<1>14. Watch'
  BY <1>2, <1>3 DEF Watch, AfterLoop
<1>15. QED
  BY <1>8, <1>11, <1>12, <1>13, <1>14

(* New modules, and modules dropped: nobody watches anything.              *)
LEMMA ModulesKeepInv ==
  ASSUME ServerInv, NEW c, Callers = {c}, InitModules(c) \/ CleanupReset(c)
  PROVE  ServerInv'
<1> USE DEF ServerInv
<1>1. PICK to \in {"init.done", "cleanup.done"} :
        /\ pc' = [pc EXCEPT ![c] = to]
        /\ pc[c] = IF to = "init.done" THEN "init.modules" ELSE "cleanup.reset"
        /\ to = "init.done" => config' = config
  BY DEF InitModules, CleanupReset, At
<1>2. /\ UNCHANGED <<status, running, graceful_shutdown, resources_cleaned, socketVars,
                     i, inits>>
      /\ registered' = {} /\ centre' \in {"null", "idle"} /\ conns' = 0
      /\ conn_manager' \in BOOLEAN /\ config' \in {config, NoConfig}
  BY DEF InitModules, CleanupReset, stateVars
<1>3. pc'[c] = to /\ pc' \in [Callers -> Steps]
  BY <1>1 DEF TypeOK, Steps
<1>4. Distinct' /\ Sockets'
  BY <1>1, <1>2, <1>3, SameSockets DEF LoopSteps
<1>5. TypeOK'
  BY <1>2, <1>3 DEF TypeOK, socketVars
<1>6. Phases'
  BY <1>1, <1>2, <1>3 DEF Phases, InitSteps, LoopSteps, AfterLoop
<1>7. Watch'
  BY <1>2, <1>3 DEF Watch, AfterLoop
<1>8. QED
  BY <1>4, <1>5, <1>6, <1>7

-------------------------------------------------------------------------------
(* start(): nothing is watched before it registers.                        *)
LEMMA StartKeepsInv ==
  ASSUME ServerInv, NEW c, Callers = {c},
         StartBegin(c) \/ StartCentre(c) \/ StartError(c) \/ StartDone(c)
  PROVE  ServerInv'
<1> USE DEF ServerInv
<1>0. /\ listen_fds \in Seq(Fds) /\ i \in [Callers -> Nat] /\ i[c] \in Nat /\ i[c] >= 1
      /\ pc \in [Callers -> Steps]
  BY DEF TypeOK, Phases
<1>1. /\ UNCHANGED <<graceful_shutdown, resources_cleaned, config, registered, conn_manager,
                     conns, socketVars, inits>>
      /\ i' \in [Callers -> Nat] /\ i'[c] >= 1
      /\ pc[c] \notin LoopSteps /\ pc'[c] \notin LoopSteps
      /\ pc' \in [Callers -> Steps]
  BY <1>0 DEF StartBegin, StartCentre, StartError, StartDone, At, stateVars, moduleVars, LoopSteps,
         Steps
<1>2. Distinct' /\ Sockets' /\ Listed' = Listed
  BY <1>1, SameSockets
<1>3. Watched' = Watched
  BY <1>1 DEF Watched
<1>4. CASE StartBegin(c)
  <2>1. /\ pc'[c] = "start.centre" /\ status' = "RUNNING" /\ running' = TRUE
        /\ UNCHANGED centre /\ i'[c] = 1
    BY <1>4, <1>0 DEF StartBegin, At, moduleVars
  <2>2. TypeOK'
    BY <1>1, <2>1 DEF TypeOK, socketVars, Statuses
  <2>3. Phases'
    BY <1>1, <2>1 DEF Phases, InitSteps, LoopSteps, AfterLoop
  <2>4. Watch'
    BY <1>1, <2>1 DEF Watch, AfterLoop
  <2>5. QED
    BY <1>2, <2>2, <2>3, <2>4
<1>5. CASE StartCentre(c)
  <2>1. /\ pc[c] = "start.centre" /\ UNCHANGED <<status, running, i>>
        /\ \/ pc'[c] = "start.register" /\ centre = "idle" /\ centre' = "running"
           \/ pc'[c] = "start.error" /\ UNCHANGED centre
    BY <1>5, <1>0 DEF StartCentre, At, stateVars
  <2>2. TypeOK'
    BY <1>1, <2>1 DEF TypeOK, socketVars
  <2>3. Phases'
    BY <1>1, <2>1 DEF Phases, InitSteps, LoopSteps, AfterLoop
  <2>4. CASE pc'[c] = "start.error" /\ UNCHANGED centre
    BY <1>1, <1>2, <2>1, <2>2, <2>3, <2>4 DEF Watch, AfterLoop
  <2>5. CASE pc'[c] = "start.register" /\ centre = "idle" /\ centre' = "running"
    <3>1. running /\ registered = {} /\ i[c] = 1
      BY <2>1, <2>5 DEF Watch
    <3>2. Upto(1)' = {}
      BY <1>0, <1>1, LenProperties DEF Upto, socketVars
    <3>3. Upto(i[c])' = {} /\ Watched' = {}
      BY <1>1, <2>1, <3>1, <3>2 DEF Watched
    <3>4. Watch'
      BY <1>1, <2>1, <2>5, <3>1, <3>3 DEF Watch, AfterLoop
    <3>5. QED
      BY <1>2, <2>2, <2>3, <3>4
  <2>6. QED
    BY <2>1, <2>4, <2>5
<1>6. CASE StartError(c)
  <2>1. /\ pc'[c] = "cleanup.close" /\ status' = "ERROR" /\ running' = FALSE
        /\ UNCHANGED centre
    BY <1>6, <1>0 DEF StartError, At, moduleVars
  <2>2. TypeOK'
    BY <1>1, <2>1 DEF TypeOK, socketVars, Statuses
  <2>3. Phases'
    BY <1>1, <2>1 DEF Phases, InitSteps, LoopSteps, AfterLoop
  <2>4. Watch'
    BY <1>1, <2>1 DEF Watch, AfterLoop
  <2>5. QED
    BY <1>2, <2>2, <2>3, <2>4
<1>7. CASE StartDone(c)
  <2>1. /\ pc[c] = "start.register" /\ pc'[c] = "idle" /\ i[c] > Len(listen_fds)
        /\ UNCHANGED <<status, running, centre, i>>
    BY <1>7, <1>0 DEF StartDone, At, moduleVars, stateVars
  <2>2. TypeOK'
    BY <1>1, <2>1 DEF TypeOK, socketVars
  <2>3. status = "RUNNING" /\ running /\ centre = "running" /\ Watched = Upto(i[c])
    BY <2>1 DEF Watch, Phases
  <2>4. Upto(i[c]) = Listed
    BY <1>0, <2>1, FromEnds
  <2>5. Phases'
    BY <1>1, <2>1, <2>3 DEF Phases, InitSteps, LoopSteps, AfterLoop
  <2>6. Watch'
    BY <1>1, <1>2, <1>3, <2>1, <2>3, <2>4 DEF Watch, AfterLoop
  <2>7. QED
    BY <1>2, <2>2, <2>5, <2>6
<1>8. QED
  BY <1>4, <1>5, <1>6, <1>7

(* add_listen_fd(): one more of the listed descriptors is watched.         *)
LEMMA RegisterKeepsInv ==
  ASSUME ServerInv, NEW c, Callers = {c}, StartRegister(c)
  PROVE  ServerInv'
<1> USE DEF ServerInv
<1>0. /\ listen_fds \in Seq(Fds) /\ listen_ports \in Seq(Nat)
      /\ i \in [Callers -> Nat] /\ i[c] \in Nat /\ i[c] >= 1
  BY DEF TypeOK, Phases
<1>1. /\ pc[c] = "start.register" /\ i[c] <= Len(listen_fds)
      /\ registered' = registered \cup {<<listen_fds[i[c]], listen_ports[i[c]]>>}
      /\ i' = [i EXCEPT ![c] = @ + 1]
      /\ UNCHANGED <<status, running, graceful_shutdown, resources_cleaned, config, centre,
                     conn_manager, conns, socketVars, pc, inits>>
  BY DEF StartRegister, stateVars
<1>2. Distinct' /\ Sockets'
  BY <1>1, SameSockets DEF LoopSteps
<1>3. PICK k \in Nat : k = i[c]
  BY <1>0
<1>4. /\ k >= 1 /\ k \in DOMAIN listen_fds /\ k \in DOMAIN listen_ports
      /\ Len(listen_fds) \in Nat /\ DOMAIN listen_fds = 1 .. Len(listen_fds)
  BY <1>0, <1>1, <1>3, LenProperties DEF Distinct
<1>5. listen_fds[k] \in Fds /\ listen_ports[k] \in Nat
  BY <1>0, <1>4, ElementOfSeq, LenProperties
<1>6. i'[c] = k + 1 /\ i' \in [Callers -> Nat] /\ i'[c] >= 1
  BY <1>0, <1>1, <1>3
<1>7. TypeOK'
  BY <1>1, <1>3, <1>5, <1>6 DEF TypeOK, socketVars
<1>8. Phases'
  BY <1>1, <1>6 DEF Phases
<1>9. running /\ centre = "running" /\ Watched = Upto(k)
  BY <1>1, <1>3 DEF Watch
<1>10. Watched' = Watched \cup {listen_fds[k]}
  <2>1. PICK f, q : f = listen_fds[k] /\ q = listen_ports[k]
    OBVIOUS
  <2>2. registered' = registered \cup {<<f, q>>} /\ <<f, q>>[1] = f
    BY <1>1, <1>3, <2>1
  <2>3. QED
    BY <2>1, <2>2 DEF Watched
<1>11. Upto(k + 1) = Upto(k) \cup {listen_fds[k]}
  BY <1>4 DEF Upto
<1>12. Upto(i[c])' = Upto(k + 1)
  BY <1>1, <1>6 DEF Upto, socketVars
<1>13. Watch'
  BY <1>1, <1>9, <1>10, <1>11, <1>12 DEF Watch, AfterLoop
<1>14. QED
  BY <1>2, <1>7, <1>8, <1>13

-------------------------------------------------------------------------------
(* stop() finds the server running: everything listed is open and watched. *)
LEMMA StopBeginKeepsInv ==
  ASSUME ServerInv, NEW c, Callers = {c}, StopCheck(c) \/ StopFlag(c)
  PROVE  ServerInv'
<1> USE DEF ServerInv
<1>0. /\ listen_fds \in Seq(Fds) /\ i \in [Callers -> Nat] /\ i[c] \in Nat /\ i[c] >= 1
      /\ pc \in [Callers -> Steps]
  BY DEF TypeOK, Phases
<1>1. UNCHANGED <<running, resources_cleaned, config, centre, registered, conn_manager, conns,
                  socketVars, inits>>
  BY DEF StopCheck, StopFlag, stateVars, moduleVars
<1>2. pc[c] \in {"idle", "stop.flag"} /\ status = "RUNNING"
  BY DEF StopCheck, StopFlag, At, Phases
<1>3. /\ running /\ centre = "running" /\ Watched = Listed /\ Open = Listed
  BY <1>2 DEF Watch, Sockets, LoopSteps
<1>4. /\ Watched' = Watched /\ Listed' = Listed /\ Open' = Open
      /\ \A k \in Nat : From(k)' = From(k)
      /\ Distinct'
  BY <1>1 DEF Watched, Listed, Open, From, Distinct, socketVars
<1>5. CASE StopCheck(c)
  <2>1. pc'[c] = "stop.flag" /\ pc' \in [Callers -> Steps] /\ UNCHANGED <<status, graceful_shutdown, i>>
    BY <1>5, <1>0 DEF StopCheck, At, stateVars, Steps
  <2>2. TypeOK'
    BY <1>1, <2>1 DEF TypeOK, socketVars
  <2>3. Sockets'
    BY <1>3, <1>4, <2>1 DEF Sockets, LoopSteps
  <2>4. Phases'
    BY <1>0, <1>2, <2>1 DEF Phases, InitSteps, LoopSteps, AfterLoop
  <2>5. Watch'
    BY <1>1, <1>3, <1>4, <2>1 DEF Watch, AfterLoop
  <2>6. QED
    BY <1>4, <2>2, <2>3, <2>4, <2>5
<1>6. CASE StopFlag(c)
  <2>1. /\ pc'[c] = "stop.remove" /\ pc' \in [Callers -> Steps]
        /\ status' = "SHUTTING_DOWN" /\ graceful_shutdown' = TRUE
        /\ i'[c] = 1 /\ i' \in [Callers -> Nat]
    BY <1>6, <1>0 DEF StopFlag, At, Steps
  <2>2. TypeOK'
    BY <1>1, <2>1 DEF TypeOK, socketVars, Statuses
  <2>3. From(1) = Listed
    BY <1>0, FromEnds
  <2>4. From(i[c])' = Listed
    BY <1>1, <2>1, <2>3 DEF From, socketVars
  <2>5. Sockets'
    BY <1>3, <1>4, <2>1, <2>4 DEF Sockets, LoopSteps
  <2>6. Phases'
    BY <2>1 DEF Phases, InitSteps, LoopSteps, AfterLoop
  <2>7. Watch'
    BY <1>1, <1>3, <1>4, <2>1, <2>4 DEF Watch, AfterLoop
  <2>8. QED
    BY <1>4, <2>2, <2>5, <2>6, <2>7
<1>7. QED
  BY <1>5, <1>6

(* The rest of the list without its first place.                           *)
LEMMA FromNext ==
  ASSUME listen_fds \in Seq(Fds), Distinct, NEW k \in Nat, k >= 1, k <= Len(listen_fds)
  PROVE  From(k + 1) = From(k) \ {listen_fds[k]} /\ listen_fds[k] \in From(k)
<1>1. DOMAIN listen_fds = 1 .. Len(listen_fds) /\ Len(listen_fds) \in Nat
  BY LenProperties
<1>2. k \in DOMAIN listen_fds
  BY <1>1
<1>3. \A j \in DOMAIN listen_fds : listen_fds[j] = listen_fds[k] => j = k
  BY <1>2 DEF Distinct
<1>4. QED
  BY <1>1, <1>2, <1>3 DEF From

(* remove_listen_fd() of the next socket, or the end of the loop: all are  *)
(* closed and none is watched.                                             *)
LEMMA RemoveKeepsInv ==
  ASSUME ServerInv, NEW c, Callers = {c}, StopRemove(c)
  PROVE  ServerInv'
<1> USE DEF ServerInv
<1>0. /\ listen_fds \in Seq(Fds) /\ i \in [Callers -> Nat] /\ i[c] \in Nat /\ i[c] >= 1
      /\ pc \in [Callers -> Steps] /\ registered \subseteq Fds \X Nat
      /\ Len(listen_fds) \in Nat
  BY LenProperties DEF TypeOK, Phases
<1>1. /\ UNCHANGED <<status, running, graceful_shutdown, resources_cleaned, config, centre,
                     conn_manager, conns, listen_ports, socket, badClose, inits>>
      /\ pc[c] = "stop.remove"
  BY DEF StopRemove, At, stateVars
<1>2. /\ centre = "running" /\ Watched \subseteq From(i[c]) /\ Open = From(i[c])
      /\ status = "SHUTTING_DOWN"
  BY <1>1 DEF Watch, Sockets, Phases, LoopSteps
<1>3. Open' = Open
  BY <1>1 DEF Open
<1>4. CASE /\ At(c, "stop.remove", "stop.close") /\ i[c] <= Len(listen_fds)
           /\ registered' = {r \in registered : r[1] # listen_fds[i[c]]}
           /\ UNCHANGED <<listen_fds, i>>
  <2>1. pc'[c] = "stop.close" /\ pc' \in [Callers -> Steps]
    BY <1>4, <1>0 DEF At, Steps
  <2>2. TypeOK'
    BY <1>0, <1>1, <1>4, <2>1 DEF TypeOK
  <2>3. Distinct'
    BY <1>1, <1>4 DEF Distinct
  <2>4. /\ From(i[c])' = From(i[c]) /\ From(i[c] + 1)' = From(i[c] + 1)
    BY <1>4 DEF From
  <2>5. Sockets'
    BY <1>2, <1>3, <1>4, <2>1, <2>4 DEF Sockets, LoopSteps
  <2>6. From(i[c] + 1) = From(i[c]) \ {listen_fds[i[c]]}
    BY <1>0, <1>4, FromNext
  <2>7. Watched' = Watched \ {listen_fds[i[c]]}
    BY <1>4 DEF Watched
  <2>8. Watched' \subseteq From(i[c] + 1)'
    BY <1>2, <2>4, <2>6, <2>7
  <2>9. Watch'
    BY <1>1, <1>2, <2>1, <2>8 DEF Watch, AfterLoop
  <2>10. Phases'
    BY <1>0, <1>1, <1>2, <1>4, <2>1 DEF Phases, InitSteps, LoopSteps, AfterLoop
  <2>11. QED
    BY <2>2, <2>3, <2>5, <2>9, <2>10
<1>5. CASE /\ At(c, "stop.remove", "stop.wait") /\ i[c] > Len(listen_fds)
           /\ listen_fds' = <<>> /\ i' = [i EXCEPT ![c] = 1] /\ UNCHANGED registered
  <2>1. pc'[c] = "stop.wait" /\ pc' \in [Callers -> Steps]
    BY <1>5, <1>0 DEF At, Steps
  <2>2. /\ <<>> \in Seq(Fds) /\ Len(<<>>) = 0 /\ DOMAIN <<>> = {}
        /\ i' \in [Callers -> Nat] /\ i'[c] = 1
    BY <1>0, <1>5, EmptySeq
  <2>3. TypeOK'
    BY <1>1, <1>5, <2>1, <2>2 DEF TypeOK
  <2>4. Len(listen_ports) \in Nat
    BY LenProperties DEF TypeOK
  <2>5. Distinct'
    BY <1>1, <1>5, <2>2, <2>4 DEF Distinct
  <2>6. From(i[c]) = {}
    BY <1>0, <1>5, FromEnds
  <2>7. Open' = {} /\ Listed' = {} /\ registered' = {}
    <3>1. Watched = {} /\ Open = {}
      BY <1>2, <2>6
    <3>2. registered = {}
      BY <3>1 DEF Watched
    <3>3. Listed' = {}
      BY <1>5, <2>2 DEF Listed
    <3>4. QED
      BY <1>3, <1>5, <3>1, <3>2, <3>3
  <2>8. Sockets'
    BY <2>1, <2>7 DEF Sockets, LoopSteps
  <2>9. Watch'
    BY <2>1, <2>7 DEF Watch
  <2>10. Phases'
    BY <1>1, <1>2, <2>1, <2>2 DEF Phases, InitSteps, LoopSteps, AfterLoop
  <2>11. QED
    BY <2>3, <2>5, <2>8, <2>9, <2>10
<1>6. QED
  BY <1>2, <1>4, <1>5 DEF StopRemove

(* close() of a socket that is open and no longer watched.                 *)
LEMMA CloseKeepsInv ==
  ASSUME ServerInv, NEW c, Callers = {c}, StopClose(c)
  PROVE  ServerInv'
<1> USE DEF ServerInv
<1>0. /\ listen_fds \in Seq(Fds) /\ i \in [Callers -> Nat] /\ i[c] \in Nat /\ i[c] >= 1
      /\ pc \in [Callers -> Steps] /\ socket \in [Fds -> Nat]
  BY DEF TypeOK, Phases
<1>1. /\ pc[c] = "stop.close" /\ pc' = [pc EXCEPT ![c] = "stop.remove"]
      /\ i' = [i EXCEPT ![c] = @ + 1]
      /\ UNCHANGED <<status, running, graceful_shutdown, resources_cleaned, config, centre,
                     registered, conn_manager, conns, listen_fds, listen_ports, inits>>
  BY DEF StopClose, At, stateVars, moduleVars
<1>2. /\ centre = "running" /\ Watched \subseteq From(i[c] + 1) /\ Open = From(i[c])
      /\ i[c] <= Len(listen_fds) /\ status = "SHUTTING_DOWN"
  BY <1>1 DEF Watch, Sockets, Phases, LoopSteps
<1>3. PICK k \in Nat : k = i[c]
  BY <1>0
<1>4. PICK fd : fd = listen_fds[k]
  OBVIOUS
<1>5. /\ socket' = [socket EXCEPT ![fd] = Closed]
      /\ badClose' = (badClose \/ socket[fd] = Closed)
  BY <1>2, <1>3, <1>4 DEF StopClose
<1>6. From(k + 1) = From(k) \ {fd} /\ fd \in From(k)
  BY <1>0, <1>2, <1>3, <1>4, FromNext
<1>7. fd \in Open /\ fd \in Fds
  BY <1>2, <1>3, <1>6 DEF Open
<1>8. badClose' = FALSE
  BY <1>5, <1>7 DEF Open, Distinct
<1>9. socket' \in [Fds -> Nat] /\ Open' = Open \ {fd}
  BY <1>0, <1>5, <1>7 DEF Open, Closed
<1>10. /\ i'[c] = k + 1 /\ i' \in [Callers -> Nat]
       /\ pc'[c] = "stop.remove" /\ pc' \in [Callers -> Steps]
  BY <1>0, <1>1, <1>3 DEF Steps
<1>11. TypeOK'
  BY <1>1, <1>8, <1>9, <1>10 DEF TypeOK
<1>12. Distinct'
  BY <1>1, <1>8 DEF Distinct
<1>13. From(i[c])' = From(k + 1)
  BY <1>1, <1>10 DEF From
<1>14. Open' = From(i[c])'
  BY <1>2, <1>3, <1>6, <1>9, <1>13
<1>15. Sockets'
  BY <1>10, <1>14 DEF Sockets, LoopSteps
<1>16. Watched' \subseteq From(i[c])'
  BY <1>1, <1>2, <1>3, <1>13 DEF Watched
<1>17. Watch'
  BY <1>1, <1>2, <1>10, <1>16 DEF Watch, AfterLoop
<1>18. Phases'
  BY <1>1, <1>2, <1>10 DEF Phases, InitSteps, LoopSteps, AfterLoop
<1>19. QED
  BY <1>11, <1>12, <1>15, <1>17, <1>18

(* The rest of stop(): nothing is listed, open or watched any more.        *)
LEMMA StopEndKeepsInv ==
  ASSUME ServerInv, NEW c, Callers = {c},
         PollAgain(c) \/ WaitDone(c) \/ CloseAll(c) \/ CloseWaitDone(c) \/ StopDone(c)
  PROVE  ServerInv'
<1> USE DEF ServerInv
<1>0. /\ i \in [Callers -> Nat] /\ i[c] \in Nat /\ i[c] >= 1
      /\ pc \in [Callers -> Steps] /\ conns \in Nat
  BY DEF TypeOK, Phases
<1>1. /\ UNCHANGED <<running, graceful_shutdown, resources_cleaned, config, centre, registered,
                     conn_manager, socketVars, inits>>
      /\ conns' \in Nat
      /\ pc[c] \in AfterLoop
  BY <1>0 DEF PollAgain, WaitDone, CloseAll, CloseWaitDone, StopDone, At, stateVars, moduleVars,
              AfterLoop
<1>2. /\ i' \in [Callers -> Nat] /\ i'[c] >= 1
  BY <1>0 DEF PollAgain, WaitDone, CloseAll, CloseWaitDone, StopDone
<1>3. /\ pc' \in [Callers -> Steps]
      /\ \/ pc'[c] \in AfterLoop /\ UNCHANGED status
         \/ pc'[c] = "idle" /\ status' = "STOPPED"
  BY <1>0, <1>1 DEF PollAgain, WaitDone, CloseAll, CloseWaitDone, StopDone, At, AfterLoop, Steps,
              stateVars
<1>4. Distinct' /\ Sockets'
  BY <1>1, <1>3, SameSockets DEF AfterLoop, LoopSteps
<1>5. TypeOK'
  BY <1>1, <1>2, <1>3 DEF TypeOK, Statuses, socketVars
<1>6. registered = {} /\ status = "SHUTTING_DOWN"
  BY <1>1 DEF Watch, Phases
<1>7. Phases'
  BY <1>2, <1>3, <1>6 DEF Phases, InitSteps, LoopSteps, AfterLoop
<1>8. Watch'
  BY <1>1, <1>3, <1>6 DEF Watch, AfterLoop
<1>9. QED
  BY <1>4, <1>5, <1>7, <1>8

(* cleanup_resources(), and the other steps of cleanup().                  *)
LEMMA CleanupKeepsInv ==
  ASSUME ServerInv, NEW c, Callers = {c},
         ResourcesCas(c) \/ ResourcesStop(c) \/ CleanupCall(c) \/ CleanupDone(c)
  PROVE  ServerInv'
<1> USE DEF ServerInv
<1>0. /\ i \in [Callers -> Nat] /\ i[c] \in Nat /\ i[c] >= 1
      /\ pc \in [Callers -> Steps] /\ centre \in {"null", "idle", "running"}
  BY DEF TypeOK, Phases
<1>1. /\ UNCHANGED <<config, conn_manager, conns, socketVars, i, inits>>
      /\ running' \in BOOLEAN /\ graceful_shutdown' \in BOOLEAN /\ resources_cleaned' \in BOOLEAN
      /\ \/ UNCHANGED <<centre, registered>>
         \/ centre' \in {"null", "idle"} /\ registered' = {}
  BY <1>0 DEF ResourcesCas, ResourcesStop, CleanupCall, CleanupDone, stateVars, moduleVars, TypeOK
<1>2. /\ pc' \in [Callers -> Steps]
      /\ \/ pc[c] \in AfterLoop /\ pc'[c] \in AfterLoop /\ UNCHANGED status
         \/ pc[c] \in {"idle"} \cup CleanupSteps /\ pc'[c] \in CleanupSteps /\ UNCHANGED status
         \/ pc[c] \in CleanupSteps /\ pc'[c] = "idle" /\ status' = "STOPPED"
  BY <1>0 DEF ResourcesCas, ResourcesStop, CleanupCall, CleanupDone, At, AfterLoop, Steps,
              CleanupSteps, stateVars
<1>3. Distinct' /\ Sockets'
  BY <1>1, <1>2, SameSockets DEF AfterLoop, LoopSteps, CleanupSteps
<1>4. TypeOK'
  <2>1. registered' \subseteq Fds \X Nat /\ centre' \in {"null", "idle", "running"}
    BY <1>1 DEF TypeOK
  <2>2. status' \in Statuses
    BY <1>2 DEF TypeOK, Statuses
  <2>3. QED
    BY <1>1, <1>2, <2>1, <2>2 DEF TypeOK, socketVars
<1>5. Phases'
  BY <1>0, <1>1, <1>2 DEF Phases, InitSteps, LoopSteps, AfterLoop, CleanupSteps
<1>6. Watch'
  BY <1>1, <1>2 DEF Watch, AfterLoop, CleanupSteps
<1>7. QED
  BY <1>3, <1>4, <1>5, <1>6

(* Connections come and go without touching the sockets that listen.       *)
LEMMA ConnsKeepInv ==
  ASSUME ServerInv, ConnOpens \/ ConnEnds \/ UNCHANGED vars
  PROVE  ServerInv'
<1> USE DEF ServerInv
<1>1. /\ UNCHANGED <<status, running, graceful_shutdown, resources_cleaned, config, centre,
                     registered, conn_manager, listen_fds, listen_ports, socket, badClose,
                     pc, i, inits>>
      /\ conns' \in Nat
  BY DEF ConnOpens, ConnEnds, vars, stateVars, moduleVars, socketVars, TypeOK
<1>2. TypeOK' /\ Distinct' /\ Phases'
  BY <1>1 DEF TypeOK, Distinct, Phases
<1>3. Sockets' /\ Watch'
  <2>1. /\ Open' = Open /\ Listed' = Listed /\ Watched' = Watched
        /\ \A c \in Callers : /\ From(i[c])' = From(i[c])
                              /\ From(i[c] + 1)' = From(i[c] + 1)
                              /\ Upto(i[c])' = Upto(i[c])
    BY <1>1 DEF Open, Listed, Watched, From, Upto
  <2>2. Sockets'
    BY <1>1, <2>1 DEF Sockets
  <2>3. Watch'
    BY <1>1, <2>1 DEF Watch
  <2>4. QED
    BY <2>2, <2>3
<1>4. QED
  BY <1>2, <1>3

-------------------------------------------------------------------------------
(* Every step keeps the invariant.                                         *)
LEMMA NextInv == OneCaller /\ ServerInv /\ [Next]_vars => ServerInv'
<1> SUFFICES ASSUME OneCaller, ServerInv, [Next]_vars PROVE ServerInv'
  OBVIOUS
<1>1. PICK c : Callers = {c}
  BY DEF OneCaller
<1>2. CASE \/ \E cfg \in Configs : InitBegin(c, cfg)
           \/ StartBegin(c) \/ StopCheck(c) \/ CleanupCall(c) \/ CallerStep(c)
  BY <1>1, <1>2, InitStepsKeepInv, InitSocketKeepsInv, CloseListedKeepsInv, ModulesKeepInv,
     StartKeepsInv, RegisterKeepsInv, StopBeginKeepsInv, RemoveKeepsInv, CloseKeepsInv,
     StopEndKeepsInv, CleanupKeepsInv DEF CallerStep
<1>3. CASE ConnOpens \/ ConnEnds \/ UNCHANGED vars
  BY <1>3, ConnsKeepInv
<1>4. QED
  BY <1>1, <1>2, <1>3 DEF Next

(* The inductive invariant, for calls that do not overlap.                 *)
THEOREM ServerInvariant == ASSUME OneCaller PROVE Spec => []ServerInv
<1>1. ServerInv /\ [Next]_vars => ServerInv'
  BY NextInv
<1>2. QED
  BY <1>1, InitInv, PTL DEF Spec

(* Every variable keeps its type; in particular i never leaves the vectors *)
(* it indexes and listen_fds_ holds descriptors only.                      *)
THEOREM ServerTypeCorrect == ASSUME OneCaller PROVE Spec => []TypeOK
<1>1. ServerInv => TypeOK
  BY DEF ServerInv
<1>2. QED
  BY <1>1, ServerInvariant, PTL

(* Between calls the open listening sockets are the listed ones, each      *)
(* once; none is closed twice, and each has a port, whichever step of      *)
(* init() or start() failed and however often the methods were called.     *)
THEOREM DescriptorsAccounted == ASSUME OneCaller PROVE Spec => []FdsAccounted
<1>1. ServerInv => FdsAccounted
  <2> SUFFICES ASSUME ServerInv PROVE FdsAccounted
    OBVIOUS
  <2>1. ~badClose /\ Len(listen_fds) <= Len(listen_ports)
    BY DEF ServerInv, Distinct
  <2>2. Cardinality(Listed) = Len(listen_fds)
    BY ListedCount DEF ServerInv, TypeOK
  <2>3. Quiet => Listed = Open
    BY DEF ServerInv, Sockets, Quiet, OneCaller, LoopSteps
  <2>4. QED
    BY <2>1, <2>2, <2>3 DEF FdsAccounted
<1>2. QED
  BY <1>1, ServerInvariant, PTL

(* Between calls a server that says RUNNING runs its message centre and    *)
(* watches every socket it listens on.                                     *)
THEOREM RunningServerServes == ASSUME OneCaller PROVE Spec => []RunningServes
<1>1. ServerInv => RunningServes
  BY DEF ServerInv, Watch, Watched, RunningServes, Quiet, OneCaller
<1>2. QED
  BY <1>1, ServerInvariant, PTL

(* A graceful shutdown never leaves a closed socket with the IoThreads,    *)
(* for any number of sockets.                                              *)
THEOREM ShutdownWatchesOpen == ASSUME OneCaller PROVE Spec => []NoClosedFdWatched
<1>1. ServerInv => NoClosedFdWatched
  <2> SUFFICES ASSUME ServerInv, status = "SHUTTING_DOWN", NEW r \in registered
               PROVE  r[1] \in Open
    BY DEF NoClosedFdWatched
  <2>1. PICK c : Callers = {c}
    BY DEF OneCaller
  <2>2. pc[c] \in LoopSteps \cup AfterLoop
    BY <2>1 DEF ServerInv, Phases
  <2>3. r[1] \in Watched /\ registered # {}
    BY DEF Watched
  <2>4. pc[c] \in LoopSteps
    BY <2>1, <2>2, <2>3 DEF ServerInv, Watch
  <2>5. Open = From(i[c]) /\ i[c] \in Nat
    BY <2>1, <2>4 DEF ServerInv, Sockets, TypeOK
  <2>6. From(i[c] + 1) \subseteq From(i[c])
    <3>1. DOMAIN listen_fds \subseteq Nat
      BY LenProperties DEF ServerInv, TypeOK
    <3>2. QED
      BY <2>5, <3>1 DEF From
  <2>7. Watched \subseteq From(i[c])
    BY <2>1, <2>4, <2>6 DEF ServerInv, Watch, LoopSteps
  <2>8. QED
    BY <2>3, <2>5, <2>7
<1>2. QED
  BY <1>1, ServerInvariant, PTL

===============================================================================
