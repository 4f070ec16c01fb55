------------------------------- MODULE IoThread -------------------------------
(***************************************************************************)
(* One I/O thread of the message centre (msg_center/source/io_thread.cpp): *)
(* the tables of listening and connection descriptors under fd_mutex_, the *)
(* pipe that wakes the thread, and the kqueue loop that registers every    *)
(* descriptor again before it waits and turns what the kernel reports into *)
(* events.  Where kqueue is missing, and on Linux and Windows, the thread  *)
(* only sleeps until it is stopped ("degraded").                           *)
(*                                                                         *)
(* Ctl is the thread that calls start() and stop() (MsgCenter), Callers    *)
(* are threads that add and remove descriptors.  The kernel gives a        *)
(* descriptor number out again once it is closed; sockets therefore have   *)
(* identities of their own, which double as the conn_id of a connection.   *)
(* Nothing is said of how the kernel orders or repeats what it reports.    *)
(***************************************************************************)
EXTENDS Integers, Sequences, FiniteSetsExt, Functions

CONSTANTS Callers,     \* threads that call add_*_fd() and remove_fd()
          Fds,         \* descriptor numbers
          MaxSockets,  \* bound: sockets opened in a behaviour
          MaxBatch,    \* kMaxEvents, 64 in the code
          MaxStarts,   \* bound: start() calls
          MaxCalls     \* bound: add_*_fd() and remove_fd() calls

ASSUME IoAssumption ==
  /\ Fds \subseteq Nat /\ IsFiniteSet(Fds)
  /\ MaxSockets \in Nat /\ MaxBatch \in Nat \ {0}
  /\ MaxStarts \in Nat /\ MaxCalls \in Nat

NoFd == -1
NoOne == "no one"
NoFile == 0
Sockets == 1..MaxSockets
PipeRead == MaxSockets + 1
PipeWrite == MaxSockets + 2

VARIABLES
  running,        \* running_
  wakeup_fd,      \* wakeup_fd_: the write end of the pipe
  wakeup_read_fd, \* wakeup_read_fd_
  kq,             \* kq_fd_ # -1
  listeners,      \* the keys of listen_fd_to_port_, which are also listen_fds_
  conns,          \* fd_to_conn_id_, whose keys are also conn_fds_
  fd_mutex,       \* who holds fd_mutex_
  io,             \* where the I/O thread is
  batch,          \* eventlist: kernel events still to be handled
  ctl,            \* where Ctl is in start() or stop()
  ctlWake,        \* the descriptor Ctl's wake_up() has read
  pc,             \* where each caller is
  wake,           \* the descriptor a caller's wake_up() has read
  file,           \* kernel: what each descriptor number stands for
  watched,        \* kernel: the <<fd, filter>> pairs registered with kq
  signalled,      \* kernel: there is a byte in the pipe
  sockets,        \* sockets opened so far
  owned,          \* history: the sockets added and not removed since
  posted,         \* history: what handling the last kernel event pushed
  starts, calls   \* start() and table calls so far

memberVars == <<running, wakeup_fd, wakeup_read_fd, kq, listeners, conns, fd_mutex>>
kernelVars == <<file, watched, signalled, sockets>>
callVars   == <<pc, wake, owned, calls>>
ctlVars    == <<ctl, ctlWake, starts>>
vars == <<memberVars, io, batch, ctlVars, callVars, kernelVars, posted>>

NoEvent == [type |-> "none", fd |-> NoFd, conn |-> NoFile]

Init ==
  /\ running = FALSE
  /\ wakeup_fd = NoFd /\ wakeup_read_fd = NoFd /\ kq = FALSE
  /\ listeners = {} /\ conns = <<>>
  /\ fd_mutex = NoOne
  /\ io = "none" /\ batch = <<>>
  /\ ctl = "idle" /\ ctlWake = NoFd
  /\ pc = [c \in Callers |-> "idle"] /\ wake = [c \in Callers |-> NoFd]
  /\ file = [fd \in Fds |-> NoFile]
  /\ watched = {} /\ signalled = FALSE /\ sockets = 0
  /\ owned = {} /\ posted = NoEvent
  /\ starts = 0 /\ calls = 0

-------------------------------------------------------------------------------
(* The kernel: descriptor numbers and what write() does to them.           *)

\* close(fd): the number is free again and the kernel forgets its filters.
CloseFiles(fds) ==
  /\ file' = [fd \in Fds |-> IF fd \in fds THEN NoFile ELSE file[fd]]
  /\ watched' = {w \in watched : w[1] \notin fds}

FreeFds == {fd \in Fds : file[fd] = NoFile}

\* socket() or accept() in some other thread: the lowest free number.
OpenSocket ==
  /\ sockets < MaxSockets
  /\ FreeFds # {}
  /\ file' = [file EXCEPT ![Min(FreeFds)] = sockets + 1]
  /\ sockets' = sockets + 1
  /\ UNCHANGED <<memberVars, io, batch, ctlVars, callVars, watched, signalled,
                 posted>>

\* Some thread closes a descriptor that is not, or no longer, in the tables.
CloseSocket ==
  /\ \E fd \in Fds : file[fd] \in Sockets \ owned /\ CloseFiles({fd})
  /\ UNCHANGED <<memberVars, io, batch, ctlVars, callVars, signalled, sockets,
                 posted>>

File(fd) == IF fd = NoFd THEN NoFile ELSE file[fd]
HasReader == \E fd \in Fds : file[fd] = PipeRead

\* wake_up() writes one byte to the descriptor it has read, if there is one.
\* Errors are ignored, and so is what else the number may stand for by now.
WriteByte(fd) ==
  signalled' = (signalled \/ (File(fd) = PipeWrite /\ HasReader))

-------------------------------------------------------------------------------
(* start() and stop().                                                     *)

Start ==
  /\ ctl = "idle" /\ ~running
  /\ starts < MaxStarts
  /\ starts' = starts + 1
  /\ running' = TRUE
  /\ io' = "setup"
  /\ UNCHANGED <<wakeup_fd, wakeup_read_fd, kq, listeners, conns, fd_mutex, batch,
                 ctl, ctlWake, callVars, kernelVars, posted>>

Stop ==
  /\ ctl = "idle" /\ running
  /\ running' = FALSE
  /\ ctl' = "stopped"
  /\ UNCHANGED <<wakeup_fd, wakeup_read_fd, kq, listeners, conns, fd_mutex, io, batch,
                 ctlWake, starts, callVars, kernelVars, posted>>

\* fd_mutex_ taken for the wake-up and kept while the thread is joined.
StopReadsWakeFdLocked ==
  /\ ctl = "stopped" /\ fd_mutex = NoOne
  /\ fd_mutex' = "stop"
  /\ ctlWake' = wakeup_fd
  /\ ctl' = "waking"
  /\ UNCHANGED <<running, wakeup_fd, wakeup_read_fd, kq, listeners, conns, io, batch,
                 starts, callVars, kernelVars, posted>>

\* wake_up() reads wakeup_fd_, without fd_mutex_ here ...
StopReadsWakeFd ==
  /\ ctl = "stopped"
  /\ ctlWake' = wakeup_fd
  /\ ctl' = "waking"
  /\ UNCHANGED <<memberVars, io, batch, starts, callVars, kernelVars, posted>>

\* ... and writes to it.
StopWakes ==
  /\ ctl = "waking"
  /\ WriteByte(ctlWake)
  /\ ctlWake' = NoFd
  /\ ctl' = "joining"
  /\ UNCHANGED <<memberVars, io, batch, starts, callVars, file, watched, sockets, posted>>

StopJoins ==
  /\ ctl = "joining" /\ io = "done"
  /\ io' = "none"
  /\ ctl' = "idle"
  /\ UNCHANGED <<memberVars, batch, ctlWake, starts, callVars, kernelVars, posted>>

-------------------------------------------------------------------------------
(* add_listen_fd(), add_conn_fd(), remove_fd(): fd_mutex_ is held until    *)
(* wake_up() has returned.                                                 *)

\* fd_mutex_ is taken, a table is changed and wake_up() reads wakeup_fd_.
Locked(c) ==
  /\ pc[c] = "idle" /\ fd_mutex = NoOne /\ calls < MaxCalls
  /\ calls' = calls + 1
  /\ fd_mutex' = c
  /\ wake' = [wake EXCEPT ![c] = wakeup_fd]
  /\ pc' = [pc EXCEPT ![c] = "waking"]
  /\ UNCHANGED <<running, wakeup_fd, wakeup_read_fd, kq, io, batch, ctlVars, kernelVars,
                 posted>>

\* A caller adds a socket that is open and not in use here.
Addable == {fd \in Fds : file[fd] \in Sockets \ owned}

AddListenFd(c) ==
  /\ \E fd \in Addable :
       /\ listeners' = listeners \cup {fd}
       /\ owned' = owned \cup {file[fd]}
  /\ UNCHANGED conns
  /\ Locked(c)

AddConnFd(c) ==
  /\ \E fd \in Addable :
       /\ conns' = [f \in DOMAIN conns \cup {fd} |-> IF f = fd THEN file[fd] ELSE conns[f]]
       /\ owned' = owned \cup {file[fd]}
  /\ UNCHANGED listeners
  /\ Locked(c)

\* Only the vector is cleaned up, the entry of fd_to_conn_id_ stays.
RemoveFdKeepingId(c) ==
  /\ \E fd \in Fds :
       /\ file[fd] \in owned
       /\ listeners' = listeners \ {fd}
       /\ owned' = owned \ {file[fd]}
  /\ UNCHANGED conns
  /\ Locked(c)

RemoveFd(c) ==
  /\ \E fd \in Fds :
       /\ file[fd] \in owned
       /\ listeners' = listeners \ {fd}
       /\ conns' = Restrict(conns, DOMAIN conns \ {fd})
       /\ owned' = owned \ {file[fd]}
  /\ Locked(c)

CallerWakes(c) ==
  /\ pc[c] = "waking"
  /\ WriteByte(wake[c])
  /\ wake' = [wake EXCEPT ![c] = NoFd]
  /\ pc' = [pc EXCEPT ![c] = "idle"]
  /\ fd_mutex' = NoOne
  /\ UNCHANGED <<running, wakeup_fd, wakeup_read_fd, kq, listeners, conns, io, batch,
                 ctlVars, owned, calls, file, watched, sockets, posted>>

-------------------------------------------------------------------------------
(* event_loop_mac(): setting up.  Whatever fails, the thread gives back    *)
(* what it has and sleeps until running_ is cleared, as do the loops for   *)
(* Linux and Windows, which are stubs.                                     *)

IoUnchanged == UNCHANGED <<running, listeners, conns, fd_mutex, ctlVars, callVars, sockets>>

SetupKq ==
  /\ io = "setup"
  /\ \/ kq' = TRUE /\ io' = "pipe"
     \/ io' = "degraded" /\ UNCHANGED kq
  /\ UNCHANGED <<wakeup_fd, wakeup_read_fd, batch, file, watched, signalled, posted>>
  /\ IoUnchanged

SetupPipe ==
  /\ io = "pipe"
  /\ \/ /\ Cardinality(FreeFds) > 1
        /\ wakeup_read_fd' = Min(FreeFds)
        /\ wakeup_fd' = Min(FreeFds \ {wakeup_read_fd'})
        /\ file' = [file EXCEPT ![wakeup_read_fd'] = PipeRead, ![wakeup_fd'] = PipeWrite]
        /\ signalled' = FALSE
        /\ io' = "watch"
        /\ UNCHANGED kq
     \/ /\ kq' = FALSE /\ io' = "degraded"
        /\ UNCHANGED <<file, wakeup_fd, wakeup_read_fd, signalled>>
  /\ UNCHANGED <<batch, watched, posted>>
  /\ IoUnchanged

SetupWatch ==
  /\ io = "watch"
  /\ watched' = watched \cup {<<wakeup_read_fd, "read">>}
  /\ io' = "top"
  /\ UNCHANGED <<wakeup_fd, wakeup_read_fd, kq, batch, file, signalled, posted>>
  /\ IoUnchanged

\* The write end is forgotten.
WatchFailsHalf ==
  /\ io = "watch"
  /\ CloseFiles({wakeup_read_fd})
  /\ io' = "failed"
  /\ UNCHANGED <<wakeup_fd, wakeup_read_fd, kq, batch, signalled, posted>>
  /\ IoUnchanged

\* kevent() refuses the pipe: three close() calls, then three stores.
WatchFails ==
  /\ io = "watch"
  /\ CloseFiles({wakeup_read_fd, wakeup_fd})
  /\ io' = "failed"
  /\ UNCHANGED <<wakeup_fd, wakeup_read_fd, kq, batch, signalled, posted>>
  /\ IoUnchanged

WatchFailed ==
  /\ io = "failed"
  /\ wakeup_read_fd' = NoFd /\ wakeup_fd' = NoFd /\ kq' = FALSE
  /\ watched' = {}
  /\ io' = "degraded"
  /\ UNCHANGED <<batch, file, signalled, posted>>
  /\ IoUnchanged

SleepUntilStopped ==
  /\ io = "degraded" /\ ~running
  /\ io' = "done"
  /\ UNCHANGED <<wakeup_fd, wakeup_read_fd, kq, batch, file, watched, signalled, posted>>
  /\ IoUnchanged

-------------------------------------------------------------------------------
(* event_loop_mac(): the loop.                                             *)

LoopTop ==
  /\ io = "top"
  /\ io' = IF running THEN "register" ELSE "closeRead"
  /\ posted' = NoEvent
  /\ UNCHANGED <<wakeup_fd, wakeup_read_fd, kq, batch, file, watched, signalled>>
  /\ IoUnchanged

\* Descriptors are registered when the loop starts, and not again.
RegisterOnce ==
  /\ io = "register" /\ fd_mutex = NoOne
  /\ watched' = IF watched # {<<wakeup_read_fd, "read">>} THEN watched
                ELSE watched \cup {<<fd, "read">> : fd \in listeners \cup DOMAIN conns}
                             \cup {<<fd, "write">> : fd \in DOMAIN conns}
  /\ io' = "wait"
  /\ UNCHANGED <<wakeup_fd, wakeup_read_fd, kq, batch, file, signalled, posted>>
  /\ IoUnchanged

\* Under fd_mutex_ every descriptor of the tables is registered (again).
Register ==
  /\ io = "register" /\ fd_mutex = NoOne
  /\ watched' = watched \cup {<<fd, "read">> : fd \in listeners \cup DOMAIN conns}
                        \cup {<<fd, "write">> : fd \in DOMAIN conns}
  /\ io' = "wait"
  /\ UNCHANGED <<wakeup_fd, wakeup_read_fd, kq, batch, file, signalled, posted>>
  /\ IoUnchanged

\* The filters kevent() may report: those it still has, the one of the pipe
\* only when there is something in it.
Reports == {w \in watched : w[1] = wakeup_read_fd => signalled}

\* kevent() returned events, each filter at most once.
WaitReports ==
  /\ io = "wait"
  /\ \E k \in 1..MaxBatch : \E events \in [1..k -> Reports] :
       /\ IsInjective(events)
       /\ batch' = events
  /\ io' = "handle"
  /\ UNCHANGED <<wakeup_fd, wakeup_read_fd, kq, file, watched, signalled, posted>>
  /\ IoUnchanged

\* kevent() timed out after 100 ms, was interrupted or failed.
WaitEnds ==
  /\ io = "wait"
  /\ io' = "top"
  /\ UNCHANGED <<wakeup_fd, wakeup_read_fd, kq, batch, file, watched, signalled, posted>>
  /\ IoUnchanged

Pushed(type, fd, conn) == [type |-> type, fd |-> fd, conn |-> conn]

\* What a kernel event becomes, by the tables as they are under fd_mutex_;
\* the flags came with it and may be EV_ERROR, EV_EOF or neither.
EventFor(fd, filter, flags) ==
  CASE flags = "none" /\ filter = "read" /\ fd \in listeners -> Pushed("ACCEPT", fd, NoFile)
    [] flags = "eof" /\ fd \in DOMAIN conns -> Pushed("ERROR", fd, conns[fd])
    [] flags = "none" /\ fd \in DOMAIN conns /\ (filter = "read" => fd \notin listeners) ->
         Pushed(IF filter = "read" THEN "READ" ELSE "WRITE", fd, conns[fd])
    [] OTHER -> NoEvent

AfterEvent ==
  /\ batch' = Tail(batch)
  /\ io' = IF Len(batch) = 1 THEN "top" ELSE "handle"

DrainPipe ==
  /\ io = "handle" /\ Head(batch)[1] = wakeup_read_fd
  /\ signalled' = FALSE
  /\ posted' = NoEvent
  /\ AfterEvent
  /\ UNCHANGED <<wakeup_fd, wakeup_read_fd, kq, file, watched>>
  /\ IoUnchanged

HandleEvent ==
  /\ io = "handle" /\ Head(batch)[1] # wakeup_read_fd
  /\ \E flags \in {"error", "eof", "none"} :
       /\ flags # "error" => fd_mutex = NoOne
       /\ posted' = EventFor(Head(batch)[1], Head(batch)[2], flags)
  /\ AfterEvent
  /\ UNCHANGED <<wakeup_fd, wakeup_read_fd, kq, file, watched, signalled>>
  /\ IoUnchanged

\* After the loop: each close() is followed by the store of -1.
CloseRead ==
  /\ io = "closeRead"
  /\ CloseFiles({wakeup_read_fd})
  /\ wakeup_read_fd' = NoFd
  /\ io' = "closeWrite"
  /\ UNCHANGED <<wakeup_fd, kq, batch, signalled, posted>>
  /\ IoUnchanged

CloseWrite ==
  /\ io = "closeWrite"
  /\ CloseFiles({wakeup_fd})
  /\ io' = "clearWrite"
  /\ UNCHANGED <<wakeup_fd, wakeup_read_fd, kq, batch, signalled, posted>>
  /\ IoUnchanged

CloseKq ==
  /\ io = "clearWrite"
  /\ wakeup_fd' = NoFd
  /\ kq' = FALSE /\ watched' = {}
  /\ io' = "done"
  /\ UNCHANGED <<wakeup_read_fd, batch, file, signalled, posted>>
  /\ IoUnchanged

-------------------------------------------------------------------------------

Kernel == OpenSocket \/ CloseSocket
Ctl == Start \/ Stop \/ StopReadsWakeFd \/ StopWakes \/ StopJoins
Caller(c) == AddListenFd(c) \/ AddConnFd(c) \/ RemoveFd(c) \/ CallerWakes(c)
Setup == SetupKq \/ SetupPipe \/ SetupWatch \/ WatchFails \/ WatchFailed \/ SleepUntilStopped
Loop == LoopTop \/ Register \/ WaitReports \/ WaitEnds \/ DrainPipe \/ HandleEvent
Cleanup == CloseRead \/ CloseWrite \/ CloseKq
Io == Setup \/ Loop \/ Cleanup

Next == Kernel \/ Ctl \/ Io \/ \E c \in Callers : Caller(c)

(* The I/O thread keeps running: kevent() returns after 100 ms at the      *)
(* latest and sleeps end.  A thread inside stop() or wake_up() goes on.    *)
Fairness ==
  /\ WF_vars(Io)
  /\ WF_vars(StopReadsWakeFd \/ StopWakes \/ StopJoins)
  /\ \A c \in Callers : WF_vars(CallerWakes(c))

Spec == Init /\ [][Next]_vars /\ Fairness

-------------------------------------------------------------------------------
(* Properties.                                                             *)

TypeOK ==
  /\ running \in BOOLEAN /\ kq \in BOOLEAN
  /\ {wakeup_fd, wakeup_read_fd} \subseteq Fds \cup {NoFd}
  /\ listeners \subseteq Fds
  /\ DOMAIN conns \subseteq Fds /\ Range(conns) \subseteq Sockets
  /\ fd_mutex \in Callers \cup {NoOne}
  /\ io \in {"none", "setup", "pipe", "watch", "failed", "degraded", "top", "register",
             "wait", "handle", "closeRead", "closeWrite", "clearWrite", "done"}
  /\ Len(batch) <= MaxBatch
  /\ file \in [Fds -> 0..PipeWrite]
  /\ watched \subseteq Fds \X {"read", "write"}

(* Once remove_fd() has returned nothing is pushed for the connection any  *)
(* more: a kernel event may have been fetched before the removal, stem     *)
(* from a filter that was never deleted, and name a number the kernel has  *)
(* given to another socket since; what is pushed always names a socket     *)
(* that is registered now, under the number it has now.                    *)
NoEventAfterRemove ==
  [][Len(batch') < Len(batch) /\ posted' # NoEvent =>
       /\ file[posted'.fd] \in owned
       /\ posted'.type # "ACCEPT" => posted'.conn = file[posted'.fd]]_vars

(* The descriptors of the thread come back: after each way out of the loop *)
(* and each failed step of its setup no pipe end and no kqueue is left     *)
(* open, and no member still holds a number that is no longer its own.     *)
DescriptorsReturned ==
  io \in {"done", "none", "degraded"} =>
    /\ \A fd \in Fds : file[fd] \in Sockets \cup {NoFile}
    /\ ~kq /\ watched = {}
    /\ wakeup_fd = NoFd /\ wakeup_read_fd = NoFd

(* stop() returns: the wake-up may be lost, because wakeup_fd_ is still or *)
(* again -1, and the thread may be blocked on fd_mutex_ or in the middle   *)
(* of a batch, but it always comes back to look at running_.               *)
StopReturns == ctl = "stopped" ~> ctl = "idle"

(* A descriptor that is added while the loop runs is watched by the kernel *)
(* sooner or later, unless it is removed or the thread is stopped first.   *)
AddedIsWatched ==
  \A fd \in Fds :
    (fd \in DOMAIN conns /\ io = "top") ~>
      (<<fd, "write">> \in watched \/ fd \notin DOMAIN conns \/ ~running)

(* Not true of the code: wakeup_fd_ is closed and reset by the I/O thread  *)
(* without fd_mutex_, so a wake-up byte can go into whatever has got the   *)
(* number meanwhile, or into a pipe without a reader, which is a SIGPIPE.  *)
Harmless(fd) == File(fd) = NoFile \/ (File(fd) = PipeWrite /\ HasReader)
WakeUpStaysInPipe ==
  /\ ctl = "waking" => Harmless(ctlWake)
  /\ \A c \in Callers : pc[c] = "waking" => Harmless(wake[c])

===============================================================================
