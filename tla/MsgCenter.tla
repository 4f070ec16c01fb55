------------------------------- MODULE MsgCenter -------------------------------
(***************************************************************************)
(* The message centre (msg_center/source/msg_center.cpp, event_loop.cpp):  *)
(* one EventQueue, one EventLoop thread that drains it, one WorkerPool and *)
(* the IoThreads, created by start() and destroyed by stop().              *)
(*                                                                         *)
(* The queue and the pool are the modules EventQueue and WorkerPool, whose *)
(* actions are used here as they stand.  Nobody calls the blocking pop()   *)
(* of the queue, pop_all(), wake_up() or close(), so the variables those   *)
(* methods own keep their initial values.                                  *)
(*                                                                         *)
(* stop() may be called by several threads at any time; a start() does not *)
(* overlap another start() or a stop() that found the centre running.      *)
(***************************************************************************)
EXTENDS Naturals, Sequences, FiniteSets

CONSTANTS Workers, IoThreads,   \* worker_thread_count_, io_thread_count_
          Callers,              \* threads that call start() and stop()
          Posters,              \* threads that call post_event(), post_callback_task()
          PriorityCount, MaxSize,
          MaxEvents,            \* bound: events pushed in one life of the queue
          MaxTasks,             \* bound: tasks accepted in one life of the pool
          MaxLives              \* bound: start() calls

SHUTDOWN == 0
CALLBACK_DONE == PriorityCount - 1
OtherTypes == 1 .. PriorityCount - 1   \* what callers and IoThreads post
NoCaller == "no caller"

VARIABLES
  running, post_mutex,        \* running_, holder of post_mutex_
  alive,                      \* event_queue_, event_loop_, worker_pool_ not null
  mpc,                        \* where each caller is in start() or stop()
  outcome,                    \* how the last start() or stop() ended
  lives,                      \* start() calls that created the objects
  (* EventLoop *)
  loop_running, started,      \* running_, started_
  lpc,                        \* where event_loop_thread_ is in run()
  (* IoThreads *)
  io_running, io_live,        \* running_ flags, threads not joined
  (* posters *)
  held,                       \* life of the pool whose pointer a poster has read
  dangling,                   \* history: a destroyed pool was used
  (* EventQueue *)
  priority_queues, size_, queue_closed, batch, closing, pc, shutdownSeen,
  pushed, popped, nextId,
  (* WorkerPool *)
  post_callback_done,
  pool_running, pool_closed, task_queue, mutex, ctl, wpc, task, notifying,
  accepted, acceptedAtStop, executed, starts, spurious

EQ == INSTANCE EventQueue WITH
        Consumers <- {}, MaxPushes <- MaxEvents, MaxBatch <- 0, MaxClosers <- 0

WP == INSTANCE WorkerPool WITH
        MaxStarts <- 1, MaxSpurious <- 0,
        running <- pool_running, queue_closed <- pool_closed

(* SHUTDOWN and CALLBACK_DONE are two of the priorities.                   *)
ASSUME CentreAssumption ==
  /\ Workers # {} /\ WP!NoOne \notin Workers
  /\ NoCaller \notin Callers
  /\ PriorityCount \in Nat /\ PriorityCount > 1 /\ MaxSize \in Nat
  /\ MaxEvents \in Nat /\ MaxTasks \in Nat /\ MaxLives \in Nat

queueVars == <<priority_queues, size_, queue_closed, batch, closing, pc, shutdownSeen,
               pushed, popped, nextId>>
poolVars == <<pool_running, pool_closed, task_queue, mutex, ctl, wpc, task, notifying,
              accepted, acceptedAtStop, executed, starts, spurious>>
loopVars == <<loop_running, started, lpc>>
ioVars == <<io_running, io_live>>
postVars == <<held, dangling>>
centreVars == <<running, post_mutex, alive, mpc, outcome, lives>>
vars == <<centreVars, loopVars, ioVars, postVars, queueVars, post_callback_done, poolVars>>

StartSteps == {"pool", "threads", "started?", "enable", "run"}
TeardownSteps == {"pool.stop", "pool.join", "loop.flag", "loop.shutdown", "loop.join",
                  "io", "reset"}
LoopSteps == {"none", "enter", "announce", "top", "pop"}

Init ==
  /\ running = FALSE /\ post_mutex = NoCaller /\ alive = FALSE
  /\ mpc = [c \in Callers |-> "idle"]
  /\ outcome = "none" /\ lives = 0
  /\ loop_running = FALSE /\ started = FALSE /\ lpc = "none"
  /\ io_running = {} /\ io_live = {}
  /\ held = [p \in Posters |-> 0] /\ dangling = FALSE
  /\ EQ!Init
  /\ post_callback_done = FALSE
  /\ WP!Init

At(c, from, to) == mpc[c] = from /\ mpc' = [mpc EXCEPT ![c] = to]

-------------------------------------------------------------------------------
(* start(): refused when running; otherwise new objects.  A start() after  *)
(* a failed one would assign to a joinable std::thread (std::terminate).   *)
StartCreate(c) ==
  /\ \A d \in Callers : mpc[d] = "idle"
  /\ ~running /\ outcome # "failed"
  /\ At(c, "idle", "pool")
  /\ alive' = TRUE
  /\ lives' = lives + 1
  /\ loop_running' = FALSE /\ started' = FALSE
  /\ priority_queues' = [p \in EQ!Priorities |-> <<>>]
  /\ pushed' = [p \in EQ!Priorities |-> <<>>]
  /\ popped' = [p \in EQ!Priorities |-> <<>>]
  /\ size_' = 0 /\ nextId' = 1
  /\ queue_closed' = FALSE /\ batch' = 0 /\ closing' = 0
  /\ pc' = [c2 \in {} |-> "idle"] /\ shutdownSeen' = {}
  /\ post_callback_done' = FALSE
  /\ pool_running' = FALSE /\ pool_closed' = FALSE /\ task_queue' = <<>>
  /\ mutex' = WP!NoOne /\ ctl' = "idle"
  /\ wpc' = [w \in Workers |-> "none"] /\ task' = [w \in Workers |-> WP!NoTask]
  /\ notifying' = {} /\ accepted' = 0 /\ acceptedAtStop' = 0 /\ executed' = {}
  /\ starts' = 0 /\ spurious' = 0
  /\ UNCHANGED <<running, post_mutex, outcome, lpc, ioVars, postVars>>

(* worker_pool_->start().                                                  *)
StartPool(c) ==
  /\ \/ mpc[c] = "pool" /\ starts = 0 /\ WP!StartRunning /\ UNCHANGED mpc
     \/ mpc[c] = "pool" /\ WP!StartOpen /\ UNCHANGED mpc
     \/ At(c, "pool", "threads") /\ WP!StartSpawn
  /\ UNCHANGED <<running, post_mutex, alive, outcome, lives,
                 loopVars, ioVars, postVars, queueVars, post_callback_done>>

(* The IoThreads, then event_loop_thread_.                                 *)
StartThreads(c) ==
  /\ At(c, "threads", "started?")
  /\ io_running' = IoThreads /\ io_live' = IoThreads
  /\ lpc' = "enter"
  /\ UNCHANGED <<running, post_mutex, alive, outcome, lives, loop_running, started,
                 postVars, queueVars, post_callback_done, poolVars>>

(* wait_for_started(1000) sees started_ ...                                *)
StartSeen(c) ==
  /\ At(c, "started?", "enable")
  /\ started
  /\ UNCHANGED <<running, post_mutex, alive, outcome, lives,
                 loopVars, ioVars, postVars, queueVars, post_callback_done, poolVars>>

(* ... or times out; stop() then finds running_ false and does nothing.    *)
StartTimeout(c) ==
  /\ At(c, "started?", "idle")
  /\ ~started
  /\ outcome' = "failed"
  /\ UNCHANGED <<running, post_mutex, alive, lives,
                 loopVars, ioVars, postVars, queueVars, post_callback_done, poolVars>>

StartEnable(c) ==
  /\ At(c, "enable", "run")
  /\ post_callback_done' = TRUE
  /\ UNCHANGED <<running, post_mutex, alive, outcome, lives,
                 loopVars, ioVars, postVars, queueVars, poolVars>>

StartRun(c) ==
  /\ At(c, "run", "idle")
  /\ running' = TRUE
  /\ outcome' = "started"
  /\ UNCHANGED <<post_mutex, alive, lives,
                 loopVars, ioVars, postVars, queueVars, post_callback_done, poolVars>>

-------------------------------------------------------------------------------
(* stop(): returns at once when not running.                               *)
StopCall(c) ==
  /\ running
  /\ At(c, "idle", "lock")
  /\ UNCHANGED <<running, post_mutex, alive, outcome, lives,
                 loopVars, ioVars, postVars, queueVars, post_callback_done, poolVars>>

(* stop() that leaves running_ to its last line.                           *)
StopLockLate(c) ==
  /\ post_mutex = NoCaller
  /\ IF alive THEN /\ At(c, "lock", "pool.stop") /\ post_mutex' = c /\ UNCHANGED outcome
              ELSE /\ At(c, "lock", "idle") /\ outcome' = "stopped" /\ UNCHANGED post_mutex
  /\ UNCHANGED <<running, alive, lives,
                 loopVars, ioVars, postVars, queueVars, post_callback_done, poolVars>>

(* post_mutex_, held to the end.  A second stop() that gets it finds every *)
(* pointer null, the loop thread joined and no IoThread: nothing to do.    *)
StopLock(c) ==
  /\ post_mutex = NoCaller
  /\ running' = FALSE
  /\ IF alive THEN /\ At(c, "lock", "pool.stop") /\ post_mutex' = c /\ UNCHANGED outcome
              ELSE /\ At(c, "lock", "idle") /\ outcome' = "stopped" /\ UNCHANGED post_mutex
  /\ UNCHANGED <<alive, lives,
                 loopVars, ioVars, postVars, queueVars, post_callback_done, poolVars>>

(* worker_pool_->stop().                                                   *)
StopPool(c) ==
  /\ \/ At(c, "pool.stop", "pool.join") /\ WP!StopRunning
     \/ mpc[c] = "pool.join" /\ (WP!StopClose \/ WP!StopNotify) /\ UNCHANGED mpc
     \/ At(c, "pool.join", "loop.flag") /\ WP!StopJoin
  /\ UNCHANGED <<running, post_mutex, alive, outcome, lives,
                 loopVars, ioVars, postVars, queueVars, post_callback_done>>

(* event_loop_->stop(): the flag, then SHUTDOWN, which a full queue        *)
(* refuses.                                                                *)
StopLoopFlag(c) ==
  /\ At(c, "loop.flag", "loop.shutdown")
  /\ loop_running' = FALSE
  /\ UNCHANGED <<running, post_mutex, alive, outcome, lives, started, lpc,
                 ioVars, postVars, queueVars, post_callback_done, poolVars>>

StopLoopShutdown(c) ==
  /\ At(c, "loop.shutdown", "loop.join")
  /\ EQ!Push(SHUTDOWN)
  /\ UNCHANGED <<running, post_mutex, alive, outcome, lives,
                 loopVars, ioVars, postVars, post_callback_done, poolVars>>

(* stop() that does not wait for the event loop.                           *)
StopLoopDetach(c) ==
  /\ At(c, "loop.join", "io")
  /\ UNCHANGED <<running, post_mutex, alive, outcome, lives,
                 loopVars, ioVars, postVars, queueVars, post_callback_done, poolVars>>

StopLoopJoin(c) ==
  /\ At(c, "loop.join", "io")
  /\ lpc = "none"
  /\ UNCHANGED <<running, post_mutex, alive, outcome, lives,
                 loopVars, ioVars, postVars, queueVars, post_callback_done, poolVars>>

(* Each IoThread in turn: clear its flag, wake it, join it.                *)
StopIo(c) ==
  /\ mpc[c] = "io"
  /\ io_running = io_live
  /\ \/ \E t \in io_running : io_running' = io_running \ {t} /\ UNCHANGED mpc
     \/ io_running = {} /\ At(c, "io", "reset") /\ UNCHANGED io_running
  /\ UNCHANGED <<running, post_mutex, alive, outcome, lives, io_live,
                 loopVars, postVars, queueVars, post_callback_done, poolVars>>

(* The three resets, and the end of the lock.  A poster still inside       *)
(* post_task() is left with a destroyed pool.                              *)
StopReset(c) ==
  /\ At(c, "reset", "idle")
  /\ alive' = FALSE
  /\ post_mutex' = NoCaller
  /\ outcome' = "stopped"
  /\ dangling' = (dangling \/ notifying # {})
  /\ UNCHANGED <<running, lives, held,
                 loopVars, ioVars, queueVars, post_callback_done, poolVars>>

-------------------------------------------------------------------------------
(* EventLoop::run().                                                       *)
LoopEnter ==
  /\ lpc = "enter" /\ lpc' = "announce"
  /\ loop_running' = TRUE
  /\ UNCHANGED <<centreVars, started, ioVars, postVars, queueVars,
                 post_callback_done, poolVars>>

LoopAnnounce ==
  /\ lpc = "announce" /\ lpc' = "top"
  /\ started' = TRUE
  /\ UNCHANGED <<centreVars, loop_running, ioVars, postVars, queueVars,
                 post_callback_done, poolVars>>

(* A loop that relies on the SHUTDOWN event alone.                         *)
LoopTopUnchecked ==
  /\ lpc = "top" /\ lpc' = "pop"
  /\ UNCHANGED <<centreVars, loop_running, started, ioVars, postVars, queueVars,
                 post_callback_done, poolVars>>

LoopTop ==
  /\ lpc = "top"
  /\ lpc' = IF loop_running THEN "pop" ELSE "none"
  /\ UNCHANGED <<centreVars, loop_running, started, ioVars, postVars, queueVars,
                 post_callback_done, poolVars>>

(* A loop that exits when the queue is empty.                              *)
LoopPopOnce ==
  /\ lpc = "pop"
  /\ \/ /\ EQ!AllEmpty
        /\ lpc' = "none"
        /\ UNCHANGED <<loop_running, queueVars>>
     \/ \E p \in EQ!Priorities :
          /\ EQ!TryPop(p)
          /\ lpc' = IF p = SHUTDOWN THEN "none" ELSE "top"
          /\ loop_running' = (loop_running /\ p # SHUTDOWN)
  /\ UNCHANGED <<centreVars, started, ioVars, postVars, post_callback_done, poolVars>>

(* try_pop(): nothing (then sleep), SHUTDOWN (leave), or an event, whose   *)
(* handler runs before the next iteration.                                 *)
LoopPop ==
  /\ lpc = "pop"
  /\ \/ /\ EQ!AllEmpty
        /\ lpc' = "top"
        /\ UNCHANGED <<loop_running, queueVars>>
     \/ \E p \in EQ!Priorities :
          /\ EQ!TryPop(p)
          /\ lpc' = IF p = SHUTDOWN THEN "none" ELSE "top"
          /\ loop_running' = (loop_running /\ p # SHUTDOWN)
  /\ UNCHANGED <<centreVars, started, ioVars, postVars, post_callback_done, poolVars>>

LoopStep == LoopEnter \/ LoopAnnounce \/ LoopTop \/ LoopPop

-------------------------------------------------------------------------------
(* An IoThread that reports a ready socket, and one told to stop.          *)
IoPush(t, type) ==
  /\ t \in io_live
  /\ EQ!Push(type)
  /\ UNCHANGED <<centreVars, loopVars, ioVars, postVars, post_callback_done, poolVars>>

IoExit(t) ==
  /\ t \in io_live \ io_running
  /\ io_live' = io_live \ {t}
  /\ UNCHANGED <<centreVars, loopVars, io_running, postVars, queueVars,
                 post_callback_done, poolVars>>

(* worker_thread(); after a task, CALLBACK_DONE if enabled.                *)
WorkerStep(w) ==
  /\ \/ WP!Check(w) \/ WP!Block(w) \/ WP!TakeTask(w) \/ WP!Exit(w) \/ WP!RunTask(w)
  /\ UNCHANGED <<centreVars, loopVars, ioVars, postVars, queueVars, post_callback_done>>

WorkerPost(w) ==
  /\ WP!PostCallbackDone(w)
  /\ IF post_callback_done THEN EQ!Push(CALLBACK_DONE) ELSE UNCHANGED queueVars
  /\ UNCHANGED <<centreVars, loopVars, ioVars, postVars, post_callback_done>>

(* post_event(): the lock, the flag, the push.                             *)
PostEvent(p, type) ==
  /\ post_mutex = NoCaller
  /\ running
  /\ EQ!Push(type)
  /\ UNCHANGED <<centreVars, loopVars, ioVars, postVars, post_callback_done, poolVars>>

(* post_callback_task(): reads worker_pool_ without a lock ...             *)
PostTaskRead(p) ==
  /\ held[p] = 0 /\ p \notin notifying
  /\ alive
  /\ held' = [held EXCEPT ![p] = lives]
  /\ UNCHANGED <<centreVars, loopVars, ioVars, dangling, queueVars,
                 post_callback_done, poolVars>>

(* ... and calls post_task() through it.                                   *)
PostTaskCall(p) ==
  /\ held[p] # 0
  /\ held' = [held EXCEPT ![p] = 0]
  /\ IF alive /\ held[p] = lives
       THEN /\ \/ WP!PostTask(p)
               \/ pool_closed /\ mutex = WP!NoOne /\ UNCHANGED poolVars
            /\ UNCHANGED dangling
       ELSE dangling' = TRUE /\ UNCHANGED poolVars
  /\ UNCHANGED <<centreVars, loopVars, ioVars, queueVars, post_callback_done>>

PostTaskNotify(p) ==
  /\ alive
  /\ WP!PostNotify(p)
  /\ UNCHANGED <<centreVars, loopVars, ioVars, postVars, queueVars, post_callback_done>>

-------------------------------------------------------------------------------
CallerStep(c) ==
  \/ StartPool(c) \/ StartThreads(c) \/ StartSeen(c) \/ StartEnable(c) \/ StartRun(c)
  \/ StopLock(c) \/ StopPool(c) \/ StopLoopFlag(c) \/ StopLoopShutdown(c)
  \/ StopLoopJoin(c) \/ StopIo(c) \/ StopReset(c)

Next ==
  \/ \E c \in Callers :
       \/ lives < MaxLives /\ StartCreate(c)
       \/ StartTimeout(c)
       \/ StopCall(c)
       \/ CallerStep(c)
  \/ LoopStep
  \/ \E t \in IoThreads : IoExit(t) \/ \E y \in OtherTypes : nextId <= MaxEvents /\ IoPush(t, y)
  \/ \E w \in Workers : WorkerStep(w) \/ WorkerPost(w)
  \/ \E p \in Posters :
       \/ \E y \in OtherTypes : nextId <= MaxEvents /\ PostEvent(p, y)
       \/ accepted < MaxTasks /\ PostTaskRead(p)
       \/ PostTaskCall(p)
       \/ PostTaskNotify(p)

(* Every thread that can move moves: callers inside start() or stop(), the *)
(* event loop, IoThreads told to stop, workers, posters that owe a         *)
(* notification.  Nobody has to call anything, and a timeout need not      *)
(* happen.                                                                 *)
Fairness ==
  /\ \A c \in Callers : WF_vars(CallerStep(c))
  /\ WF_vars(LoopStep)
  /\ \A t \in IoThreads : WF_vars(IoExit(t))
  /\ \A w \in Workers : WF_vars(WorkerStep(w) \/ WorkerPost(w))
  /\ \A p \in Posters : WF_vars(PostTaskCall(p)) /\ WF_vars(PostTaskNotify(p))

Spec == Init /\ [][Next]_vars

FairSpec == Spec /\ Fairness

-------------------------------------------------------------------------------
TypeOK ==
  /\ running \in BOOLEAN /\ alive \in BOOLEAN
  /\ post_mutex \in Callers \cup {NoCaller}
  /\ mpc \in [Callers -> {"idle", "lock"} \cup StartSteps \cup TeardownSteps]
  /\ outcome \in {"none", "started", "failed", "stopped"}
  /\ lives \in Nat
  /\ loop_running \in BOOLEAN /\ started \in BOOLEAN /\ lpc \in LoopSteps
  /\ io_running \subseteq io_live /\ io_live \subseteq IoThreads
  /\ held \in [Posters -> 0 .. lives] /\ dangling \in BOOLEAN
  /\ post_callback_done \in BOOLEAN
  /\ EQ!TypeOK
  /\ WP!TypeOK

ThreadsLive ==
  \/ lpc # "none"
  \/ io_live # {}
  \/ \E w \in Workers : wpc[w] # "none"

(* The queue, the loop and the pool outlive the threads that hold raw      *)
(* pointers to them: stop() joins the workers, the loop and the IoThreads  *)
(* before it resets anything, whoever else calls stop() meanwhile.         *)
ObjectsOutliveThreads == ThreadsLive => alive

(* What post_event() relies on: when running_ is true and post_mutex_ is   *)
(* free, the objects exist, the loop has announced itself and has not left *)
(* run(), and completions are enabled.                                     *)
RunningMeansReady ==
  running /\ post_mutex = NoCaller
    => alive /\ started /\ loop_running /\ lpc \in {"top", "pop"} /\ post_callback_done

(* stop() cannot wait for ever for the event loop, also when the queue is  *)
(* full and refuses the SHUTDOWN event.                                    *)
LoopTerminates ==
  (\E c \in Callers : mpc[c] = "loop.join") ~> (lpc = "none")

(* While an event of priority p waits, the loop goes on to handle the next *)
(* one of that priority, unless stop() comes or a more urgent event waits. *)
(* Read again from every later state, this says that the event is handled, *)
(* or stop() comes, or more urgent events wait again and again: with       *)
(* strict priorities they may starve it, and the queue need never become   *)
(* empty.  It does not rest on the events coming to an end.                *)
EventsHandled ==
  \A p \in OtherTypes, n \in 0 .. MaxEvents + MaxTasks - 1 :
    (running /\ Len(popped[p]) = n /\ priority_queues[p] # <<>>)
      ~> (~running \/ Len(popped[p]) > n \/ \E q \in 1 .. p - 1 : priority_queues[q] # <<>>)

(* When stop() returns, no CALLBACK_DONE event is left unhandled: stop()   *)
(* stops the pool first so that the loop can handle them.                  *)
CallbackDoneHandled ==
  outcome = "stopped" /\ ~alive => priority_queues[CALLBACK_DONE] = <<>>

(* post_callback_task() never goes through a destroyed WorkerPool.         *)
PostTaskSafe == ~dangling

===============================================================================
