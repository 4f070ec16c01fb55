--------------------------- MODULE MsgCenterProofs ---------------------------
(***************************************************************************)
(* The message centre as a composition: in every life the queue and the    *)
(* pool inside it keep the invariants proved of them alone, and the        *)
(* objects outlive the threads that hold pointers to them, for any number  *)
(* of workers, IoThreads, callers and posters.                             *)
(*                                                                         *)
(* One caller at most is inside start() or holds post_mutex_ in stop(),    *)
(* and where it is says what there is (Exclusive).  A centre that has      *)
(* objects runs, is being started or torn down, or its start() has failed. *)
(* stop() goes through the joins in order, and a thread joined does not    *)
(* come back before the next start() (Torn).  From the first start step to *)
(* the first stop step nobody pushes SHUTDOWN, so the loop, once entered,  *)
(* neither clears its flag nor leaves (Up).                                *)
(***************************************************************************)
EXTENDS MsgCenter, FiniteSetTheorems, TLAPS

QP == INSTANCE EventQueueProofs WITH
        Consumers <- {}, MaxPushes <- MaxEvents, MaxBatch <- 0, MaxClosers <- 0

PP == INSTANCE WorkerPoolProofs WITH
        MaxStarts <- 1, MaxSpurious <- 0,
        running <- pool_running, queue_closed <- pool_closed

CentreTypes ==
  /\ running \in BOOLEAN /\ alive \in BOOLEAN
  /\ post_mutex \in Callers \cup {NoCaller}
  /\ mpc \in [Callers -> {"idle", "lock"} \cup StartSteps \cup TeardownSteps]
  /\ outcome \in {"none", "started", "failed", "stopped"}
  /\ lives \in Nat
  /\ loop_running \in BOOLEAN /\ started \in BOOLEAN /\ lpc \in LoopSteps
  /\ io_running \subseteq io_live /\ io_live \subseteq IoThreads
  /\ held \in [Posters -> 0 .. lives] /\ dangling \in BOOLEAN
  /\ post_callback_done \in BOOLEAN

Starting(c) == mpc[c] \in StartSteps

Exclusive ==
  /\ \A c \in Callers : mpc[c] \in TeardownSteps <=> post_mutex = c
  /\ \A c \in Callers : Starting(c) =>
       /\ ~running /\ alive /\ post_mutex = NoCaller
       /\ \A d \in Callers : d # c => mpc[d] = "idle"
  /\ running => alive /\ post_mutex = NoCaller
  /\ post_mutex # NoCaller => alive
  /\ outcome = "failed" => alive /\ ~running /\ \A c \in Callers : mpc[c] = "idle"
  /\ alive /\ ~running /\ post_mutex = NoCaller =>
       outcome = "failed" \/ \E c \in Callers : Starting(c)

NoWorkers == \A w \in Workers : wpc[w] = "none"

Torn ==
  /\ ~alive => lpc = "none" /\ io_live = {} /\ NoWorkers
  /\ \A c \in Callers :
       /\ mpc[c] \in {"loop.flag", "loop.shutdown", "loop.join", "io", "reset"} => NoWorkers
       /\ mpc[c] \in {"io", "reset"} => lpc = "none"
       /\ mpc[c] = "reset" => io_live = {}

Up ==
  /\ \A c \in Callers :
       /\ mpc[c] \in {"pool", "threads"} => lpc = "none" /\ ~started
       /\ mpc[c] \in {"started?", "enable", "run"} => lpc # "none"
       /\ mpc[c] \in {"enable", "run"} => started
       /\ mpc[c] = "run" => post_callback_done
       /\ Starting(c) => priority_queues[SHUTDOWN] = <<>>
       /\ Starting(c) /\ lpc \in {"announce", "top", "pop"} => loop_running
       /\ Starting(c) => (started <=> lpc \in {"top", "pop"})
  /\ running =>
       /\ started /\ loop_running /\ lpc \in {"top", "pop"} /\ post_callback_done
       /\ priority_queues[SHUTDOWN] = <<>>

CentreInv == CentreTypes /\ QP!QueueInv /\ PP!PoolInv /\ Exclusive /\ Torn /\ Up

-------------------------------------------------------------------------------
(* What EventQueue and WorkerPool assume of their constants holds of the   *)
(* ones they are instantiated with.                                        *)
LEMMA QueueConstants ==
  /\ QP!IsFiniteSet({})
  /\ PriorityCount \in Nat \ {0} /\ MaxSize \in Nat
  /\ MaxEvents \in Nat /\ 0 \in Nat
<1>1. QP!IsFiniteSet({})
  BY FS_EmptySet DEF IsFiniteSet, QP!IsFiniteSet
<1>2. QED
  BY <1>1, CentreAssumption

LEMMA PoolConstants ==
  /\ Workers # {} /\ PP!NoOne \notin Workers
  /\ MaxTasks \in Nat /\ 1 \in Nat /\ 0 \in Nat
  BY CentreAssumption DEF PP!NoOne, WP!NoOne

LEMMA SameQueue == QP!QueueInv /\ UNCHANGED queueVars => QP!QueueInv'
<1>1. UNCHANGED queueVars => UNCHANGED QP!vars
  BY DEF queueVars, QP!vars
<1>2. QED
  BY <1>1, QP!NextInv, QueueConstants

LEMMA SamePool == PP!PoolInv /\ UNCHANGED poolVars => PP!PoolInv'
<1>1. UNCHANGED poolVars => UNCHANGED PP!poolVars
  BY DEF poolVars, PP!poolVars
<1>2. QED
  BY <1>1, PP!NextInv, PoolConstants

(* A push keeps the queue's invariant ...                                  *)
LEMMA PushKeeps ==
  ASSUME QP!QueueInv, NEW type \in Nat, EQ!Push(type)
  PROVE  QP!QueueInv'
<1>1. QP!Push(type)
  BY DEF EQ!Push, QP!Push, EQ!MutexFree, QP!MutexFree, EQ!HasRoom, QP!HasRoom,
         EQ!Priorities, QP!Priorities, EQ!Accept, QP!Accept, EQ!NotifyOne, QP!NotifyOne,
         EQ!Waiting, QP!Waiting, EQ!queueVars, QP!queueVars
<1>2. QED
  BY <1>1, QP!PushKeepsInv, QueueConstants

(* ... and, unless it pushes SHUTDOWN, the queue of that priority.         *)
LEMMA PushLeavesShutdown ==
  ASSUME QP!QueueInv, NEW type \in OtherTypes, EQ!Push(type)
  PROVE  priority_queues'[SHUTDOWN] = priority_queues[SHUTDOWN]
<1>1. type # SHUTDOWN /\ SHUTDOWN \in QP!Priorities /\ type \in QP!Priorities
  BY CentreAssumption DEF OtherTypes, SHUTDOWN, QP!Priorities
<1>2. priority_queues \in [QP!Priorities -> Seq(Nat)]
  BY DEF QP!QueueInv, QP!TypeOK
<1>3. CASE UNCHANGED EQ!queueVars
  BY <1>3 DEF EQ!queueVars
<1>4. CASE EQ!Accept(type)
  <2>1. priority_queues' = [priority_queues EXCEPT ![type] = Append(@, nextId)]
    BY <1>4 DEF EQ!Accept
  <2>2. QED
    BY <1>1, <1>2, <2>1
<1>5. QED
  BY <1>3, <1>4 DEF EQ!Push

LEMMA OtherTypesNat == OtherTypes \subseteq Nat /\ CALLBACK_DONE \in OtherTypes
  BY CentreAssumption DEF OtherTypes, CALLBACK_DONE

(* try_pop() takes the highest priority: SHUTDOWN only if there is one.    *)
LEMMA PopKeeps ==
  ASSUME QP!QueueInv, NEW p \in EQ!Priorities, EQ!TryPop(p)
  PROVE  /\ QP!QueueInv'
         /\ priority_queues[SHUTDOWN] = <<>>
              => p # SHUTDOWN /\ priority_queues'[SHUTDOWN] = <<>>
<1>0. p \in QP!Priorities /\ SHUTDOWN \in QP!Priorities
  BY CentreAssumption DEF QP!Priorities, EQ!Priorities, SHUTDOWN
<1>1. QP!IsHighestPriority(p) /\ QP!Take(p)
  BY DEF EQ!TryPop, EQ!IsHighestPriority, QP!IsHighestPriority, EQ!Take, QP!Take,
         EQ!Priorities, QP!Priorities
<1>2. batch' \in Nat
  BY DEF EQ!TryPop, QP!QueueInv, QP!TypeOK
<1>3. QP!QueueInv'
  BY <1>0, <1>1, <1>2, QP!TakeKeepsInv, QueueConstants DEF EQ!TryPop
<1>4. priority_queues[p] # <<>>
  BY DEF EQ!TryPop, EQ!IsHighestPriority
<1>5. priority_queues' = [priority_queues EXCEPT ![p] = Tail(@)]
  BY DEF EQ!TryPop, EQ!Take
<1>6. priority_queues \in [QP!Priorities -> Seq(Nat)]
  BY DEF QP!QueueInv, QP!TypeOK
<1>7. QED
  BY <1>0, <1>3, <1>4, <1>5, <1>6

(* The pool's actions keep the pool's invariant.                           *)
LEMMA PoolStartKeeps ==
  ASSUME PP!PoolInv, WP!StartRunning \/ WP!StartOpen \/ WP!StartSpawn
  PROVE  PP!PoolInv'
<1>1. PP!StartRunning \/ PP!StartOpen \/ PP!StartSpawn
  BY DEF WP!StartRunning, PP!StartRunning, WP!StartOpen, PP!StartOpen,
         WP!StartSpawn, PP!StartSpawn
<1>2. QED
  BY <1>1, PP!StartKeepsInv, PoolConstants

LEMMA PoolStopKeeps ==
  ASSUME PP!PoolInv, WP!StopRunning \/ WP!StopClose \/ WP!StopNotify \/ WP!StopJoin
  PROVE  PP!PoolInv'
<1>1. PP!StopRunning \/ PP!StopStep
  BY DEF WP!StopRunning, PP!StopRunning, WP!StopClose, PP!StopClose, PP!StopStep,
         WP!StopNotify, PP!StopNotify, WP!StopJoin, PP!StopJoin
<1>2. QED
  BY <1>1, PP!StopKeepsInv, PoolConstants

LEMMA PoolPostKeeps ==
  ASSUME PP!PoolInv, NEW p \in Posters, WP!PostTask(p) \/ WP!PostNotify(p)
  PROVE  PP!PoolInv' /\ (NoWorkers => NoWorkers')
<1>1. PP!PostTask(p) \/ PP!PostNotify(p)
  BY DEF WP!PostTask, PP!PostTask, WP!PostNotify, PP!PostNotify, WP!NoOne, PP!NoOne
<1>2. PP!PoolInv'
  BY <1>1, PP!PostKeepsInv, PoolConstants
<1>3. NoWorkers => NoWorkers'
  BY DEF NoWorkers, WP!PostTask, WP!PostNotify
<1>4. QED
  BY <1>2, <1>3

(* Only a live thread takes a worker's steps.                              *)
LEMMA PoolWorkerKeeps ==
  ASSUME PP!PoolInv, NEW w \in Workers,
         \/ WP!Check(w) \/ WP!Block(w) \/ WP!TakeTask(w) \/ WP!Exit(w)
         \/ WP!RunTask(w) \/ WP!PostCallbackDone(w)
  PROVE  PP!PoolInv' /\ ~NoWorkers
<1>1. PP!WorkerStep(w)
  BY DEF WP!Check, PP!Check, WP!Block, PP!Block, WP!TakeTask, PP!TakeTask,
         WP!Exit, PP!Exit, WP!RunTask, PP!RunTask, WP!NoTask, PP!NoTask,
         WP!PostCallbackDone, PP!PostCallbackDone, WP!NoOne, PP!NoOne,
         WP!MayProceed, PP!MayProceed, PP!WorkerStep
<1>2. PP!PoolInv'
  BY <1>1, PP!WorkerKeepsInv, PoolConstants
<1>3. wpc[w] # "none"
  BY DEF WP!Check, WP!Block, WP!TakeTask, WP!Exit, WP!RunTask, WP!PostCallbackDone
<1>4. QED
  BY <1>2, <1>3 DEF NoWorkers

-------------------------------------------------------------------------------
(* A step inside the queue or the pool that pushes no SHUTDOWN and brings  *)
(* no worker back.                                                         *)
LEMMA SameCentre ==
  ASSUME CentreInv,
         UNCHANGED <<centreVars, loopVars, ioVars, post_callback_done>>,
         held' \in [Posters -> 0 .. lives], dangling' \in BOOLEAN,
         QP!QueueInv', PP!PoolInv',
         priority_queues'[SHUTDOWN] = priority_queues[SHUTDOWN],
         NoWorkers => NoWorkers'
  PROVE  CentreInv'
<1> USE DEF CentreInv, centreVars, loopVars, ioVars
<1>1. CentreTypes'
  BY DEF CentreTypes
<1>2. Exclusive'
  BY DEF Exclusive, Starting
<1>3. Torn'
  BY DEF Torn
<1>4. Up'
  BY DEF Up, Starting
<1>5. QED
  BY <1>1, <1>2, <1>3, <1>4

(* Events pushed by IoThreads and by post_event().                         *)
LEMMA EventsKeepInv ==
  ASSUME CentreInv, NEW y \in OtherTypes, NEW t,
         IoPush(t, y) \/ PostEvent(t, y)
  PROVE  CentreInv'
<1>1. /\ EQ!Push(y)
      /\ UNCHANGED <<centreVars, loopVars, ioVars, post_callback_done, postVars, poolVars>>
  BY DEF IoPush, PostEvent
<1>2. QP!QueueInv'
  BY <1>1, PushKeeps, OtherTypesNat DEF CentreInv
<1>3. PP!PoolInv'
  BY <1>1, SamePool DEF CentreInv
<1>4. priority_queues'[SHUTDOWN] = priority_queues[SHUTDOWN]
  BY <1>1, PushLeavesShutdown DEF CentreInv
<1>5. NoWorkers => NoWorkers'
  BY <1>1 DEF NoWorkers, poolVars
<1>6. held' \in [Posters -> 0 .. lives] /\ dangling' \in BOOLEAN
  BY <1>1 DEF postVars, CentreInv, CentreTypes
<1>7. QED
  BY <1>1, <1>2, <1>3, <1>4, <1>5, <1>6, SameCentre

LEMMA WorkersKeepInv ==
  ASSUME CentreInv, NEW w \in Workers, WorkerStep(w) \/ WorkerPost(w)
  PROVE  CentreInv'
<1>1. UNCHANGED <<centreVars, loopVars, ioVars, post_callback_done, postVars>>
  BY DEF WorkerStep, WorkerPost
<1>2. PP!PoolInv' /\ ~NoWorkers
  BY PoolWorkerKeeps DEF CentreInv, WorkerStep, WorkerPost
<1>3. held' \in [Posters -> 0 .. lives] /\ dangling' \in BOOLEAN
  BY <1>1 DEF postVars, CentreInv, CentreTypes
<1>4. QP!QueueInv' /\ priority_queues'[SHUTDOWN] = priority_queues[SHUTDOWN]
  <2>1. CASE UNCHANGED queueVars
    BY <2>1, SameQueue DEF CentreInv, queueVars
  <2>2. CASE EQ!Push(CALLBACK_DONE)
    BY <2>2, PushKeeps, PushLeavesShutdown, OtherTypesNat DEF CentreInv
  <2>3. QED
    BY <2>1, <2>2 DEF WorkerStep, WorkerPost
<1>5. QED
  BY <1>1, <1>2, <1>3, <1>4, SameCentre

(* post_callback_task(), from the read of the pointer to the notification. *)
LEMMA PostersKeepInv ==
  ASSUME CentreInv, NEW p \in Posters,
         PostTaskRead(p) \/ PostTaskCall(p) \/ PostTaskNotify(p)
  PROVE  CentreInv'
<1>1. UNCHANGED <<centreVars, loopVars, ioVars, post_callback_done, queueVars>>
  BY DEF PostTaskRead, PostTaskCall, PostTaskNotify
<1>2. PP!PoolInv' /\ (NoWorkers => NoWorkers')
  <2>1. CASE UNCHANGED poolVars
    BY <2>1, SamePool DEF CentreInv, poolVars, NoWorkers
  <2>2. CASE WP!PostTask(p) \/ WP!PostNotify(p)
    BY <2>2, PoolPostKeeps DEF CentreInv
  <2>3. QED
    BY <2>1, <2>2 DEF PostTaskRead, PostTaskCall, PostTaskNotify
<1>3. QP!QueueInv' /\ priority_queues'[SHUTDOWN] = priority_queues[SHUTDOWN]
  BY <1>1, SameQueue DEF CentreInv, queueVars
<1>4. held' \in [Posters -> 0 .. lives]
  <2>1. held \in [Posters -> 0 .. lives] /\ lives \in Nat
    BY DEF CentreInv, CentreTypes
  <2>2. CASE PostTaskRead(p)
    BY <2>1, <2>2 DEF PostTaskRead
  <2>3. CASE PostTaskCall(p)
    BY <2>1, <2>3 DEF PostTaskCall
  <2>4. CASE PostTaskNotify(p)
    BY <2>1, <2>4 DEF PostTaskNotify, postVars
  <2>5. QED
    BY <2>2, <2>3, <2>4
<1>5. dangling' \in BOOLEAN
  BY DEF CentreInv, CentreTypes, PostTaskRead, PostTaskCall, PostTaskNotify, postVars
<1>6. QED
  BY <1>1, <1>2, <1>3, <1>4, <1>5, SameCentre

(* An IoThread told to stop leaves.                                        *)
LEMMA IoExitKeepsInv ==
  ASSUME CentreInv, NEW t \in IoThreads, IoExit(t)
  PROVE  CentreInv'
<1> USE DEF CentreInv, IoExit, centreVars, loopVars, postVars
<1>1. QP!QueueInv' /\ PP!PoolInv'
  BY SameQueue, SamePool
<1>2. UNCHANGED <<wpc, priority_queues>>
  BY DEF poolVars, queueVars
<1>3. CentreTypes'
  BY DEF CentreTypes
<1>4. Exclusive'
  BY DEF Exclusive, Starting
<1>5. Torn'
  BY <1>2 DEF Torn, NoWorkers
<1>6. Up'
  BY <1>2 DEF Up, Starting
<1>7. QED
  BY <1>1, <1>3, <1>4, <1>5, <1>6

-------------------------------------------------------------------------------
(* The event loop: its thread is not joined, so nothing is torn down; in a *)
(* centre that starts or runs the queue holds no SHUTDOWN, so it goes on.  *)
LEMMA LoopKeepsInv ==
  ASSUME CentreInv, LoopStep
  PROVE  CentreInv'
<1> USE DEF CentreInv
<1>1. /\ UNCHANGED <<centreVars, ioVars, postVars, post_callback_done, poolVars>>
      /\ lpc # "none"
  BY DEF LoopStep, LoopEnter, LoopAnnounce, LoopTop, LoopPop
<1>2. /\ UNCHANGED <<running, post_mutex, alive, mpc, outcome, lives, held, dangling,
                     io_running, io_live, wpc>>
  BY <1>1 DEF centreVars, ioVars, postVars, poolVars
<1>3. PP!PoolInv'
  BY <1>1, SamePool
<1>4. Exclusive'
  BY <1>2 DEF Exclusive, Starting
<1>5. Torn'
  <2>1. alive /\ \A c \in Callers : mpc[c] \notin {"io", "reset"}
    BY <1>1 DEF Torn, CentreTypes
  <2>2. QED
    BY <1>2, <2>1 DEF Torn, NoWorkers
<1>6. CASE LoopEnter \/ LoopAnnounce \/ LoopTop
  <2>1. UNCHANGED queueVars
    BY <1>6 DEF LoopEnter, LoopAnnounce, LoopTop
  <2>2. QP!QueueInv' /\ priority_queues' = priority_queues
    BY <2>1, SameQueue DEF queueVars
  <2>3. CentreTypes'
    BY <1>1, <1>2, <1>6 DEF CentreTypes, LoopEnter, LoopAnnounce, LoopTop, LoopSteps
  <2>4. CASE LoopEnter
    <3>1. ~running
      BY <2>4 DEF LoopEnter, Up
    <3>2. Up'
      BY <1>1, <1>2, <2>2, <2>4, <3>1 DEF LoopEnter, Up, Starting
    <3>3. QED
      BY <1>3, <1>4, <1>5, <2>2, <2>3, <3>2
  <2>5. CASE LoopAnnounce
    <3>1. ~running
      BY <2>5 DEF LoopAnnounce, Up
    <3>2. Up'
      BY <1>1, <1>2, <2>2, <2>5, <3>1 DEF LoopAnnounce, Up, Starting
    <3>3. QED
      BY <1>3, <1>4, <1>5, <2>2, <2>3, <3>2
  <2>6. CASE LoopTop
    <3>2. Up'
      BY <1>1, <1>2, <2>2, <2>6 DEF LoopTop, Up, Starting, StartSteps
    <3>3. QED
      BY <1>3, <1>4, <1>5, <2>2, <2>3, <3>2
  <2>7. QED
    BY <1>6, <2>4, <2>5, <2>6
<1>7. CASE LoopPop
  <2>1. lpc = "pop" /\ UNCHANGED started
    BY <1>7 DEF LoopPop
  <2>2. CASE UNCHANGED <<loop_running, queueVars>> /\ lpc' = "top"
    <3>1. QP!QueueInv' /\ priority_queues' = priority_queues
      BY <2>2, SameQueue DEF queueVars
    <3>2. CentreTypes'
      BY <1>1, <1>2, <2>1, <2>2 DEF CentreTypes, LoopSteps
    <3>3. Up'
      BY <1>1, <1>2, <2>1, <2>2, <3>1 DEF Up, Starting
    <3>4. QED
      BY <1>3, <1>4, <1>5, <3>1, <3>2, <3>3
  <2>3. ASSUME NEW p \in EQ!Priorities, EQ!TryPop(p),
               lpc' = IF p = SHUTDOWN THEN "none" ELSE "top",
               loop_running' = (loop_running /\ p # SHUTDOWN)
        PROVE  CentreInv'
    <3>1. QP!QueueInv'
      BY <2>3, PopKeeps
    <3>2. priority_queues[SHUTDOWN] = <<>>
            => p # SHUTDOWN /\ priority_queues'[SHUTDOWN] = <<>>
      BY <2>3, PopKeeps
    <3>3. CentreTypes'
      BY <1>1, <1>2, <2>1, <2>3 DEF CentreTypes, LoopSteps
    <3>4. Up'
      BY <1>1, <1>2, <2>1, <2>3, <3>2 DEF Up, Starting, StartSteps
    <3>5. QED
      BY <1>3, <1>4, <1>5, <3>1, <3>3, <3>4
  <2>4. QED
    BY <1>7, <2>2, <2>3 DEF LoopPop
<1>8. QED
  BY <1>6, <1>7 DEF LoopStep

-------------------------------------------------------------------------------
(* A caller inside start() is the only one that has anything to do ...     *)
LEMMA AloneInStart ==
  ASSUME CentreInv, NEW c \in Callers, Starting(c)
  PROVE  /\ ~running /\ alive /\ post_mutex = NoCaller /\ outcome # "failed"
         /\ \A d \in Callers : d # c => mpc[d] = "idle"
<1>1. /\ ~running /\ alive /\ post_mutex = NoCaller
      /\ \A d \in Callers : d # c => mpc[d] = "idle"
  BY DEF CentreInv, Exclusive
<1>2. outcome # "failed"
  BY DEF CentreInv, Exclusive, Starting, StartSteps
<1>3. QED
  BY <1>1, <1>2

(* ... and one inside the locked part of stop() holds the only lock.       *)
LEMMA AloneInStop ==
  ASSUME CentreInv, NEW c \in Callers, mpc[c] \in TeardownSteps
  PROVE  /\ ~running /\ alive /\ post_mutex = c /\ post_mutex # NoCaller
         /\ outcome # "failed"
         /\ \A d \in Callers : d # c => mpc[d] \in {"idle", "lock"}
<1>1. post_mutex = c /\ post_mutex # NoCaller
  BY CentreAssumption DEF CentreInv, Exclusive
<1>2. ~running /\ alive
  BY <1>1 DEF CentreInv, Exclusive
<1>3. outcome # "failed"
  BY DEF CentreInv, Exclusive, TeardownSteps
<1>4. ASSUME NEW d \in Callers, d # c PROVE mpc[d] \in {"idle", "lock"}
  <2>1. mpc[d] \notin TeardownSteps /\ mpc[d] \notin StartSteps
    BY <1>1, <1>4 DEF CentreInv, Exclusive, Starting
  <2>2. QED
    BY <2>1 DEF CentreInv, CentreTypes
<1>5. QED
  BY <1>1, <1>2, <1>3, <1>4

LEMMA Steps ==
  /\ StartSteps \cap TeardownSteps = {}
  /\ "idle" \notin StartSteps /\ "idle" \notin TeardownSteps
  /\ "lock" \notin StartSteps /\ "lock" \notin TeardownSteps
  BY DEF StartSteps, TeardownSteps

(* Going on inside start() or stop() leaves everybody where Exclusive      *)
(* says.                                                                   *)
LEMMA StaysInStart ==
  ASSUME CentreInv, NEW c \in Callers, Starting(c), NEW to \in StartSteps,
         mpc' = [mpc EXCEPT ![c] = to],
         UNCHANGED <<running, post_mutex, alive, outcome>>
  PROVE  /\ Exclusive'
         /\ mpc' \in [Callers -> {"idle", "lock"} \cup StartSteps \cup TeardownSteps]
         /\ mpc'[c] = to /\ \A d \in Callers : d # c => mpc'[d] = "idle"
<1>1. /\ ~running /\ alive /\ post_mutex = NoCaller /\ outcome # "failed"
      /\ \A d \in Callers : d # c => mpc[d] = "idle"
  BY AloneInStart
<1>2. mpc \in [Callers -> {"idle", "lock"} \cup StartSteps \cup TeardownSteps]
  BY DEF CentreInv, CentreTypes
<1>3. /\ mpc' \in [Callers -> {"idle", "lock"} \cup StartSteps \cup TeardownSteps]
      /\ mpc'[c] = to /\ \A d \in Callers : d # c => mpc'[d] = "idle"
  BY <1>1, <1>2
<1>4. NoCaller \notin Callers
  BY CentreAssumption
<1>5. Exclusive'
  BY <1>1, <1>3, <1>4, Steps DEF Exclusive, Starting
<1>6. QED
  BY <1>3, <1>5

LEMMA StaysInStop ==
  ASSUME CentreInv, NEW c \in Callers, mpc[c] \in TeardownSteps, NEW to \in TeardownSteps,
         mpc' = [mpc EXCEPT ![c] = to],
         UNCHANGED <<running, post_mutex, alive, outcome>>
  PROVE  /\ Exclusive'
         /\ mpc' \in [Callers -> {"idle", "lock"} \cup StartSteps \cup TeardownSteps]
         /\ mpc'[c] = to /\ \A d \in Callers : d # c => mpc'[d] \in {"idle", "lock"}
<1>1. /\ ~running /\ alive /\ post_mutex = c /\ post_mutex # NoCaller /\ outcome # "failed"
      /\ \A d \in Callers : d # c => mpc[d] \in {"idle", "lock"}
  BY AloneInStop
<1>2. mpc \in [Callers -> {"idle", "lock"} \cup StartSteps \cup TeardownSteps]
  BY DEF CentreInv, CentreTypes
<1>3. /\ mpc' \in [Callers -> {"idle", "lock"} \cup StartSteps \cup TeardownSteps]
      /\ mpc'[c] = to /\ \A d \in Callers : d # c => mpc'[d] \in {"idle", "lock"}
  BY <1>1, <1>2
<1>4. \A d \in Callers : d # c => mpc'[d] \notin StartSteps \cup TeardownSteps
  BY <1>3, Steps
<1>5. mpc'[c] \in TeardownSteps /\ mpc'[c] \notin StartSteps
  BY <1>3, Steps
<1>6. Exclusive'
  BY <1>1, <1>4, <1>5 DEF Exclusive, Starting
<1>7. QED
  BY <1>3, <1>6

-------------------------------------------------------------------------------
(* A queue and a pool just made satisfy their invariants.                  *)
LEMMA FreshQueue == QP!Init => QP!QueueInv
  BY QP!InitInv, QueueConstants

LEMMA FreshPool == PP!Init => PP!PoolInv
  BY PP!InitInv, PoolConstants

LEMMA FreshQueueNext == QP!Init' => QP!QueueInv'
  BY FreshQueue, PTL

LEMMA FreshPoolNext == PP!Init' => PP!PoolInv'
  BY FreshPool, PTL

LEMMA InitInv == Init => CentreInv
<1> SUFFICES ASSUME Init PROVE CentreInv
  OBVIOUS
<1>1. QP!Init
  BY DEF Init, EQ!Init, QP!Init, EQ!Priorities, QP!Priorities
<1>2. PP!Init
  BY DEF Init, WP!Init, PP!Init, WP!NoOne, PP!NoOne, WP!NoTask, PP!NoTask
<1>3. QP!QueueInv /\ PP!PoolInv
  BY <1>1, <1>2, FreshQueue, FreshPool
<1>4. \A c \in Callers : mpc[c] = "idle"
  BY DEF Init
<1>5. CentreTypes
  <2>1. lives \in Nat /\ held \in [Posters -> 0 .. lives]
    BY DEF Init
  <2>2. mpc \in [Callers -> {"idle", "lock"} \cup StartSteps \cup TeardownSteps]
    BY DEF Init
  <2>3. /\ running \in BOOLEAN /\ alive \in BOOLEAN /\ loop_running \in BOOLEAN
        /\ started \in BOOLEAN /\ dangling \in BOOLEAN /\ post_callback_done \in BOOLEAN
        /\ post_mutex = NoCaller /\ outcome = "none" /\ lpc \in LoopSteps
        /\ io_running = {} /\ io_live = {}
    BY DEF Init, LoopSteps
  <2>4. QED
    BY <2>1, <2>2, <2>3 DEF CentreTypes
<1>6. Exclusive
  BY <1>4, CentreAssumption, Steps DEF Init, Exclusive, Starting
<1>7. Torn
  <2>1. NoWorkers
    BY <1>2 DEF PP!Init, NoWorkers
  <2>2. QED
    BY <1>4, <2>1 DEF Init, Torn
<1>8. Up
  BY <1>4, Steps DEF Init, Up, Starting
<1>9. QED
  BY <1>3, <1>5, <1>6, <1>7, <1>8 DEF CentreInv

(* start() makes its objects new: the threads of an earlier life are       *)
(* joined, because every way to get here with objects is a failed start(). *)
LEMMA CreateKeepsInv ==
  ASSUME CentreInv, NEW c \in Callers, StartCreate(c)
  PROVE  CentreInv'
<1> USE DEF CentreInv
<1>1. /\ \A d \in Callers : mpc[d] = "idle"
      /\ ~running /\ outcome # "failed"
      /\ mpc' = [mpc EXCEPT ![c] = "pool"]
      /\ alive' = TRUE /\ lives' = lives + 1
      /\ loop_running' = FALSE /\ started' = FALSE /\ post_callback_done' = FALSE
      /\ UNCHANGED <<running, post_mutex, outcome, lpc, io_running, io_live, held, dangling>>
  BY DEF StartCreate, At, ioVars, postVars
<1>2. post_mutex = NoCaller
  BY <1>1, Steps DEF Exclusive, CentreTypes
<1>3. ~alive
  BY <1>1, <1>2, Steps DEF Exclusive, Starting
<1>4. lpc = "none" /\ io_live = {}
  BY <1>3 DEF Torn
<1>5. QP!Init'
  BY DEF StartCreate, EQ!Priorities, QP!Priorities, QP!Init
<1>6. PP!Init'
  BY DEF StartCreate, PP!Init, WP!NoOne, PP!NoOne, WP!NoTask, PP!NoTask
<1>7. QP!QueueInv' /\ PP!PoolInv'
  BY <1>5, <1>6, FreshQueueNext, FreshPoolNext
<1>8. mpc \in [Callers -> {"idle", "lock"} \cup StartSteps \cup TeardownSteps]
  BY DEF CentreTypes
<1>9. /\ mpc' \in [Callers -> {"idle", "lock"} \cup StartSteps \cup TeardownSteps]
      /\ mpc'[c] = "pool" /\ \A d \in Callers : d # c => mpc'[d] = "idle"
  BY <1>1, <1>8 DEF StartSteps
<1>10. CentreTypes'
  <2>1. lives \in Nat /\ held \in [Posters -> 0 .. lives]
    BY DEF CentreTypes
  <2>2. lives' \in Nat /\ 0 .. lives \subseteq 0 .. lives'
    BY <1>1, <2>1
  <2>3. held' \in [Posters -> 0 .. lives']
    BY <1>1, <2>1, <2>2
  <2>4. QED
    BY <1>1, <1>9, <2>2, <2>3 DEF CentreTypes
<1>11. NoCaller \notin Callers /\ "pool" \in StartSteps /\ "pool" \notin TeardownSteps
  BY CentreAssumption DEF StartSteps, TeardownSteps
<1>12. Exclusive'
  BY <1>1, <1>2, <1>9, <1>11, Steps DEF Exclusive, Starting
<1>13. Torn'
  BY <1>1, <1>4, <1>9 DEF Torn
<1>14. priority_queues'[SHUTDOWN] = <<>>
  <2>1. SHUTDOWN \in QP!Priorities
    BY CentreAssumption DEF SHUTDOWN, QP!Priorities
  <2>2. QED
    BY <1>5, <2>1 DEF QP!Init
<1>15. Up'
  BY <1>1, <1>4, <1>9, <1>11, <1>14, Steps DEF Up, Starting
<1>16. QED
  BY <1>7, <1>10, <1>12, <1>13, <1>15

(* worker_pool_->start().                                                  *)
LEMMA StartPoolKeepsInv ==
  ASSUME CentreInv, NEW c \in Callers, StartPool(c)
  PROVE  CentreInv'
<1> USE DEF CentreInv
<1>1. /\ mpc[c] = "pool"
      /\ UNCHANGED <<running, post_mutex, alive, outcome, lives, loop_running, started, lpc,
                     io_running, io_live, held, dangling, queueVars, post_callback_done>>
  BY DEF StartPool, At, loopVars, ioVars, postVars
<1>2. Starting(c)
  BY <1>1 DEF Starting, StartSteps
<1>3. PP!PoolInv'
  BY PoolStartKeeps DEF StartPool
<1>4. QP!QueueInv' /\ priority_queues' = priority_queues
  BY <1>1, SameQueue DEF queueVars
<1>5. mpc \in [Callers -> {"idle", "lock"} \cup StartSteps \cup TeardownSteps]
  BY DEF CentreTypes
<1>6. PICK to \in {"pool", "threads"} : mpc' = [mpc EXCEPT ![c] = to]
  BY <1>1, <1>5 DEF StartPool, At
<1>7. to \in StartSteps
  BY DEF StartSteps
<1>8. /\ Exclusive'
      /\ mpc' \in [Callers -> {"idle", "lock"} \cup StartSteps \cup TeardownSteps]
      /\ mpc'[c] = to /\ \A d \in Callers : d # c => mpc'[d] = "idle"
  BY <1>1, <1>2, <1>6, <1>7, StaysInStart
<1>9. CentreTypes'
  BY <1>1, <1>8 DEF CentreTypes
<1>10. alive /\ ~running
  BY <1>2, AloneInStart
<1>11. Torn'
  BY <1>1, <1>8, <1>10 DEF Torn
<1>12. Up'
  BY <1>1, <1>2, <1>4, <1>8, <1>10, Steps DEF Up, Starting
<1>13. QED
  BY <1>3, <1>4, <1>8, <1>9, <1>11, <1>12

(* The threads, and the wait for started_.                                 *)
LEMMA StartOnKeepsInv ==
  ASSUME CentreInv, NEW c \in Callers, StartThreads(c) \/ StartSeen(c) \/ StartEnable(c)
  PROVE  CentreInv'
<1> USE DEF CentreInv
<1>1. /\ UNCHANGED <<running, post_mutex, alive, outcome, lives, loop_running, started,
                     held, dangling, queueVars, poolVars>>
  BY DEF StartThreads, StartSeen, StartEnable, loopVars, ioVars, postVars
<1>2. PP!PoolInv' /\ QP!QueueInv' /\ priority_queues' = priority_queues
  BY <1>1, SameQueue, SamePool DEF queueVars
<1>3. Starting(c)
  BY DEF Starting, StartSteps, StartThreads, StartSeen, StartEnable, At
<1>4. alive /\ ~running
  BY <1>3, AloneInStart
<1>5. CASE StartThreads(c)
  <2>1. /\ mpc[c] = "threads" /\ mpc' = [mpc EXCEPT ![c] = "started?"]
        /\ lpc' = "enter" /\ io_running' = IoThreads /\ io_live' = IoThreads
        /\ UNCHANGED post_callback_done
    BY <1>5 DEF StartThreads, At
  <2>2. /\ Exclusive'
        /\ mpc' \in [Callers -> {"idle", "lock"} \cup StartSteps \cup TeardownSteps]
        /\ mpc'[c] = "started?" /\ \A d \in Callers : d # c => mpc'[d] = "idle"
    BY <1>1, <1>3, <2>1, StaysInStart DEF StartSteps
  <2>3. CentreTypes'
    BY <1>1, <2>1, <2>2 DEF CentreTypes, LoopSteps
  <2>4. Torn'
    BY <1>1, <1>4, <2>2 DEF Torn
  <2>5. Up'
    BY <1>1, <1>2, <1>3, <1>4, <2>1, <2>2, Steps DEF Up, Starting
  <2>6. QED
    BY <1>2, <2>2, <2>3, <2>4, <2>5
<1>6. CASE StartSeen(c)
  <2>1. /\ mpc[c] = "started?" /\ mpc' = [mpc EXCEPT ![c] = "enable"]
        /\ started /\ UNCHANGED <<lpc, io_running, io_live, post_callback_done>>
    BY <1>6 DEF StartSeen, At, loopVars, ioVars
  <2>2. /\ Exclusive'
        /\ mpc' \in [Callers -> {"idle", "lock"} \cup StartSteps \cup TeardownSteps]
        /\ mpc'[c] = "enable" /\ \A d \in Callers : d # c => mpc'[d] = "idle"
    BY <1>1, <1>3, <2>1, StaysInStart DEF StartSteps
  <2>3. CentreTypes'
    BY <1>1, <2>1, <2>2 DEF CentreTypes
  <2>4. Torn'
    BY <1>1, <1>4, <2>2 DEF Torn
  <2>5. Up'
    BY <1>1, <1>2, <1>3, <1>4, <2>1, <2>2, Steps DEF Up, Starting
  <2>6. QED
    BY <1>2, <2>2, <2>3, <2>4, <2>5
<1>7. CASE StartEnable(c)
  <2>1. /\ mpc[c] = "enable" /\ mpc' = [mpc EXCEPT ![c] = "run"]
        /\ post_callback_done' = TRUE /\ UNCHANGED <<lpc, io_running, io_live>>
    BY <1>7 DEF StartEnable, At, loopVars, ioVars
  <2>2. /\ Exclusive'
        /\ mpc' \in [Callers -> {"idle", "lock"} \cup StartSteps \cup TeardownSteps]
        /\ mpc'[c] = "run" /\ \A d \in Callers : d # c => mpc'[d] = "idle"
    BY <1>1, <1>3, <2>1, StaysInStart DEF StartSteps
  <2>3. CentreTypes'
    BY <1>1, <2>1, <2>2 DEF CentreTypes
  <2>4. Torn'
    BY <1>1, <1>4, <2>2 DEF Torn
  <2>5. Up'
    BY <1>1, <1>2, <1>3, <1>4, <2>1, <2>2, Steps DEF Up, Starting
  <2>6. QED
    BY <1>2, <2>2, <2>3, <2>4, <2>5
<1>8. QED
  BY <1>5, <1>6, <1>7

(* start() gives up, or is done: from here posters may see running_.       *)
LEMMA StartEndKeepsInv ==
  ASSUME CentreInv, NEW c \in Callers, StartTimeout(c) \/ StartRun(c)
  PROVE  CentreInv'
<1> USE DEF CentreInv
<1>1. /\ UNCHANGED <<post_mutex, alive, lives, loop_running, started, lpc, held, dangling,
                     io_running, io_live, queueVars, post_callback_done, poolVars>>
      /\ mpc' = [mpc EXCEPT ![c] = "idle"]
  BY DEF StartTimeout, StartRun, At, loopVars, ioVars, postVars
<1>2. PP!PoolInv' /\ QP!QueueInv' /\ priority_queues' = priority_queues
  BY <1>1, SameQueue, SamePool DEF queueVars
<1>3. Starting(c)
  BY DEF Starting, StartSteps, StartTimeout, StartRun, At
<1>4. /\ ~running /\ alive /\ post_mutex = NoCaller /\ outcome # "failed"
      /\ \A d \in Callers : d # c => mpc[d] = "idle"
  BY <1>3, AloneInStart
<1>5. mpc \in [Callers -> {"idle", "lock"} \cup StartSteps \cup TeardownSteps]
  BY DEF CentreTypes
<1>6. /\ mpc' \in [Callers -> {"idle", "lock"} \cup StartSteps \cup TeardownSteps]
      /\ \A d \in Callers : mpc'[d] = "idle"
  BY <1>1, <1>4, <1>5
<1>7. NoCaller \notin Callers
  BY CentreAssumption
<1>8. Torn'
  BY <1>1, <1>4, <1>6 DEF Torn
<1>9. CASE StartTimeout(c)
  <2>1. outcome' = "failed" /\ running' = running
    BY <1>9 DEF StartTimeout
  <2>2. CentreTypes'
    BY <1>1, <1>6, <2>1 DEF CentreTypes
  <2>3. Exclusive'
    BY <1>1, <1>4, <1>6, <1>7, <2>1, Steps DEF Exclusive, Starting
  <2>4. Up'
    BY <1>1, <1>4, <1>6, <2>1, Steps DEF Up, Starting
  <2>5. QED
    BY <1>2, <1>8, <2>2, <2>3, <2>4
<1>10. CASE StartRun(c)
  <2>1. outcome' = "started" /\ running' = TRUE /\ mpc[c] = "run"
    BY <1>10 DEF StartRun, At
  <2>2. CentreTypes'
    BY <1>1, <1>6, <2>1 DEF CentreTypes
  <2>3. Exclusive'
    BY <1>1, <1>4, <1>6, <1>7, <2>1, Steps DEF Exclusive, Starting
  <2>4. /\ started /\ lpc \in {"top", "pop"} /\ loop_running /\ post_callback_done
        /\ priority_queues[SHUTDOWN] = <<>>
    BY <1>3, <2>1 DEF Up
  <2>5. Up'
    BY <1>1, <1>2, <1>6, <2>1, <2>4, Steps DEF Up, Starting
  <2>6. QED
    BY <1>2, <1>8, <2>2, <2>3, <2>5
<1>11. QED
  BY <1>9, <1>10

-------------------------------------------------------------------------------
(* stop(): the call, and the lock, after which nobody sees running_ and    *)
(* only the caller that found objects goes on.                             *)
LEMMA StopBeginKeepsInv ==
  ASSUME CentreInv, NEW c \in Callers, StopCall(c) \/ StopLock(c)
  PROVE  CentreInv'
<1> USE DEF CentreInv
<1>1. /\ UNCHANGED <<alive, lives, loop_running, started, lpc, held, dangling,
                     io_running, io_live, queueVars, post_callback_done, poolVars>>
  BY DEF StopCall, StopLock, loopVars, ioVars, postVars
<1>2. PP!PoolInv' /\ QP!QueueInv' /\ priority_queues' = priority_queues
  BY <1>1, SameQueue, SamePool DEF queueVars
<1>3. /\ mpc[c] \in {"idle", "lock"} /\ post_mutex \in Callers \cup {NoCaller}
      /\ mpc \in [Callers -> {"idle", "lock"} \cup StartSteps \cup TeardownSteps]
  BY DEF StopCall, StopLock, At, CentreTypes
<1>4. NoCaller \notin Callers /\ c # NoCaller
  BY CentreAssumption
<1>5. wpc' = wpc
  BY <1>1 DEF poolVars
<1>6. CASE StopCall(c)
  <2>1. /\ running /\ mpc[c] = "idle" /\ mpc' = [mpc EXCEPT ![c] = "lock"]
        /\ UNCHANGED <<running, post_mutex, outcome>>
    BY <1>6 DEF StopCall, At
  <2>2. /\ mpc' \in [Callers -> {"idle", "lock"} \cup StartSteps \cup TeardownSteps]
        /\ mpc'[c] = "lock" /\ \A d \in Callers : d # c => mpc'[d] = mpc[d]
    BY <1>3, <2>1
  <2>3. CentreTypes'
    BY <1>1, <2>1, <2>2 DEF CentreTypes
  <2>4. \A d \in Callers : ~Starting(d)
    BY <2>1 DEF Exclusive
  <2>5. Exclusive'
    BY <1>1, <1>4, <2>1, <2>2, <2>4, Steps DEF Exclusive, Starting
  <2>6. Torn'
    BY <1>1, <1>5, <2>2 DEF Torn, NoWorkers
  <2>7. Up'
    BY <1>1, <1>2, <2>1, <2>2, <2>4, Steps DEF Up, Starting
  <2>8. QED
    BY <1>2, <2>3, <2>5, <2>6, <2>7
<1>7. CASE StopLock(c)
  <2>1. mpc[c] = "lock" /\ post_mutex = NoCaller /\ running' = FALSE
    BY <1>7 DEF StopLock, At
  <2>2. \A d \in Callers : ~Starting(d) /\ mpc[d] \notin TeardownSteps
    BY <1>4, <2>1 DEF Exclusive, Starting, StartSteps
  <2>3. outcome # "failed"
    BY <2>1 DEF Exclusive
  <2>4. CASE alive
    <3>1. mpc' = [mpc EXCEPT ![c] = "pool.stop"] /\ post_mutex' = c /\ UNCHANGED outcome
      BY <1>7, <2>4 DEF StopLock, At
    <3>2. /\ mpc' \in [Callers -> {"idle", "lock"} \cup StartSteps \cup TeardownSteps]
          /\ mpc'[c] = "pool.stop" /\ \A d \in Callers : d # c => mpc'[d] = mpc[d]
          /\ "pool.stop" \in TeardownSteps
      BY <1>3, <3>1 DEF TeardownSteps
    <3>3. CentreTypes'
      BY <1>1, <2>1, <3>1, <3>2 DEF CentreTypes
    <3>4. Exclusive'
      BY <1>1, <1>4, <2>1, <2>2, <2>3, <2>4, <3>1, <3>2, Steps DEF Exclusive, Starting
    <3>5. Torn'
      BY <1>1, <1>5, <2>4, <3>2 DEF Torn, NoWorkers
    <3>6. \A d \in Callers : ~Starting(d)'
      BY <2>2, <3>2, Steps DEF Starting
    <3>7. Up'
      BY <2>1, <3>6 DEF Up, Starting, StartSteps
    <3>8. QED
      BY <1>2, <3>3, <3>4, <3>5, <3>7
  <2>5. CASE ~alive
    <3>1. mpc' = [mpc EXCEPT ![c] = "idle"] /\ outcome' = "stopped" /\ UNCHANGED post_mutex
      BY <1>7, <2>5 DEF StopLock, At
    <3>2. /\ mpc' \in [Callers -> {"idle", "lock"} \cup StartSteps \cup TeardownSteps]
          /\ mpc'[c] = "idle" /\ \A d \in Callers : d # c => mpc'[d] = mpc[d]
      BY <1>3, <3>1
    <3>3. CentreTypes'
      BY <1>1, <2>1, <3>1, <3>2 DEF CentreTypes
    <3>4. Exclusive'
      BY <1>1, <1>4, <2>1, <2>2, <2>5, <3>1, <3>2, Steps DEF Exclusive, Starting
    <3>5. Torn'
      BY <1>1, <1>5, <2>5, <3>2 DEF Torn, NoWorkers
    <3>6. \A d \in Callers : ~Starting(d)'
      BY <2>2, <3>2, Steps DEF Starting
    <3>7. Up'
      BY <2>1, <3>6 DEF Up, Starting, StartSteps
    <3>8. QED
      BY <1>2, <3>3, <3>4, <3>5, <3>7
  <2>6. QED
    BY <2>4, <2>5
<1>8. QED
  BY <1>6, <1>7

(* Nobody starts while a caller tears down: Up asks nothing.               *)
LEMMA NotUpInStop ==
  ASSUME NEW c \in Callers, ~running',
         mpc'[c] \notin StartSteps,
         \A d \in Callers : d # c => mpc'[d] \in {"idle", "lock"}
  PROVE  Up'
<1>1. \A d \in Callers : mpc'[d] \notin StartSteps
  BY Steps
<1>2. QED
  BY <1>1 DEF Up, Starting, StartSteps

(* worker_pool_->stop(): past its join no worker is left.                  *)
LEMMA StopPoolKeepsInv ==
  ASSUME CentreInv, NEW c \in Callers, StopPool(c)
  PROVE  CentreInv'
<1> USE DEF CentreInv
<1>1. /\ UNCHANGED <<running, post_mutex, alive, outcome, lives, loop_running, started, lpc,
                     io_running, io_live, held, dangling, queueVars, post_callback_done>>
      /\ mpc[c] \in {"pool.stop", "pool.join"}
  BY DEF StopPool, At, loopVars, ioVars, postVars
<1>2. mpc[c] \in TeardownSteps
  BY <1>1 DEF TeardownSteps
<1>3. ~running /\ alive
  BY <1>2, AloneInStop
<1>4. PP!PoolInv'
  BY PoolStopKeeps DEF StopPool
<1>5. QP!QueueInv'
  BY <1>1, SameQueue
<1>6. mpc \in [Callers -> {"idle", "lock"} \cup StartSteps \cup TeardownSteps]
  BY DEF CentreTypes
<1>7. PICK to \in {"pool.join", "loop.flag"} :
        /\ mpc' = [mpc EXCEPT ![c] = to]
        /\ to = "loop.flag" => WP!StopJoin
  BY <1>1, <1>6 DEF StopPool, At
<1>8. to \in TeardownSteps
  BY DEF TeardownSteps
<1>9. /\ Exclusive'
      /\ mpc' \in [Callers -> {"idle", "lock"} \cup StartSteps \cup TeardownSteps]
      /\ mpc'[c] = to /\ \A d \in Callers : d # c => mpc'[d] \in {"idle", "lock"}
  BY <1>1, <1>2, <1>7, <1>8, StaysInStop
<1>10. CentreTypes'
  BY <1>1, <1>9 DEF CentreTypes
<1>11. to = "loop.flag" => NoWorkers'
  BY <1>7 DEF WP!StopJoin, NoWorkers
<1>12. Torn'
  BY <1>1, <1>3, <1>9, <1>11 DEF Torn
<1>13. Up'
  BY <1>1, <1>3, <1>8, <1>9, Steps, NotUpInStop
<1>14. QED
  BY <1>4, <1>5, <1>9, <1>10, <1>12, <1>13

(* event_loop_->stop(), the join of the loop, the IoThreads.               *)
LEMMA StopLoopKeepsInv ==
  ASSUME CentreInv, NEW c \in Callers,
         StopLoopFlag(c) \/ StopLoopShutdown(c) \/ StopLoopJoin(c)
  PROVE  CentreInv'
<1> USE DEF CentreInv
<1>1. /\ UNCHANGED <<running, post_mutex, alive, outcome, lives, started, lpc,
                     io_running, io_live, held, dangling, post_callback_done, poolVars>>
      /\ mpc[c] \in {"loop.flag", "loop.shutdown", "loop.join"}
      /\ loop_running' \in BOOLEAN
  BY DEF StopLoopFlag, StopLoopShutdown, StopLoopJoin, At, loopVars, ioVars, postVars,
         CentreTypes
<1>2. mpc[c] \in TeardownSteps
  BY <1>1 DEF TeardownSteps
<1>3. ~running /\ alive
  BY <1>2, AloneInStop
<1>4. PP!PoolInv'
  BY <1>1, SamePool
<1>5. QP!QueueInv'
  <2>1. SHUTDOWN \in Nat
    BY DEF SHUTDOWN
  <2>2. UNCHANGED queueVars \/ EQ!Push(SHUTDOWN)
    BY DEF StopLoopFlag, StopLoopShutdown, StopLoopJoin
  <2>3. QED
    BY <2>1, <2>2, SameQueue, PushKeeps
<1>6. PICK to \in {"loop.shutdown", "loop.join", "io"} :
        /\ mpc' = [mpc EXCEPT ![c] = to]
        /\ to = "io" => lpc = "none"
  BY DEF StopLoopFlag, StopLoopShutdown, StopLoopJoin, At
<1>7. to \in TeardownSteps
  BY DEF TeardownSteps
<1>8. /\ Exclusive'
      /\ mpc' \in [Callers -> {"idle", "lock"} \cup StartSteps \cup TeardownSteps]
      /\ mpc'[c] = to /\ \A d \in Callers : d # c => mpc'[d] \in {"idle", "lock"}
  BY <1>1, <1>2, <1>6, <1>7, StaysInStop
<1>9. CentreTypes'
  BY <1>1, <1>8 DEF CentreTypes
<1>10. NoWorkers'
  BY <1>1 DEF Torn, NoWorkers, poolVars
<1>11. Torn'
  BY <1>1, <1>3, <1>6, <1>8, <1>10 DEF Torn
<1>12. Up'
  BY <1>1, <1>3, <1>7, <1>8, Steps, NotUpInStop
<1>13. QED
  BY <1>4, <1>5, <1>8, <1>9, <1>11, <1>12

LEMMA StopIoKeepsInv ==
  ASSUME CentreInv, NEW c \in Callers, StopIo(c)
  PROVE  CentreInv'
<1> USE DEF CentreInv
<1>1. /\ UNCHANGED <<running, post_mutex, alive, outcome, lives, io_live, loop_running,
                     started, lpc, held, dangling, queueVars, post_callback_done, poolVars>>
      /\ mpc[c] = "io" /\ io_running' \subseteq io_running
  BY DEF StopIo, loopVars, postVars
<1>2. mpc[c] \in TeardownSteps
  BY <1>1 DEF TeardownSteps
<1>3. ~running /\ alive
  BY <1>2, AloneInStop
<1>4. PP!PoolInv' /\ QP!QueueInv'
  BY <1>1, SamePool, SameQueue
<1>5. mpc \in [Callers -> {"idle", "lock"} \cup StartSteps \cup TeardownSteps]
  BY DEF CentreTypes
<1>6. PICK to \in {"io", "reset"} :
        /\ mpc' = [mpc EXCEPT ![c] = to]
        /\ to = "reset" => io_live = {}
  BY <1>1, <1>5 DEF StopIo, At
<1>7. to \in TeardownSteps
  BY DEF TeardownSteps
<1>8. /\ Exclusive'
      /\ mpc' \in [Callers -> {"idle", "lock"} \cup StartSteps \cup TeardownSteps]
      /\ mpc'[c] = to /\ \A d \in Callers : d # c => mpc'[d] \in {"idle", "lock"}
  BY <1>1, <1>2, <1>6, <1>7, StaysInStop
<1>9. CentreTypes'
  BY <1>1, <1>8 DEF CentreTypes
<1>10. NoWorkers' /\ lpc = "none"
  BY <1>1 DEF Torn, NoWorkers, poolVars
<1>11. Torn'
  BY <1>1, <1>3, <1>6, <1>8, <1>10 DEF Torn
<1>12. Up'
  BY <1>1, <1>3, <1>7, <1>8, Steps, NotUpInStop
<1>13. QED
  BY <1>4, <1>8, <1>9, <1>11, <1>12

(* The resets: every thread has been joined.                               *)
LEMMA StopResetKeepsInv ==
  ASSUME CentreInv, NEW c \in Callers, StopReset(c)
  PROVE  CentreInv'
<1> USE DEF CentreInv
<1>1. /\ UNCHANGED <<running, lives, held, loop_running, started, lpc, io_running, io_live,
                     queueVars, post_callback_done, poolVars>>
      /\ mpc[c] = "reset" /\ mpc' = [mpc EXCEPT ![c] = "idle"]
      /\ alive' = FALSE /\ post_mutex' = NoCaller /\ outcome' = "stopped"
      /\ dangling' \in BOOLEAN
  BY DEF StopReset, At, loopVars, ioVars
<1>2. mpc[c] \in TeardownSteps
  BY <1>1 DEF TeardownSteps
<1>3. ~running /\ \A d \in Callers : d # c => mpc[d] \in {"idle", "lock"}
  BY <1>2, AloneInStop
<1>4. PP!PoolInv' /\ QP!QueueInv'
  BY <1>1, SamePool, SameQueue
<1>5. mpc \in [Callers -> {"idle", "lock"} \cup StartSteps \cup TeardownSteps]
  BY DEF CentreTypes
<1>6. /\ mpc' \in [Callers -> {"idle", "lock"} \cup StartSteps \cup TeardownSteps]
      /\ mpc'[c] = "idle" /\ \A d \in Callers : mpc'[d] \in {"idle", "lock"}
  BY <1>1, <1>3, <1>5
<1>7. CentreTypes'
  BY <1>1, <1>6 DEF CentreTypes
<1>8. \A d \in Callers : mpc'[d] \notin StartSteps \cup TeardownSteps /\ d # NoCaller
  BY <1>6, Steps, CentreAssumption
<1>9. Exclusive'
  BY <1>1, <1>3, <1>8 DEF Exclusive, Starting
<1>10. lpc = "none" /\ io_live = {} /\ NoWorkers'
  BY <1>1 DEF Torn, NoWorkers, poolVars
<1>11. Torn'
  BY <1>1, <1>6, <1>10 DEF Torn
<1>12. Up'
  BY <1>1, <1>3, <1>6, Steps, NotUpInStop
<1>13. QED
  BY <1>4, <1>7, <1>9, <1>11, <1>12

-------------------------------------------------------------------------------
(* Every step keeps the invariant.                                         *)
LEMMA NextInv == CentreInv /\ [Next]_vars => CentreInv'
<1> SUFFICES ASSUME CentreInv, [Next]_vars PROVE CentreInv'
  OBVIOUS
<1>1. ASSUME NEW c \in Callers, StartCreate(c) \/ StartTimeout(c) \/ StopCall(c) \/ CallerStep(c)
      PROVE  CentreInv'
  BY <1>1, CreateKeepsInv, StartPoolKeepsInv, StartOnKeepsInv, StartEndKeepsInv,
     StopBeginKeepsInv, StopPoolKeepsInv, StopLoopKeepsInv, StopIoKeepsInv, StopResetKeepsInv
     DEF CallerStep
<1>2. CASE LoopStep
  BY <1>2, LoopKeepsInv
<1>3. ASSUME NEW t \in IoThreads, IoExit(t) \/ \E y \in OtherTypes : IoPush(t, y)
      PROVE  CentreInv'
  BY <1>3, IoExitKeepsInv, EventsKeepInv
<1>4. ASSUME NEW w \in Workers, WorkerStep(w) \/ WorkerPost(w) PROVE CentreInv'
  BY <1>4, WorkersKeepInv
<1>5. ASSUME NEW p \in Posters,
             \/ \E y \in OtherTypes : PostEvent(p, y)
             \/ PostTaskRead(p) \/ PostTaskCall(p) \/ PostTaskNotify(p)
      PROVE  CentreInv'
  BY <1>5, EventsKeepInv, PostersKeepInv
<1>6. CASE UNCHANGED vars
  <2>1. UNCHANGED <<centreVars, loopVars, ioVars, postVars, queueVars, post_callback_done,
                    poolVars>>
    BY <1>6 DEF vars
  <2>2. QP!QueueInv' /\ PP!PoolInv'
    BY <2>1, SameQueue, SamePool DEF CentreInv
  <2>3. /\ priority_queues'[SHUTDOWN] = priority_queues[SHUTDOWN]
        /\ NoWorkers => NoWorkers'
    BY <2>1 DEF queueVars, poolVars, NoWorkers
  <2>4. held' \in [Posters -> 0 .. lives] /\ dangling' \in BOOLEAN
    BY <2>1 DEF postVars, CentreInv, CentreTypes
  <2>5. QED
    BY <2>1, <2>2, <2>3, <2>4, SameCentre
<1>7. QED
  BY <1>1, <1>2, <1>3, <1>4, <1>5, <1>6 DEF Next

(* The inductive invariant of the composition.                             *)
THEOREM CentreInvariant == Spec => []CentreInv
  BY InitInv, NextInv, PTL DEF Spec

(* Every variable of the centre, its queue and its pool keeps its type.    *)
THEOREM CentreTypeCorrect == Spec => []TypeOK
<1>1. CentreInv => TypeOK
  <2>1. QP!TypeOK => EQ!TypeOK
    BY DEF QP!TypeOK, EQ!TypeOK, QP!Priorities, EQ!Priorities
  <2>2. PP!TypeOK => WP!TypeOK
    BY DEF PP!TypeOK, WP!TypeOK, PP!NoOne, WP!NoOne, PP!CtlSteps, WP!CtlSteps,
           PP!WorkerSteps, WP!WorkerSteps, PP!NoTask, WP!NoTask
  <2>3. QED
    BY <2>1, <2>2 DEF CentreInv, CentreTypes, TypeOK, QP!QueueInv, PP!PoolInv
<1>2. QED
  BY <1>1, CentreInvariant, PTL

(* stop() resets the queue, the loop and the pool only after the last      *)
(* thread that holds a pointer to them has been joined, whatever other     *)
(* callers of stop() do meanwhile.                                         *)
THEOREM ObjectsOutlive == Spec => []ObjectsOutliveThreads
<1>1. CentreInv => ObjectsOutliveThreads
  BY DEF CentreInv, Torn, NoWorkers, ObjectsOutliveThreads, ThreadsLive
<1>2. QED
  BY <1>1, CentreInvariant, PTL

(* post_event() that finds running_ set under post_mutex_ finds objects    *)
(* and a loop that will take the event.                                    *)
THEOREM RunningIsReady == Spec => []RunningMeansReady
<1>1. CentreInv => RunningMeansReady
  BY DEF CentreInv, Exclusive, Up, RunningMeansReady
<1>2. QED
  BY <1>1, CentreInvariant, PTL

(* Inside the centre, in every life, no accepted callback task is lost or  *)
(* run twice ...                                                           *)
THEOREM CentreTasksOnce == Spec => []WP!EachTaskOnce
<1>1. PP!EachTaskOnce => WP!EachTaskOnce
  BY DEF PP!EachTaskOnce, WP!EachTaskOnce
<1>2. CentreInv => PP!EachTaskOnce
  BY PP!InvGivesOnce, PoolConstants DEF CentreInv
<1>3. QED
  BY <1>1, <1>2, CentreInvariant, PTL

(* ... and those accepted before stop() reached the pool have run when the *)
(* pool's stop() returns, so before the event loop is told to stop.        *)
THEOREM CentreDrainsTasks == Spec => []WP!ProcessAllTasksOnStop
<1>1. PP!ProcessAllTasksOnStop => WP!ProcessAllTasksOnStop
  BY DEF PP!ProcessAllTasksOnStop, WP!ProcessAllTasksOnStop, PP!Stopped, WP!Stopped
<1>2. CentreInv => PP!ProcessAllTasksOnStop
  BY PP!InvGivesDrained, PoolConstants DEF CentreInv
<1>3. QED
  BY <1>1, <1>2, CentreInvariant, PTL

(* Events of one priority come out of the centre's queue in the order in   *)
(* which posters, IoThreads, workers and stop() got them in, none lost.    *)
THEOREM CentreEventsInOrder == Spec => []EQ!NoLossFifo
<1>1. QP!NoLossFifo => EQ!NoLossFifo
  BY DEF QP!NoLossFifo, EQ!NoLossFifo, QP!Priorities, EQ!Priorities
<1>2. CentreInv => QP!NoLossFifo
  BY DEF CentreInv, QP!QueueInv
<1>3. QED
  BY <1>1, <1>2, CentreInvariant, PTL

===============================================================================
