------------------------------ MODULE WorkerPool ------------------------------
(***************************************************************************)
(* The worker threads that run callback tasks                              *)
(* (msg_center/source/worker_pool.cpp): a task queue under mutex_, the     *)
(* condition variable task_cv_, and the atomics running_ and               *)
(* queue_closed_, which stop() writes WITHOUT the mutex.                   *)
(*                                                                         *)
(* One controlling thread starts and stops the pool (MsgCenter does);      *)
(* Posters call post_task().  The steps are those other threads can see:   *)
(* each store of start() and stop(), the notification after post_task()'s  *)
(* unlock, and, inside wait(lock, pred), the evaluation of the predicate   *)
(* and the blocking that follows it, both with the mutex held.             *)
(***************************************************************************)
EXTENDS Naturals, Sequences, FiniteSets

CONSTANTS Workers,      \* the num_workers_ threads
          Posters,      \* threads that call post_task()
          MaxTasks,     \* bound: tasks accepted in a behaviour
          MaxStarts,    \* bound: start() calls
          MaxSpurious   \* bound: wakeups nobody asked for

NoOne == "no one"
NoTask == 0

ASSUME PoolAssumption ==
  /\ Workers # {} /\ NoOne \notin Workers
  /\ MaxTasks \in Nat
  /\ MaxStarts \in Nat
  /\ MaxSpurious \in Nat

VARIABLES
  running,        \* running_
  queue_closed,   \* queue_closed_
  task_queue,     \* task_queue_: identities of queued tasks, oldest first
  mutex,          \* the worker that holds mutex_, or NoOne
  ctl,            \* where the controlling thread is in start() or stop()
  wpc,            \* where each worker is in worker_thread()
  task,           \* the task a worker holds
  notifying,      \* posters between post_task()'s unlock and its notify_one
  accepted,       \* history: number of tasks accepted; task i is the i-th
  acceptedAtStop, \* history: tasks accepted when the last stop() was called
  executed,       \* history: tasks run to completion
  starts,         \* start() calls so far
  spurious        \* spurious wakeups so far

poolVars == <<running, queue_closed, task_queue, mutex, ctl, wpc, task, notifying,
              accepted, acceptedAtStop, executed, starts, spurious>>

WorkerSteps == {"none",   \* thread not running (never started, or exited)
                "lock",   \* top of the loop, or woken: wants mutex_
                "block",  \* predicate false, mutex_ held, about to block
                "wait",   \* blocked in task_cv_.wait
                "take",   \* predicate true, mutex_ held
                "run",    \* runs the task, outside the lock
                "post"}   \* task done, about to post CALLBACK_DONE

CtlSteps == {"idle", "starting", "spawning", "closing", "notifying", "joining"}

Init ==
  /\ running = FALSE
  /\ queue_closed = FALSE
  /\ task_queue = <<>>
  /\ mutex = NoOne
  /\ ctl = "idle"
  /\ wpc = [w \in Workers |-> "none"]
  /\ task = [w \in Workers |-> NoTask]
  /\ notifying = {}
  /\ accepted = 0
  /\ acceptedAtStop = 0
  /\ executed = {}
  /\ starts = 0
  /\ spurious = 0

-------------------------------------------------------------------------------
(* start(): running_, then queue_closed_, then the threads.                *)
StartRunning ==
  /\ ctl = "idle" /\ ~running
  /\ running' = TRUE
  /\ starts' = starts + 1
  /\ ctl' = "starting"
  /\ UNCHANGED <<queue_closed, task_queue, mutex, wpc, task, notifying,
                 accepted, acceptedAtStop, executed, spurious>>

StartOpen ==
  /\ ctl = "starting"
  /\ queue_closed' = FALSE
  /\ ctl' = "spawning"
  /\ UNCHANGED <<running, task_queue, mutex, wpc, task, notifying,
                 accepted, acceptedAtStop, executed, starts, spurious>>

StartSpawn ==
  /\ ctl = "spawning"
  /\ wpc' = [w \in Workers |-> "lock"]
  /\ ctl' = "idle"
  /\ UNCHANGED <<running, queue_closed, task_queue, mutex, task, notifying,
                 accepted, acceptedAtStop, executed, starts, spurious>>

(* stop(): running_, then queue_closed_, then notify_all, then the joins.  *)
StopRunning ==
  /\ ctl = "idle" /\ running
  /\ running' = FALSE
  /\ acceptedAtStop' = accepted
  /\ ctl' = "closing"
  /\ UNCHANGED <<queue_closed, task_queue, mutex, wpc, task, notifying,
                 accepted, executed, starts, spurious>>

StopClose ==
  /\ ctl = "closing"
  /\ queue_closed' = TRUE
  /\ ctl' = "notifying"
  /\ UNCHANGED <<running, task_queue, mutex, wpc, task, notifying,
                 accepted, acceptedAtStop, executed, starts, spurious>>

StopNotify ==
  /\ ctl = "notifying"
  /\ wpc' = [w \in Workers |-> IF wpc[w] = "wait" THEN "lock" ELSE wpc[w]]
  /\ ctl' = "joining"
  /\ UNCHANGED <<running, queue_closed, task_queue, mutex, task, notifying,
                 accepted, acceptedAtStop, executed, starts, spurious>>

StopJoin ==
  /\ ctl = "joining"
  /\ \A w \in Workers : wpc[w] = "none"
  /\ ctl' = "idle"
  /\ UNCHANGED <<running, queue_closed, task_queue, mutex, wpc, task, notifying,
                 accepted, acceptedAtStop, executed, starts, spurious>>

(* post_task(): refused, with no effect, when closed; otherwise the        *)
(* notification follows the unlock.                                        *)
PostTask(p) ==
  /\ p \notin notifying
  /\ mutex = NoOne
  /\ ~queue_closed
  /\ accepted' = accepted + 1
  /\ task_queue' = Append(task_queue, accepted + 1)
  /\ notifying' = notifying \cup {p}
  /\ UNCHANGED <<running, queue_closed, mutex, ctl, wpc, task,
                 acceptedAtStop, executed, starts, spurious>>

(* notify_one lost.                                                        *)
PostForget(p) ==
  /\ p \in notifying
  /\ notifying' = notifying \ {p}
  /\ UNCHANGED <<running, queue_closed, task_queue, mutex, ctl, wpc, task,
                 accepted, acceptedAtStop, executed, starts, spurious>>

PostNotify(p) ==
  /\ p \in notifying
  /\ notifying' = notifying \ {p}
  /\ \/ /\ \A w \in Workers : wpc[w] # "wait"
        /\ UNCHANGED wpc
     \/ \E w \in Workers : wpc[w] = "wait" /\ wpc' = [wpc EXCEPT ![w] = "lock"]
  /\ UNCHANGED <<running, queue_closed, task_queue, mutex, ctl, task,
                 accepted, acceptedAtStop, executed, starts, spurious>>

-------------------------------------------------------------------------------
(* The wait predicate.  Its middle disjunct (closed and not running)       *)
(* follows from the last one.                                              *)
MayProceed == task_queue # <<>> \/ ~running

(* worker_thread(): lock, then evaluate the predicate.                     *)
Check(w) ==
  /\ wpc[w] = "lock"
  /\ mutex = NoOne
  /\ mutex' = w
  /\ wpc' = [wpc EXCEPT ![w] = IF MayProceed THEN "take" ELSE "block"]
  /\ UNCHANGED <<running, queue_closed, task_queue, ctl, task, notifying,
                 accepted, acceptedAtStop, executed, starts, spurious>>

(* wait() unlocks and blocks in one step; a notification sent since the    *)
(* predicate was evaluated has found nobody waiting.                       *)
Block(w) ==
  /\ wpc[w] = "block"
  /\ mutex' = NoOne
  /\ wpc' = [wpc EXCEPT ![w] = "wait"]
  /\ UNCHANGED <<running, queue_closed, task_queue, ctl, task, notifying,
                 accepted, acceptedAtStop, executed, starts, spurious>>

SpuriousWakeup(w) ==
  /\ wpc[w] = "wait"
  /\ wpc' = [wpc EXCEPT ![w] = "lock"]
  /\ spurious' = spurious + 1
  /\ UNCHANGED <<running, queue_closed, task_queue, mutex, ctl, task, notifying,
                 accepted, acceptedAtStop, executed, starts>>

(* front() without pop().                                                  *)
TakeNoPop(w) ==
  /\ wpc[w] = "take"
  /\ task_queue # <<>>
  /\ mutex' = NoOne
  /\ task' = [task EXCEPT ![w] = Head(task_queue)]
  /\ wpc' = [wpc EXCEPT ![w] = "run"]
  /\ UNCHANGED <<running, queue_closed, task_queue, ctl, notifying,
                 accepted, acceptedAtStop, executed, starts, spurious>>

(* The empty() test forgotten: with nothing queued, an empty task.         *)
TakeUnchecked(w) ==
  /\ wpc[w] = "take"
  /\ mutex' = NoOne
  /\ task' = [task EXCEPT ![w] = IF task_queue = <<>> THEN NoTask ELSE Head(task_queue)]
  /\ task_queue' = IF task_queue = <<>> THEN <<>> ELSE Tail(task_queue)
  /\ wpc' = [wpc EXCEPT ![w] = "run"]
  /\ UNCHANGED <<running, queue_closed, ctl, notifying,
                 accepted, acceptedAtStop, executed, starts, spurious>>

(* A task, if there is one, even when stopped ...                          *)
TakeTask(w) ==
  /\ wpc[w] = "take"
  /\ task_queue # <<>>
  /\ mutex' = NoOne
  /\ task' = [task EXCEPT ![w] = Head(task_queue)]
  /\ task_queue' = Tail(task_queue)
  /\ wpc' = [wpc EXCEPT ![w] = "run"]
  /\ UNCHANGED <<running, queue_closed, ctl, notifying,
                 accepted, acceptedAtStop, executed, starts, spurious>>

(* Leaving as soon as running_ is false, tasks or no tasks.                *)
ExitEarly(w) ==
  /\ wpc[w] = "take"
  /\ ~running
  /\ mutex' = NoOne
  /\ wpc' = [wpc EXCEPT ![w] = "none"]
  /\ UNCHANGED <<running, queue_closed, task_queue, ctl, task, notifying,
                 accepted, acceptedAtStop, executed, starts, spurious>>

(* ... and out when there is none and the pool does not run.               *)
Exit(w) ==
  /\ wpc[w] = "take"
  /\ task_queue = <<>>
  /\ ~running
  /\ mutex' = NoOne
  /\ wpc' = [wpc EXCEPT ![w] = "none"]
  /\ UNCHANGED <<running, queue_closed, task_queue, ctl, task, notifying,
                 accepted, acceptedAtStop, executed, starts, spurious>>

(* The task body, outside the lock; an exception is caught and logged and  *)
(* leaves the worker where a return leaves it.                             *)
RunTask(w) ==
  /\ wpc[w] = "run"
  /\ executed' = executed \cup {task[w]}
  /\ task' = [task EXCEPT ![w] = NoTask]
  /\ wpc' = [wpc EXCEPT ![w] = "post"]
  /\ UNCHANGED <<running, queue_closed, task_queue, mutex, ctl, notifying,
                 accepted, acceptedAtStop, starts, spurious>>

(* The CALLBACK_DONE event, when enabled, goes to the event loop's queue,  *)
(* which is another component's state; then back to the loop.              *)
PostCallbackDone(w) ==
  /\ wpc[w] = "post"
  /\ wpc' = [wpc EXCEPT ![w] = "lock"]
  /\ UNCHANGED <<running, queue_closed, task_queue, mutex, ctl, task, notifying,
                 accepted, acceptedAtStop, executed, starts, spurious>>

WorkerStep(w) ==
  \/ Check(w) \/ Block(w) \/ TakeTask(w) \/ Exit(w)
  \/ RunTask(w) \/ PostCallbackDone(w)

StopStep == StopClose \/ StopNotify \/ StopJoin

Next ==
  \/ starts < MaxStarts /\ StartRunning
  \/ StartOpen
  \/ StartSpawn
  \/ StopRunning
  \/ StopStep
  \/ \E p \in Posters : (accepted < MaxTasks /\ PostTask(p)) \/ PostNotify(p)
  \/ \E w \in Workers : WorkerStep(w) \/ (spurious < MaxSpurious /\ SpuriousWakeup(w))

(* Threads that can take a step do: a worker, the controller once inside   *)
(* start() or stop(), a poster that owes a notification.  Nobody has to    *)
(* call start(), stop() or post_task(), and spurious wakeups need never    *)
(* come.                                                                   *)
Fairness ==
  /\ \A w \in Workers : WF_poolVars(WorkerStep(w))
  /\ \A p \in Posters : WF_poolVars(PostNotify(p))
  /\ WF_poolVars(StartOpen \/ StartSpawn)
  /\ WF_poolVars(StopStep)

Spec == Init /\ [][Next]_poolVars

FairSpec == Spec /\ Fairness

-------------------------------------------------------------------------------
TypeOK ==
  /\ running \in BOOLEAN
  /\ queue_closed \in BOOLEAN
  /\ task_queue \in Seq(Nat)
  /\ mutex \in Workers \cup {NoOne}
  /\ ctl \in CtlSteps
  /\ wpc \in [Workers -> WorkerSteps]
  /\ task \in [Workers -> Nat]
  /\ notifying \subseteq Posters
  /\ accepted \in Nat
  /\ acceptedAtStop \in Nat
  /\ executed \subseteq Nat \ {NoTask}
  /\ starts \in Nat
  /\ spurious \in Nat

(* Every accepted task is in exactly one place: queued, in the hands of    *)
(* exactly one worker, or executed.  None is lost and none runs twice,     *)
(* whatever stop(), the posters and the workers do.                        *)
EachTaskOnce ==
  \A t \in 1 .. accepted :
    \/ /\ t \in executed
       /\ \A i \in DOMAIN task_queue : task_queue[i] # t
       /\ \A w \in Workers : task[w] # t
    \/ /\ t \notin executed
       /\ \E i \in DOMAIN task_queue :
            task_queue[i] = t /\ \A j \in DOMAIN task_queue : task_queue[j] = t => j = i
       /\ \A w \in Workers : task[w] # t
    \/ /\ t \notin executed
       /\ \A i \in DOMAIN task_queue : task_queue[i] # t
       /\ \E w \in Workers : task[w] = t /\ \A v \in Workers : task[v] = t => v = w

(* A stop() has returned and no start() has been called since.             *)
Stopped == starts > 0 /\ ctl = "idle" /\ ~running

(* When stop() returns, every task accepted before stop() was called has   *)
(* been executed: workers drain the queue before they exit.                *)
ProcessAllTasksOnStop == Stopped => \A t \in 1 .. acceptedAtStop : t \in executed

(* Only the holder of mutex_ is between the lock and the unlock.           *)
MutexHeld ==
  \A w \in Workers : wpc[w] \in {"block", "take"} <=> mutex = w

(* While the pool runs, an accepted task is executed: a push happens under *)
(* the mutex, so the notification that follows it cannot be lost.          *)
QueuedTaskRuns ==
  \A t \in 1 .. MaxTasks :
    (accepted >= t /\ ctl = "idle" /\ running) ~> (t \in executed \/ ~running)

(* stop() returns, whatever the workers were doing when it was called.     *)
StopReturns == (ctl = "joining") ~> (ctl = "idle")

===============================================================================
