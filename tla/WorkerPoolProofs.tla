--------------------------- MODULE WorkerPoolProofs ---------------------------
(***************************************************************************)
(* Tasks are run once and drained on stop, for any number of workers,      *)
(* posters, tasks and start/stop rounds.                                   *)
(*                                                                         *)
(* Tasks are numbered as they are accepted and the queue is FIFO, so at    *)
(* any time the tasks 1 .. Taken have left the queue and the queue holds   *)
(* Taken+1 .. accepted in order (Shape).  A task that has left the queue   *)
(* is executed or in one worker's hands (Hands).  A worker exits only when *)
(* the queue is empty, so once one has exited every task accepted before   *)
(* stop() has been taken (Phases); when all have exited, nobody holds any. *)
(***************************************************************************)
EXTENDS WorkerPool, SequenceTheorems, TLAPS

Taken == accepted - Len(task_queue)

Shape ==
  /\ Len(task_queue) <= accepted
  /\ \A i \in 1 .. Len(task_queue) : task_queue[i] = Taken + i

Hands ==
  /\ \A w \in Workers : wpc[w] = "run" <=> task[w] # NoTask
  /\ \A w \in Workers : task[w] # NoTask => task[w] \in 1 .. Taken /\ task[w] \notin executed
  /\ \A v, w \in Workers : task[v] # NoTask /\ task[v] = task[w] => v = w
  /\ executed \subseteq 1 .. Taken
  /\ \A t \in 1 .. Taken : t \in executed \/ \E w \in Workers : task[w] = t

AllExited == \A w \in Workers : wpc[w] = "none"

Phases ==
  /\ acceptedAtStop <= accepted
  /\ ctl \in {"starting", "spawning"} => running /\ AllExited
  /\ ctl \in {"closing", "notifying", "joining"} => ~running
  /\ ctl \in {"closing", "notifying", "joining"}
       => \A w \in Workers : wpc[w] = "none" => acceptedAtStop <= Taken
  /\ ctl = "idle" /\ running => \A w \in Workers : wpc[w] # "none"
  /\ ctl = "idle" /\ ~running => AllExited /\ (starts > 0 => acceptedAtStop <= Taken)

PoolInv == TypeOK /\ MutexHeld /\ Shape /\ Hands /\ Phases

-------------------------------------------------------------------------------
(* Shape makes the number of tasks that left the queue a natural one.      *)
LEMMA TakenType ==
  ASSUME TypeOK, Shape
  PROVE  Taken \in Nat /\ Len(task_queue) \in Nat
  BY LenProperties DEF TypeOK, Shape, Taken

(* A pool that was never started has no tasks and no threads.              *)
LEMMA InitInv == Init => PoolInv
<1> SUFFICES ASSUME Init PROVE PoolInv
  OBVIOUS
<1>1. Len(task_queue) = 0 /\ Taken = 0
  <2>1. accepted = 0
    BY DEF Init
  <2>2. task_queue = <<>>
    BY DEF Init
  <2>3. Len(task_queue) = 0
    BY <2>2
  <2>4. Taken = 0
    BY <2>1, <2>3 DEF Taken
  <2>5. QED
    BY <2>3, <2>4
<1>2. TypeOK
  <2>1. running \in BOOLEAN /\ queue_closed \in BOOLEAN
    BY DEF Init
  <2>2. task_queue \in Seq(Nat)
    <3>1. <<>> \in Seq(Nat)
      BY EmptySeq
    <3>2. QED
      BY <3>1, Zenon DEF Init
  <2>3. mutex \in Workers \cup {NoOne} /\ ctl \in CtlSteps
    BY DEF Init, CtlSteps
  <2>4. wpc \in [Workers -> WorkerSteps]
    BY DEF Init, WorkerSteps
  <2>5. task \in [Workers -> Nat] /\ accepted \in Nat /\ acceptedAtStop \in Nat
    BY DEF Init, NoTask
  <2>6. notifying \subseteq Posters /\ executed \subseteq Nat \ {NoTask}
    BY DEF Init
  <2>7. starts \in Nat /\ spurious \in Nat
    BY DEF Init
  <2>8. QED
    BY <2>1, <2>2, <2>3, <2>4, <2>5, <2>6, <2>7 DEF TypeOK
<1>3. Shape
  BY <1>1 DEF Init, Shape
<1>4. Hands
  BY <1>1 DEF Init, Hands, NoTask
<1>5. Phases
  BY <1>1 DEF Init, Phases, AllExited
<1>6. MutexHeld
  BY PoolAssumption DEF Init, MutexHeld
<1>7. QED
  BY <1>2, <1>3, <1>4, <1>5, <1>6 DEF PoolInv

(* A worker that leaves its critical section releases the mutex.           *)
LEMMA Releases ==
  ASSUME MutexHeld, NEW w \in Workers,
         wpc[w] \in {"block", "take"}, wpc'[w] \notin {"block", "take"},
         mutex' = NoOne, \A v \in Workers : v # w => wpc'[v] = wpc[v]
  PROVE  MutexHeld'
<1>1. mutex = w
  BY DEF MutexHeld
<1>2. ASSUME NEW v \in Workers PROVE wpc'[v] \notin {"block", "take"} /\ mutex' # v
  <2>1. mutex' # v
    BY PoolAssumption
  <2>2. CASE v = w
    BY <2>1, <2>2
  <2>3. CASE v # w
    BY <1>1, <2>1, <2>3 DEF MutexHeld
  <2>4. QED
    BY <2>2, <2>3
<1>3. QED
  BY <1>2 DEF MutexHeld

(* Whatever leaves the queue and the tasks alone keeps the bookkeeping.    *)
LEMMA SameTasks ==
  ASSUME TypeOK, Shape, Hands, UNCHANGED <<task_queue, task, executed, accepted>>,
         \A w \in Workers : wpc'[w] = "run" <=> wpc[w] = "run"
  PROVE  Shape' /\ Hands' /\ Taken' = Taken
  BY DEF Shape, Hands, Taken

(* A task is accepted: the queue grows at the end, nothing is taken.       *)
LEMMA PostKeepsTasks ==
  ASSUME PoolInv, NEW p \in Posters, PostTask(p)
  PROVE  Shape' /\ Hands' /\ Taken' = Taken /\ task_queue' \in Seq(Nat)
<1> USE DEF PoolInv
<1>1. task_queue \in Seq(Nat) /\ accepted \in Nat /\ accepted + 1 \in Nat
  BY DEF TypeOK
<1>2. /\ task_queue' = Append(task_queue, accepted + 1)
      /\ accepted' = accepted + 1
      /\ UNCHANGED <<wpc, task, executed>>
  BY DEF PostTask
<1>3. /\ task_queue' \in Seq(Nat)
      /\ Len(task_queue') = Len(task_queue) + 1
      /\ \A i \in 1 .. Len(task_queue) : task_queue'[i] = task_queue[i]
      /\ task_queue'[Len(task_queue) + 1] = accepted + 1
  BY <1>1, <1>2, AppendProperties
<1>4. Len(task_queue) \in Nat /\ Taken \in Nat
  BY TakenType
<1>5. Taken' = Taken
  BY <1>1, <1>2, <1>3, <1>4 DEF Taken
<1>6. Shape'
  <2>1. Len(task_queue)' <= accepted'
    BY <1>1, <1>2, <1>3, <1>4 DEF Shape
  <2>2. ASSUME NEW i \in 1 .. Len(task_queue') PROVE task_queue'[i] = Taken + i
    <3>1. CASE i = Len(task_queue) + 1
      BY <3>1, <1>1, <1>3, <1>4 DEF Taken
    <3>2. CASE i # Len(task_queue) + 1
      <4>1. i \in 1 .. Len(task_queue)
        BY <3>2, <2>2, <1>3, <1>4
      <4>2. QED
        BY <4>1, <1>3 DEF Shape
    <3>3. QED
      BY <3>1, <3>2
  <2>3. QED
    BY <2>1, <2>2, <1>5 DEF Shape
<1>7. Hands'
  BY <1>2, <1>5 DEF Hands
<1>8. QED
  BY <1>3, <1>5, <1>6, <1>7

(* A worker takes the front task: it is number Taken + 1, held by nobody.  *)
LEMMA TakeKeepsTasks ==
  ASSUME PoolInv, NEW w \in Workers, TakeTask(w)
  PROVE  Shape' /\ Hands' /\ Taken' = Taken + 1 /\ task_queue' \in Seq(Nat)
<1> USE DEF PoolInv
<1>1. task_queue \in Seq(Nat) /\ task_queue # <<>> /\ accepted \in Nat
  BY DEF TypeOK, TakeTask
<1>2. Len(task_queue) \in Nat /\ Len(task_queue) # 0 /\ Taken \in Nat
  BY <1>1, TakenType, EmptySeq
<1>3. /\ task_queue' = Tail(task_queue)
      /\ task' = [task EXCEPT ![w] = Head(task_queue)]
      /\ wpc' = [wpc EXCEPT ![w] = "run"]
      /\ wpc[w] = "take"
      /\ UNCHANGED <<executed, accepted>>
  BY DEF TakeTask
<1>4. /\ task_queue' \in Seq(Nat)
      /\ Len(task_queue') = Len(task_queue) - 1
      /\ \A i \in 1 .. Len(task_queue') : task_queue'[i] = task_queue[i + 1]
  BY <1>1, <1>3, HeadTailProperties
<1>5. Head(task_queue) = Taken + 1
  BY <1>1, <1>2 DEF Shape
<1>6. Taken' = Taken + 1
  BY <1>1, <1>2, <1>3, <1>4 DEF Taken
<1>7. Shape'
  <2>1. Len(task_queue)' <= accepted'
    BY <1>1, <1>2, <1>3, <1>4 DEF Shape
  <2>2. ASSUME NEW i \in 1 .. Len(task_queue') PROVE task_queue'[i] = (Taken + 1) + i
    <3>1. i + 1 \in 1 .. Len(task_queue)
      BY <2>2, <1>2, <1>4
    <3>2. task_queue[i + 1] = Taken + (i + 1)
      BY <3>1 DEF Shape
    <3>3. task_queue'[i] = task_queue[i + 1]
      BY <2>2, <1>4
    <3>4. QED
      BY <3>2, <3>3, <1>2, <1>4, <2>2
  <2>3. QED
    BY <2>1, <2>2, <1>6 DEF Shape
<1>8. Hands'
  <2>1. /\ task'[w] = Taken + 1 /\ task'[w] # NoTask /\ wpc'[w] = "run"
        /\ \A v \in Workers : v # w => task'[v] = task[v] /\ wpc'[v] = wpc[v]
    BY <1>2, <1>3, <1>5 DEF TypeOK, NoTask
  <2>2. task[w] = NoTask
    BY <1>3 DEF Hands
  <2>3. /\ \A v \in Workers : wpc'[v] = "run" <=> task'[v] # NoTask
        /\ \A v \in Workers : task'[v] # NoTask =>
             task'[v] \in 1 .. Taken + 1 /\ task'[v] \notin executed
        /\ \A v, u \in Workers : task'[v] # NoTask /\ task'[v] = task'[u] => v = u
    BY <2>1, <1>2 DEF Hands
  <2>4. executed \subseteq 1 .. Taken + 1
    BY <1>2 DEF Hands
  <2>5. \A t \in 1 .. Taken + 1 : t \in executed \/ \E v \in Workers : task'[v] = t
    <3> SUFFICES ASSUME NEW t \in 1 .. Taken + 1, t \notin executed
                 PROVE  \E v \in Workers : task'[v] = t
      OBVIOUS
    <3>1. CASE t = Taken + 1
      BY <3>1, <2>1
    <3>2. CASE t # Taken + 1
      <4>1. t \in 1 .. Taken
        BY <3>2, <1>2
      <4>2. PICK v \in Workers : task[v] = t
        BY <4>1 DEF Hands
      <4>3. v # w
        BY <4>1, <4>2, <2>2 DEF NoTask
      <4>4. QED
        BY <4>2, <4>3, <2>1
    <3>3. QED
      BY <3>1, <3>2
  <2>6. executed' = executed
    BY <1>3
  <2>7. QED
    BY <2>3, <2>4, <2>5, <2>6, <1>6 DEF Hands
<1>9. QED
  BY <1>4, <1>6, <1>7, <1>8

(* A task body finishes: from the worker's hands to executed.              *)
LEMMA RunKeepsTasks ==
  ASSUME PoolInv, NEW w \in Workers, RunTask(w)
  PROVE  Shape' /\ Hands' /\ Taken' = Taken
<1> USE DEF PoolInv
<1>1. /\ UNCHANGED <<task_queue, accepted>>
      /\ executed' = executed \cup {task[w]}
      /\ wpc[w] = "run" /\ task[w] # NoTask
      /\ task'[w] = NoTask /\ wpc'[w] = "post"
      /\ \A v \in Workers : v # w => task'[v] = task[v] /\ wpc'[v] = wpc[v]
  BY DEF RunTask, TypeOK, Hands
<1>2. Taken' = Taken
  BY <1>1 DEF Taken
<1>3. Shape'
  BY <1>1, <1>2 DEF Shape
<1>4. /\ \A v \in Workers : wpc'[v] = "run" <=> task'[v] # NoTask
      /\ \A v \in Workers : task'[v] # NoTask =>
           task'[v] \in 1 .. Taken /\ task'[v] \notin executed'
      /\ \A v, u \in Workers : task'[v] # NoTask /\ task'[v] = task'[u] => v = u
      /\ executed' \subseteq 1 .. Taken
  <2>1. \A v \in Workers : wpc'[v] = "run" <=> task'[v] # NoTask
    BY <1>1 DEF Hands
  <2>2. \A v \in Workers : task'[v] # NoTask => v # w /\ task'[v] = task[v]
    BY <1>1
  <2>3. \A v, u \in Workers : task'[v] # NoTask /\ task'[v] = task'[u] => v = u
    BY <2>2 DEF Hands
  <2>4. task[w] \in 1 .. Taken /\ executed \subseteq 1 .. Taken
    BY <1>1 DEF Hands
  <2>5. executed' \subseteq 1 .. Taken
    BY <1>1, <2>4
  <2>6. ASSUME NEW v \in Workers, task'[v] # NoTask
        PROVE  task'[v] \in 1 .. Taken /\ task'[v] \notin executed'
    <3>1. v # w /\ task'[v] = task[v] /\ task[v] # NoTask
      BY <2>2, <2>6
    <3>2. task[v] \in 1 .. Taken /\ task[v] \notin executed /\ task[v] # task[w]
      BY <3>1 DEF Hands
    <3>3. QED
      BY <1>1, <3>1, <3>2
  <2>7. QED
    BY <2>1, <2>3, <2>5, <2>6
<1>5. \A t \in 1 .. Taken : t \in executed' \/ \E v \in Workers : task'[v] = t
  BY <1>1 DEF Hands
<1>6. QED
  BY <1>2, <1>3, <1>4, <1>5 DEF Hands

-------------------------------------------------------------------------------
(* start().                                                                *)
LEMMA StartKeepsInv ==
  ASSUME PoolInv, StartRunning \/ StartOpen \/ StartSpawn
  PROVE  PoolInv'
<1> USE DEF PoolInv
<1>0. Taken \in Nat
  BY TakenType
<1>1. CASE StartRunning
  <2>1. Shape' /\ Hands' /\ Taken' = Taken
    BY <1>1, SameTasks DEF StartRunning
  <2>2. TypeOK'
    BY <1>1 DEF StartRunning, TypeOK, CtlSteps
  <2>3. MutexHeld' /\ Phases'
    BY <1>1, <2>1 DEF StartRunning, MutexHeld, Phases, AllExited
  <2>4. QED
    BY <2>1, <2>2, <2>3
<1>2. CASE StartOpen
  <2>1. Shape' /\ Hands' /\ Taken' = Taken
    BY <1>2, SameTasks DEF StartOpen
  <2>2. TypeOK'
    BY <1>2 DEF StartOpen, TypeOK, CtlSteps
  <2>3. MutexHeld' /\ Phases'
    BY <1>2, <2>1 DEF StartOpen, MutexHeld, Phases, AllExited
  <2>4. QED
    BY <2>1, <2>2, <2>3
<1>3. CASE StartSpawn
  <2>0. AllExited /\ running
    BY <1>3 DEF StartSpawn, Phases
  <2>1. Shape' /\ Hands' /\ Taken' = Taken
    BY <1>3, <2>0, SameTasks DEF StartSpawn, AllExited
  <2>2. TypeOK'
    BY <1>3 DEF StartSpawn, TypeOK, CtlSteps, WorkerSteps
  <2>3. MutexHeld'
    BY <1>3, <2>0 DEF StartSpawn, MutexHeld, AllExited
  <2>4. Phases'
    BY <1>3, <2>0, <2>1 DEF StartSpawn, Phases, AllExited
  <2>5. QED
    BY <2>1, <2>2, <2>3, <2>4
<1>4. QED
  BY <1>1, <1>2, <1>3

(* stop().                                                                 *)
LEMMA StopKeepsInv ==
  ASSUME PoolInv, StopRunning \/ StopStep
  PROVE  PoolInv'
<1> USE DEF PoolInv
<1>0. Taken \in Nat
  BY TakenType
<1>1. CASE StopRunning
  <2>1. Shape' /\ Hands' /\ Taken' = Taken
    BY <1>1, SameTasks DEF StopRunning
  <2>2. TypeOK'
    BY <1>1 DEF StopRunning, TypeOK, CtlSteps
  <2>3. MutexHeld'
    BY <1>1 DEF StopRunning, MutexHeld
  <2>4. Phases'
    BY <1>1, <2>1 DEF StopRunning, Phases, AllExited, TypeOK
  <2>5. QED
    BY <2>1, <2>2, <2>3, <2>4
<1>2. CASE StopClose
  <2>1. Shape' /\ Hands' /\ Taken' = Taken
    BY <1>2, SameTasks DEF StopClose
  <2>2. TypeOK'
    BY <1>2 DEF StopClose, TypeOK, CtlSteps
  <2>3. MutexHeld' /\ Phases'
    BY <1>2, <2>1 DEF StopClose, MutexHeld, Phases, AllExited
  <2>4. QED
    BY <2>1, <2>2, <2>3
<1>3. CASE StopNotify
  <2>0. \A w \in Workers : wpc'[w] = IF wpc[w] = "wait" THEN "lock" ELSE wpc[w]
    BY <1>3 DEF StopNotify
  <2>1. Shape' /\ Hands' /\ Taken' = Taken
    BY <1>3, <2>0, SameTasks DEF StopNotify
  <2>2. TypeOK'
    BY <1>3 DEF StopNotify, TypeOK, CtlSteps, WorkerSteps
  <2>3. MutexHeld'
    BY <1>3, <2>0 DEF StopNotify, MutexHeld
  <2>4. Phases'
    BY <1>3, <2>0, <2>1 DEF StopNotify, Phases, AllExited
  <2>5. QED
    BY <2>1, <2>2, <2>3, <2>4
<1>4. CASE StopJoin
  <2>1. Shape' /\ Hands' /\ Taken' = Taken
    BY <1>4, SameTasks DEF StopJoin
  <2>2. TypeOK'
    BY <1>4 DEF StopJoin, TypeOK, CtlSteps
  <2>3. MutexHeld'
    BY <1>4 DEF StopJoin, MutexHeld
  <2>4. acceptedAtStop <= Taken /\ AllExited /\ ~running
    BY <1>4, PoolAssumption DEF StopJoin, Phases, AllExited
  <2>5. Phases'
    BY <1>4, <2>1, <2>4 DEF StopJoin, Phases, AllExited
  <2>6. QED
    BY <2>1, <2>2, <2>3, <2>5
<1>5. QED
  BY <1>1, <1>2, <1>3, <1>4 DEF StopStep

(* post_task().                                                            *)
LEMMA PostKeepsInv ==
  ASSUME PoolInv, NEW p \in Posters, PostTask(p) \/ PostNotify(p)
  PROVE  PoolInv'
<1> USE DEF PoolInv
<1>0. Taken \in Nat
  BY TakenType
<1>1. CASE PostTask(p)
  <2>1. Shape' /\ Hands' /\ Taken' = Taken /\ task_queue' \in Seq(Nat)
    BY <1>1, PostKeepsTasks
  <2>2. TypeOK'
    BY <1>1, <2>1 DEF PostTask, TypeOK
  <2>3. MutexHeld'
    BY <1>1 DEF PostTask, MutexHeld
  <2>4. Phases'
    BY <1>1, <2>1, <1>0 DEF PostTask, Phases, AllExited, TypeOK
  <2>5. QED
    BY <2>1, <2>2, <2>3, <2>4
<1>2. CASE PostNotify(p)
  <2>0. \A w \in Workers : wpc'[w] = wpc[w] \/ (wpc[w] = "wait" /\ wpc'[w] = "lock")
    BY <1>2 DEF PostNotify, TypeOK
  <2>1. Shape' /\ Hands' /\ Taken' = Taken
    BY <1>2, <2>0, SameTasks DEF PostNotify
  <2>2. TypeOK'
    BY <1>2 DEF PostNotify, TypeOK, WorkerSteps
  <2>3. MutexHeld'
    BY <1>2, <2>0 DEF PostNotify, MutexHeld
  <2>4. Phases'
    BY <1>2, <2>0, <2>1 DEF PostNotify, Phases, AllExited
  <2>5. QED
    BY <2>1, <2>2, <2>3, <2>4
<1>3. QED
  BY <1>1, <1>2

(* worker_thread().                                                        *)
LEMMA WorkerKeepsInv ==
  ASSUME PoolInv, NEW w \in Workers, WorkerStep(w) \/ SpuriousWakeup(w)
  PROVE  PoolInv'
<1> USE DEF PoolInv
<1>0. Taken \in Nat /\ w # NoOne
  BY TakenType, PoolAssumption
<1>1. CASE Check(w) \/ Block(w) \/ SpuriousWakeup(w) \/ PostCallbackDone(w)
  <2>1. /\ wpc[w] \notin {"none", "run"} /\ wpc'[w] \notin {"none", "run"}
        /\ wpc'[w] \in WorkerSteps
        /\ \A v \in Workers : v # w => wpc'[v] = wpc[v]
        /\ UNCHANGED <<running, queue_closed, task_queue, ctl, task, notifying,
                       accepted, acceptedAtStop, executed, starts>>
    BY <1>1 DEF Check, Block, SpuriousWakeup, PostCallbackDone, TypeOK, WorkerSteps
  <2>2. Shape' /\ Hands' /\ Taken' = Taken
    BY <2>1, SameTasks
  <2>3. TypeOK'
    <3>1. /\ wpc' \in [Workers -> WorkerSteps]
          /\ mutex' \in Workers \cup {NoOne}
      BY <1>1 DEF Check, Block, SpuriousWakeup, PostCallbackDone, TypeOK, WorkerSteps
    <3>2. spurious' \in Nat
      BY <1>1 DEF Check, Block, SpuriousWakeup, PostCallbackDone, TypeOK
    <3>3. QED
      BY <2>1, <3>1, <3>2 DEF TypeOK
  <2>4. MutexHeld'
    <3>1. CASE Check(w)
      <4>1. mutex = NoOne /\ mutex' = w /\ wpc'[w] \in {"take", "block"}
        BY <3>1 DEF Check, TypeOK
      <4>2. \A v \in Workers : wpc[v] \notin {"take", "block"}
        BY <4>1, PoolAssumption DEF MutexHeld
      <4>3. QED
        BY <2>1, <4>1, <4>2 DEF MutexHeld
    <3>2. CASE Block(w)
      <4>1. wpc[w] = "block" /\ wpc'[w] = "wait" /\ mutex' = NoOne
        BY <3>2 DEF Block, TypeOK
      <4>2. QED
        BY <2>1, <4>1, Releases
    <3>3. CASE SpuriousWakeup(w) \/ PostCallbackDone(w)
      <4>1. /\ wpc[w] \in {"wait", "post"} /\ wpc'[w] = "lock" /\ mutex' = mutex
        BY <3>3 DEF SpuriousWakeup, PostCallbackDone, TypeOK
      <4>2. QED
        BY <2>1, <4>1 DEF MutexHeld
    <3>4. QED
      BY <1>1, <3>1, <3>2, <3>3
  <2>5. Phases'
    BY <2>1, <2>2 DEF Phases, AllExited
  <2>6. QED
    BY <2>2, <2>3, <2>4, <2>5
<1>2. CASE TakeTask(w)
  <2>1. Shape' /\ Hands' /\ Taken' = Taken + 1 /\ task_queue' \in Seq(Nat)
    BY <1>2, TakeKeepsTasks
  <2>2. Head(task_queue) \in Nat
    BY <1>2, HeadTailProperties DEF TakeTask, TypeOK
  <2>3. TypeOK'
    BY <1>2, <2>1, <2>2 DEF TakeTask, TypeOK, WorkerSteps
  <2>4. MutexHeld'
    <3>1. /\ wpc[w] = "take" /\ wpc'[w] = "run" /\ mutex' = NoOne
          /\ \A v \in Workers : v # w => wpc'[v] = wpc[v]
      BY <1>2 DEF TakeTask, TypeOK
    <3>2. QED
      BY <3>1, Releases
  <2>5. /\ wpc[w] # "none" /\ wpc'[w] # "none"
        /\ \A v \in Workers : v # w => wpc'[v] = wpc[v]
        /\ UNCHANGED <<running, ctl, accepted, acceptedAtStop, starts>>
    BY <1>2 DEF TakeTask, TypeOK
  <2>6. Phases'
    BY <1>0, <2>1, <2>5 DEF Phases, AllExited, TypeOK
  <2>7. QED
    BY <2>1, <2>3, <2>4, <2>6
<1>3. CASE Exit(w)
  <2>1. /\ wpc[w] = "take" /\ wpc'[w] = "none"
        /\ \A v \in Workers : v # w => wpc'[v] = wpc[v]
        /\ task_queue = <<>> /\ ~running
        /\ UNCHANGED <<running, queue_closed, task_queue, ctl, task, notifying,
                       accepted, acceptedAtStop, executed, starts, spurious>>
    BY <1>3 DEF Exit, TypeOK
  <2>2. Shape' /\ Hands' /\ Taken' = Taken
    BY <2>1, SameTasks
  <2>3. TypeOK'
    BY <1>3 DEF Exit, TypeOK, WorkerSteps
  <2>4. MutexHeld'
    <3>1. mutex' = NoOne
      BY <1>3 DEF Exit
    <3>2. QED
      BY <2>1, <3>1, Releases
  <2>5. Taken = accepted
    BY <2>1, EmptySeq DEF Taken, TypeOK
  <2>6. Phases'
    BY <2>1, <2>2, <2>5 DEF Phases, AllExited
  <2>7. QED
    BY <2>2, <2>3, <2>4, <2>6
<1>4. CASE RunTask(w)
  <2>1. Shape' /\ Hands' /\ Taken' = Taken
    BY <1>4, RunKeepsTasks
  <2>2. TypeOK'
    <3>1. task[w] \in Nat \ {NoTask}
      BY <1>4 DEF RunTask, TypeOK, Hands
    <3>2. QED
      BY <1>4, <3>1 DEF RunTask, TypeOK, WorkerSteps, NoTask
  <2>3. MutexHeld'
    BY <1>4 DEF RunTask, MutexHeld, TypeOK
  <2>4. /\ wpc[w] # "none" /\ wpc'[w] # "none"
        /\ \A v \in Workers : v # w => wpc'[v] = wpc[v]
        /\ UNCHANGED <<running, ctl, accepted, acceptedAtStop, starts>>
    BY <1>4 DEF RunTask, TypeOK
  <2>5. Phases'
    BY <2>1, <2>4 DEF Phases, AllExited
  <2>6. QED
    BY <2>1, <2>2, <2>3, <2>5
<1>5. QED
  BY <1>1, <1>2, <1>3, <1>4 DEF WorkerStep

(* Every step of start(), stop(), post_task() and the workers keeps it.    *)
LEMMA NextInv == PoolInv /\ [Next]_poolVars => PoolInv'
<1> SUFFICES ASSUME PoolInv, [Next]_poolVars PROVE PoolInv'
  OBVIOUS
<1>1. CASE StartRunning \/ StartOpen \/ StartSpawn
  BY <1>1, StartKeepsInv
<1>2. CASE StopRunning \/ StopStep
  BY <1>2, StopKeepsInv
<1>3. ASSUME NEW p \in Posters, PostTask(p) \/ PostNotify(p) PROVE PoolInv'
  BY <1>3, PostKeepsInv
<1>4. ASSUME NEW w \in Workers, WorkerStep(w) \/ SpuriousWakeup(w) PROVE PoolInv'
  BY <1>4, WorkerKeepsInv
<1>5. CASE UNCHANGED poolVars
  BY <1>5 DEF poolVars, PoolInv, TypeOK, MutexHeld, Shape, Hands, Phases, Taken, AllExited
<1>6. QED
  BY <1>1, <1>2, <1>3, <1>4, <1>5 DEF Next

(* The bookkeeping says where each task is.                                *)
LEMMA InvGivesOnce == PoolInv => EachTaskOnce
<1> SUFFICES ASSUME PoolInv, NEW t \in 1 .. accepted
             PROVE  EachTaskOnce!(t)
  BY DEF EachTaskOnce
<1> USE DEF PoolInv
<1>1. Taken \in Nat /\ Len(task_queue) \in Nat /\ accepted = Taken + Len(task_queue)
  BY TakenType DEF Taken, TypeOK
<1>2. DOMAIN task_queue = 1 .. Len(task_queue)
  BY LenProperties DEF TypeOK
<1>3. CASE t > Taken
  <2>1. t - Taken \in 1 .. Len(task_queue) /\ task_queue[t - Taken] = t
    BY <1>1, <1>3 DEF Shape
  <2>2. \A j \in DOMAIN task_queue : task_queue[j] = t => j = t - Taken
    BY <1>1, <1>2 DEF Shape
  <2>3. t \notin executed /\ \A w \in Workers : task[w] # t
    BY <1>1, <1>3 DEF Hands, NoTask
  <2>4. QED
    BY <1>2, <2>1, <2>2, <2>3
<1>4. CASE t <= Taken
  <2>1. \A i \in DOMAIN task_queue : task_queue[i] # t
    BY <1>1, <1>2, <1>4 DEF Shape
  <2>2. t \in 1 .. Taken /\ t # NoTask
    BY <1>1, <1>4 DEF NoTask
  <2>3. CASE t \in executed
    BY <2>1, <2>2, <2>3 DEF Hands
  <2>4. CASE t \notin executed
    <3>1. PICK w \in Workers : task[w] = t
      BY <2>2, <2>4 DEF Hands
    <3>2. \A v \in Workers : task[v] = t => v = w
      BY <2>2, <3>1 DEF Hands
    <3>3. QED
      BY <2>1, <2>4, <3>1, <3>2
  <2>5. QED
    BY <2>3, <2>4
<1>5. QED
  BY <1>1, <1>3, <1>4

(* Once all workers have exited, nobody holds a task that was taken.       *)
LEMMA InvGivesDrained == PoolInv => ProcessAllTasksOnStop
<1> SUFFICES ASSUME PoolInv, Stopped, NEW t \in 1 .. acceptedAtStop
             PROVE  t \in executed
  BY DEF ProcessAllTasksOnStop
<1> USE DEF PoolInv
<1>1. AllExited /\ acceptedAtStop <= Taken
  BY DEF Stopped, Phases
<1>2. t \in 1 .. Taken
  BY <1>1, TakenType DEF TypeOK
<1>3. \A w \in Workers : task[w] = NoTask
  BY <1>1 DEF AllExited, Hands
<1>4. QED
  BY <1>2, <1>3 DEF Hands, NoTask

-------------------------------------------------------------------------------
(* The inductive invariant behind the theorems that follow: it holds in    *)
(* every state start(), stop(), post_task() and worker_thread() reach.     *)
THEOREM InvariantHolds == Spec => []PoolInv
<1>1. QED
  BY InitInv, NextInv, PTL DEF Spec

(* The variables keep their types.                                         *)
THEOREM TypeCorrect == Spec => []TypeOK
  BY InvariantHolds, PTL DEF PoolInv

(* No accepted task is lost and none runs twice.                           *)
THEOREM TasksRunOnce == Spec => []EachTaskOnce
  BY InvariantHolds, InvGivesOnce, PTL

(* If stop() returns, the tasks accepted before it was called have run.    *)
THEOREM StopDrains == Spec => []ProcessAllTasksOnStop
  BY InvariantHolds, InvGivesDrained, PTL

===============================================================================
