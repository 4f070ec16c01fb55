------------------------------ MODULE EventQueue ------------------------------
(***************************************************************************)
(* The bounded priority queue of the message centre                        *)
(* (msg_center/source/event_queue.cpp).  One FIFO queue per event type, a  *)
(* size counter, a closed flag and a condition variable.                   *)
(*                                                                         *)
(* Every method runs under mutex_, so a method is one action, with two     *)
(* exceptions that other threads can see half way: wake_up() unlocks       *)
(* before it notifies, and pop_all() is a loop (one action per iteration,  *)
(* the mutex held between them).  pop() gives the mutex up when it waits;  *)
(* a notified, or spuriously woken, consumer checks again.                 *)
(***************************************************************************)
EXTENDS Naturals, Sequences, FiniteSets

CONSTANTS Consumers,      \* threads that call the blocking pop()
          PriorityCount,  \* kEventPriorityCount
          MaxSize,        \* max_size_
          MaxPushes,      \* bound: events pushed in a behaviour
          MaxBatch,       \* bound: max_count argument of pop_all()
          MaxClosers      \* bound: wake_up()/close() calls between store and notify

ASSUME ConstantsAssumption ==
  /\ IsFiniteSet(Consumers)
  /\ PriorityCount \in Nat \ {0}
  /\ MaxSize \in Nat
  /\ MaxPushes \in Nat
  /\ MaxBatch \in Nat
  /\ MaxClosers \in Nat

VARIABLES
  priority_queues,  \* one sequence of events per priority
  size_,            \* the counter the capacity check reads
  queue_closed,     \* queue_closed_
  batch,            \* iterations left of a pop_all() that holds mutex_; 0: free
  closing,          \* wake_up() calls that have stored the flag and not notified
  pc,               \* "idle", "wait" (in not_empty_.wait) or "woken", per consumer
  shutdownSeen,     \* consumers whose pop() returned the SHUTDOWN made at close
  pushed,           \* history: events accepted, per priority
  popped,           \* history: events handed out, per priority
  nextId            \* history: identity of the next event

queueVars == <<priority_queues, size_, pushed, popped, nextId>>
vars == <<priority_queues, size_, queue_closed, batch, closing, pc,
          shutdownSeen, pushed, popped, nextId>>

(* An event's type is its priority; the queue sees no more of it.          *)
Priorities == 0 .. PriorityCount - 1

Waiting == {c \in Consumers : pc[c] = "wait"}
Woken   == {c \in Consumers : pc[c] = "woken"}

MutexFree == batch = 0

Init ==
  /\ priority_queues = [p \in Priorities |-> <<>>]
  /\ size_ = 0
  /\ queue_closed = FALSE
  /\ batch = 0
  /\ closing = 0
  /\ pc = [c \in Consumers |-> "idle"]
  /\ shutdownSeen = {}
  /\ pushed = [p \in Priorities |-> <<>>]
  /\ popped = [p \in Priorities |-> <<>>]
  /\ nextId = 1

(* get_highest_priority_queue(): p is the lowest index that is not empty.  *)
IsHighestPriority(p) ==
  /\ priority_queues[p] # <<>>
  /\ \A q \in Priorities : q < p => priority_queues[q] = <<>>

AllEmpty == \A p \in Priorities : priority_queues[p] = <<>>

-------------------------------------------------------------------------------
(* not_empty_.notify_one(): any one of the blocked consumers wakes.        *)
NotifyOne ==
  \/ /\ Waiting = {}
     /\ UNCHANGED pc
  \/ \E c \in Waiting : pc' = [pc EXCEPT ![c] = "woken"]

(* The capacity check of push(), off by one.                               *)
HasRoomOffByOne == size_ <= MaxSize

HasRoom == size_ < MaxSize

(* push() without the notification.                                        *)
AcceptSilently(type) ==
  /\ priority_queues' = [priority_queues EXCEPT ![type] = Append(@, nextId)]
  /\ size_' = size_ + 1
  /\ pushed' = [pushed EXCEPT ![type] = Append(@, nextId)]
  /\ nextId' = nextId + 1
  /\ UNCHANGED <<popped, pc>>

(* push() with the counter left alone.                                     *)
AcceptUncounted(type) ==
  /\ priority_queues' = [priority_queues EXCEPT ![type] = Append(@, nextId)]
  /\ pushed' = [pushed EXCEPT ![type] = Append(@, nextId)]
  /\ nextId' = nextId + 1
  /\ NotifyOne
  /\ UNCHANGED <<popped, size_>>

(* The tail of push(): store the event, count it, notify under the lock.   *)
Accept(type) ==
  /\ priority_queues' = [priority_queues EXCEPT ![type] = Append(@, nextId)]
  /\ size_' = size_ + 1
  /\ pushed' = [pushed EXCEPT ![type] = Append(@, nextId)]
  /\ nextId' = nextId + 1
  /\ NotifyOne
  /\ UNCHANGED popped

(* A push() that ignores queue_closed_.                                    *)
PushUnlessFull(type) ==
  /\ MutexFree
  /\ IF HasRoom /\ type \in Priorities
       THEN Accept(type)
       ELSE UNCHANGED <<queueVars, pc>>
  /\ UNCHANGED <<queue_closed, batch, closing, shutdownSeen>>

(* push(): refused when closed, when full, and for a type outside the      *)
(* enumeration; a refused push changes nothing.                            *)
Push(type) ==
  /\ MutexFree
  /\ IF ~queue_closed /\ HasRoom /\ type \in Priorities
       THEN Accept(type)
       ELSE UNCHANGED <<queueVars, pc>>
  /\ UNCHANGED <<queue_closed, batch, closing, shutdownSeen>>

(* Taking the newest instead of the oldest event of a queue.               *)
TakeNewest(p) ==
  LET q == priority_queues[p] IN
  /\ popped' = [popped EXCEPT ![p] = Append(@, q[Len(q)])]
  /\ priority_queues' = [priority_queues EXCEPT ![p] = SubSeq(q, 1, Len(q) - 1)]
  /\ size_' = size_ - 1
  /\ UNCHANGED <<pushed, nextId>>

(* The three lines pop(), try_pop() and pop_all() share: front, pop, --size_. *)
Take(p) ==
  /\ popped' = [popped EXCEPT ![p] = Append(@, Head(priority_queues[p]))]
  /\ priority_queues' = [priority_queues EXCEPT ![p] = Tail(@)]
  /\ size_' = size_ - 1
  /\ UNCHANGED <<pushed, nextId>>

(* One pass of pop()'s loop by consumer c, on entry or after a wakeup: an  *)
(* event if there is one, else SHUTDOWN if closed, else wait.              *)
PopTakes(c) ==
  /\ MutexFree
  /\ pc[c] \in {"idle", "woken"}
  /\ \E p \in Priorities : IsHighestPriority(p) /\ Take(p)
  /\ pc' = [pc EXCEPT ![c] = "idle"]
  /\ UNCHANGED <<queue_closed, batch, closing, shutdownSeen>>

PopReturnsShutdown(c) ==
  /\ MutexFree
  /\ pc[c] \in {"idle", "woken"}
  /\ AllEmpty
  /\ queue_closed
  /\ shutdownSeen' = shutdownSeen \cup {c}
  /\ pc' = [pc EXCEPT ![c] = "idle"]
  /\ UNCHANGED <<queueVars, queue_closed, batch, closing>>

(* pop() that waits without looking at queue_closed_.                      *)
PopWaitsUnchecked(c) ==
  /\ MutexFree
  /\ pc[c] \in {"idle", "woken"}
  /\ AllEmpty
  /\ pc' = [pc EXCEPT ![c] = "wait"]
  /\ UNCHANGED <<queueVars, queue_closed, batch, closing, shutdownSeen>>

PopWaits(c) ==
  /\ MutexFree
  /\ pc[c] \in {"idle", "woken"}
  /\ AllEmpty
  /\ ~queue_closed
  /\ pc' = [pc EXCEPT ![c] = "wait"]
  /\ UNCHANGED <<queueVars, queue_closed, batch, closing, shutdownSeen>>

(* std::condition_variable may wake a waiter that nobody notified.         *)
SpuriousWakeup(c) ==
  /\ pc[c] = "wait"
  /\ pc' = [pc EXCEPT ![c] = "woken"]
  /\ UNCHANGED <<queueVars, queue_closed, batch, closing, shutdownSeen>>

(* try_pop() that finds an event; when it finds none it changes nothing.   *)
TryPop(p) ==
  /\ MutexFree
  /\ IsHighestPriority(p)
  /\ Take(p)
  /\ UNCHANGED <<queue_closed, batch, closing, pc, shutdownSeen>>

(* pop_all(n): take the mutex, then one event per iteration until n are    *)
(* taken or the queue is empty.                                            *)
PopAllBegin(n) ==
  /\ MutexFree
  /\ batch' = n
  /\ UNCHANGED <<queueVars, queue_closed, closing, pc, shutdownSeen>>

PopAllStep ==
  /\ batch > 0
  /\ \/ /\ \E p \in Priorities : IsHighestPriority(p) /\ Take(p)
        /\ batch' = batch - 1
     \/ /\ AllEmpty
        /\ batch' = 0
        /\ UNCHANGED queueVars
  /\ UNCHANGED <<queue_closed, closing, pc, shutdownSeen>>

(* wake_up(), and close() which calls it: the flag under the lock ...      *)
WakeUpStore ==
  /\ MutexFree
  /\ queue_closed' = TRUE
  /\ closing' = closing + 1
  /\ UNCHANGED <<queueVars, batch, pc, shutdownSeen>>

WakeUpNotify ==
  /\ closing > 0
  /\ closing' = closing - 1
  /\ pc' = [c \in Consumers |-> IF pc[c] = "wait" THEN "woken" ELSE pc[c]]
  /\ UNCHANGED <<queueVars, queue_closed, batch, shutdownSeen>>

-------------------------------------------------------------------------------
(* Type PriorityCount stands for every value outside the enumeration.      *)
Next ==
  \/ \E type \in 0 .. PriorityCount : nextId <= MaxPushes /\ Push(type)
  \/ \E c \in Consumers :
       PopTakes(c) \/ PopReturnsShutdown(c) \/ PopWaits(c) \/ SpuriousWakeup(c)
  \/ \E p \in Priorities : TryPop(p)
  \/ \E n \in 1 .. MaxBatch : PopAllBegin(n)
  \/ PopAllStep
  \/ closing < MaxClosers /\ WakeUpStore
  \/ WakeUpNotify

(* A thread that has stored the flag in wake_up() reaches its              *)
(* notification, for which it needs no lock.  Nobody has to call anything, *)
(* and nobody has to be woken spuriously.                                  *)
Fairness == WF_vars(WakeUpNotify)

Spec == Init /\ [][Next]_vars

FairSpec == Spec /\ Fairness

-------------------------------------------------------------------------------
TypeOK ==
  /\ priority_queues \in [Priorities -> Seq(Nat)]
  /\ size_ \in 0 .. MaxSize
  /\ queue_closed \in BOOLEAN
  /\ batch \in Nat
  /\ closing \in Nat
  /\ pc \in [Consumers -> {"idle", "wait", "woken"}]
  /\ shutdownSeen \subseteq Consumers
  /\ pushed \in [Priorities -> Seq(Nat)]
  /\ popped \in [Priorities -> Seq(Nat)]
  /\ nextId \in Nat

(* No event is lost, duplicated or reordered within its priority by any    *)
(* mix of push, pop, try_pop and pop_all: what was accepted at a priority  *)
(* is what was handed out followed by what is queued, in order.            *)
NoLossFifo == \A p \in Priorities : pushed[p] = popped[p] \o priority_queues[p]

(* One slot per queued event.                                              *)
Slots == UNION {{p} \X (1 .. Len(priority_queues[p])) : p \in Priorities}

(* The counter that push()'s capacity check reads is the number of queued  *)
(* events over all priorities, so the queue never holds more than          *)
(* max_size_ and never refuses an event while there is room.               *)
SizeExact == IsFiniteSet(Slots) /\ size_ = Cardinality(Slots)

(* No lost wakeup: while a consumer is blocked in pop(), there are at      *)
(* least as many consumers on their way to the queue as events in it.      *)
NoStuckWaiter == Waiting # {} => size_ <= Cardinality(Woken)

(* A pop() that returned the SHUTDOWN made at close means the queue is     *)
(* closed and empty, then and from then on: the events accepted before the *)
(* close are handed out before anybody is told to stop.                    *)
ShutdownMeansDrained == shutdownSeen # {} => queue_closed /\ AllEmpty

(* wake_up() stores the flag before it notifies, outside the lock: a       *)
(* consumer blocked in a closed queue always has a notification under way. *)
ClosedWaiterWillBeNotified == queue_closed /\ Waiting # {} => closing > 0

(* Liveness of close: once the queue is closed, nobody stays blocked in    *)
(* pop(), however the store and the notification interleave with waits.    *)
CloseReleasesWaiters == queue_closed ~> Waiting = {}

===============================================================================
