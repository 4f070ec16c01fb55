--------------------------- MODULE EventQueueProofs ---------------------------
(***************************************************************************)
(* The safety properties of EventQueue for every number of consumers and   *)
(* priorities, every capacity and every bound.  None of them is inductive  *)
(* alone: the counter cannot stay in range unless it counts the queued     *)
(* events, and no waiter is stuck only if the counter is zero when the     *)
(* queues are empty.  QueueInv is their conjunction.                       *)
(***************************************************************************)
EXTENDS EventQueue, FiniteSetTheorems, SequenceTheorems, TLAPS

QueueInv ==
  /\ TypeOK
  /\ NoLossFifo
  /\ SizeExact
  /\ NoStuckWaiter
  /\ ClosedWaiterWillBeNotified
  /\ ShutdownMeansDrained

-------------------------------------------------------------------------------
(* The slots, element by element.                                          *)
LEMMA SlotsElements ==
  ASSUME TypeOK
  PROVE  \A p, i : <<p, i>> \in Slots
                     <=> p \in Priorities /\ i \in 1 .. Len(priority_queues[p])
  BY DEF Slots

(* push() stores an event: one slot more.                                  *)
LEMMA AcceptAddsSlot ==
  ASSUME TypeOK, SizeExact, NEW type \in Priorities, Accept(type)
  PROVE  IsFiniteSet(Slots)' /\ Cardinality(Slots)' = size_ + 1
<1> DEFINE s == <<type, Len(priority_queues[type]) + 1>>
<1>1. priority_queues[type] \in Seq(Nat) /\ nextId \in Nat
  BY DEF TypeOK
<1>2. Len(Append(priority_queues[type], nextId)) = Len(priority_queues[type]) + 1
  BY <1>1, AppendProperties
<1>3. Len(priority_queues[type]) \in Nat
  BY <1>1, LenProperties
<1>4. Slots' = Slots \cup {s}
  <2>1. \A p \in Priorities : p # type => priority_queues'[p] = priority_queues[p]
    BY DEF Accept, TypeOK
  <2>2. Len(priority_queues'[type]) = Len(priority_queues[type]) + 1
    BY <1>2 DEF Accept, TypeOK
  <2>3. 1 .. Len(priority_queues'[type])
          = (1 .. Len(priority_queues[type])) \cup {Len(priority_queues[type]) + 1}
    BY <2>2, <1>3
  <2> HIDE DEF s
  <2>4. {type} \X (1 .. Len(priority_queues'[type]))
          = ({type} \X (1 .. Len(priority_queues[type]))) \cup {s}
    BY <2>3 DEF s
  <2>5. QED
    BY <2>1, <2>4 DEF Slots
<1>5. s \notin Slots
  BY <1>3, SlotsElements
<1> HIDE DEF s
<1>6. QED
  BY <1>4, <1>5, FS_AddElement DEF SizeExact

(* A pop removes one slot, and there was one to remove.                    *)
LEMMA TakeRemovesSlot ==
  ASSUME TypeOK, SizeExact, NEW p \in Priorities,
         priority_queues[p] # <<>>, Take(p)
  PROVE  /\ IsFiniteSet(Slots)'
         /\ Cardinality(Slots)' = size_ - 1
         /\ size_ > 0
<1> DEFINE s == <<p, Len(priority_queues[p])>>
<1>1. priority_queues[p] \in Seq(Nat)
  BY DEF TypeOK
<1>2. /\ Len(priority_queues[p]) \in Nat \ {0}
      /\ Len(Tail(priority_queues[p])) = Len(priority_queues[p]) - 1
  BY <1>1, EmptySeq, HeadTailProperties, LenProperties
<1>3. Slots' = Slots \ {s}
  <2>1. \A q \in Priorities : q # p => priority_queues'[q] = priority_queues[q]
    BY DEF Take, TypeOK
  <2>2. Len(priority_queues'[p]) = Len(priority_queues[p]) - 1
    BY <1>2 DEF Take, TypeOK
  <2>3. 1 .. Len(priority_queues'[p])
          = (1 .. Len(priority_queues[p])) \ {Len(priority_queues[p])}
    BY <2>2, <1>2
  <2> HIDE DEF s
  <2>4. {p} \X (1 .. Len(priority_queues'[p]))
          = ({p} \X (1 .. Len(priority_queues[p]))) \ {s}
    BY <2>3 DEF s
  <2>5. \A q \in Priorities : q # p => s \notin {q} \X (1 .. Len(priority_queues[q]))
    BY DEF s
  <2>6. QED
    BY <2>1, <2>4, <2>5 DEF Slots
<1>4. s \in Slots
  BY <1>2, SlotsElements
<1> HIDE DEF s
<1>5. Cardinality(Slots) \in Nat /\ Cardinality(Slots) # 0
  BY <1>4, FS_EmptySet, FS_CardinalityType DEF SizeExact
<1>6. QED
  BY <1>3, <1>4, <1>5, FS_RemoveElement DEF SizeExact

(* Empty queues and a zero counter are the same thing.                     *)
LEMMA EmptyIffZero ==
  ASSUME TypeOK, SizeExact
  PROVE  AllEmpty <=> size_ = 0
<1>1. ASSUME AllEmpty PROVE Slots = {}
  BY <1>1, EmptySeq DEF Slots, AllEmpty
<1>2. ASSUME Slots = {} PROVE AllEmpty
  <2> SUFFICES ASSUME NEW p \in Priorities, priority_queues[p] # <<>> PROVE FALSE
    BY DEF AllEmpty
  <2>1. Len(priority_queues[p]) \in Nat \ {0}
    BY EmptySeq, LenProperties DEF TypeOK
  <2>2. <<p, 1>> \in Slots
    BY <2>1, SlotsElements
  <2>3. QED
    BY <2>2, <1>2
<1>3. QED
  BY <1>1, <1>2, FS_EmptySet DEF SizeExact

-------------------------------------------------------------------------------
(* An event appended to the queue is appended to history and queue alike.  *)
LEMMA ConcatAppend ==
  ASSUME NEW s \in Seq(Nat), NEW t \in Seq(Nat), NEW e \in Nat
  PROVE  Append(s \o t, e) = s \o Append(t, e)
<1>1. s \o t \in Seq(Nat) /\ <<e>> \in Seq(Nat)
  BY ConcatProperties
<1>2. Append(s \o t, e) = (s \o t) \o <<e>> /\ Append(t, e) = t \o <<e>>
  BY <1>1, AppendIsConcat
<1>3. QED
  BY <1>1, <1>2, ConcatAssociative

(* Concatenation of three sequences of events.                             *)
LEMMA ConcatAssoc ==
  ASSUME NEW u \in Seq(Nat), NEW v \in Seq(Nat), NEW w \in Seq(Nat)
  PROVE  (u \o v) \o w = u \o (v \o w)
  BY ConcatAssociative, SMTT(40)

(* The front of the queue moves to the end of the history.                 *)
LEMMA MoveHead ==
  ASSUME NEW s \in Seq(Nat), NEW t \in Seq(Nat), t # <<>>
  PROVE  s \o t = Append(s, Head(t)) \o Tail(t)
<1>1. Head(t) \in Nat /\ Tail(t) \in Seq(Nat)
  BY HeadTailProperties
<1>2. <<Head(t)>> \in Seq(Nat)
  BY <1>1
<1>3. t = <<Head(t)>> \o Tail(t)
  <2>1. /\ Len(Tail(t)) = Len(t) - 1 /\ Len(t) \in Nat
        /\ \A i \in 1 .. Len(Tail(t)) : Tail(t)[i] = t[i + 1]
    BY HeadTailProperties, LenProperties
  <2>2. PICK w : w = <<Head(t)>> \o Tail(t)
    OBVIOUS
  <2>3. /\ w \in Seq(Nat) /\ Len(w) = 1 + Len(Tail(t))
        /\ \A i \in 1 .. 1 + Len(Tail(t)) :
             w[i] = IF i <= 1 THEN <<Head(t)>>[i] ELSE Tail(t)[i - 1]
    BY <1>1, <1>2, <2>2, ConcatProperties
  <2>4. Len(w) = Len(t)
    BY <2>1, <2>3
  <2>5. ASSUME NEW i \in 1 .. Len(t) PROVE t[i] = w[i]
    <3>1. CASE i = 1
      BY <2>3, <2>4, <2>5, <3>1
    <3>2. CASE i # 1
      <4>1. i - 1 \in 1 .. Len(Tail(t)) /\ i \in 1 .. 1 + Len(Tail(t)) /\ ~(i <= 1)
        BY <2>1, <2>5, <3>2
      <4>2. Tail(t)[i - 1] = t[(i - 1) + 1]
        BY <2>1, <4>1
      <4>3. (i - 1) + 1 = i
        BY <2>1
      <4>4. w[i] = Tail(t)[i - 1]
        BY <2>3, <4>1
      <4>5. QED
        BY <4>2, <4>3, <4>4
    <3>3. QED
      BY <3>1, <3>2
  <2>6. t = w
    BY <2>3, <2>4, <2>5, SeqEqual
  <2>7. QED
    BY <2>2, <2>6
<1>4. s \o t = s \o (<<Head(t)>> \o Tail(t))
  BY <1>3, Zenon
<1>5. s \o (<<Head(t)>> \o Tail(t)) = (s \o <<Head(t)>>) \o Tail(t)
  BY <1>1, <1>2, ConcatAssoc, Zenon
<1>6. QED
  <2>1. Append(s, Head(t)) = s \o <<Head(t)>>
    BY <1>1, AppendIsConcat
  <2>2. QED
    BY <1>4, <1>5, <2>1, Zenon

(* The part of the invariant that speaks of the queues alone.              *)
QueueType ==
  /\ priority_queues \in [Priorities -> Seq(Nat)]
  /\ size_ \in 0 .. MaxSize
  /\ pushed \in [Priorities -> Seq(Nat)]
  /\ popped \in [Priorities -> Seq(Nat)]
  /\ nextId \in Nat

(* Storing an event keeps types, order and count.                          *)
LEMMA AcceptKeepsQueues ==
  ASSUME TypeOK, NoLossFifo, SizeExact, HasRoom,
         NEW type \in Priorities, Accept(type)
  PROVE  QueueType' /\ NoLossFifo' /\ SizeExact'
<1>1. QueueType'
  <2>1. size_' \in 0 .. MaxSize
    BY ConstantsAssumption DEF Accept, HasRoom, TypeOK
  <2>2. QED
    BY <2>1, AppendProperties DEF Accept, TypeOK, QueueType
<1>2. NoLossFifo'
  <2> SUFFICES ASSUME NEW p \in Priorities
               PROVE  pushed'[p] = popped'[p] \o priority_queues'[p]
    BY DEF NoLossFifo
  <2>1. CASE p # type
    BY <2>1 DEF Accept, TypeOK, NoLossFifo
  <2>2. CASE p = type
    <3>1. /\ priority_queues[p] \in Seq(Nat) /\ popped[p] \in Seq(Nat)
          /\ pushed[p] \in Seq(Nat) /\ nextId \in Nat
      BY DEF TypeOK
    <3>2. /\ pushed'[p] = Append(pushed[p], nextId)
          /\ popped'[p] = popped[p]
          /\ priority_queues'[p] = Append(priority_queues[p], nextId)
      BY <2>2 DEF Accept, TypeOK
    <3>3. pushed[p] = popped[p] \o priority_queues[p]
      BY DEF NoLossFifo
    <3>4. QED
      BY <3>1, <3>2, <3>3, ConcatAppend
  <2>3. QED
    BY <2>1, <2>2
<1>3. SizeExact'
  BY AcceptAddsSlot DEF SizeExact, Accept
<1>4. QED
  BY <1>1, <1>2, <1>3

(* Taking an event keeps types, order and count.                           *)
LEMMA TakeKeepsQueues ==
  ASSUME TypeOK, NoLossFifo, SizeExact, NEW p \in Priorities,
         priority_queues[p] # <<>>, Take(p)
  PROVE  /\ QueueType' /\ NoLossFifo' /\ SizeExact'
         /\ size_' = size_ - 1 /\ size_ > 0
<1>1. priority_queues[p] \in Seq(Nat) /\ popped[p] \in Seq(Nat)
  BY DEF TypeOK
<1>2. Head(priority_queues[p]) \in Nat /\ Tail(priority_queues[p]) \in Seq(Nat)
  BY <1>1, HeadTailProperties
<1>3. size_' = size_ - 1 /\ size_ > 0
  BY TakeRemovesSlot DEF Take
<1>4. QueueType'
  <2>1. size_' \in 0 .. MaxSize
    BY <1>3, ConstantsAssumption DEF TypeOK
  <2>2. Append(popped[p], Head(priority_queues[p])) \in Seq(Nat)
    BY <1>1, <1>2, AppendProperties
  <2>3. QED
    BY <2>1, <2>2, <1>2 DEF Take, TypeOK, QueueType
<1>5. NoLossFifo'
  <2> SUFFICES ASSUME NEW q \in Priorities
               PROVE  pushed'[q] = popped'[q] \o priority_queues'[q]
    BY DEF NoLossFifo
  <2>1. CASE q # p
    BY <2>1 DEF Take, TypeOK, NoLossFifo
  <2>2. CASE q = p
    <3>1. /\ pushed'[q] = pushed[q]
          /\ popped'[q] = Append(popped[q], Head(priority_queues[q]))
          /\ priority_queues'[q] = Tail(priority_queues[q])
      BY <2>2 DEF Take, TypeOK
    <3>2. pushed[q] = popped[q] \o priority_queues[q]
      BY DEF NoLossFifo
    <3>3. popped[q] \o priority_queues[q]
            = Append(popped[q], Head(priority_queues[q])) \o Tail(priority_queues[q])
      BY <2>2, <1>1, MoveHead
    <3>4. QED
      BY <3>1, <3>2, <3>3
  <2>3. QED
    BY <2>1, <2>2
<1>6. SizeExact'
  BY TakeRemovesSlot DEF SizeExact, Take
<1>7. QED
  BY <1>3, <1>4, <1>5, <1>6

(* A step that leaves the queues alone keeps what is said of them.         *)
LEMMA SameQueues ==
  ASSUME TypeOK, NoLossFifo, SizeExact, UNCHANGED queueVars
  PROVE  /\ QueueType' /\ NoLossFifo' /\ SizeExact'
         /\ AllEmpty' = AllEmpty
  BY DEF TypeOK, QueueType, NoLossFifo, SizeExact, Slots, AllEmpty, queueVars

(* One more consumer awake: the count of those on their way grows by one.  *)
LEMMA WakeOne ==
  ASSUME TypeOK, NEW c \in Waiting, pc' = [pc EXCEPT ![c] = "woken"]
  PROVE  /\ Cardinality(Woken)' = Cardinality(Woken) + 1
         /\ Cardinality(Woken) \in Nat
         /\ Waiting' \subseteq Waiting
<1>1. Woken' = Woken \cup {c} /\ c \notin Woken /\ Waiting' \subseteq Waiting
  BY DEF Woken, Waiting, TypeOK
<1>2. IsFiniteSet(Woken)
  BY FS_Subset, ConstantsAssumption DEF Woken
<1>3. QED
  BY <1>1, <1>2, FS_AddElement, FS_CardinalityType

-------------------------------------------------------------------------------
(* The constructor's queue is empty, open and waited for by nobody.        *)
LEMMA InitInv == Init => QueueInv
<1> SUFFICES ASSUME Init PROVE QueueInv
  OBVIOUS
<1>1. TypeOK
  <2>1. <<>> \in Seq(Nat)
    BY EmptySeq
  <2>2. [p \in Priorities |-> <<>>] \in [Priorities -> Seq(Nat)]
    BY <2>1
  <2>3. size_ \in 0 .. MaxSize /\ nextId \in Nat /\ batch \in Nat /\ closing \in Nat
    BY ConstantsAssumption DEF Init
  <2>4. queue_closed \in BOOLEAN
    BY DEF Init
  <2>5. QED
    BY <2>2, <2>3, <2>4 DEF Init, TypeOK
<1>2. NoLossFifo
  BY DEF Init, NoLossFifo
<1>3. Slots = {}
  BY EmptySeq DEF Init, Slots
<1>4. SizeExact
  BY <1>3, FS_EmptySet DEF SizeExact, Init
<1>5. NoStuckWaiter /\ ClosedWaiterWillBeNotified /\ ShutdownMeansDrained
  BY DEF Init, NoStuckWaiter, ClosedWaiterWillBeNotified, ShutdownMeansDrained, Waiting
<1>6. QED
  BY <1>1, <1>2, <1>4, <1>5 DEF QueueInv

(* push().                                                                 *)
LEMMA PushKeepsInv ==
  ASSUME QueueInv, NEW type \in Nat, Push(type)
  PROVE  QueueInv'
<1> USE DEF QueueInv
<1>1. CASE ~(~queue_closed /\ HasRoom /\ type \in Priorities)
  <2>1. UNCHANGED vars
    BY <1>1 DEF Push, queueVars, vars
  <2>2. QED
    BY <2>1, SameQueues DEF vars, queueVars, TypeOK, NoStuckWaiter, Waiting, Woken,
         ClosedWaiterWillBeNotified, ShutdownMeansDrained
<1>2. CASE ~queue_closed /\ HasRoom /\ type \in Priorities
  <2>1. Accept(type) /\ UNCHANGED <<queue_closed, batch, closing, shutdownSeen>>
    BY <1>2 DEF Push
  <2>2. QueueType' /\ NoLossFifo' /\ SizeExact'
    BY <1>2, <2>1, AcceptKeepsQueues
  <2>3. shutdownSeen' = {}
    BY <1>2, <2>1 DEF ShutdownMeansDrained
  <2>4. size_' = size_ + 1
    BY <2>1 DEF Accept
  <2>5. CASE Waiting = {} /\ UNCHANGED pc
    BY <1>2, <2>1, <2>2, <2>3, <2>5 DEF TypeOK, QueueType, NoStuckWaiter,
         ClosedWaiterWillBeNotified, ShutdownMeansDrained, Waiting
  <2>6. ASSUME NEW c \in Waiting, pc' = [pc EXCEPT ![c] = "woken"]
        PROVE  QueueInv'
    <3>1. Cardinality(Woken)' = Cardinality(Woken) + 1 /\ Cardinality(Woken) \in Nat
      BY <2>6, WakeOne
    <3>2. NoStuckWaiter'
      BY <3>1, <2>4, <2>6 DEF NoStuckWaiter, TypeOK
    <3>3. TypeOK'
      BY <2>1, <2>2, <2>6 DEF TypeOK, QueueType, Waiting
    <3>4. QED
      BY <1>2, <2>1, <2>2, <2>3, <3>2, <3>3
         DEF ClosedWaiterWillBeNotified, ShutdownMeansDrained
  <2>7. QED
    BY <2>1, <2>5, <2>6 DEF Accept, NotifyOne
<1>3. QED
  BY <1>1, <1>2

(* pop() by consumer c: takes, gives up, waits, or is woken for nothing.   *)
LEMMA PopKeepsInv ==
  ASSUME QueueInv, NEW c \in Consumers,
         PopTakes(c) \/ PopReturnsShutdown(c) \/ PopWaits(c) \/ SpuriousWakeup(c)
  PROVE  QueueInv'
<1> USE DEF QueueInv
<1>0. IsFiniteSet(Woken) /\ Cardinality(Woken) \in Nat
  BY FS_Subset, FS_CardinalityType, ConstantsAssumption DEF Woken
<1>1. CASE PopTakes(c)
  <2>1. PICK p \in Priorities : IsHighestPriority(p) /\ Take(p)
    BY <1>1 DEF PopTakes
  <2>2. QueueType' /\ NoLossFifo' /\ SizeExact' /\ size_' = size_ - 1 /\ size_ > 0
    BY <2>1, TakeKeepsQueues DEF IsHighestPriority
  <2>3. TypeOK'
    BY <1>1, <2>2 DEF PopTakes, TypeOK, QueueType
  <2>4. Waiting' = Waiting /\ Woken' = Woken \ {c}
    BY <1>1 DEF PopTakes, Waiting, Woken, TypeOK
  <2>5. /\ Cardinality(Woken \ {c}) \in Nat
        /\ Cardinality(Woken \ {c}) >= Cardinality(Woken) - 1
    <3>1. IsFiniteSet(Woken \ {c})
      BY <1>0, FS_RemoveElement
    <3>2. Cardinality(Woken \ {c}) \in Nat
      BY <3>1, FS_CardinalityType
    <3>3. Cardinality(Woken \ {c})
            = IF c \in Woken THEN Cardinality(Woken) - 1 ELSE Cardinality(Woken)
      BY <1>0, FS_RemoveElement
    <3>4. QED
      BY <1>0, <3>2, <3>3
  <2>6. /\ Cardinality(Woken)' \in Nat
        /\ Cardinality(Woken)' >= Cardinality(Woken) - 1
    BY <2>4, <2>5
  <2>7. NoStuckWaiter'
    BY <1>0, <2>2, <2>4, <2>5, <2>6 DEF NoStuckWaiter, TypeOK
  <2>8. shutdownSeen' = {}
    BY <1>1, <2>1 DEF PopTakes, ShutdownMeansDrained, AllEmpty, IsHighestPriority
  <2>9. QED
    BY <1>1, <2>2, <2>3, <2>4, <2>7, <2>8
       DEF PopTakes, ClosedWaiterWillBeNotified, ShutdownMeansDrained
<1>2. CASE PopReturnsShutdown(c)
  <2>1. QueueType' /\ NoLossFifo' /\ SizeExact' /\ AllEmpty' = AllEmpty
    BY <1>2, SameQueues DEF PopReturnsShutdown
  <2>2. TypeOK'
    BY <1>2, <2>1 DEF PopReturnsShutdown, TypeOK, QueueType
  <2>3. size_' = 0
    BY <1>2, EmptyIffZero DEF PopReturnsShutdown, queueVars
  <2>4. Waiting' = Waiting
    BY <1>2 DEF PopReturnsShutdown, Waiting, TypeOK
  <2>5. Cardinality(Woken') \in Nat
    BY FS_Subset, FS_CardinalityType, ConstantsAssumption DEF Woken
  <2>6. QED
    BY <1>2, <2>1, <2>2, <2>3, <2>4, <2>5 DEF PopReturnsShutdown, NoStuckWaiter,
         ClosedWaiterWillBeNotified, ShutdownMeansDrained
<1>3. CASE PopWaits(c)
  <2>1. QueueType' /\ NoLossFifo' /\ SizeExact' /\ AllEmpty' = AllEmpty
    BY <1>3, SameQueues DEF PopWaits
  <2>2. TypeOK'
    BY <1>3, <2>1 DEF PopWaits, TypeOK, QueueType
  <2>3. size_' = 0
    BY <1>3, EmptyIffZero DEF PopWaits, queueVars
  <2>4. Cardinality(Woken') \in Nat
    BY FS_Subset, FS_CardinalityType, ConstantsAssumption DEF Woken
  <2>5. QED
    BY <1>3, <2>1, <2>2, <2>3, <2>4 DEF PopWaits, NoStuckWaiter,
         ClosedWaiterWillBeNotified, ShutdownMeansDrained
<1>4. CASE SpuriousWakeup(c)
  <2>1. QueueType' /\ NoLossFifo' /\ SizeExact' /\ AllEmpty' = AllEmpty
    BY <1>4, SameQueues DEF SpuriousWakeup
  <2>2. TypeOK'
    BY <1>4, <2>1 DEF SpuriousWakeup, TypeOK, QueueType
  <2>3. c \in Waiting /\ size_' = size_ /\ pc' = [pc EXCEPT ![c] = "woken"]
    BY <1>4 DEF SpuriousWakeup, Waiting, queueVars
  <2>4. /\ Cardinality(Woken)' = Cardinality(Woken) + 1
        /\ Waiting' \subseteq Waiting
    BY <2>3, WakeOne
  <2>5. NoStuckWaiter'
    BY <1>0, <2>3, <2>4 DEF NoStuckWaiter, TypeOK
  <2>6. QED
    BY <1>4, <2>1, <2>2, <2>4, <2>5 DEF SpuriousWakeup,
         ClosedWaiterWillBeNotified, ShutdownMeansDrained
<1>5. QED
  BY <1>1, <1>2, <1>3, <1>4

(* try_pop() and an iteration of pop_all() that takes an event: the queue  *)
(* shrinks and nobody's program counter moves.                             *)
LEMMA TakeKeepsInv ==
  ASSUME QueueInv, NEW p \in Priorities, IsHighestPriority(p), Take(p),
         batch' \in Nat, UNCHANGED <<queue_closed, closing, pc, shutdownSeen>>
  PROVE  QueueInv'
<1> USE DEF QueueInv
<1>1. QueueType' /\ NoLossFifo' /\ SizeExact' /\ size_' = size_ - 1 /\ size_ > 0
  BY TakeKeepsQueues DEF IsHighestPriority
<1>2. TypeOK'
  BY <1>1 DEF TypeOK, QueueType
<1>3. Waiting' = Waiting /\ Woken' = Woken
  BY DEF Waiting, Woken
<1>4. Cardinality(Woken) \in Nat
  BY FS_Subset, FS_CardinalityType, ConstantsAssumption DEF Woken
<1>5. NoStuckWaiter'
  BY <1>1, <1>3, <1>4 DEF NoStuckWaiter, TypeOK
<1>6. shutdownSeen' = {}
  BY DEF ShutdownMeansDrained, AllEmpty, IsHighestPriority
<1>7. QED
  BY <1>1, <1>2, <1>3, <1>5, <1>6 DEF ClosedWaiterWillBeNotified, ShutdownMeansDrained

(* The steps that touch neither the queues nor who is awake.               *)
LEMMA OtherStepsKeepInv ==
  ASSUME QueueInv,
         \/ \E n \in 1 .. MaxBatch : PopAllBegin(n)
         \/ batch' = 0 /\ UNCHANGED <<queueVars, queue_closed, closing, pc, shutdownSeen>>
         \/ WakeUpStore
         \/ UNCHANGED vars
  PROVE  QueueInv'
<1> USE DEF QueueInv
<1>1. /\ UNCHANGED <<queueVars, pc, shutdownSeen>> /\ batch' \in Nat
      /\ \/ UNCHANGED <<queue_closed, closing>>
         \/ queue_closed' = TRUE /\ closing' = closing + 1
  BY ConstantsAssumption DEF PopAllBegin, WakeUpStore, vars, queueVars, TypeOK
<1>2. QueueType' /\ NoLossFifo' /\ SizeExact' /\ AllEmpty' = AllEmpty
  BY <1>1, SameQueues
<1>3. size_' = size_
  BY <1>1 DEF queueVars
<1>4. Waiting' = Waiting /\ Woken' = Woken
  BY <1>1 DEF Waiting, Woken
<1>5. TypeOK'
  <2>1. queue_closed' \in BOOLEAN
    BY <1>1 DEF TypeOK
  <2>2. closing' \in Nat
    BY <1>1 DEF TypeOK
  <2>3. QED
    BY <1>1, <1>2, <2>1, <2>2 DEF TypeOK, QueueType
<1>6. QED
  BY <1>1, <1>2, <1>3, <1>4, <1>5
     DEF TypeOK, NoStuckWaiter, ClosedWaiterWillBeNotified, ShutdownMeansDrained

(* The notification of wake_up() empties the wait set.                     *)
LEMMA NotifyKeepsInv ==
  ASSUME QueueInv, WakeUpNotify
  PROVE  QueueInv'
<1> USE DEF QueueInv
<1>1. QueueType' /\ NoLossFifo' /\ SizeExact' /\ AllEmpty' = AllEmpty
  BY SameQueues DEF WakeUpNotify
<1>2. Waiting' = {}
  BY DEF WakeUpNotify, Waiting, TypeOK
<1>3. TypeOK'
  BY <1>1 DEF WakeUpNotify, TypeOK, QueueType
<1>4. QED
  BY <1>1, <1>2, <1>3 DEF WakeUpNotify, NoStuckWaiter,
     ClosedWaiterWillBeNotified, ShutdownMeansDrained

(* Every method of the queue keeps the invariant.                          *)
LEMMA NextInv == QueueInv /\ [Next]_vars => QueueInv'
<1> SUFFICES ASSUME QueueInv, [Next]_vars PROVE QueueInv'
  OBVIOUS
<1>1. ASSUME NEW type \in 0 .. PriorityCount, Push(type) PROVE QueueInv'
  BY <1>1, PushKeepsInv, ConstantsAssumption
<1>2. ASSUME NEW c \in Consumers,
             PopTakes(c) \/ PopReturnsShutdown(c) \/ PopWaits(c) \/ SpuriousWakeup(c)
      PROVE  QueueInv'
  BY <1>2, PopKeepsInv
<1>3. ASSUME NEW p \in Priorities, TryPop(p) PROVE QueueInv'
  BY <1>3, TakeKeepsInv DEF TryPop, QueueInv, TypeOK
<1>4. CASE PopAllStep
  <2>1. ASSUME NEW p \in Priorities, IsHighestPriority(p), Take(p), batch' = batch - 1
        PROVE  QueueInv'
    <3>1. batch' \in Nat
      BY <1>4, <2>1 DEF PopAllStep, QueueInv, TypeOK
    <3>2. QED
      BY <1>4, <2>1, <3>1, TakeKeepsInv DEF PopAllStep
  <2>2. CASE batch' = 0 /\ UNCHANGED queueVars
    BY <1>4, <2>2, OtherStepsKeepInv DEF PopAllStep
  <2>3. QED
    BY <1>4, <2>1, <2>2 DEF PopAllStep
<1>5. CASE (\E n \in 1 .. MaxBatch : PopAllBegin(n)) \/ WakeUpStore \/ UNCHANGED vars
  BY <1>5, OtherStepsKeepInv
<1>6. CASE WakeUpNotify
  BY <1>6, NotifyKeepsInv
<1>7. QED
  BY <1>1, <1>2, <1>3, <1>4, <1>5, <1>6 DEF Next

(* The inductive invariant behind the theorems that follow: it holds in    *)
(* every state push(), pop(), try_pop(), pop_all() and wake_up() reach.    *)
THEOREM InvariantHolds == Spec => []QueueInv
<1>1. QED
  BY InitInv, NextInv, PTL DEF Spec

(* Every variable keeps its type; in particular size_ stays within         *)
(* 0 .. max_size_, so --size_ never wraps and push() never overfills.      *)
THEOREM TypeCorrect == Spec => []TypeOK
  BY InvariantHolds, PTL DEF QueueInv

(* No event is lost, duplicated or reordered within its priority.          *)
THEOREM NoLoss == Spec => []NoLossFifo
  BY InvariantHolds, PTL DEF QueueInv

(* The counter is the number of queued events.                             *)
THEOREM SizeIsExact == Spec => []SizeExact
  BY InvariantHolds, PTL DEF QueueInv

(* No lost wakeup in pop(), for any number of consumers.                   *)
THEOREM NoLostWakeup == Spec => []NoStuckWaiter
  BY InvariantHolds, PTL DEF QueueInv

(* SHUTDOWN is made up only for a closed queue that has been drained.      *)
THEOREM DrainedBeforeShutdown == Spec => []ShutdownMeansDrained
  BY InvariantHolds, PTL DEF QueueInv

(* A consumer blocked in a closed queue has a notification coming.         *)
THEOREM CloseNotifies == Spec => []ClosedWaiterWillBeNotified
  BY InvariantHolds, PTL DEF QueueInv

===============================================================================
