---------------------------- MODULE LockFreeQueue ----------------------------
(***************************************************************************)
(* The single-producer single-consumer queue                               *)
(* (utils/include/utils/lockfree_queue.hpp): a linked list that starts     *)
(* with a sentinel node, head_ owned by the consumer, tail_ owned by the   *)
(* producer, and the next pointers in between.                             *)
(*                                                                         *)
(* A step is one access another thread can see: the store that links a     *)
(* node, the store of tail_ or head_, a load of next, a delete.  Building  *)
(* the nodes of a push is private to the producer and is one step.  All    *)
(* data passes through next, which is stored with release and loaded with  *)
(* acquire, so interleaving these steps is all the hardware can do.  Nodes *)
(* are addresses, and the allocator may hand out a freed one again.        *)
(***************************************************************************)
EXTENDS Naturals, Sequences, FiniteSets

CONSTANTS Addrs,      \* addresses the allocator may return
          MaxItems,   \* bound: items pushed in a behaviour
          MaxBatch    \* bound: the longest push_batch or pop_batch

Null == "null"      \* nullptr
Moved == 0          \* the data of the sentinel, or of a node that was moved from

ASSUME LockFreeAssumption ==
  /\ Addrs # {} /\ Null \notin Addrs
  /\ MaxItems \in Nat
  /\ MaxBatch \in Nat \ {0}

VARIABLES
  live,      \* the allocated nodes
  next,      \* next[n]: the pointer stored in node n
  data,      \* data[n]: the item in node n
  head,      \* head_
  tail,      \* tail_
  ppc,       \* where the producer is in push() or push_batch()
  batch,     \* nodes the producer has built and not yet appended
  cpc,       \* where the consumer is
  curr,      \* the node the consumer stands on (also in the destructor)
  room,      \* max_count - count of the current pop() or pop_batch()
  sent,      \* history: items linked into the list; item i is the i-th
  received   \* history: items handed to the consumer

nodeVars == <<live, next, data>>
prodVars == <<ppc, batch>>
consVars == <<cpc, curr, room>>
queueVars == <<live, next, data, head, tail, ppc, batch, cpc, curr, room, sent, received>>

QueueInit ==
  \E dummy \in Addrs :
    /\ live = {dummy}
    /\ next = [n \in Addrs |-> Null]
    /\ data = [n \in Addrs |-> Moved]
    /\ head = dummy
    /\ tail = dummy
    /\ ppc = "idle"
    /\ batch = <<>>
    /\ cpc = "idle"
    /\ curr = dummy
    /\ room = 0
    /\ sent = 0
    /\ received = <<>>

-------------------------------------------------------------------------------
(* The producer: build, link behind the old tail, move the tail.           *)

\* The nodes of a push: fresh, chained to one another, the last one to null.
Build(nodes) ==
  LET k == Len(nodes)
      pos(n) == CHOOSE i \in 1..k : nodes[i] = n
      new == {nodes[i] : i \in 1..k}
  IN /\ ppc = "idle"
     /\ cpc \notin {"destroy", "gone"}
     /\ sent + k <= MaxItems
     /\ new \cap live = {} /\ Cardinality(new) = k
     /\ live' = live \cup new
     /\ next' = [n \in Addrs |-> IF n \notin new THEN next[n]
                                 ELSE IF pos(n) = k THEN Null ELSE nodes[pos(n) + 1]]
     /\ data' = [n \in Addrs |-> IF n \in new THEN sent + pos(n) ELSE data[n]]
     /\ batch' = nodes
     /\ ppc' = "link"
     /\ UNCHANGED <<head, tail, cpc, curr, room, sent, received>>

Push == \E n \in Addrs : Build(<<n>>)

\* The three push_batch() bodies and push_batch_move() differ only in copying.
PushBatch == \E k \in 2..MaxBatch : \E nodes \in [1..k -> Addrs] : Build(nodes)

\* old_tail->next.store(batch_head, release): the batch becomes visible.
Link ==
  /\ ppc = "link"
  /\ next' = [next EXCEPT ![tail] = batch[1]]
  /\ sent' = sent + Len(batch)
  /\ ppc' = "tail"
  /\ UNCHANGED <<live, data, head, tail, batch, cpc, curr, room, received>>

\* tail_ is set to the first node of the batch.
StoreTailFirst ==
  /\ ppc = "tail"
  /\ tail' = batch[1]
  /\ batch' = <<>>
  /\ ppc' = "idle"
  /\ UNCHANGED <<live, next, data, head, cpc, curr, room, sent, received>>

StoreTail ==
  /\ ppc = "tail"
  /\ tail' = batch[Len(batch)]
  /\ batch' = <<>>
  /\ ppc' = "idle"
  /\ UNCHANGED <<live, next, data, head, cpc, curr, room, sent, received>>

-------------------------------------------------------------------------------
(* The consumer: take the data, move the head, free what lies behind it.   *)

\* pop() is pop_batch() of one item; max_count = 0 returns at once.
PopBegin ==
  /\ cpc = "idle"
  /\ \E max \in 1..MaxBatch : room' = max
  /\ curr' = head
  /\ cpc' = "walk"
  /\ UNCHANGED <<live, next, data, head, tail, ppc, batch, sent, received>>

\* curr->next.load(acquire) found a node: its data is moved out.
TakeNode ==
  /\ cpc = "walk" /\ room > 0
  /\ next[curr] # Null
  /\ received' = Append(received, data[next[curr]])
  /\ data' = [data EXCEPT ![next[curr]] = Moved]
  /\ curr' = next[curr]
  /\ room' = room - 1
  /\ UNCHANGED <<live, next, head, tail, ppc, batch, cpc, sent>>

\* next was null, or max_count is reached: return if nothing was taken.
WalkEnds ==
  /\ cpc = "walk"
  /\ room = 0 \/ next[curr] = Null
  /\ cpc' = IF curr = head THEN "idle" ELSE "store"
  /\ UNCHANGED <<live, next, data, head, tail, ppc, batch, curr, room, sent, received>>

\* head_.store(last_data_node, release); curr goes back to free from old_head.
StoreHead ==
  /\ cpc = "store"
  /\ head' = curr
  /\ curr' = head
  /\ cpc' = "free"
  /\ UNCHANGED <<live, next, data, tail, ppc, batch, room, sent, received>>

\* The loop ends after last_data_node instead of before it.
FreeNodeTooFar ==
  /\ cpc = "free"
  /\ live' = live \ {curr}
  /\ curr' = IF curr = head THEN curr ELSE next[curr]
  /\ cpc' = IF curr = head THEN "idle" ELSE "free"
  /\ UNCHANGED <<next, data, head, tail, ppc, batch, room, sent, received>>

\* Only old_head is deleted, as in pop().
FreeNodeOnce ==
  /\ cpc = "free"
  /\ live' = live \ {curr}
  /\ cpc' = "idle"
  /\ UNCHANGED <<next, data, head, tail, ppc, batch, curr, room, sent, received>>

\* delete node_to_delete, whose next was read before.
FreeNode ==
  /\ cpc = "free"
  /\ live' = live \ {curr}
  /\ curr' = next[curr]
  /\ cpc' = IF next[curr] = head THEN "idle" ELSE "free"
  /\ UNCHANGED <<next, data, head, tail, ppc, batch, room, sent, received>>

-------------------------------------------------------------------------------
(* The destructor, once nobody uses the queue any more.                    *)

Destroy ==
  /\ cpc = "idle" /\ ppc = "idle"
  /\ cpc' = "destroy"
  /\ curr' = head
  /\ UNCHANGED <<live, next, data, head, tail, ppc, batch, room, sent, received>>

DestroyNode ==
  /\ cpc = "destroy"
  /\ live' = live \ {curr}
  /\ IF next[curr] = Null THEN cpc' = "gone" /\ UNCHANGED curr
                          ELSE curr' = next[curr] /\ UNCHANGED cpc
  /\ UNCHANGED <<next, data, head, tail, ppc, batch, room, sent, received>>

Producer == Push \/ PushBatch \/ Link \/ StoreTail
Consumer == PopBegin \/ TakeNode \/ WalkEnds \/ StoreHead \/ FreeNode
Destructor == Destroy \/ DestroyNode

QueueNext == Producer \/ Consumer \/ Destructor

QueueSpec == QueueInit /\ [][QueueNext]_queueVars

-------------------------------------------------------------------------------
(* Properties.                                                             *)

QueueTypeOK ==
  /\ live \subseteq Addrs
  /\ next \in [Addrs -> Addrs \cup {Null}]
  /\ data \in [Addrs -> 0..MaxItems]
  /\ head \in Addrs /\ tail \in Addrs /\ curr \in Addrs
  /\ ppc \in {"idle", "link", "tail"}
  /\ batch \in Seq(Addrs)
  /\ cpc \in {"idle", "walk", "store", "free", "destroy", "gone"}
  /\ room \in 0..MaxBatch
  /\ sent \in 0..MaxItems
  /\ received \in Seq(0..MaxItems)

(* The list implements a FIFO: whatever producer and consumer do, item by  *)
(* item or in batches, with nodes freed and their addresses used again,    *)
(* the consumer's moves out of memory are the items in order, each once.   *)
ImplementsFifo == INSTANCE Fifo
FifoSpec == ImplementsFifo!Spec

(* No thread dereferences a freed node: not the producer, whose old tail   *)
(* may be the very sentinel the consumer frees, not the consumer between   *)
(* its load of next and its delete, not the destructor.                    *)
NoUseAfterFree ==
  /\ ppc = "link" => tail \in live
  /\ cpc \in {"walk", "free", "destroy"} => curr \in live
  /\ cpc = "walk" /\ next[curr] # Null => next[curr] \in live
  /\ cpc = "free" => next[curr] \in live
  /\ cpc \in {"idle", "walk", "store", "free"} => head \in live

(* No node is lost and none is kept: between calls there is the sentinel   *)
(* and one node per item not yet received, after the destructor nothing.   *)
NoLeak ==
  /\ ppc # "link" /\ cpc = "idle" => Cardinality(live) = 1 + sent - Len(received)
  /\ cpc = "gone" => live = {}

===============================================================================
