--------------------------- MODULE Http2UtilsProofs ----------------------------
(***************************************************************************)
(* HTTP/2 on a connection, and the two data structures of the utils        *)
(* library: three components that share no state, each with an invariant   *)
(* of its own.                                                             *)
(*                                                                         *)
(* The queue between two threads and the byte buffer keep what is put into *)
(* them, for any number of items, addresses and bytes.                     *)
(*                                                                         *)
(* LockFreeQueue.  Item i lives in the node chain[i]; the nodes of the     *)
(* items first .. sent are linked in this order and are, with the nodes of *)
(* a push not yet linked, all that is allocated.  Item 0, or the last one  *)
(* received, is the sentinel.  Since the consumer never moves past the     *)
(* last node and frees only what lies before its new head, the producer's  *)
(* old tail is always among them, and a freed address may be built into a  *)
(* new node at once: it is no longer in the chain.                         *)
(*                                                                         *)
(* Buffer.  What is in memory is the last Len(mem) bytes written, and the  *)
(* part not yet read is the last written - read of them.  This needs that  *)
(* whoever writes keeps to MAX_CAPACITY (RespectLimit); that the indices   *)
(* stay in bounds does not.                                                *)
(*                                                                         *)
(* Http2Handler.  For each stream there is a history of what the client    *)
(* had sent on it, one record before each frame of the input not yet       *)
(* handled and one after the last (History); a frame leads from a record   *)
(* to the next (Follows), frames of other streams and stray ones lead from *)
(* a record to itself.  What the server knows of the stream is a function  *)
(* of the first of these records (Handled): its body so far (Stored), its  *)
(* reply, if the request has ended (Replied), and the shape of the frames  *)
(* written (Shaped).  The client adds a record at the end, handling a      *)
(* frame takes the first away; however streams are interleaved, the steps  *)
(* of one leave the records of the others.  Once a record is ended the     *)
(* body stays as it is up to the client's own record: this is how a reply  *)
(* written long ago still echoes what the client counts as its body.  When *)
(* the input is all handled the first record is the client's, which gives  *)
(* AnsweredWhenEnded; close() drops the history and keeps the replies.     *)
(***************************************************************************)
EXTENDS Http2Handler, Buffer, LockFreeQueue, SequenceTheorems, FiniteSetTheorems, TLAPS

(* chain[i] for i in first .. sent.                                        *)
Linked(chain, first) ==
  \A i \in first .. sent : next[chain[i]] = IF i = sent THEN Null ELSE chain[i + 1]

(* The nodes of the items are different.                                   *)
Distinct(chain, first) ==
  \A i, j \in first .. sent : chain[i] = chain[j] => i = j

(* A node not yet received holds its item.                                 *)
Filled(chain, first) ==
  \A i \in first .. sent : i > Len(received) => data[chain[i]] = i

(* The nodes of a push not yet linked.                                     *)
Pending == IF ppc = "link" THEN {batch[j] : j \in 1 .. Len(batch)} ELSE {}
(* What is allocated.                                                      *)
Allocated(chain, first) == live = {chain[i] : i \in first .. sent} \cup Pending

(* The nodes of a push that is not linked yet.                             *)
Fresh(chain, first) ==
  ppc = "link" =>
    /\ sent + Len(batch) <= MaxItems
    /\ \A j \in 1 .. Len(batch) :
         /\ \A i \in first .. sent : batch[j] # chain[i]
         /\ next[batch[j]] = IF j = Len(batch) THEN Null ELSE batch[j + 1]
         /\ data[batch[j]] = sent + j
    /\ \A j, k \in 1 .. Len(batch) : batch[j] = batch[k] => j = k

(* Where the producer is, in terms of the chain.                           *)
ProducerAt(chain) ==
  /\ ppc \in {"idle", "link"} => tail = chain[sent]
  /\ ppc # "idle" => Len(batch) > 0 /\ cpc \notin {"destroy", "gone"}
  /\ ppc = "tail" => batch[Len(batch)] = chain[sent]

(* Where the consumer is.                                                  *)
ConsumerAt(chain, first) ==
  /\ Len(received) <= sent
  /\ cpc = "idle" => first = Len(received)
  /\ cpc = "walk" => first <= Len(received)
  /\ cpc \in {"store", "free"} => first < Len(received)
  /\ cpc \in {"idle", "walk", "store"} => head = chain[first]
  /\ cpc \in {"walk", "store"} => curr = chain[Len(received)]
  /\ cpc = "free" => head = chain[Len(received)]
  /\ cpc \in {"free", "destroy"} => curr = chain[first]
  /\ cpc = "destroy" => first <= sent
  /\ cpc = "gone" => first = sent + 1

(* The list is such a chain.                                               *)
Chained(chain, first) ==
  /\ Linked(chain, first) /\ Distinct(chain, first) /\ Filled(chain, first)
  /\ Allocated(chain, first) /\ Fresh(chain, first)
  /\ ProducerAt(chain) /\ ConsumerAt(chain, first)

(* The inductive invariant of the list.                                    *)
ListInv == QueueTypeOK /\ \E chain \in [Nat -> Addrs], first \in Nat : Chained(chain, first)

-------------------------------------------------------------------------------
(* The list: what the sequences and numbers in it range over.              *)
LEMMA ListTypes ==
  ASSUME QueueTypeOK
  PROVE  /\ sent \in Nat /\ Len(received) \in Nat /\ Len(batch) \in Nat
         /\ sent <= MaxItems /\ MaxItems \in Nat
         /\ \A j \in 1 .. Len(batch) : batch[j] \in Addrs
         /\ Null \notin Addrs
  BY LockFreeAssumption, LenProperties, ElementOfSeq DEF QueueTypeOK

(* The nodes of the chain are addresses, and allocated.                    *)
LEMMA OnChain ==
  ASSUME QueueTypeOK, NEW chain \in [Nat -> Addrs], NEW first \in Nat, Chained(chain, first),
         NEW i \in first .. sent
  PROVE  i \in Nat /\ chain[i] \in Addrs /\ chain[i] \in live
<1>1. i \in Nat
  BY ListTypes
<1>2. chain[i] \in live
  BY DEF Chained, Allocated
<1>3. QED
  BY <1>1, <1>2

(* A list of one node, the sentinel, for item 0.                           *)
LEMMA ListInit == QueueInit => ListInv
<1> SUFFICES ASSUME QueueInit PROVE ListInv
  OBVIOUS
<1>1. PICK dummy \in Addrs :
        /\ live = {dummy} /\ next = [n \in Addrs |-> Null]
        /\ data = [n \in Addrs |-> Moved]
        /\ head = dummy /\ tail = dummy /\ curr = dummy
        /\ ppc = "idle" /\ batch = <<>> /\ cpc = "idle" /\ room = 0
        /\ sent = 0 /\ received = <<>>
  BY DEF QueueInit
<1>2. batch \in Seq(Addrs) /\ received \in Seq(0 .. MaxItems) /\ Len(received) = 0
  BY <1>1, EmptySeq
<1>3. QueueTypeOK
  BY <1>1, <1>2, LockFreeAssumption DEF QueueTypeOK, Moved
<1>4. PICK chain \in [Nat -> Addrs] : chain[0] = dummy
  <2> [i \in Nat |-> dummy] \in [Nat -> Addrs] /\ [i \in Nat |-> dummy][0] = dummy
    OBVIOUS
  <2> QED
    OBVIOUS
<1>5. \A i \in 0 .. sent : i = 0
  BY <1>1
<1>6. Linked(chain, 0) /\ Distinct(chain, 0) /\ Filled(chain, 0)
  BY <1>1, <1>2, <1>4, <1>5 DEF Linked, Distinct, Filled
<1>7. Allocated(chain, 0)
  <2>1. {chain[i] : i \in 0 .. sent} = {dummy}
    BY <1>1, <1>4, <1>5
  <2>2. QED
    BY <1>1, <2>1 DEF Allocated, Pending
<1>8. Fresh(chain, 0) /\ ProducerAt(chain) /\ ConsumerAt(chain, 0)
  BY <1>1, <1>2, <1>4 DEF Fresh, ProducerAt, ConsumerAt
<1>9. Chained(chain, 0)
  BY <1>6, <1>7, <1>8 DEF Chained
<1>10. QED
  BY <1>3, <1>9 DEF ListInv

(* A step that touches neither nodes nor counters keeps the list.          *)
LEMMA SameList ==
  ASSUME NEW chain, NEW first, Chained(chain, first),
         UNCHANGED <<live, next, data, ppc, batch, sent, received>>
  PROVE  /\ Linked(chain, first)' /\ Distinct(chain, first)' /\ Filled(chain, first)'
         /\ Allocated(chain, first)' /\ Fresh(chain, first)'
<1>1. Linked(chain, first)' /\ Distinct(chain, first)'
  BY DEF Chained, Linked, Distinct
<1>2. Filled(chain, first)'
  BY DEF Chained, Filled
<1>3. Allocated(chain, first)'
  BY DEF Chained, Allocated, Pending
<1>4. Fresh(chain, first)'
  BY DEF Chained, Fresh
<1>5. QED
  BY <1>1, <1>2, <1>3, <1>4

-------------------------------------------------------------------------------
(* The producer.  The nodes of a push are fresh and distinct, because      *)
(* there are as many of them as the push has items.                        *)
LEMMA BuildKeeps ==
  ASSUME QueueTypeOK, NEW chain \in [Nat -> Addrs], NEW first \in Nat, Chained(chain, first),
         NEW k \in Nat \ {0}, NEW nodes \in [1 .. k -> Addrs], Build(nodes)
  PROVE  ListInv'
<1> DEFINE new == {nodes[i] : i \in 1 .. k}
           pos(n) == CHOOSE i \in 1 .. k : nodes[i] = n
<1>1. nodes \in Seq(Addrs) /\ Len(nodes) = k
  OBVIOUS
<1>2. /\ ppc = "idle" /\ cpc \notin {"destroy", "gone"} /\ sent + k <= MaxItems
      /\ new \cap live = {} /\ Cardinality(new) = k
      /\ live' = live \cup new
      /\ next' = [n \in Addrs |-> IF n \notin new THEN next[n]
                                  ELSE IF pos(n) = k THEN Null ELSE nodes[pos(n) + 1]]
      /\ data' = [n \in Addrs |-> IF n \in new THEN sent + pos(n) ELSE data[n]]
      /\ batch' = nodes /\ ppc' = "link"
      /\ UNCHANGED <<head, tail, cpc, curr, room, sent, received>>
  BY <1>1 DEF Build
<1>3. \A i, j \in 1 .. k : nodes[i] = nodes[j] => i = j
  <2>1. nodes \in Surjection(1 .. k, new)
    BY DEF Surjection
  <2>2. IsFiniteSet(1 .. k) /\ Cardinality(1 .. k) = k
    BY FS_Interval
  <2>3. nodes \in Injection(1 .. k, new)
    BY <1>2, <2>1, <2>2, FS_SurjSameCardinalityImpliesInj
  <2>4. QED
    BY <2>3, Zenon DEF Injection, IsInjective
<1>4. ASSUME NEW j \in 1 .. k PROVE pos(nodes[j]) = j /\ nodes[j] \in new
  <2>1. pos(nodes[j]) \in 1 .. k /\ nodes[pos(nodes[j])] = nodes[j]
    BY Zenon
  <2>2. QED
    BY <1>3, <2>1
<1> HIDE DEF pos
<1>5. \A n \in new : n \in Addrs /\ pos(n) \in 1 .. k
  BY <1>4
<1>6. \A i \in first .. sent : chain[i] \in live /\ chain[i] \notin new /\ chain[i] \in Addrs
  BY <1>2, OnChain
<1>7. QueueTypeOK'
  <2>1. next' \in [Addrs -> Addrs \cup {Null}]
    <3>1. \A n \in new : pos(n) # k => nodes[pos(n) + 1] \in Addrs
      BY <1>5
    <3>2. QED
      BY <1>2, <3>1 DEF QueueTypeOK
  <2>2. data' \in [Addrs -> 0 .. MaxItems]
    <3>1. \A n \in new : sent + pos(n) \in 0 .. MaxItems
      BY <1>2, <1>5, ListTypes, SMTT(40)
    <3>2. QED
      BY <1>2, <3>1 DEF QueueTypeOK
  <2>3. live' \subseteq Addrs
    BY <1>2, <1>5 DEF QueueTypeOK
  <2>4. batch' \in Seq(Addrs) /\ ppc' \in {"idle", "link", "tail"}
    BY <1>1, <1>2
  <2>5. QED
    BY <1>2, <2>1, <2>2, <2>3, <2>4 DEF QueueTypeOK
<1>8. Linked(chain, first)' /\ Distinct(chain, first)'
  BY <1>2, <1>6 DEF Chained, Linked, Distinct
<1>9. Filled(chain, first)'
  BY <1>2, <1>6 DEF Chained, Filled
<1>10. Allocated(chain, first)'
  BY <1>1, <1>2 DEF Chained, Allocated, Pending
<1>11. Fresh(chain, first)'
  <2>1. ASSUME NEW j \in 1 .. k
        PROVE  /\ \A i \in first .. sent : nodes[j] # chain[i]
               /\ next'[nodes[j]] = IF j = k THEN Null ELSE nodes[j + 1]
               /\ data'[nodes[j]] = sent + j
    BY <1>2, <1>4, <1>5, <1>6
  <2>2. Len(batch') = k /\ batch' = nodes /\ sent' = sent /\ sent + k <= MaxItems
    BY <1>1, <1>2
  <2> HIDE DEF new
  <2>3. QED
    BY <1>3, <2>1, <2>2 DEF Fresh
<1>12. ProducerAt(chain)' /\ ConsumerAt(chain, first)'
  BY <1>1, <1>2 DEF Chained, ProducerAt, ConsumerAt
<1>13. Chained(chain, first)'
  BY <1>8, <1>9, <1>10, <1>11, <1>12 DEF Chained
<1>14. QED
  BY <1>7, <1>13 DEF ListInv

(* The store that links the nodes: they become the items sent + 1, ...     *)
LEMMA LinkKeeps ==
  ASSUME QueueTypeOK, NEW chain \in [Nat -> Addrs], NEW first \in Nat, Chained(chain, first), Link
  PROVE  ListInv'
<1> DEFINE k == Len(batch)
<1>1. /\ ppc = "link" /\ ppc' = "tail" /\ sent' = sent + k
      /\ next' = [next EXCEPT ![tail] = batch[1]]
      /\ UNCHANGED <<live, data, head, tail, batch, cpc, curr, room, received>>
  BY DEF Link
<1>2. /\ sent \in Nat /\ k \in Nat /\ k > 0 /\ sent + k <= MaxItems /\ Len(received) \in Nat
      /\ tail = chain[sent] /\ cpc \notin {"destroy", "gone"}
      /\ first <= sent /\ \A j \in 1 .. k : batch[j] \in Addrs
  <2>1. sent \in Nat /\ k \in Nat /\ Len(received) \in Nat /\ \A j \in 1 .. k : batch[j] \in Addrs
    BY ListTypes
  <2>2. k > 0 /\ tail = chain[sent] /\ cpc \notin {"destroy", "gone"} /\ sent + k <= MaxItems
    BY <1>1 DEF Chained, ProducerAt, Fresh
  <2>3. cpc \in {"idle", "walk", "store", "free"}
    BY <2>2 DEF QueueTypeOK
  <2>4. first <= Len(received) /\ Len(received) <= sent
    BY <2>1, <2>3 DEF Chained, ConsumerAt
  <2>5. QED
    BY <2>1, <2>2, <2>4
<1>3. PICK longer \in [Nat -> Addrs] :
        \A i \in Nat : longer[i] = IF i > sent /\ i <= sent + k THEN batch[i - sent] ELSE chain[i]
  <2> DEFINE l == [i \in Nat |-> IF i > sent /\ i <= sent + k THEN batch[i - sent] ELSE chain[i]]
  <2>1. \A i \in Nat : i > sent /\ i <= sent + k => i - sent \in 1 .. k
    BY <1>2
  <2>2. l \in [Nat -> Addrs]
    BY <1>2, <2>1
  <2>3. QED
    BY <2>2
<1>4. /\ \A i \in first .. sent : longer[i] = chain[i] /\ i \in Nat
      /\ \A j \in 1 .. k : longer[sent + j] = batch[j]
      /\ \A i \in first .. sent' : i \in first .. sent \/ \E j \in 1 .. k : i = sent + j
  <2>1. \A i \in first .. sent' : i \notin first .. sent => i - sent \in 1 .. k /\ i = sent + (i - sent)
    BY <1>1, <1>2
  <2>2. QED
    BY <1>1, <1>2, <1>3, <2>1
<1>5. QueueTypeOK'
  <2>1. sent' \in 0 .. MaxItems
    BY <1>1, <1>2, ListTypes
  <2>2. next' \in [Addrs -> Addrs \cup {Null}]
    <3>1. batch[1] \in Addrs
      BY <1>2
    <3>2. QED
      BY <1>1, <3>1 DEF QueueTypeOK
  <2>3. QED
    BY <1>1, <2>1, <2>2 DEF QueueTypeOK
<1>6. /\ \A j \in 1 .. k : /\ \A i \in first .. sent : batch[j] # chain[i]
                           /\ next[batch[j]] = IF j = k THEN Null ELSE batch[j + 1]
                           /\ data[batch[j]] = sent + j
      /\ \A j, m \in 1 .. k : batch[j] = batch[m] => j = m
  BY <1>1 DEF Chained, Fresh
<1>7. Linked(longer, first)'
  <2> SUFFICES ASSUME NEW i \in first .. sent'
               PROVE  next'[longer[i]] = IF i = sent' THEN Null ELSE longer[i + 1]
    BY DEF Linked
  <2>1. CASE i \in first .. sent /\ i # sent
    <3>1. longer[i] = chain[i] /\ longer[i + 1] = chain[i + 1] /\ i # sent'
      BY <1>1, <1>2, <1>4, <2>1
    <3>2. chain[i] # tail /\ chain[i] \in Addrs
      BY <1>2, <2>1 DEF Chained, Distinct
    <3>3. next[chain[i]] = chain[i + 1]
      BY <2>1 DEF Chained, Linked
    <3>4. QED
      BY <1>1, <3>1, <3>2, <3>3 DEF QueueTypeOK
  <2>2. CASE i = sent
    <3>1. longer[i] = tail /\ longer[i + 1] = batch[1] /\ i # sent'
      BY <1>1, <1>2, <1>4, <2>2
    <3>2. QED
      BY <1>1, <3>1 DEF QueueTypeOK
  <2>3. ASSUME NEW j \in 1 .. k, i = sent + j
        PROVE  next'[longer[i]] = IF i = sent' THEN Null ELSE longer[i + 1]
    <3>1. longer[i] = batch[j] /\ batch[j] # tail /\ batch[j] \in Addrs
      BY <1>2, <1>4, <1>6, <2>3
    <3>2. next'[longer[i]] = next[batch[j]]
      BY <1>1, <3>1 DEF QueueTypeOK
    <3>3. i = sent' <=> j = k
      BY <1>1, <1>2, <2>3
    <3>4. j # k => longer[i + 1] = batch[j + 1]
      BY <1>2, <1>4, <2>3
    <3>5. QED
      BY <1>6, <3>2, <3>3, <3>4
  <2>4. QED
    BY <1>4, <2>1, <2>2, <2>3
<1>8. Distinct(longer, first)'
  <2> SUFFICES ASSUME NEW i \in first .. sent', NEW j \in first .. sent', longer[i] = longer[j]
               PROVE  i = j
    BY DEF Distinct
  <2>1. CASE i \in first .. sent /\ j \in first .. sent
    BY <1>4, <2>1 DEF Chained, Distinct
  <2>2. CASE i \in first .. sent /\ j \notin first .. sent
    <3>1. PICK n \in 1 .. k : j = sent + n
      BY <1>4, <2>2
    <3>2. QED
      BY <1>4, <1>6, <2>2, <3>1
  <2>3. CASE i \notin first .. sent /\ j \in first .. sent
    <3>1. PICK n \in 1 .. k : i = sent + n
      BY <1>4, <2>3
    <3>2. QED
      BY <1>4, <1>6, <2>3, <3>1
  <2>4. CASE i \notin first .. sent /\ j \notin first .. sent
    <3>1. PICK n \in 1 .. k, m \in 1 .. k : i = sent + n /\ j = sent + m
      BY <1>4, <2>4
    <3>2. batch[n] = batch[m]
      BY <1>4, <3>1
    <3>3. QED
      BY <1>6, <3>1, <3>2
  <2>5. QED
    BY <2>1, <2>2, <2>3, <2>4
<1>9. Filled(longer, first)'
  <2> SUFFICES ASSUME NEW i \in first .. sent', i > Len(received) PROVE data[longer[i]] = i
    BY <1>1 DEF Filled
  <2>1. CASE i \in first .. sent
    BY <1>4, <2>1 DEF Chained, Filled
  <2>2. CASE i \notin first .. sent
    BY <1>4, <1>6, <2>2
  <2>3. QED
    BY <2>1, <2>2
<1>10. Allocated(longer, first)'
  <2>1. live = {chain[i] : i \in first .. sent} \cup {batch[j] : j \in 1 .. k}
    BY <1>1 DEF Chained, Allocated, Pending
  <2>2. \A i \in first .. sent : i \in first .. sent'
    BY <1>1, <1>2
  <2>3. \A j \in 1 .. k : sent + j \in first .. sent'
    BY <1>1, <1>2
  <2>4. live = {longer[i] : i \in first .. sent'}
    <3>1. \A i \in first .. sent' : longer[i] \in live
      BY <1>4, <2>1
    <3>2. \A n \in live : \E i \in first .. sent' : n = longer[i]
      BY <1>4, <2>1, <2>2, <2>3
    <3>3. QED
      BY <3>1, <3>2
  <2>5. QED
    BY <1>1, <2>4 DEF Allocated, Pending
<1>11. Fresh(longer, first)'
  BY <1>1 DEF Fresh
<1>12. ProducerAt(longer)'
  <2>1. batch[k] = longer[sent']
    BY <1>1, <1>2, <1>4
  <2>2. QED
    BY <1>1, <1>2, <2>1 DEF ProducerAt
<1>13. ConsumerAt(longer, first)'
  <2>1. longer[first] = chain[first]
    BY <1>2, <1>4
  <2>2. cpc \in {"walk", "store", "free"} => longer[Len(received)] = chain[Len(received)]
    <3>1. cpc \in {"walk", "store", "free"} => Len(received) \in first .. sent
      BY <1>2 DEF Chained, ConsumerAt
    <3>2. QED
      BY <1>4, <3>1
  <2>3. QED
    BY <1>1, <1>2, <2>1, <2>2 DEF Chained, ConsumerAt
<1>14. Chained(longer, first)'
  BY <1>7, <1>8, <1>9, <1>10, <1>11, <1>12, <1>13 DEF Chained
<1>15. QED
  BY <1>5, <1>14 DEF ListInv

(* tail_ catches up with the last node.                                    *)
LEMMA StoreTailKeeps ==
  ASSUME QueueTypeOK, NEW chain \in [Nat -> Addrs], NEW first \in Nat, Chained(chain, first),
         StoreTail
  PROVE  ListInv'
<1>1. /\ ppc = "tail" /\ ppc' = "idle" /\ tail' = batch[Len(batch)] /\ batch' = <<>>
      /\ UNCHANGED <<live, next, data, head, cpc, curr, room, sent, received>>
  BY DEF StoreTail
<1>2. tail' = chain[sent] /\ tail' \in Addrs
  BY <1>1, ListTypes DEF Chained, ProducerAt
<1>3. QueueTypeOK'
  <2>1. batch' \in Seq(Addrs)
    BY <1>1, EmptySeq
  <2>2. QED
    BY <1>1, <1>2, <2>1 DEF QueueTypeOK
<1>4. Linked(chain, first)' /\ Distinct(chain, first)' /\ Filled(chain, first)'
  BY <1>1 DEF Chained, Linked, Distinct, Filled
<1>5. Allocated(chain, first)' /\ Fresh(chain, first)'
  BY <1>1 DEF Chained, Allocated, Pending, Fresh
<1>6. ProducerAt(chain)' /\ ConsumerAt(chain, first)'
  BY <1>1, <1>2 DEF Chained, ProducerAt, ConsumerAt
<1>7. Chained(chain, first)'
  BY <1>4, <1>5, <1>6 DEF Chained
<1>8. QED
  BY <1>3, <1>7 DEF ListInv

-------------------------------------------------------------------------------
(* The consumer.  Steps that only move its own pointers.                   *)
LEMMA WalkKeeps ==
  ASSUME QueueTypeOK, NEW chain \in [Nat -> Addrs], NEW first \in Nat, Chained(chain, first),
         PopBegin \/ WalkEnds \/ StoreHead \/ Destroy
  PROVE  ListInv'
<1>1. UNCHANGED <<live, next, data, tail, ppc, batch, sent, received>>
  BY DEF PopBegin, WalkEnds, StoreHead, Destroy
<1>2. /\ Linked(chain, first)' /\ Distinct(chain, first)' /\ Filled(chain, first)'
      /\ Allocated(chain, first)' /\ Fresh(chain, first)'
  BY <1>1, SameList
<1>3. sent \in Nat /\ Len(received) \in Nat
  BY ListTypes
<1>4. QueueTypeOK' /\ ProducerAt(chain)' /\ ConsumerAt(chain, first)'
  <2>1. CASE PopBegin
    <3>1. /\ cpc = "idle" /\ cpc' = "walk" /\ curr' = head /\ head' = head
          /\ room' \in 0 .. MaxBatch
      BY <2>1, LockFreeAssumption DEF PopBegin
    <3>2. QueueTypeOK'
      BY <1>1, <3>1 DEF QueueTypeOK
    <3>3. ProducerAt(chain)'
      BY <1>1, <3>1 DEF Chained, ProducerAt
    <3>4. ConsumerAt(chain, first)'
      BY <1>1, <1>3, <3>1 DEF Chained, ConsumerAt
    <3>5. QED
      BY <3>2, <3>3, <3>4
  <2>2. CASE WalkEnds
    <3>1. /\ cpc = "walk" /\ cpc' = IF curr = head THEN "idle" ELSE "store"
          /\ UNCHANGED <<head, curr, room>>
      BY <2>2 DEF WalkEnds
    <3>2. QueueTypeOK'
      BY <1>1, <3>1 DEF QueueTypeOK
    <3>3. ProducerAt(chain)'
      BY <1>1, <3>1 DEF Chained, ProducerAt
    <3>4. /\ first <= Len(received) /\ Len(received) <= sent
          /\ head = chain[first] /\ curr = chain[Len(received)]
      BY <3>1 DEF Chained, ConsumerAt
    <3>5. curr = head <=> first = Len(received)
      BY <1>3, <3>4 DEF Chained, Distinct
    <3>6. ConsumerAt(chain, first)'
      BY <1>1, <1>3, <3>1, <3>4, <3>5 DEF ConsumerAt
    <3>7. QED
      BY <3>2, <3>3, <3>6
  <2>3. CASE StoreHead
    <3>1. cpc = "store" /\ cpc' = "free" /\ head' = curr /\ curr' = head /\ UNCHANGED room
      BY <2>3 DEF StoreHead
    <3>2. QueueTypeOK'
      BY <1>1, <3>1 DEF QueueTypeOK
    <3>3. ProducerAt(chain)'
      BY <1>1, <3>1 DEF Chained, ProducerAt
    <3>4. ConsumerAt(chain, first)'
      BY <1>1, <1>3, <3>1 DEF Chained, ConsumerAt
    <3>5. QED
      BY <3>2, <3>3, <3>4
  <2>4. CASE Destroy
    <3>1. /\ cpc = "idle" /\ ppc = "idle" /\ cpc' = "destroy" /\ curr' = head
          /\ UNCHANGED <<head, room>>
      BY <2>4 DEF Destroy
    <3>2. QueueTypeOK'
      BY <1>1, <3>1 DEF QueueTypeOK
    <3>3. ProducerAt(chain)'
      BY <1>1, <3>1 DEF Chained, ProducerAt
    <3>4. ConsumerAt(chain, first)'
      BY <1>1, <1>3, <3>1 DEF Chained, ConsumerAt
    <3>5. QED
      BY <3>2, <3>3, <3>4
  <2>5. QED
    BY <2>1, <2>2, <2>3, <2>4
<1>5. Chained(chain, first)'
  BY <1>2, <1>4 DEF Chained
<1>6. QED
  BY <1>4, <1>5 DEF ListInv

(* The node behind curr holds the item after the last one received.        *)
LEMMA NextItem ==
  ASSUME QueueTypeOK, NEW chain \in [Nat -> Addrs], NEW first \in Nat, Chained(chain, first),
         cpc = "walk", next[curr] # Null
  PROVE  /\ Len(received) < sent
         /\ Len(received) + 1 \in first .. sent
         /\ next[curr] = chain[Len(received) + 1]
         /\ data[next[curr]] = Len(received) + 1
<1>1. sent \in Nat /\ Len(received) \in Nat
  BY ListTypes
<1>2. first <= Len(received) /\ Len(received) <= sent /\ curr = chain[Len(received)]
  BY DEF Chained, ConsumerAt
<1>3. Len(received) \in first .. sent
  BY <1>1, <1>2
<1>4. Len(received) # sent /\ next[curr] = chain[Len(received) + 1]
  BY <1>2, <1>3 DEF Chained, Linked
<1>5. Len(received) + 1 \in first .. sent /\ Len(received) < sent
  BY <1>1, <1>2, <1>4
<1>6. data[chain[Len(received) + 1]] = Len(received) + 1
  BY <1>1, <1>5 DEF Chained, Filled
<1>7. QED
  BY <1>4, <1>5, <1>6

(* Taking an item empties its node, which becomes the next sentinel.       *)
LEMMA TakeNodeKeeps ==
  ASSUME QueueTypeOK, NEW chain \in [Nat -> Addrs], NEW first \in Nat, Chained(chain, first),
         TakeNode
  PROVE  ListInv'
<1> DEFINE n == Len(received)
<1>1. /\ cpc = "walk" /\ room > 0 /\ next[curr] # Null
      /\ received' = Append(received, data[next[curr]])
      /\ data' = [data EXCEPT ![next[curr]] = Moved]
      /\ curr' = next[curr] /\ room' = room - 1
      /\ UNCHANGED <<live, next, head, tail, ppc, batch, cpc, sent>>
  BY DEF TakeNode
<1>2. /\ n < sent /\ n + 1 \in first .. sent /\ next[curr] = chain[n + 1]
      /\ data[next[curr]] = n + 1
  BY <1>1, NextItem
<1>3. sent \in Nat /\ n \in Nat /\ sent <= MaxItems /\ chain[n + 1] \in Addrs
  BY <1>2, ListTypes, OnChain
<1>4. received' \in Seq(0 .. MaxItems) /\ Len(received') = n + 1
  <2>1. received \in Seq(0 .. MaxItems) /\ n + 1 \in 0 .. MaxItems
    BY <1>2, <1>3, ListTypes DEF QueueTypeOK
  <2>2. QED
    BY <1>1, <1>2, <2>1, AppendProperties
<1>5. QueueTypeOK'
  <2>1. data' \in [Addrs -> 0 .. MaxItems]
    <3>1. Moved \in 0 .. MaxItems
      BY LockFreeAssumption DEF Moved
    <3>2. QED
      BY <1>1, <3>1 DEF QueueTypeOK
  <2>2. room' \in 0 .. MaxBatch
    BY <1>1, LockFreeAssumption DEF QueueTypeOK
  <2>3. QED
    BY <1>1, <1>2, <1>3, <1>4, <2>1, <2>2 DEF QueueTypeOK
<1>6. Linked(chain, first)' /\ Distinct(chain, first)' /\ Allocated(chain, first)'
  BY <1>1 DEF Chained, Linked, Distinct, Allocated, Pending
<1>7. Filled(chain, first)'
  <2> SUFFICES ASSUME NEW i \in first .. sent, i > n + 1 PROVE data'[chain[i]] = i
    BY <1>1, <1>4 DEF Filled
  <2>1. chain[i] # chain[n + 1]
    BY <1>2, <1>3 DEF Chained, Distinct
  <2>2. data[chain[i]] = i
    BY <1>3 DEF Chained, Filled
  <2>3. chain[i] \in Addrs
    BY OnChain
  <2>4. QED
    BY <1>1, <1>2, <2>1, <2>2, <2>3 DEF QueueTypeOK
<1>8. Fresh(chain, first)'
  <2> SUFFICES ASSUME ppc = "link" PROVE Fresh(chain, first)'
    BY <1>1 DEF Fresh
  <2>1. \A j \in 1 .. Len(batch) : data'[batch[j]] = data[batch[j]]
    <3>1. \A j \in 1 .. Len(batch) : batch[j] # chain[n + 1] /\ batch[j] \in Addrs
      BY <1>2, ListTypes DEF Chained, Fresh
    <3>2. QED
      BY <1>1, <1>2, <3>1 DEF QueueTypeOK
  <2>2. QED
    BY <1>1, <2>1 DEF Chained, Fresh
<1>9. ProducerAt(chain)'
  BY <1>1 DEF Chained, ProducerAt
<1>10. ConsumerAt(chain, first)'
  <2>1. first <= n /\ head = chain[first]
    BY <1>1 DEF Chained, ConsumerAt
  <2>2. QED
    BY <1>1, <1>2, <1>3, <1>4, <2>1 DEF ConsumerAt
<1>11. Chained(chain, first)'
  BY <1>6, <1>7, <1>8, <1>9, <1>10 DEF Chained
<1>12. QED
  BY <1>5, <1>11 DEF ListInv

(* Deleting the first node leaves the chain that starts one later.         *)
LEMMA DropFirst ==
  ASSUME QueueTypeOK, NEW chain \in [Nat -> Addrs], NEW first \in Nat, Chained(chain, first),
         first <= sent, live' = live \ {chain[first]},
         UNCHANGED <<next, data, ppc, batch, sent, received>>
  PROVE  /\ Linked(chain, first + 1)' /\ Distinct(chain, first + 1)'
         /\ Filled(chain, first + 1)' /\ Allocated(chain, first + 1)'
         /\ Fresh(chain, first + 1)'
<1>1. sent \in Nat
  BY ListTypes
<1>2. \A i \in first + 1 .. sent : i \in first .. sent
  BY <1>1
<1>3. Linked(chain, first + 1)'
  BY <1>2 DEF Chained, Linked
<1>4. Distinct(chain, first + 1)'
  BY <1>2 DEF Chained, Distinct
<1>5. Filled(chain, first + 1)'
  BY <1>2 DEF Chained, Filled
<1>6. Fresh(chain, first + 1)'
  BY <1>2 DEF Chained, Fresh
<1>7. Allocated(chain, first + 1)'
  <2>1. first \in first .. sent /\ \A i \in first .. sent : i = first \/ i \in first + 1 .. sent
    BY <1>1
  <2>2. \A i \in first + 1 .. sent : chain[i] # chain[first]
    <3>1. \A i \in first + 1 .. sent : i # first
      BY <1>1
    <3>2. QED
      BY <1>2, <2>1, <3>1 DEF Chained, Distinct
  <2>3. {chain[i] : i \in first .. sent} \ {chain[first]} = {chain[i] : i \in first + 1 .. sent}
    BY <1>2, <2>1, <2>2
  <2>4. chain[first] \notin Pending
    <3>1. ppc = "link" => \A j \in 1 .. Len(batch) : batch[j] # chain[first]
      BY <2>1 DEF Chained, Fresh
    <3>2. QED
      BY <3>1 DEF Pending
  <2>5. Pending' = Pending
    BY DEF Pending
  <2>6. live' = {chain[i] : i \in first + 1 .. sent} \cup Pending
    BY <2>3, <2>4 DEF Chained, Allocated
  <2>7. QED
    BY <2>5, <2>6 DEF Allocated
<1>8. QED
  BY <1>3, <1>4, <1>5, <1>6, <1>7

(* The consumer frees up to, not including, the node head_ points to.      *)
LEMMA FreeNodeKeeps ==
  ASSUME QueueTypeOK, NEW chain \in [Nat -> Addrs], NEW first \in Nat, Chained(chain, first),
         FreeNode
  PROVE  ListInv'
<1>1. /\ cpc = "free" /\ live' = live \ {curr} /\ curr' = next[curr]
      /\ cpc' = IF next[curr] = head THEN "idle" ELSE "free"
      /\ UNCHANGED <<next, data, head, tail, ppc, batch, room, sent, received>>
  BY DEF FreeNode
<1>2. sent \in Nat /\ Len(received) \in Nat
  BY ListTypes
<1>3. /\ first < Len(received) /\ Len(received) <= sent
      /\ curr = chain[first] /\ head = chain[Len(received)]
  BY <1>1 DEF Chained, ConsumerAt
<1>4. /\ first \in first .. sent /\ first + 1 \in first .. sent /\ first # sent
      /\ Len(received) \in first .. sent
  BY <1>2, <1>3
<1>5. next[curr] = chain[first + 1]
  BY <1>3, <1>4 DEF Chained, Linked
<1>6. next[curr] = head <=> first + 1 = Len(received)
  BY <1>3, <1>4, <1>5 DEF Chained, Distinct
<1>7. QueueTypeOK'
  <2>1. curr' \in Addrs /\ live' \subseteq Addrs
    BY <1>1, <1>5 DEF QueueTypeOK
  <2>2. QED
    BY <1>1, <2>1 DEF QueueTypeOK
<1>8. /\ Linked(chain, first + 1)' /\ Distinct(chain, first + 1)'
      /\ Filled(chain, first + 1)' /\ Allocated(chain, first + 1)'
      /\ Fresh(chain, first + 1)'
  BY <1>1, <1>2, <1>3, DropFirst
<1>9. ProducerAt(chain)'
  BY <1>1 DEF Chained, ProducerAt
<1>10. ConsumerAt(chain, first + 1)'
  BY <1>1, <1>2, <1>3, <1>5, <1>6 DEF ConsumerAt
<1>11. Chained(chain, first + 1)' /\ first + 1 \in Nat
  BY <1>8, <1>9, <1>10 DEF Chained
<1>12. QED
  BY <1>7, <1>11 DEF ListInv

(* The destructor frees the rest.                                          *)
LEMMA DestroyNodeKeeps ==
  ASSUME QueueTypeOK, NEW chain \in [Nat -> Addrs], NEW first \in Nat, Chained(chain, first),
         DestroyNode
  PROVE  ListInv'
<1>1. /\ cpc = "destroy" /\ live' = live \ {curr}
      /\ \/ next[curr] = Null /\ cpc' = "gone" /\ UNCHANGED curr
         \/ next[curr] # Null /\ curr' = next[curr] /\ UNCHANGED cpc
      /\ UNCHANGED <<next, data, head, tail, ppc, batch, room, sent, received>>
  BY DEF DestroyNode
<1>2. sent \in Nat /\ Len(received) \in Nat
  BY ListTypes
<1>3. first <= sent /\ curr = chain[first] /\ Len(received) <= sent
  BY <1>1 DEF Chained, ConsumerAt
<1>4. first \in first .. sent
  BY <1>2, <1>3
<1>5. /\ first = sent <=> next[curr] = Null
      /\ next[curr] # Null => next[curr] = chain[first + 1] /\ first + 1 <= sent
  <2>1. next[curr] = IF first = sent THEN Null ELSE chain[first + 1]
    BY <1>3, <1>4 DEF Chained, Linked
  <2>2. chain[first + 1] # Null
    BY LockFreeAssumption
  <2>3. QED
    BY <1>2, <1>3, <2>1, <2>2
<1>6. QueueTypeOK'
  <2>1. curr' \in Addrs /\ live' \subseteq Addrs
    BY <1>1, <1>5 DEF QueueTypeOK
  <2>2. QED
    BY <1>1, <2>1 DEF QueueTypeOK
<1>7. /\ Linked(chain, first + 1)' /\ Distinct(chain, first + 1)'
      /\ Filled(chain, first + 1)' /\ Allocated(chain, first + 1)'
      /\ Fresh(chain, first + 1)'
  BY <1>1, <1>3, DropFirst
<1>8. ProducerAt(chain)'
  BY <1>1 DEF Chained, ProducerAt
<1>9. ConsumerAt(chain, first + 1)'
  BY <1>1, <1>2, <1>3, <1>5 DEF ConsumerAt
<1>10. Chained(chain, first + 1)' /\ first + 1 \in Nat
  BY <1>7, <1>8, <1>9 DEF Chained
<1>11. QED
  BY <1>6, <1>10 DEF ListInv

-------------------------------------------------------------------------------
(* Every step, and every stuttering step, keeps the list.                  *)
LEMMA ListStep == ListInv /\ [QueueNext]_queueVars => ListInv'
<1> SUFFICES ASSUME ListInv, [QueueNext]_queueVars PROVE ListInv'
  OBVIOUS
<1>1. QueueTypeOK
  BY DEF ListInv
<1>2. PICK chain \in [Nat -> Addrs], first \in Nat : Chained(chain, first)
  BY DEF ListInv
<1>3. CASE Push
  <2>1. PICK n \in Addrs : Build(<<n>>)
    BY <1>3 DEF Push
  <2>2. <<n>> \in [1 .. 1 -> Addrs]
    OBVIOUS
  <2>3. \E nodes \in [1 .. 1 -> Addrs] : Build(nodes)
    BY <2>1, <2>2
  <2>4. 1 \in Nat \ {0}
    OBVIOUS
  <2>5. QED
    BY <1>1, <1>2, <2>3, <2>4, BuildKeeps, Zenon
<1>4. CASE PushBatch
  <2>1. PICK k \in 2 .. MaxBatch : \E nodes \in [1 .. k -> Addrs] : Build(nodes)
    BY <1>4 DEF PushBatch
  <2>2. k \in Nat \ {0}
    BY LockFreeAssumption
  <2>3. QED
    BY <1>1, <1>2, <2>1, <2>2, BuildKeeps
<1>5. CASE Link \/ StoreTail
  BY <1>1, <1>2, <1>5, LinkKeeps, StoreTailKeeps
<1>6. CASE PopBegin \/ WalkEnds \/ StoreHead \/ Destroy
  BY <1>1, <1>2, <1>6, WalkKeeps
<1>7. CASE TakeNode \/ FreeNode
  BY <1>1, <1>2, <1>7, TakeNodeKeeps, FreeNodeKeeps
<1>8. CASE DestroyNode
  BY <1>1, <1>2, <1>8, DestroyNodeKeeps
<1>9. CASE UNCHANGED queueVars
  <2>1. UNCHANGED <<live, next, data, head, tail, ppc, batch, cpc, curr, room, sent, received>>
    BY <1>9 DEF queueVars
  <2>2. QueueTypeOK'
    BY <1>1, <2>1 DEF QueueTypeOK
  <2>3. ProducerAt(chain)' /\ ConsumerAt(chain, first)'
    BY <1>2, <2>1 DEF Chained, ProducerAt, ConsumerAt
  <2>4. /\ Linked(chain, first)' /\ Distinct(chain, first)' /\ Filled(chain, first)'
        /\ Allocated(chain, first)' /\ Fresh(chain, first)'
    BY <1>2, <2>1, SameList
  <2>5. Chained(chain, first)'
    BY <2>3, <2>4 DEF Chained
  <2>6. QED
    BY <2>2, <2>5 DEF ListInv
<1>10. QED
  BY <1>3, <1>4, <1>5, <1>6, <1>7, <1>8, <1>9 DEF QueueNext, Producer, Consumer, Destructor

(* The inductive invariant of the list holds in every reachable state.     *)
THEOREM ListInvariant == QueueSpec => []ListInv
  BY ListInit, ListStep, PTL DEF QueueSpec

(* Type correctness of the queue.                                          *)
THEOREM ListTypeCorrect == QueueSpec => []QueueTypeOK
<1>1. ListInv => QueueTypeOK
  BY DEF ListInv
<1>2. QED
  BY <1>1, ListInvariant, PTL

(* No node is dereferenced after its delete, by push(), pop(), their batch *)
(* forms or the destructor, also when the allocator hands a freed address  *)
(* out again while the other thread is in the middle of its call.          *)
THEOREM ListNoUseAfterFree == QueueSpec => []NoUseAfterFree
<1>1. ASSUME ListInv PROVE NoUseAfterFree
  <2>1. QueueTypeOK
    BY <1>1 DEF ListInv
  <2>2. PICK chain \in [Nat -> Addrs], first \in Nat : Chained(chain, first)
    BY <1>1 DEF ListInv
  <2>3. sent \in Nat /\ Len(received) \in Nat
    BY <2>1, ListTypes
  <2>4. \A i \in first .. sent : chain[i] \in live
    BY <2>1, <2>2, OnChain
  <2>5. cpc \in {"idle", "walk", "store", "free"} =>
          /\ first <= Len(received) /\ Len(received) <= sent
          /\ Len(received) \in first .. sent /\ first \in first .. sent /\ sent \in first .. sent
    BY <2>2, <2>3 DEF Chained, ConsumerAt
  <2>6. ppc = "link" => tail \in live
    <3>1. ppc = "link" => tail = chain[sent] /\ cpc \in {"idle", "walk", "store", "free"}
      BY <2>1, <2>2 DEF Chained, ProducerAt, QueueTypeOK
    <3>2. QED
      BY <2>4, <2>5, <3>1
  <2>7. cpc \in {"walk", "free", "destroy"} => curr \in live
    <3>1. cpc = "destroy" => first \in first .. sent
      BY <2>2, <2>3 DEF Chained, ConsumerAt
    <3>2. QED
      BY <2>2, <2>4, <2>5, <3>1 DEF Chained, ConsumerAt
  <2>8. cpc = "walk" /\ next[curr] # Null => next[curr] \in live
    BY <2>1, <2>2, <2>4, NextItem
  <2>9. cpc = "free" => next[curr] \in live
    <3>1. cpc = "free" => curr = chain[first] /\ first # sent /\ first + 1 \in first .. sent
      BY <2>2, <2>3 DEF Chained, ConsumerAt
    <3>2. cpc = "free" => next[curr] = chain[first + 1]
      BY <2>2, <2>5, <3>1 DEF Chained, Linked
    <3>3. QED
      BY <2>4, <3>1, <3>2
  <2>10. cpc \in {"idle", "walk", "store", "free"} => head \in live
    <3>1. /\ cpc \in {"idle", "walk", "store"} => head = chain[first]
          /\ cpc = "free" => head = chain[Len(received)]
      BY <2>2 DEF Chained, ConsumerAt
    <3>2. QED
      BY <2>4, <2>5, <3>1
  <2>11. QED
    BY <2>6, <2>7, <2>8, <2>9, <2>10 DEF NoUseAfterFree
<1>2. QED
  BY <1>1, ListInvariant, PTL

(* Every node is freed once it is behind the head, and none before: when   *)
(* no pop() is under way there is one node per item in the queue and the   *)
(* sentinel, and after the destructor there is none.                       *)
THEOREM ListNoLeak == QueueSpec => []NoLeak
<1>1. ASSUME ListInv PROVE NoLeak
  <2>1. QueueTypeOK
    BY <1>1 DEF ListInv
  <2>2. PICK chain \in [Nat -> Addrs], first \in Nat : Chained(chain, first)
    BY <1>1 DEF ListInv
  <2>3. sent \in Nat /\ Len(received) \in Nat
    BY <2>1, ListTypes
  <2>4. ASSUME ppc # "link", cpc = "idle"
        PROVE  Cardinality(live) = 1 + sent - Len(received)
    <3>1. first = Len(received) /\ Len(received) <= sent
      BY <2>2, <2>4 DEF Chained, ConsumerAt
    <3>2. live = {chain[i] : i \in first .. sent}
      BY <2>2, <2>4 DEF Chained, Allocated, Pending
    <3> DEFINE f == [i \in first .. sent |-> chain[i]]
    <3>3. f \in [first .. sent -> live]
      BY <3>2
    <3>4. \A i, j \in first .. sent : f[i] = f[j] => i = j
      BY <2>2 DEF Chained, Distinct
    <3>5. \A n \in live : \E i \in first .. sent : f[i] = n
      BY <3>2
    <3>6. f \in Surjection(first .. sent, live)
      BY <3>3, <3>5, Zenon DEF Surjection
    <3>7. f \in Injection(first .. sent, live)
      BY <3>3, <3>4, Zenon DEF Injection, IsInjective
    <3>8. IsFiniteSet(first .. sent) /\ Cardinality(first .. sent) = sent - first + 1
      BY <2>3, <3>1, FS_Interval
    <3>9. Cardinality(live) = Cardinality(first .. sent)
      BY <3>6, <3>7, <3>8, FS_Surjection
    <3>10. QED
      BY <2>3, <3>1, <3>8, <3>9
  <2>5. ASSUME cpc = "gone" PROVE live = {}
    <3>1. first = sent + 1 /\ ppc = "idle"
      BY <2>1, <2>2, <2>5 DEF Chained, ConsumerAt, ProducerAt
    <3>2. first .. sent = {}
      BY <2>3, <3>1
    <3>3. QED
      BY <2>2, <3>1, <3>2 DEF Chained, Allocated, Pending
  <2>6. QED
    BY <2>4, <2>5 DEF NoLeak
<1>2. QED
  BY <1>1, ListInvariant, PTL

(* The linked list implements the FIFO: a link is a Send of the whole      *)
(* batch, a move out of a node a Receive of the next item, all other steps *)
(* of the two threads and of the destructor change nothing that a user of  *)
(* the queue sees.                                                         *)
THEOREM ListImplementsFifo == QueueSpec => FifoSpec
<1>1. QueueInit => ImplementsFifo!Init
  BY DEF QueueInit, ImplementsFifo!Init
<1>2. ASSUME ListInv, [QueueNext]_queueVars PROVE [ImplementsFifo!Next]_(ImplementsFifo!fifoVars)
  <2>1. QueueTypeOK
    BY <1>2 DEF ListInv
  <2>2. PICK chain \in [Nat -> Addrs], first \in Nat : Chained(chain, first)
    BY <1>2 DEF ListInv
  <2>3. CASE Link
    <3>1. sent' = sent + Len(batch) /\ received' = received /\ Len(batch) > 0
      BY <2>2, <2>3 DEF Link, Chained, ProducerAt
    <3>2. sent \in Nat /\ Len(batch) \in Nat
      BY <2>1, ListTypes
    <3>3. sent' \in Nat /\ sent' > sent
      BY <3>1, <3>2
    <3>4. ImplementsFifo!Send
      BY <3>1, <3>3 DEF ImplementsFifo!Send
    <3>5. QED
      BY <3>4 DEF ImplementsFifo!Next
  <2>4. CASE TakeNode
    <3>1. /\ received' = Append(received, data[next[curr]]) /\ sent' = sent
          /\ cpc = "walk" /\ next[curr] # Null
      BY <2>4 DEF TakeNode
    <3>2. Len(received) < sent /\ data[next[curr]] = Len(received) + 1
      BY <2>1, <2>2, <3>1, NextItem
    <3>3. ImplementsFifo!Receive
      BY <3>1, <3>2 DEF ImplementsFifo!Receive
    <3>4. QED
      BY <3>3 DEF ImplementsFifo!Next
  <2>5. CASE UNCHANGED <<sent, received>>
    BY <2>5 DEF ImplementsFifo!fifoVars
  <2>6. Link \/ TakeNode \/ UNCHANGED <<sent, received>>
    <3>1. CASE Push \/ PushBatch
      BY <3>1 DEF Push, PushBatch, Build
    <3>2. CASE StoreTail \/ PopBegin \/ WalkEnds \/ StoreHead \/ FreeNode
      BY <3>2 DEF StoreTail, PopBegin, WalkEnds, StoreHead, FreeNode
    <3>3. CASE Destroy \/ DestroyNode \/ UNCHANGED queueVars
      BY <3>3 DEF Destroy, DestroyNode, queueVars
    <3>4. QED
      BY <1>2, <3>1, <3>2, <3>3 DEF QueueNext, Producer, Consumer, Destructor
  <2>7. QED
    BY <2>3, <2>4, <2>5, <2>6
<1>3. QED
  BY <1>1, <1>2, ListInvariant, PTL DEF QueueSpec, FifoSpec, ImplementsFifo!Spec

-------------------------------------------------------------------------------
(* The byte buffer.                                                        *)
Buffers == [cap : Nat, mem : Seq(Nat), r : Nat]

(* The indices of a buffer are in order.                                   *)
Fits(b) == b.r <= Len(b.mem) /\ Len(b.mem) <= b.cap /\ b.cap <= MAX_CAPACITY

(* c holds what b holds, but for d bytes before the read index.            *)
Shifted(b, c, d) ==
  /\ c.r = b.r - d
  /\ Len(c.mem) = Len(b.mem) - d
  /\ \A i \in 1 .. Len(c.mem) : c.mem[i] = b.mem[d + i]

(* The inductive invariant of the buffer.                                  *)
BufferInv ==
  /\ buf \in Buffers /\ Fits(buf)
  /\ written \in Nat /\ read \in Nat
  /\ buf.r <= read

(* The smaller and the larger of two numbers.                              *)
LEMMA MinOfTwo ==
  ASSUME NEW a \in Nat, NEW b \in Nat
  PROVE  Min({a, b}) = IF a <= b THEN a ELSE b
<1>1. \E x \in {a, b} : \A y \in {a, b} : x =< y
  OBVIOUS
<1>2. Min({a, b}) \in {a, b} /\ \A y \in {a, b} : Min({a, b}) =< y
  BY <1>1, Zenon DEF Min
<1>3. QED
  BY <1>2

(* The maximum of two numbers.                                             *)
LEMMA MaxOfTwo ==
  ASSUME NEW a \in Nat, NEW b \in Nat
  PROVE  Max({a, b}) = IF a >= b THEN a ELSE b
<1>1. \E x \in {a, b} : \A y \in {a, b} : x >= y
  OBVIOUS
<1>2. Max({a, b}) \in {a, b} /\ \A y \in {a, b} : Max({a, b}) >= y
  BY <1>1, Zenon DEF Max
<1>3. QED
  BY <1>2

(* The capacities are positive numbers in order.                           *)
LEMMA Capacities ==
  /\ MAX_CAPACITY \in Nat /\ MIN_CAPACITY \in Nat /\ DEFAULT_INITIAL_CAPACITY \in Nat
  /\ MIN_CAPACITY <= MAX_CAPACITY /\ DEFAULT_INITIAL_CAPACITY <= MAX_CAPACITY
  /\ GROWTH_LINEAR_INCREMENT \in Nat /\ MaxLen \in Nat
  BY BufferAssumption

(* compact() moves the unread bytes to the front.                          *)
LEMMA CompactShifts ==
  ASSUME NEW b \in Buffers, b.r <= Len(b.mem)
  PROVE  /\ compact(b) \in Buffers /\ compact(b).cap = b.cap /\ compact(b).r = 0
         /\ Shifted(b, compact(b), b.r)
         /\ Len(compact(b).mem) = readable_bytes(b) /\ readable_bytes(b) \in Nat
<1> DEFINE m == SubSeq(b.mem, b.r + 1, Len(b.mem))
<1>1. b.mem \in Seq(Nat) /\ b.r \in Nat /\ b.cap \in Nat /\ Len(b.mem) \in Nat
  BY LenProperties DEF Buffers
<1>2. \A i \in b.r + 1 .. Len(b.mem) : b.mem[i] \in Nat
  <2>1. \A i \in b.r + 1 .. Len(b.mem) : i \in 1 .. Len(b.mem)
    BY <1>1
  <2>2. QED
    BY <1>1, <2>1, ElementOfSeq
<1>3. /\ m \in Seq(Nat)
      /\ Len(m) = IF b.r + 1 <= Len(b.mem) THEN Len(b.mem) - (b.r + 1) + 1 ELSE 0
      /\ \A i \in 1 .. Len(b.mem) - (b.r + 1) + 1 : m[i] = b.mem[(b.r + 1) + i - 1]
  <2>1. b.r + 1 \in Int /\ Len(b.mem) \in Int
    BY <1>1
  <2>2. QED
    BY <1>2, <2>1, SubSeqProperties
<1>4. Len(m) = Len(b.mem) - b.r
  BY <1>1, <1>3
<1>5. ASSUME NEW i \in 1 .. Len(m) PROVE m[i] = b.mem[b.r + i]
  <2>1. i \in 1 .. Len(b.mem) - (b.r + 1) + 1 /\ (b.r + 1) + i - 1 = b.r + i
    BY <1>1, <1>4
  <2>2. QED
    BY <1>3, <2>1
<1> HIDE DEF m
<1>6. compact(b).mem = m /\ compact(b).r = 0 /\ compact(b).cap = b.cap /\ compact(b) \in Buffers
  BY <1>1, <1>3 DEF compact, m, Buffers
<1>7. QED
  BY <1>1, <1>4, <1>5, <1>6 DEF Shifted, readable_bytes

(* Growing never makes the vector smaller, never larger than MAX_CAPACITY, *)
(* and as large as required when that is allowed.                          *)
LEMMA GrowthSuffices ==
  ASSUME NEW cap \in Nat, cap <= MAX_CAPACITY, NEW required \in Nat
  PROVE  /\ calculate_growth(cap, required) \in Nat
         /\ calculate_growth(cap, required) <= MAX_CAPACITY
         /\ calculate_growth(cap, required) >= cap
         /\ required <= MAX_CAPACITY => calculate_growth(cap, required) >= required
<1> DEFINE stepped == IF cap < GROWTH_THRESHOLD_DOUBLE THEN cap * 2
                      ELSE IF cap < GROWTH_THRESHOLD_15X THEN cap + cap \div 2
                      ELSE cap + GROWTH_LINEAR_INCREMENT
<1>1. stepped \in Nat /\ stepped >= cap
  <2>1. cap * 2 \in Nat /\ cap * 2 >= cap
    OBVIOUS
  <2>2. cap + cap \div 2 \in Nat /\ cap + cap \div 2 >= cap
    OBVIOUS
  <2>3. cap + GROWTH_LINEAR_INCREMENT \in Nat /\ cap + GROWTH_LINEAR_INCREMENT >= cap
    BY Capacities
  <2>4. QED
    BY <2>1, <2>2, <2>3
<1>2. calculate_growth(cap, required) = Min({Max({stepped, required}), MAX_CAPACITY})
  BY DEF calculate_growth
<1> HIDE DEF stepped
<1>3. /\ Max({stepped, required}) \in Nat
      /\ Max({stepped, required}) >= cap /\ Max({stepped, required}) >= required
  BY <1>1, MaxOfTwo
<1>4. QED
  BY <1>2, <1>3, MinOfTwo, Capacities

(* ensure_writable() keeps what was not read, and finds room for len bytes *)
(* as long as the limit allows them.                                       *)
LEMMA EnsureWritableShifts ==
  ASSUME NEW b \in Buffers, Fits(b), NEW len \in Nat
  PROVE  /\ ensure_writable(b, len) \in Buffers /\ Fits(ensure_writable(b, len))
         /\ \E d \in 0 .. b.r : Shifted(b, ensure_writable(b, len), d)
         /\ readable_bytes(b) + len <= MAX_CAPACITY
              => writable_bytes(ensure_writable(b, len)) >= len
<1>1. b.mem \in Seq(Nat) /\ b.r \in Nat /\ b.cap \in Nat /\ Len(b.mem) \in Nat
  BY LenProperties DEF Buffers
<1>2. /\ compact(b) \in Buffers /\ compact(b).cap = b.cap /\ compact(b).r = 0
      /\ Shifted(b, compact(b), b.r)
      /\ Len(compact(b).mem) = readable_bytes(b) /\ readable_bytes(b) \in Nat
  BY CompactShifts DEF Fits
<1>3. CASE writable_bytes(b) >= len
  <2>1. ensure_writable(b, len) = b
    BY <1>3 DEF ensure_writable
  <2>2. Shifted(b, b, 0)
    BY <1>1 DEF Shifted
  <2>3. QED
    BY <1>1, <1>3, <2>1, <2>2
<1>4. CASE ~(writable_bytes(b) >= len) /\ writable_bytes(compact(b)) >= len
  <2>1. ensure_writable(b, len) = compact(b)
    BY <1>4 DEF ensure_writable
  <2>2. Fits(compact(b))
    BY <1>1, <1>2 DEF Fits, readable_bytes
  <2>3. QED
    BY <1>1, <1>2, <1>4, <2>1, <2>2
<1>5. CASE ~(writable_bytes(b) >= len) /\ ~(writable_bytes(compact(b)) >= len)
  <2> DEFINE g == calculate_growth(b.cap, readable_bytes(b) + len)
             e == [compact(b) EXCEPT !.cap = g]
  <2>1. ensure_writable(b, len) = e
    BY <1>2, <1>5 DEF ensure_writable
  <2>2. /\ g \in Nat /\ g <= MAX_CAPACITY /\ g >= b.cap
        /\ readable_bytes(b) + len <= MAX_CAPACITY => g >= readable_bytes(b) + len
    <3>1. b.cap \in Nat /\ b.cap <= MAX_CAPACITY /\ readable_bytes(b) + len \in Nat
      BY <1>1, <1>2 DEF Fits
    <3>2. QED
      BY <3>1, GrowthSuffices
  <2> HIDE DEF g
  <2>3. e \in Buffers /\ e.cap = g /\ e.mem = compact(b).mem /\ e.r = compact(b).r
    BY <1>2, <2>2 DEF Buffers
  <2> HIDE DEF e
  <2>4. Shifted(b, e, b.r)
    BY <1>2, <2>3 DEF Shifted
  <2>5. Fits(e)
    BY <1>1, <1>2, <2>2, <2>3 DEF Fits, readable_bytes
  <2>6. readable_bytes(b) + len <= MAX_CAPACITY => writable_bytes(e) >= len
    BY <1>2, <2>2, <2>3 DEF writable_bytes
  <2>7. QED
    BY <1>1, <2>1, <2>3, <2>4, <2>5, <2>6
<1>6. QED
  BY <1>3, <1>4, <1>5

(* commit() appends the next bytes, as many as there is room for.          *)
LEMMA CommitAppends ==
  ASSUME NEW b \in Buffers, Fits(b), NEW len \in Nat, written \in Nat
  PROVE  \E n \in 0 .. len :
           /\ commit(b, len) \in Buffers /\ Fits(commit(b, len))
           /\ commit(b, len).r = b.r
           /\ Len(commit(b, len).mem) = Len(b.mem) + n
           /\ \A i \in 1 .. Len(b.mem) : commit(b, len).mem[i] = b.mem[i]
           /\ \A i \in 1 .. n : commit(b, len).mem[Len(b.mem) + i] = written + i
           /\ writable_bytes(b) >= len => n = len
<1> DEFINE n == Min({len, writable_bytes(b)})
           added == [i \in 1 .. n |-> written + i]
           c == commit(b, len)
<1>1. b.mem \in Seq(Nat) /\ b.r \in Nat /\ b.cap \in Nat /\ Len(b.mem) \in Nat
  BY LenProperties DEF Buffers
<1>2. writable_bytes(b) \in Nat /\ writable_bytes(b) = b.cap - Len(b.mem)
  BY <1>1 DEF writable_bytes, Fits
<1>3. n \in 0 .. len /\ n <= writable_bytes(b) /\ (writable_bytes(b) >= len => n = len)
  BY <1>2, MinOfTwo
<1>4. c = [b EXCEPT !.mem = @ \o added]
  BY DEF commit
<1> HIDE DEF n
<1>5. added \in Seq(Nat) /\ Len(added) = n /\ \A i \in 1 .. n : added[i] = written + i
  <2>1. \A i \in 1 .. n : written + i \in Nat
    BY <1>3
  <2>2. added \in [1 .. n -> Nat] /\ n \in Nat
    BY <1>3, <2>1
  <2>3. added \in Seq(Nat) /\ Len(added) = n
    BY <2>2
  <2>4. QED
    BY <2>3
<1> HIDE DEF added
<1>6. /\ b.mem \o added \in Seq(Nat)
      /\ Len(b.mem \o added) = Len(b.mem) + n
      /\ \A i \in 1 .. Len(b.mem) + n : (b.mem \o added)[i] =
            IF i <= Len(b.mem) THEN b.mem[i] ELSE added[i - Len(b.mem)]
  BY <1>1, <1>5, ConcatProperties
<1>7. c \in Buffers /\ c.mem = b.mem \o added /\ c.r = b.r /\ c.cap = b.cap
  BY <1>1, <1>4, <1>6 DEF Buffers
<1> HIDE DEF c
<1>8. Fits(c)
  BY <1>1, <1>2, <1>3, <1>6, <1>7 DEF Fits
<1>9. \A i \in 1 .. Len(b.mem) : c.mem[i] = b.mem[i]
  BY <1>1, <1>3, <1>6, <1>7
<1>10. ASSUME NEW i \in 1 .. n PROVE c.mem[Len(b.mem) + i] = written + i
  <2>1. /\ Len(b.mem) + i \in 1 .. Len(b.mem) + n /\ ~(Len(b.mem) + i <= Len(b.mem))
        /\ Len(b.mem) + i - Len(b.mem) = i
    BY <1>1, <1>3
  <2>2. QED
    BY <1>5, <1>6, <1>7, <2>1
<1>11. QED
  BY <1>3, <1>6, <1>7, <1>8, <1>9, <1>10 DEF c

(* The stream that a buffer with w bytes taken and q consumed must hold.   *)
Streams(b, w, q) ==
  /\ \A i \in 1 .. Len(b.mem) : b.mem[i] = w - Len(b.mem) + i
  /\ readable_bytes(b) = w - q

(* The fields of a buffer.                                                 *)
LEMMA BufferTypes ==
  ASSUME NEW b \in Buffers
  PROVE  b.mem \in Seq(Nat) /\ b.r \in Nat /\ b.cap \in Nat /\ Len(b.mem) \in Nat
  BY LenProperties DEF Buffers

(* A buffer that fits and has no bytes is in order, whatever was written.  *)
LEMMA EmptyBuffer ==
  ASSUME NEW cap \in Nat, cap <= MAX_CAPACITY, NEW w \in Nat
  PROVE  /\ Cleared(cap) \in Buffers /\ Fits(Cleared(cap)) /\ Cleared(cap).r = 0
         /\ Len(Cleared(cap).mem) = 0
         /\ Streams(Cleared(cap), w, w)
<1>1. /\ Cleared(cap).r = 0 /\ Cleared(cap).cap = cap /\ Cleared(cap).mem = <<>>
      /\ <<>> \in Seq(Nat) /\ Len(<<>>) = 0
  BY EmptySeq DEF Cleared
<1>2. Cleared(cap) \in Buffers
  BY <1>1 DEF Cleared, Buffers
<1>3. Fits(Cleared(cap)) /\ Streams(Cleared(cap), w, w)
  BY <1>1 DEF Fits, Streams, readable_bytes
<1>4. QED
  BY <1>1, <1>2, <1>3

(* The new buffer satisfies it.                                            *)
LEMMA BufferStart == BufferInit => BufferInv /\ NoByteLost
<1> SUFFICES ASSUME BufferInit PROVE BufferInv /\ NoByteLost
  OBVIOUS
<1>1. PICK initial_capacity \in 0 .. (MAX_CAPACITY + 1) :
        buf = [cap |-> Min({Max({initial_capacity, MIN_CAPACITY}), MAX_CAPACITY}),
               mem |-> <<>>, r |-> 0]
  BY DEF BufferInit
<1>2. written = 0 /\ read = 0 /\ written \in Nat /\ read \in Nat
  BY DEF BufferInit
<1>3. PICK cap \in Nat : cap <= MAX_CAPACITY /\ buf = Cleared(cap)
  <2>1. initial_capacity \in Nat
    BY Capacities
  <2>2. Max({initial_capacity, MIN_CAPACITY}) \in Nat
    BY <2>1, MaxOfTwo, Capacities
  <2>3. /\ Min({Max({initial_capacity, MIN_CAPACITY}), MAX_CAPACITY}) \in Nat
        /\ Min({Max({initial_capacity, MIN_CAPACITY}), MAX_CAPACITY}) <= MAX_CAPACITY
    BY <2>2, MinOfTwo, Capacities
  <2>4. QED
    BY <1>1, <2>3, Zenon DEF Cleared
<1>4. buf \in Buffers /\ Fits(buf) /\ buf.r = 0 /\ Streams(buf, 0, 0)
  BY <1>3, EmptyBuffer
<1>5. QED
  BY <1>2, <1>4 DEF BufferInv, NoByteLost, Streams

(* Dropping bytes that were read loses none of the stream.                 *)
LEMMA ShiftKeeps ==
  ASSUME NEW b \in Buffers, NEW c \in Buffers, NEW d \in 0 .. b.r, Shifted(b, c, d),
         Fits(b), NEW w \in Nat, NEW q \in Nat
  PROVE  /\ c.r <= b.r /\ readable_bytes(c) = readable_bytes(b)
         /\ Streams(b, w, q) => Streams(c, w, q)
<1>1. /\ b.r \in Nat /\ Len(b.mem) \in Nat /\ c.r \in Nat /\ Len(c.mem) \in Nat /\ d \in Nat
  BY BufferTypes
<1>2. c.r = b.r - d /\ Len(c.mem) = Len(b.mem) - d
  BY DEF Shifted
<1>3. readable_bytes(c) = readable_bytes(b)
  BY <1>1, <1>2 DEF readable_bytes
<1>4. ASSUME Streams(b, w, q), NEW i \in 1 .. Len(c.mem)
      PROVE  c.mem[i] = w - Len(c.mem) + i
  <2>1. d + i \in 1 .. Len(b.mem) /\ c.mem[i] = b.mem[d + i]
    BY <1>1, <1>2 DEF Shifted
  <2>2. b.mem[d + i] = w - Len(b.mem) + (d + i)
    BY <1>4, <2>1 DEF Streams
  <2>3. w - Len(c.mem) + i = w - Len(b.mem) + (d + i)
    BY <1>1, <1>2
  <2>4. QED
    BY <2>1, <2>2, <2>3
<1>5. c.r <= b.r
  BY <1>1, <1>2
<1>6. ASSUME Streams(b, w, q) PROVE Streams(c, w, q)
  <2>1. \A i \in 1 .. Len(c.mem) : c.mem[i] = w - Len(c.mem) + i
    BY <1>4, <1>6
  <2>2. readable_bytes(c) = w - q
    BY <1>3, <1>6 DEF Streams
  <2>3. QED
    BY <2>1, <2>2 DEF Streams
<1>7. QED
  BY <1>3, <1>5, <1>6

(* What every step has to show.                                            *)
BufferKept == BufferInv' /\ (RespectLimit /\ NoByteLost => NoByteLost')

(* A call that only moves the unread bytes or changes the capacity.        *)
LEMMA ReshapeKeeps ==
  ASSUME BufferInv, buf' \in Buffers, Fits(buf'), UNCHANGED <<written, read>>,
         NEW d \in 0 .. buf.r, Shifted(buf, buf', d)
  PROVE  BufferKept
<1>1. PICK c \in Buffers : c = buf'
  OBVIOUS
<1>2. /\ buf \in Buffers /\ Fits(buf) /\ written \in Nat /\ read \in Nat /\ buf.r <= read
  BY DEF BufferInv
<1>3. /\ c.r <= buf.r /\ (Streams(buf, written, read) => Streams(c, written, read))
  BY <1>1, <1>2, ShiftKeeps
<1>4. buf.r \in Nat /\ c.r \in Nat
  BY <1>2, BufferTypes
<1>5. c.r <= read
  BY <1>2, <1>3, <1>4
<1>6. BufferInv'
  BY <1>1, <1>2, <1>5 DEF BufferInv
<1>7. (NoByteLost => Streams(buf, written, read)) /\ (Streams(c, written, read) => NoByteLost')
  BY <1>1 DEF NoByteLost, Streams, readable_bytes
<1>8. QED
  BY <1>3, <1>6, <1>7 DEF BufferKept

(* A call that gives up what was not read.                                 *)
LEMMA ClearKeeps ==
  ASSUME BufferInv, NEW cap \in Nat, cap <= MAX_CAPACITY, buf' = Cleared(cap),
         written' = written, read' = written
  PROVE  BufferKept
<1>1. written \in Nat
  BY DEF BufferInv
<1>2. PICK c \in Buffers : c = buf' /\ Fits(c) /\ c.r = 0 /\ Streams(c, written, written)
  BY <1>1, EmptyBuffer
<1>3. BufferInv'
  BY <1>1, <1>2 DEF BufferInv
<1>4. NoByteLost'
  BY <1>2 DEF NoByteLost, Streams, readable_bytes
<1>5. QED
  BY <1>3, <1>4 DEF BufferKept

(* write() and reserve() with commit().                                    *)
LEMMA AppendKeeps ==
  ASSUME BufferInv, NEW len \in Nat, NEW used \in 0 .. len, Acceptable(len),
         buf' = commit(ensure_writable(buf, len), used),
         written' = written + used, read' = read
  PROVE  BufferKept
<1> DEFINE e == ensure_writable(buf, len)
<1>1. /\ buf \in Buffers /\ Fits(buf) /\ written \in Nat /\ read \in Nat /\ buf.r <= read
  BY DEF BufferInv
<1>2. /\ e \in Buffers /\ Fits(e)
      /\ \E d \in 0 .. buf.r : Shifted(buf, e, d)
      /\ readable_bytes(buf) + len <= MAX_CAPACITY => writable_bytes(e) >= len
  BY <1>1, EnsureWritableShifts
<1>3. e.r <= buf.r /\ (Streams(buf, written, read) => Streams(e, written, read))
  <2>1. PICK d \in 0 .. buf.r : Shifted(buf, e, d)
    BY <1>2
  <2> HIDE DEF e
  <2>2. QED
    BY <1>1, <1>2, <2>1, ShiftKeeps
<1>4. used \in Nat
  OBVIOUS
<1>5. PICK n \in 0 .. used :
        /\ commit(e, used) \in Buffers /\ Fits(commit(e, used))
        /\ commit(e, used).r = e.r
        /\ Len(commit(e, used).mem) = Len(e.mem) + n
        /\ \A i \in 1 .. Len(e.mem) : commit(e, used).mem[i] = e.mem[i]
        /\ \A i \in 1 .. n : commit(e, used).mem[Len(e.mem) + i] = written + i
        /\ writable_bytes(e) >= used => n = used
  <2> HIDE DEF e
  <2>1. QED
    BY <1>1, <1>2, <1>4, CommitAppends
<1>6. PICK f \in Buffers : f = e
  BY <1>2
<1>7. PICK c \in Buffers : c = commit(e, used)
  BY <1>5
<1>8. /\ c = buf' /\ Fits(c) /\ c.r = f.r /\ Len(c.mem) = Len(f.mem) + n
      /\ \A i \in 1 .. Len(f.mem) : c.mem[i] = f.mem[i]
      /\ \A i \in 1 .. n : c.mem[Len(f.mem) + i] = written + i
      /\ writable_bytes(f) >= used => n = used
      /\ f.r <= buf.r /\ (Streams(buf, written, read) => Streams(f, written, read))
      /\ readable_bytes(buf) + len <= MAX_CAPACITY => writable_bytes(f) >= len
  BY <1>2, <1>3, <1>5, <1>6, <1>7
<1> HIDE DEF e
<1>9. /\ f.r \in Nat /\ Len(f.mem) \in Nat /\ f.cap \in Nat /\ buf.r \in Nat
      /\ c.r \in Nat /\ Len(c.mem) \in Nat
  BY <1>1, BufferTypes
<1>10. BufferInv'
  <2>1. c.r <= read /\ written + used \in Nat
    BY <1>1, <1>4, <1>8, <1>9
  <2>2. QED
    BY <1>1, <1>8, <2>1 DEF BufferInv
<1>11. ASSUME RespectLimit, NoByteLost PROVE NoByteLost'
  <2>1. n = used
    <3>1. writable_bytes(f) >= len
      BY <1>8, <1>11 DEF Acceptable
    <3>2. writable_bytes(f) \in Int
      BY <1>9 DEF writable_bytes
    <3>3. writable_bytes(f) >= used
      BY <3>1, <3>2
    <3>4. QED
      BY <1>8, <3>3
  <2>2. Streams(f, written, read)
    BY <1>8, <1>11 DEF NoByteLost, Streams
  <2>3. ASSUME NEW i \in 1 .. Len(c.mem)
        PROVE  c.mem[i] = (written + used) - Len(c.mem) + i
    <3>1. CASE i <= Len(f.mem)
      <4>1. c.mem[i] = f.mem[i] /\ f.mem[i] = written - Len(f.mem) + i
        BY <1>8, <1>9, <2>2, <3>1 DEF Streams
      <4>2. QED
        BY <1>1, <1>4, <1>8, <1>9, <2>1, <4>1
    <3>2. CASE i > Len(f.mem)
      <4>1. PICK j \in 1 .. n : i = Len(f.mem) + j
        <5>1. i - Len(f.mem) \in 1 .. n /\ i = Len(f.mem) + (i - Len(f.mem))
          BY <1>8, <1>9, <3>2
        <5>2. QED
          BY <5>1
      <4>2. c.mem[i] = written + j
        BY <1>8, <4>1
      <4>3. Len(c.mem) = Len(f.mem) + used /\ j \in Nat
        BY <1>4, <1>8, <2>1
      <4>4. written + j = (written + used) - Len(c.mem) + i
        <5>1. PICK l \in Nat, w \in Nat, k \in Nat : l = Len(f.mem) /\ w = written /\ k = j
          BY <1>1, <1>9, <4>3
        <5>2. w + k = (w + used) - (l + used) + (l + k)
          BY <1>4
        <5>3. QED
          BY <4>1, <4>3, <5>1, <5>2
      <4>5. QED
        BY <4>2, <4>4
    <3>3. QED
      BY <1>9, <3>1, <3>2
  <2>4. readable_bytes(c) = (written + used) - read
    <3>1. readable_bytes(f) = written - read
      BY <2>2 DEF Streams
    <3>2. c.r = f.r /\ Len(c.mem) = Len(f.mem) + used
      BY <1>8, <2>1
    <3>3. QED
      BY <1>1, <1>4, <1>9, <3>1, <3>2, SMTT(40) DEF readable_bytes
  <2>5. QED
    BY <1>8, <2>3, <2>4 DEF NoByteLost, readable_bytes
<1>12. QED
  BY <1>10, <1>11 DEF BufferKept

(* What the reader consumes is no longer readable.                         *)
LEMMA Rebalance ==
  ASSUME NEW l \in Nat, NEW r \in Nat, NEW w \in Nat, NEW q \in Nat, NEW k \in Nat,
         l - r = w - q
  PROVE  l - k = w - (q + k - r)
  OBVIOUS

(* read() and skip() consume, unskip() takes back, at most what there is.  *)
LEMMA MoveReadIndex ==
  ASSUME BufferInv, NEW to \in 0 .. Len(buf.mem), buf' = [buf EXCEPT !.r = to],
         written' = written, read' = read + to - buf.r
  PROVE  BufferKept
<1>1. /\ buf \in Buffers /\ Fits(buf) /\ written \in Nat /\ read \in Nat /\ buf.r <= read
  BY DEF BufferInv
<1>2. buf.mem \in Seq(Nat) /\ buf.r \in Nat /\ buf.cap \in Nat /\ Len(buf.mem) \in Nat /\ to \in Nat
  BY <1>1, BufferTypes
<1>3. buf' \in Buffers /\ buf'.r = to /\ buf'.mem = buf.mem /\ buf'.cap = buf.cap
  BY <1>1, <1>2 DEF Buffers
<1>4. read' \in Nat /\ to <= read'
  BY <1>1, <1>2
<1>5. BufferInv'
  BY <1>1, <1>2, <1>3, <1>4 DEF BufferInv, Fits
<1>6. ASSUME NoByteLost PROVE NoByteLost'
  <2>1. readable_bytes(buf)' = written' - read'
    <3>1. Len(buf.mem) - buf.r = written - read
      BY <1>6 DEF NoByteLost, readable_bytes
    <3>2. Len(buf.mem) - to = written - (read + to - buf.r)
      <4>1. PICK l \in Nat, r \in Nat, w \in Nat, q \in Nat, k \in Nat :
              l = Len(buf.mem) /\ r = buf.r /\ w = written /\ q = read /\ k = to
        BY <1>1, <1>2
      <4>2. l - r = w - q
        BY <3>1, <4>1
      <4>3. l - k = w - (q + k - r)
        BY <4>2, Rebalance
      <4>4. QED
        BY <4>1, <4>3
    <3>3. QED
      BY <1>3, <3>2 DEF readable_bytes
  <2>2. QED
    BY <1>3, <1>6, <2>1 DEF NoByteLost
<1>7. QED
  BY <1>5, <1>6 DEF BufferKept

(* write() and its variants.                                               *)
LEMMA WriteKeeps ==
  ASSUME BufferInv, NEW len \in Lengths, Write(len) PROVE BufferKept
<1>1. len \in Nat /\ len \in 0 .. len
  BY Capacities DEF Lengths
<1>2. QED
  BY <1>1, AppendKeeps DEF Write

(* reserve() and commit().                                                 *)
LEMMA ReserveCommitKeeps ==
  ASSUME BufferInv, NEW len \in Lengths, NEW used \in 1 .. len, ReserveCommit(len, used)
  PROVE  BufferKept
<1>1. len \in Nat /\ used \in 0 .. len
  BY Capacities DEF Lengths
<1>2. QED
  BY <1>1, AppendKeeps DEF ReserveCommit

(* compact() on its own, and before an allocation that fails.              *)
LEMMA CompactKeeps ==
  ASSUME BufferInv, buf' = compact(buf), UNCHANGED <<written, read>>
  PROVE  BufferKept
<1>1. buf \in Buffers /\ Fits(buf)
  BY DEF BufferInv
<1>2. buf.r \in Nat /\ Len(buf.mem) \in Nat /\ buf.cap \in Nat
  BY <1>1, BufferTypes
<1>3. /\ compact(buf) \in Buffers /\ compact(buf).cap = buf.cap /\ compact(buf).r = 0
      /\ Shifted(buf, compact(buf), buf.r)
      /\ Len(compact(buf).mem) = readable_bytes(buf) /\ readable_bytes(buf) \in Nat
  BY <1>1, CompactShifts DEF Fits
<1>4. Fits(compact(buf))
  BY <1>1, <1>2, <1>3 DEF Fits, readable_bytes
<1>5. buf.r \in 0 .. buf.r
  BY <1>2
<1>6. buf' \in Buffers /\ Fits(buf') /\ Shifted(buf, buf', buf.r)
  BY <1>3, <1>4
<1>7. PICK d \in 0 .. buf.r : Shifted(buf, buf', d)
  BY <1>5, <1>6
<1>8. QED
  BY <1>6, <1>7, ReshapeKeeps

(* read() and its variants.                                                *)
LEMMA ReadKeeps ==
  ASSUME BufferInv, NEW len \in Lengths, Read(len) PROVE BufferKept
<1>1. buf \in Buffers /\ Fits(buf) /\ read \in Nat
  BY DEF BufferInv
<1>2. buf.r \in Nat /\ Len(buf.mem) \in Nat /\ len \in Nat
  BY <1>1, BufferTypes, Capacities DEF Lengths
<1>3. readable_bytes(buf) \in Nat
  BY <1>1, <1>2 DEF Fits, readable_bytes
<1>4. PICK n \in Nat : n = Min({len, readable_bytes(buf)}) /\ n <= readable_bytes(buf)
  <2>1. Min({len, readable_bytes(buf)}) \in Nat /\ Min({len, readable_bytes(buf)}) <= readable_bytes(buf)
    BY <1>2, <1>3, MinOfTwo
  <2>2. QED
    BY <2>1
<1>5. buf' = [buf EXCEPT !.r = @ + n] /\ read' = read + n /\ written' = written
  BY <1>4 DEF Read
<1>6. PICK to \in 0 .. Len(buf.mem) : to = buf.r + n
  BY <1>2, <1>4 DEF readable_bytes
<1>7. buf' = [buf EXCEPT !.r = to]
  BY <1>5, <1>6
<1>8. read' = read + to - buf.r
  BY <1>1, <1>2, <1>5, <1>6
<1>9. QED
  BY <1>5, <1>7, <1>8, MoveReadIndex

(* unskip() moves back over bytes still in memory.                         *)
LEMMA UnskipKeeps ==
  ASSUME BufferInv, NEW len \in Lengths, Unskip(len) PROVE BufferKept
<1>1. buf \in Buffers /\ Fits(buf) /\ read \in Nat
  BY DEF BufferInv
<1>2. buf.r \in Nat /\ Len(buf.mem) \in Nat /\ len \in Nat
  BY <1>1, BufferTypes, Capacities DEF Lengths
<1>3. buf.r <= Len(buf.mem)
  BY <1>1 DEF Fits
<1>4. Min({len, buf.r}) = IF len <= buf.r THEN len ELSE buf.r
  BY <1>2, MinOfTwo
<1>5. /\ buf' = [buf EXCEPT !.r = IF len <= @ THEN @ - len ELSE 0]
      /\ read' = read - Min({len, buf.r}) /\ written' = written
  BY DEF Unskip
<1>6. PICK to \in 0 .. Len(buf.mem) : to = IF len <= buf.r THEN buf.r - len ELSE 0
  <2>1. (IF len <= buf.r THEN buf.r - len ELSE 0) \in 0 .. Len(buf.mem)
    BY <1>2, <1>3
  <2>2. QED
    BY <2>1
<1>7. buf' = [buf EXCEPT !.r = to]
  BY <1>5, <1>6
<1>8. read' = read + to - buf.r
  BY <1>1, <1>2, <1>4, <1>5, <1>6
<1>9. QED
  BY <1>5, <1>7, <1>8, MoveReadIndex

(* ensure_writable() compacts or grows.                                    *)
LEMMA EnsureWritableKeeps ==
  ASSUME BufferInv, NEW len \in Lengths, EnsureWritable(len) PROVE BufferKept
<1>1. buf \in Buffers /\ Fits(buf) /\ len \in Nat
  BY Capacities DEF BufferInv, Lengths
<1>2. buf' = ensure_writable(buf, len) /\ UNCHANGED <<written, read>>
  BY DEF EnsureWritable
<1>3. /\ ensure_writable(buf, len) \in Buffers /\ Fits(ensure_writable(buf, len))
      /\ \E d \in 0 .. buf.r : Shifted(buf, ensure_writable(buf, len), d)
  BY <1>1, EnsureWritableShifts
<1>4. PICK d \in 0 .. buf.r : Shifted(buf, buf', d)
  BY <1>2, <1>3
<1>5. buf' \in Buffers /\ Fits(buf')
  BY <1>2, <1>3
<1>6. QED
  BY <1>2, <1>4, <1>5, ReshapeKeeps

(* reserve_capacity() grows to what is asked for.                          *)
LEMMA ReserveCapacityKeeps ==
  ASSUME BufferInv, NEW new_capacity \in 1 .. MAX_CAPACITY, ReserveCapacity(new_capacity)
  PROVE  BufferKept
<1>1. buf \in Buffers /\ Fits(buf)
  BY DEF BufferInv
<1>2. /\ buf.mem \in Seq(Nat) /\ buf.r \in Nat /\ Len(buf.mem) \in Nat /\ buf.cap \in Nat
      /\ new_capacity \in Nat
  BY <1>1, BufferTypes, Capacities
<1>3. /\ new_capacity > buf.cap /\ new_capacity <= MAX_CAPACITY
      /\ buf' = [buf EXCEPT !.cap = new_capacity] /\ UNCHANGED <<written, read>>
  BY DEF ReserveCapacity
<1>4. buf' \in Buffers /\ buf'.r = buf.r /\ buf'.mem = buf.mem /\ buf'.cap = new_capacity
  BY <1>1, <1>2, <1>3 DEF Buffers
<1>5. Fits(buf')
  BY <1>1, <1>2, <1>3, <1>4 DEF Fits
<1>6. 0 \in 0 .. buf.r /\ Shifted(buf, buf', 0)
  BY <1>2, <1>4 DEF Shifted
<1>7. PICK d \in 0 .. buf.r : Shifted(buf, buf', d)
  BY <1>6
<1>8. QED
  BY <1>3, <1>4, <1>5, <1>7, ReshapeKeeps

(* shrink_to_fit() keeps what is not yet read.                             *)
LEMMA ShrinkToFitKeeps ==
  ASSUME BufferInv, ShrinkToFit PROVE BufferKept
<1>1. buf \in Buffers /\ Fits(buf) /\ UNCHANGED <<written, read>>
  BY DEF BufferInv, ShrinkToFit
<1>2. buf.r \in Nat /\ Len(buf.mem) \in Nat /\ buf.cap \in Nat
  BY <1>1, BufferTypes
<1>3. PICK c \in Buffers :
        /\ c = compact(buf) /\ c.r = 0 /\ Shifted(buf, c, buf.r)
        /\ Len(c.mem) = readable_bytes(buf) /\ readable_bytes(buf) \in Nat
  BY <1>1, CompactShifts DEF Fits
<1>4. readable_bytes(buf) <= MAX_CAPACITY /\ MAX_CAPACITY \in Nat
  BY <1>1, <1>2, Capacities DEF Fits, readable_bytes
<1>5. buf' \in Buffers /\ Fits(buf') /\ Shifted(buf, buf', buf.r)
  <2>1. CASE readable_bytes(buf) = 0
    <3>1. PICK e \in Buffers : e = buf' /\ Fits(e) /\ e.r = 0 /\ Len(e.mem) = 0
      <4>1. buf' = Cleared(DEFAULT_INITIAL_CAPACITY)
        BY <2>1 DEF ShrinkToFit
      <4>2. QED
        BY <1>1, <4>1, EmptyBuffer, Capacities
    <3>2. buf.r = Len(buf.mem)
      BY <1>2, <2>1 DEF readable_bytes
    <3>3. Shifted(buf, e, buf.r)
      BY <1>2, <3>1, <3>2 DEF Shifted
    <3>4. QED
      BY <3>1, <3>3
  <2>2. CASE readable_bytes(buf) # 0
    <3>1. buf' = [c EXCEPT !.cap = readable_bytes(buf)]
      BY <1>3, <2>2 DEF ShrinkToFit
    <3>2. /\ buf' \in Buffers /\ buf'.mem = c.mem /\ buf'.r = c.r
          /\ buf'.cap = readable_bytes(buf)
      BY <1>3, <3>1 DEF Buffers
    <3>3. Fits(buf')
      BY <1>3, <1>4, <3>2 DEF Fits
    <3>4. Shifted(buf, buf', buf.r)
      BY <1>3, <3>2 DEF Shifted
    <3>5. QED
      BY <3>2, <3>3, <3>4
  <2>3. QED
    BY <2>1, <2>2
<1>6. buf.r \in 0 .. buf.r
  BY <1>2
<1>7. PICK d \in 0 .. buf.r : Shifted(buf, buf', d)
  BY <1>5, <1>6
<1>8. QED
  BY <1>1, <1>5, <1>7, ReshapeKeeps

(* Every step of the buffer keeps the invariant.                           *)
LEMMA BufferStep == BufferInv /\ [BufferNext]_bufferVars => BufferKept
<1> SUFFICES ASSUME BufferInv, [BufferNext]_bufferVars PROVE BufferKept
  OBVIOUS
<1>1. CASE \E len \in Lengths :
             \/ Write(len)
             \/ \E used \in 1..len : ReserveCommit(len, used)
             \/ GrowFails(len)
             \/ Read(len)
             \/ Unskip(len)
             \/ EnsureWritable(len)
  <2>1. PICK len \in Lengths :
             \/ Write(len)
             \/ \E used \in 1..len : ReserveCommit(len, used)
             \/ GrowFails(len)
             \/ Read(len)
             \/ Unskip(len)
             \/ EnsureWritable(len)
    BY <1>1
  <2>2. CASE Write(len)
    BY <2>2, WriteKeeps
  <2>3. CASE \E used \in 1..len : ReserveCommit(len, used)
    BY <2>3, ReserveCommitKeeps
  <2>4. CASE GrowFails(len)
    BY <2>4, CompactKeeps DEF GrowFails
  <2>5. CASE Read(len)
    BY <2>5, ReadKeeps
  <2>6. CASE Unskip(len)
    BY <2>6, UnskipKeeps
  <2>7. CASE EnsureWritable(len)
    BY <2>7, EnsureWritableKeeps
  <2>8. QED
    BY <2>1, <2>2, <2>3, <2>4, <2>5, <2>6, <2>7
<1>2. CASE \E new_capacity \in 1..MAX_CAPACITY : ReserveCapacity(new_capacity)
  BY <1>2, ReserveCapacityKeeps
<1>3. CASE Compact
  BY <1>3, CompactKeeps DEF Compact
<1>4. CASE ShrinkToFit
  BY <1>4, ShrinkToFitKeeps
<1>5. CASE Clear
  <2>1. buf.cap \in Nat /\ buf.cap <= MAX_CAPACITY
    BY BufferTypes DEF BufferInv, Fits
  <2>2. QED
    BY <1>5, <2>1, ClearKeeps DEF Clear
<1>6. CASE Reset
  BY <1>6, ClearKeeps, Capacities DEF Reset
<1>7. CASE MoveFrom
  <2>1. 0 \in Nat /\ 0 <= MAX_CAPACITY
    BY Capacities
  <2>2. QED
    BY <1>7, <2>1, ClearKeeps, Zenon DEF MoveFrom
<1>8. CASE UNCHANGED bufferVars
  BY <1>8 DEF bufferVars, BufferKept, BufferInv, NoByteLost, Fits, readable_bytes
<1>9. QED
  BY <1>1, <1>2, <1>3, <1>4, <1>5, <1>6, <1>7, <1>8 DEF BufferNext

(* The buffer's indices are numbers in order and its capacity is bounded,  *)
(* and no more bytes lie before the read index than were read, under any   *)
(* sequence of calls.                                                      *)
THEOREM BufferInvariant == BufferSpec => []BufferInv
  BY BufferStart, BufferStep, PTL DEF BufferSpec, BufferKept

(* read_idx_ <= write_idx_ <= data_.size() <= MAX_CAPACITY after every     *)
(* call, for every choice of the capacities and growth thresholds, also    *)
(* when a writer asks for more than MAX_CAPACITY allows.                   *)
THEOREM BufferWithinCapacity == BufferSpec => []WithinCapacity
<1>1. BufferInv => WithinCapacity
  BY DEF BufferInv, Fits, WithinCapacity
<1>2. QED
  BY <1>1, BufferInvariant, PTL

(* The stream property of the buffer, for users who never let the unread   *)
(* bytes pass MAX_CAPACITY: then ensure_writable() has found room for all  *)
(* that commit() is given, and compaction, growth, shrinking, unskip() and *)
(* failed allocations move bytes without losing or reordering one.         *)
THEOREM BufferLosesNothing ==
  ASSUME RespectLimit
  PROVE  BufferSpec => []NoByteLost
<1>1. BufferInit => BufferInv /\ NoByteLost
  BY BufferStart
<1>2. BufferInv /\ NoByteLost /\ [BufferNext]_bufferVars => (BufferInv /\ NoByteLost)'
  BY BufferStep DEF BufferKept
<1>3. QED
  BY <1>1, <1>2, PTL DEF BufferSpec

-------------------------------------------------------------------------------
(* HTTP/2.                                                                 *)

(* What the client has sent on a stream.                                   *)
Records ==
  {r \in [phase : {"idle", "head", "body", "done", "reset"}, ended : BOOLEAN,
          body : 0 .. MaxBody, good : BOOLEAN] :
     /\ r.phase \in {"idle", "head"} => r.body = 0
     /\ r.phase \in {"idle", "body"} => ~r.ended
     /\ r.phase = "head" /\ r.ended => SplitHeads
     /\ r.phase = "done" => r.ended}

(* The frames that make up a request.                                      *)
RequestFrames == {"HEADERS", "CONTINUATION", "DATA", "RST_STREAM"}

(* What the client may send.                                               *)
Frames ==
  {f \in [type : RequestFrames \cup {"SETTINGS", "WINDOW_UPDATE", "PING", "GOAWAY"},
          stream : StreamIds \cup {0}, flags : SUBSET {"END_HEADERS", "END_STREAM"},
          data : Seq(Bytes), val : Nat] :
     f.type \in RequestFrames => f.stream \in StreamIds}

(* What the server may have written.                                       *)
FramesOut ==
  [type : {"HEADERS", "DATA", "SETTINGS", "PING"},
   flags : SUBSET {"ACK", "END_HEADERS", "END_STREAM"}, data : Seq(Bytes), whole : BOOLEAN]

(* Bytes a + 1 .. a + n of the body of stream s.                           *)
Part(s, a, n) == [j \in 1 .. n |-> <<s, a + j>>]

(* What a frame f makes of the record r of stream s.                       *)
Follows(s, r, f, q) ==
  \/ /\ f.stream # s \/ f.type \notin RequestFrames
     /\ q = r
  \/ /\ f.type = "HEADERS" /\ f.stream = s /\ r.phase = "idle"
     /\ f.flags = {"END_STREAM"} => SplitHeads
     /\ q.phase = IF "END_HEADERS" \notin f.flags THEN "head"
                  ELSE IF "END_STREAM" \in f.flags THEN "done" ELSE "body"
     /\ q.ended = ("END_STREAM" \in f.flags)
     /\ q.body = r.body /\ q.good = (f.val # 0)
  \/ /\ f.type = "CONTINUATION" /\ f.stream = s /\ r.phase = "head"
     /\ q.phase = IF r.ended THEN "done" ELSE "body"
     /\ q.ended = r.ended /\ q.body = r.body /\ q.good = (r.good /\ f.val # 0)
  \/ /\ f.type = "DATA" /\ f.stream = s /\ r.phase = "body"
     /\ q.phase = IF "END_STREAM" \in f.flags THEN "done" ELSE "body"
     /\ q.ended = ("END_STREAM" \in f.flags)
     /\ q.good = r.good
     /\ \E n \in Nat : f.data = Part(s, r.body, n) /\ q.body = r.body + n
  \/ /\ f.type = "DATA" /\ f.stream = s /\ r.phase = "idle"
     /\ q = r
  \/ /\ f.type = "RST_STREAM" /\ f.stream = s /\ r.phase \in {"body", "done"}
     /\ q.phase = "reset" /\ q.ended = r.ended /\ q.body = r.body /\ q.good = r.good

(* The records of stream s along the frames of the input, up to c.         *)
History(s, in, c, h) ==
  /\ h \in [1 .. Len(in) + 1 -> Records]
  /\ h[Len(in) + 1] = c
  /\ \A i \in 1 .. Len(in) : Follows(s, h[i], in[i], h[i + 1])
  /\ \A i \in 1 .. Len(in) + 1 : h[i].ended => c.ended /\ c.body = h[i].body

(* The frames not yet handled.                                             *)
Input == plaintext \o wire

(* What the server keeps of a stream for which it has read r.              *)
Stored(s, r) ==
  /\ r.phase = "idle" <=> s \notin DOMAIN streams
  /\ s \in DOMAIN streams =>
       /\ streams[s].body = Part(s, 0, r.body)
       /\ streams[s].state = "HALF_CLOSED_REMOTE" => r.phase = "done"

(* What it has written there: the first bytes of the reply to r.           *)
Replied(s, r) ==
  /\ out[s] # <<>> \/ replying = s => r.ended /\ r.phase \in {"done", "reset"}
  /\ replying = s /\ pc = "send headers" => out[s] = <<>>
  /\ replying = s => offset < Len(ReplyTo(s, r.body))
  /\ \E cut \in [0 .. Len(out[s]) -> 0 .. Len(ReplyTo(s, r.body))] :
       /\ CutsUp(out[s], ReplyTo(s, r.body), cut)
       /\ replying = s => cut[Len(out[s])] = offset

(* HEADERS, then DATA, then at most one END_STREAM.                        *)
Shaped(s, r) ==
  fails = 0 =>
    /\ \A i \in DOMAIN out[s] :
         /\ out[s][i].type = "HEADERS" <=> i = 1
         /\ Ends(out[s][i]) => i = Len(out[s])
    /\ replying = s => \A i \in DOMAIN out[s] : ~Ends(out[s][i])
    /\ replying = s /\ pc = "send data" => out[s] # <<>>
    /\ r.phase = "done" /\ r.good /\ ~SplitHeads =>
         replying = s \/ \E i \in DOMAIN out[s] : Ends(out[s][i])

(* The server has handled exactly r of stream s.                           *)
Handled(s, r) == Stored(s, r) /\ Replied(s, r) /\ Shaped(s, r)

(* Every stream has a history that begins at what was handled.             *)
Http2Live == \A s \in StreamIds : \E h : History(s, Input, client[s], h) /\ Handled(s, h[1])

(* What the variables range over.                                          *)
Http2Types ==
  /\ tls \in {"handshake", "open", "closed"}
  /\ pc \in {"idle", "loop", "send headers", "send data"}
  /\ tls = "closed" => pc = "idle"
  /\ client \in [StreamIds -> Records]
  /\ plaintext \in Seq(Frames) /\ wire \in Seq(Frames)
  /\ DOMAIN streams \subseteq StreamIds
  /\ \A s \in DOMAIN streams :
       streams[s] \in [state : StreamStates, body : Seq(Bytes), send_window : 0 .. MaxWindow]
  /\ settings_ack_sent \in BOOLEAN /\ settings_ack_received \in BOOLEAN
  /\ replying \in StreamIds \cup {0} /\ offset \in Nat
  /\ replying # 0 <=> pc \in {"send headers", "send data"}
  /\ replying = 0 => offset = 0
  /\ fails \in 0 .. MaxFails
  /\ out \in [StreamIds \cup {0} -> Seq(FramesOut)]

(* The inductive invariant.                                                *)
Http2Inv ==
  /\ Http2Types
  /\ tls # "closed" => Http2Live
  /\ tls = "closed" => EchoesItsOwn /\ RepliesWellFormed

-------------------------------------------------------------------------------
(* The first frame of the input is the first one buffered.                 *)
LEMMA InputTail ==
  ASSUME NEW S, NEW p \in Seq(S), NEW w \in Seq(S), p # <<>>
  PROVE  /\ Tail(p) \o w = Tail(p \o w)
         /\ p \o w \in Seq(S) /\ p \o w # <<>> /\ (p \o w)[1] = Head(p)
<1>1. p \o w \in Seq(S) /\ Len(p \o w) = Len(p) + Len(w) /\ Len(p) > 0
  BY LenProperties, ConcatProperties, EmptySeq
<1>2. /\ Tail(p) \in Seq(S) /\ Len(Tail(p)) = Len(p) - 1 /\ Head(p) = p[1]
      /\ \A i \in 1 .. Len(p) - 1 : Tail(p)[i] = p[i + 1]
  BY HeadTailProperties
<1>3. p \o w # <<>>
  BY <1>1, EmptySeq
<1>4. /\ Tail(p \o w) \in Seq(S) /\ Len(Tail(p \o w)) = Len(p \o w) - 1
      /\ \A i \in 1 .. Len(p \o w) - 1 : Tail(p \o w)[i] = (p \o w)[i + 1]
  BY <1>1, <1>3, HeadTailProperties
<1>5. Tail(p) \o w \in Seq(S) /\ Len(Tail(p) \o w) = Len(p) - 1 + Len(w)
  BY <1>2, ConcatProperties
<1>6. ASSUME NEW i \in 1 .. Len(p) - 1 + Len(w)
      PROVE  (Tail(p) \o w)[i] = Tail(p \o w)[i]
  <2>1. (Tail(p) \o w)[i] = IF i <= Len(p) - 1 THEN Tail(p)[i] ELSE w[i - (Len(p) - 1)]
    BY <1>2, ConcatProperties
  <2>2. (p \o w)[i + 1] = IF i + 1 <= Len(p) THEN p[i + 1] ELSE w[i + 1 - Len(p)]
    BY <1>1, ConcatProperties
  <2>3. QED
    BY <1>1, <1>2, <1>4, <2>1, <2>2
<1>7. Tail(p) \o w = Tail(p \o w)
  BY <1>1, <1>4, <1>5, <1>6, SeqEqual
<1>8. QED
  BY <1>1, <1>2, <1>3, <1>7, ConcatProperties

(* A frame that is sent is the last one of the input.                      *)
LEMMA InputAppend ==
  ASSUME NEW S, NEW p \in Seq(S), NEW w \in Seq(S), NEW f \in S
  PROVE  p \o Append(w, f) = Append(p \o w, f) /\ p \o w \in Seq(S)
<1>1. p \o w \in Seq(S) /\ Len(p \o w) = Len(p) + Len(w)
  BY LenProperties, ConcatProperties
<1>2. /\ Append(w, f) \in Seq(S) /\ Len(Append(w, f)) = Len(w) + 1
      /\ \A i \in 1 .. Len(w) : Append(w, f)[i] = w[i]
      /\ Append(w, f)[Len(w) + 1] = f
  BY AppendProperties
<1>3. /\ Append(p \o w, f) \in Seq(S) /\ Len(Append(p \o w, f)) = Len(p) + Len(w) + 1
      /\ \A i \in 1 .. Len(p) + Len(w) : Append(p \o w, f)[i] = (p \o w)[i]
      /\ Append(p \o w, f)[Len(p) + Len(w) + 1] = f
  BY <1>1, AppendProperties
<1>4. p \o Append(w, f) \in Seq(S) /\ Len(p \o Append(w, f)) = Len(p) + Len(w) + 1
  BY <1>2, ConcatProperties
<1>5. ASSUME NEW i \in 1 .. Len(p) + Len(w) + 1
      PROVE  (p \o Append(w, f))[i] = Append(p \o w, f)[i]
  <2>1. (p \o Append(w, f))[i] = IF i <= Len(p) THEN p[i] ELSE Append(w, f)[i - Len(p)]
    BY <1>2, ConcatProperties
  <2>2. i <= Len(p) + Len(w) => (p \o w)[i] = IF i <= Len(p) THEN p[i] ELSE w[i - Len(p)]
    BY <1>1, ConcatProperties
  <2>3. QED
    BY <1>2, <1>3, <2>1, <2>2, LenProperties
<1>6. QED
  BY <1>1, <1>3, <1>4, <1>5, SeqEqual

-------------------------------------------------------------------------------
(* With no input the history is the record of the client.                  *)
LEMMA HistoryEmpty ==
  ASSUME NEW s, NEW c \in Records
  PROVE  History(s, <<>>, c, [i \in 1 .. 1 |-> c])
BY DEF History

(* No frame changes the body of a request that has ended.                  *)
LEMMA EndedStays ==
  ASSUME NEW s, NEW r \in Records, NEW f \in Frames, NEW q \in Records, Follows(s, r, f, q), r.ended
  PROVE  q.ended /\ q.body = r.body
BY DEF Follows, Records

(* The client sends a frame.                                               *)
LEMMA HistoryAppend ==
  ASSUME NEW s, NEW in \in Seq(Frames), NEW f \in Frames, NEW c \in Records, NEW d \in Records, NEW h,
         History(s, in, c, h), Follows(s, c, f, d)
  PROVE  \E g : History(s, Append(in, f), d, g) /\ g[1] = h[1]
<1>1. PICK n \in Nat : n = Len(in)
  BY LenProperties
<1>2. PICK in2 : in2 = Append(in, f)
  OBVIOUS
<1>3. /\ Len(in2) = n + 1 /\ in2[n + 1] = f
      /\ \A i \in 1 .. n : in2[i] = in[i]
  BY <1>1, <1>2, AppendProperties
<1>4. PICK g : g = [i \in 1 .. n + 2 |-> IF i <= n + 1 THEN h[i] ELSE d]
  OBVIOUS
<1>5. /\ h \in [1 .. n + 1 -> Records] /\ h[n + 1] = c
      /\ \A i \in 1 .. n : Follows(s, h[i], in[i], h[i + 1])
      /\ \A i \in 1 .. n + 1 : h[i].ended => c.ended /\ c.body = h[i].body
  BY <1>1 DEF History
<1>6. g \in [1 .. n + 2 -> Records] /\ g[n + 2] = d /\ \A i \in 1 .. n + 1 : g[i] = h[i]
  BY <1>4, <1>5
<1>7. ASSUME NEW i \in 1 .. n + 1
      PROVE  Follows(s, g[i], in2[i], g[i + 1])
  <2>1. CASE i = n + 1
    BY <1>3, <1>5, <1>6, <2>1
  <2>2. CASE i # n + 1
    <3>1. i \in 1 .. n /\ i + 1 \in 1 .. n + 1
      BY <2>2
    <3>2. QED
      BY <1>3, <1>5, <1>6, <3>1
  <2>3. QED
    BY <2>1, <2>2
<1>8. c.ended => d.ended /\ d.body = c.body
  BY EndedStays
<1>9. ASSUME NEW i \in 1 .. n + 2
      PROVE  g[i].ended => d.ended /\ d.body = g[i].body
  <2>1. CASE i = n + 2
    BY <1>6, <2>1, Zenon
  <2>2. CASE i # n + 2
    <3>1. i \in 1 .. n + 1
      BY <2>2
    <3>2. g[i] = h[i] /\ (h[i].ended => c.ended /\ c.body = h[i].body)
      BY <1>5, <1>6, <3>1, Zenon
    <3>3. QED
      BY <1>8, <3>2, Zenon
  <2>3. QED
    BY <2>1, <2>2
<1>10. History(s, in2, d, g)
  BY <1>3, <1>6, <1>7, <1>9 DEF History
<1>11. QED
  BY <1>2, <1>6, <1>10

(* The server handles a frame.                                             *)
LEMMA HistoryTail ==
  ASSUME NEW s, NEW in \in Seq(Frames), in # <<>>, NEW c \in Records, NEW h, History(s, in, c, h)
  PROVE  \E g : /\ History(s, Tail(in), c, g)
                /\ h[1] \in Records /\ g[1] \in Records /\ Follows(s, h[1], in[1], g[1])
<1>1. PICK n \in Nat : n + 1 = Len(in)
  <2>1. Len(in) \in Nat /\ Len(in) # 0
    BY LenProperties, EmptySeq
  <2>2. QED
    BY <2>1
<1>2. PICK in2 : in2 = Tail(in)
  OBVIOUS
<1>3. Len(in2) = n /\ \A i \in 1 .. n : in2[i] = in[i + 1]
  BY <1>1, <1>2, HeadTailProperties
<1>4. PICK g : g = [i \in 1 .. n + 1 |-> h[i + 1]]
  OBVIOUS
<1>5. /\ h \in [1 .. n + 2 -> Records] /\ h[n + 2] = c
      /\ \A i \in 1 .. n + 1 : Follows(s, h[i], in[i], h[i + 1])
      /\ \A i \in 1 .. n + 2 : h[i].ended => c.ended /\ c.body = h[i].body
  BY <1>1 DEF History
<1>6. g \in [1 .. n + 1 -> Records] /\ g[n + 1] = c /\ \A i \in 1 .. n + 1 : g[i] = h[i + 1]
  BY <1>4, <1>5
<1>7. ASSUME NEW i \in 1 .. n
      PROVE  Follows(s, g[i], in2[i], g[i + 1])
  <2>1. i + 1 \in 1 .. n + 1 /\ i \in 1 .. n + 1
    OBVIOUS
  <2>2. QED
    BY <1>3, <1>5, <1>6, <2>1
<1>8. ASSUME NEW i \in 1 .. n + 1
      PROVE  g[i].ended => c.ended /\ c.body = g[i].body
  BY <1>5, <1>6
<1>9. History(s, in2, c, g)
  BY <1>3, <1>6, <1>7, <1>8 DEF History
<1>10. Follows(s, h[1], in[1], g[1]) /\ h[1] \in Records /\ g[1] \in Records
  BY <1>5, <1>6
<1>11. QED
  BY <1>2, <1>9, <1>10

-------------------------------------------------------------------------------
(* One more frame carries the next part of the reply.                      *)
CutTo(frames, reply, to) ==
  \E cut \in [0 .. Len(frames) -> 0 .. Len(reply)] :
    CutsUp(frames, reply, cut) /\ cut[Len(frames)] = to

(* One more frame of the reply.                                            *)
LEMMA CutsUpAppend ==
  ASSUME NEW frames \in Seq(FramesOut), NEW f \in FramesOut, NEW reply, Len(reply) \in Nat,
         NEW cut \in [0 .. Len(frames) -> 0 .. Len(reply)], CutsUp(frames, reply, cut),
         NEW to \in cut[Len(frames)] .. Len(reply),
         f.data = SubSeq(reply, cut[Len(frames)] + 1, to),
         Ends(f) => to = Len(reply)
  PROVE  CutTo(Append(frames, f), reply, to)
<1>1. PICK n \in Nat, m \in Nat : n = Len(frames) /\ m = Len(reply)
  BY LenProperties
<1>2. PICK fs : fs = Append(frames, f)
  OBVIOUS
<1>3. /\ fs \in Seq(FramesOut) /\ Len(fs) = n + 1 /\ fs[n + 1] = f
      /\ \A i \in 1 .. n : fs[i] = frames[i]
  BY <1>1, <1>2, AppendProperties
<1>4. DOMAIN frames = 1 .. n /\ DOMAIN fs = 1 .. n + 1
  BY <1>1, <1>3, LenProperties
<1>5. PICK cut2 : cut2 = [i \in 0 .. n + 1 |-> IF i <= n THEN cut[i] ELSE to]
  OBVIOUS
<1>6. /\ cut \in [0 .. n -> 0 .. m] /\ cut[0] = 0 /\ to \in cut[n] .. m /\ cut[n] \in 0 .. m
      /\ \A i \in 1 .. n :
           /\ cut[i - 1] <= cut[i]
           /\ frames[i].data = SubSeq(reply, cut[i - 1] + 1, cut[i])
           /\ Ends(frames[i]) => cut[i] = m
  <2>1. cut \in [0 .. n -> 0 .. m] /\ to \in cut[n] .. m
    BY <1>1
  <2>2. cut[0] = 0
    BY DEF CutsUp
  <2>3. ASSUME NEW i \in 1 .. n
        PROVE  /\ cut[i - 1] <= cut[i]
               /\ frames[i].data = SubSeq(reply, cut[i - 1] + 1, cut[i])
               /\ Ends(frames[i]) => cut[i] = m
    <3>1. i \in DOMAIN frames
      BY <1>4
    <3>2. QED
      BY <1>1, <3>1, Zenon DEF CutsUp
  <2>4. cut[n] \in 0 .. m
    BY <2>1
  <2>5. QED
    BY <2>1, <2>2, <2>3, <2>4, Zenon
<1>7. /\ cut2 \in [0 .. n + 1 -> 0 .. m] /\ cut2[n + 1] = to
      /\ \A i \in 0 .. n : cut2[i] = cut[i]
  BY <1>5, <1>6
<1>8. ASSUME NEW i \in 1 .. n + 1
      PROVE  /\ cut2[i - 1] <= cut2[i]
             /\ fs[i].data = SubSeq(reply, cut2[i - 1] + 1, cut2[i])
             /\ Ends(fs[i]) => cut2[i] = m
  <2>1. CASE i = n + 1
    <3>1. i - 1 = n /\ n \in 0 .. n
      BY <2>1
    <3>2. cut2[i - 1] = cut[n] /\ cut2[i] = to /\ fs[i] = f
      BY <1>3, <1>7, <2>1, <3>1
    <3>3. f.data = SubSeq(reply, cut[n] + 1, to) /\ (Ends(f) => to = m)
      BY <1>1
    <3>4. QED
      BY <1>6, <3>2, <3>3
  <2>2. CASE i # n + 1
    <3>1. i \in 1 .. n /\ i - 1 \in 0 .. n /\ i \in 0 .. n
      BY <2>2
    <3>2. cut2[i - 1] = cut[i - 1] /\ cut2[i] = cut[i] /\ fs[i] = frames[i]
      BY <1>3, <1>7, <3>1
    <3>3. QED
      BY <1>6, <3>1, <3>2
  <2>3. QED
    BY <2>1, <2>2
<1>9. CutsUp(fs, reply, cut2)
  <2>1. cut2[0] = 0
    BY <1>6, <1>7
  <2>2. QED
    BY <1>1, <1>4, <1>8, <2>1, Zenon DEF CutsUp
<1>10. QED
  BY <1>1, <1>2, <1>3, <1>7, <1>9 DEF CutTo

(* A reply has at least one byte.                                          *)
LEMMA ReplyLength ==
  ASSUME NEW s \in StreamIds, NEW n \in Nat
  PROVE  /\ ReplyTo(s, n) \in Seq(Bytes)
         /\ Len(ReplyTo(s, n)) = IF n = 0 THEN 1 ELSE n
         /\ Part(s, 0, n) \in Seq(Bytes) /\ Len(Part(s, 0, n)) = n
         /\ ReplyTo(s, n) = IF Part(s, 0, n) = <<>> THEN <<OK>> ELSE Part(s, 0, n)
<1>1. Part(s, 0, n) \in [1 .. n -> Bytes]
  BY DEF Part, Bytes
<1>2. Part(s, 0, n) \in Seq(Bytes) /\ Len(Part(s, 0, n)) = n
  BY <1>1, SeqDef, LenProperties
<1>3. n # 0 => ReplyTo(s, n) = Part(s, 0, n)
  BY DEF ReplyTo, Part
<1>4. n = 0 => ReplyTo(s, n) = <<OK>> /\ Part(s, 0, n) = <<>>
  BY <1>2, EmptySeq DEF ReplyTo
<1>5. <<OK>> \in Seq(Bytes) /\ Len(<<OK>>) = 1
  BY DEF Bytes
<1>6. n # 0 => Part(s, 0, n) # <<>>
  BY <1>2, EmptySeq
<1>7. QED
  BY <1>2, <1>3, <1>4, <1>5, <1>6

(* A DATA frame continues the body.                                        *)
LEMMA PartConcat ==
  ASSUME NEW s \in StreamIds, NEW a \in Nat, NEW n \in Nat
  PROVE  Part(s, 0, a) \o Part(s, a, n) = Part(s, 0, a + n)
<1>1. /\ Part(s, 0, a) \in [1 .. a -> Bytes] /\ Part(s, a, n) \in [1 .. n -> Bytes]
      /\ Part(s, 0, a + n) \in [1 .. a + n -> Bytes]
  BY DEF Part, Bytes
<1>2. /\ Part(s, 0, a) \in Seq(Bytes) /\ Len(Part(s, 0, a)) = a
      /\ Part(s, a, n) \in Seq(Bytes) /\ Len(Part(s, a, n)) = n
      /\ Part(s, 0, a + n) \in Seq(Bytes) /\ Len(Part(s, 0, a + n)) = a + n
  BY <1>1, SeqDef, LenProperties
<1>3. PICK w : w = Part(s, 0, a) \o Part(s, a, n)
  OBVIOUS
<1>4. w \in Seq(Bytes) /\ Len(w) = a + n
  BY <1>2, <1>3, ConcatProperties
<1>5. ASSUME NEW i \in 1 .. a + n
      PROVE  w[i] = Part(s, 0, a + n)[i]
  <2>1. w[i] = IF i <= a THEN Part(s, 0, a)[i] ELSE Part(s, a, n)[i - a]
    BY <1>2, <1>3, ConcatProperties
  <2>2. i <= a => Part(s, 0, a)[i] = <<s, i>>
    BY DEF Part
  <2>3. ~(i <= a) => Part(s, a, n)[i - a] = <<s, i>>
    BY DEF Part
  <2>4. Part(s, 0, a + n)[i] = <<s, i>>
    BY DEF Part
  <2>5. QED
    BY <2>1, <2>2, <2>3, <2>4
<1>6. QED
  BY <1>2, <1>3, <1>4, <1>5, SeqEqual

-------------------------------------------------------------------------------
(* The step does nothing to stream s.                                      *)
Untouched(s) ==
  /\ s \in DOMAIN streams' <=> s \in DOMAIN streams
  /\ s \in DOMAIN streams =>
       streams'[s].body = streams[s].body /\ streams'[s].state = streams[s].state
  /\ out'[s] = out[s]
  /\ replying # s /\ replying' # s
  /\ fails' = 0 => fails = 0

(* A stream the step does not touch.                                       *)
LEMMA Bystander ==
  ASSUME NEW s, NEW r, Handled(s, r), Untouched(s)
  PROVE  Handled(s, r)'
<1>1. Stored(s, r)'
  BY DEF Handled, Stored, Untouched
<1>2. Replied(s, r)'
  BY DEF Handled, Replied, Untouched
<1>3. Shaped(s, r)'
  BY DEF Handled, Shaped, Untouched
<1>4. QED
  BY <1>1, <1>2, <1>3 DEF Handled

(* Reading a frame takes each stream one record further.                   *)
Advances ==
  \A s \in StreamIds : \A r, q \in Records :
    Handled(s, r) /\ Follows(s, r, Head(plaintext), q) => Handled(s, q)'

(* Handling a frame takes the first record from every history.             *)
LEMMA LiveReads ==
  ASSUME Http2Types, Http2Live, NEW type, Reads(type), Advances
  PROVE  Http2Live'
<1>1. /\ plaintext \in Seq(Frames) /\ wire \in Seq(Frames) /\ plaintext # <<>>
      /\ wire' = wire /\ client' = client /\ plaintext' = Tail(plaintext)
      /\ client \in [StreamIds -> Records]
  BY DEF Http2Types, Reads, clientVars
<1>2. /\ Input' = Tail(Input) /\ Input \in Seq(Frames) /\ Input # <<>>
      /\ Input[1] = Head(plaintext)
  BY <1>1, InputTail DEF Input
<1>3. SUFFICES ASSUME NEW s \in StreamIds
               PROVE  \E g : History(s, Input', client'[s], g) /\ Handled(s, g[1])'
  BY DEF Http2Live
<1>4. PICK h : History(s, Input, client[s], h) /\ Handled(s, h[1])
  BY DEF Http2Live
<1>5. PICK g : /\ History(s, Tail(Input), client[s], g)
               /\ h[1] \in Records /\ g[1] \in Records /\ Follows(s, h[1], Input[1], g[1])
  <2>1. client[s] \in Records
    BY <1>1
  <2>2. QED
    BY <1>2, <1>4, <2>1, HistoryTail
<1>6. Handled(s, g[1])'
  BY <1>2, <1>4, <1>5 DEF Advances
<1>7. QED
  BY <1>1, <1>2, <1>5, <1>6

(* A step that reads nothing leaves each stream with its record.           *)
Keeps == \A s \in StreamIds : \A r \in Records : Handled(s, r) => Handled(s, r)'

(* A step that reads nothing keeps every history.                          *)
LEMMA LiveKeeps ==
  ASSUME Http2Live, Input' = Input, Input \in Seq(Frames), UNCHANGED client, Keeps
  PROVE  Http2Live'
<1>1. SUFFICES ASSUME NEW s \in StreamIds
               PROVE  \E g : History(s, Input', client'[s], g) /\ Handled(s, g[1])'
  BY DEF Http2Live
<1>2. PICK h : History(s, Input, client[s], h) /\ Handled(s, h[1])
  BY DEF Http2Live
<1>3. h[1] \in Records
  BY <1>2, LenProperties DEF History
<1>4. Handled(s, h[1])'
  BY <1>2, <1>3 DEF Keeps
<1>5. QED
  BY <1>2, <1>4

(* Sending a frame adds a record to every history.                         *)
LEMMA LiveTransmits ==
  ASSUME Http2Types, Http2Live, NEW f \in Frames, Transmit(f),
         client' \in [StreamIds -> Records],
         \A s \in StreamIds : Follows(s, client[s], f, client'[s])
  PROVE  Http2Live'
<1>1. /\ plaintext' = plaintext /\ wire' = Append(wire, f)
      /\ plaintext \in Seq(Frames) /\ wire \in Seq(Frames) /\ client \in [StreamIds -> Records]
  BY DEF Transmit, Http2Types
<1>2. Input' = Append(Input, f) /\ Input \in Seq(Frames)
  BY <1>1, InputAppend DEF Input
<1>3. SUFFICES ASSUME NEW s \in StreamIds
               PROVE  \E g : History(s, Input', client'[s], g) /\ Handled(s, g[1])'
  BY DEF Http2Live
<1>4. PICK h : History(s, Input, client[s], h) /\ Handled(s, h[1])
  BY DEF Http2Live
<1>5. PICK g : History(s, Append(Input, f), client'[s], g) /\ g[1] = h[1]
  <2>1. client[s] \in Records /\ client'[s] \in Records /\ Follows(s, client[s], f, client'[s])
    BY <1>1
  <2>2. QED
    BY <1>2, <1>4, <2>1, HistoryAppend
<1>6. UNCHANGED <<streams, out, replying, offset, pc, fails>>
  BY DEF Transmit, replyVars
<1>7. Handled(s, g[1])'
  <2>1. PICK r : r = h[1] /\ Handled(s, r)
    BY <1>4
  <2>2. Stored(s, r)' /\ Replied(s, r)' /\ Shaped(s, r)'
    BY <1>6, <2>1 DEF Handled, Stored, Replied, Shaped
  <2>3. QED
    BY <1>5, <2>1, <2>2 DEF Handled
<1>8. QED
  BY <1>2, <1>5, <1>7

-------------------------------------------------------------------------------
(* The client.                                                             *)
LEMMA Transmits ==
  ASSUME Http2Types, Http2Live, NEW f \in Frames, Transmit(f),
         client' \in [StreamIds -> Records],
         \A s \in StreamIds : Follows(s, client[s], f, client'[s])
  PROVE  Http2Types' /\ Http2Live'
<1>1. Http2Live'
  BY LiveTransmits
<1>2. Http2Types'
  <2>1. wire' \in Seq(Frames)
    BY AppendProperties DEF Http2Types, Transmit
  <2>2. QED
    BY <2>1 DEF Http2Types, Transmit, settingsVars, replyVars
<1>3. QED
  BY <1>1, <1>2

(* What a client step does to the record of its stream.                    *)
Updates(s, d, f) ==
  /\ d \in Records /\ Follows(s, client[s], f, d)
  /\ f \in Frames /\ f.stream = s
  /\ client' = [client EXCEPT ![s] = d]

(* A frame of one stream leaves the records of the others.                 *)
LEMMA ClientUpdates ==
  ASSUME Http2Types, Http2Live, NEW s \in StreamIds, NEW d, NEW f, Updates(s, d, f), Transmit(f)
  PROVE  Http2Types' /\ Http2Live'
<1>1. client \in [StreamIds -> Records] /\ f \in Frames /\ f.stream = s
  BY DEF Http2Types, Updates
<1>2. client' \in [StreamIds -> Records]
  BY <1>1 DEF Updates
<1>3. ASSUME NEW t \in StreamIds
      PROVE  Follows(t, client[t], f, client'[t])
  <2>1. CASE t = s
    BY <1>1, <2>1 DEF Updates
  <2>2. CASE t # s
    <3>1. client'[t] = client[t]
      BY <1>1, <2>2 DEF Updates
    <3>2. QED
      BY <1>1, <2>2, <3>1 DEF Follows
  <2>3. QED
    BY <2>1, <2>2
<1>4. QED
  BY <1>1, <1>2, <1>3, Transmits

(* The client opens a stream.                                              *)
LEMMA ClientHeadersKeeps ==
  ASSUME Http2Assumption, Http2Types, Http2Live, NEW s \in StreamIds,
         NEW flags \in SUBSET {"END_HEADERS", "END_STREAM"}, NEW ok \in BOOLEAN,
         ClientHeaders(s, flags, ok)
  PROVE  Http2Types' /\ Http2Live'
<1>1. PICK f : f = Frame("HEADERS", s, flags, <<>>, IF ok THEN 1 ELSE 0)
  OBVIOUS
<1>2. f \in Frames /\ f.stream = s /\ f.type = "HEADERS" /\ f.flags = flags /\ (f.val # 0 <=> ok)
  BY <1>1, EmptySeq DEF Frame, Frames, RequestFrames
<1>3. PICK d : d = [client[s] EXCEPT
                      !.phase = IF "END_HEADERS" \notin flags THEN "head"
                                ELSE IF "END_STREAM" \in flags THEN "done" ELSE "body",
                      !.ended = "END_STREAM" \in flags, !.good = ok]
  OBVIOUS
<1>4. client[s] \in Records /\ client[s].phase = "idle" /\ (flags = {"END_STREAM"} => SplitHeads)
  BY DEF Http2Types, ClientHeaders
<1>5. d \in Records
  <2>1. PICK e \in BOOLEAN : e <=> "END_STREAM" \in flags
    BY Zenon
  <2>2. /\ d.phase \in {"head", "done", "body"} /\ d.ended = e /\ d.body = client[s].body /\ d.good = ok
        /\ d = [phase |-> d.phase, ended |-> e, body |-> client[s].body, good |-> ok]
    BY <1>3, <1>4, <2>1 DEF Records
  <2>3. client[s].body = 0 /\ 0 \in 0 .. MaxBody
    BY <1>4, Http2Assumption DEF Records, Http2Assumption
  <2>4. (d.phase = "head" /\ e => SplitHeads) /\ (d.phase = "body" => ~e) /\ (d.phase = "done" => e)
    BY <1>3, <1>4, <2>1, <2>2 DEF Records
  <2>5. QED
    BY <2>2, <2>3, <2>4 DEF Records
<1>6. Follows(s, client[s], f, d)
  BY <1>2, <1>3, <1>4 DEF Follows, Records
<1>7. Updates(s, d, f) /\ Transmit(f)
  BY <1>1, <1>2, <1>3, <1>5, <1>6 DEF Updates, ClientHeaders
<1>8. QED
  BY <1>7, ClientUpdates

(* The client ends a block of headers.                                     *)
LEMMA ClientContinuationKeeps ==
  ASSUME Http2Assumption, Http2Types, Http2Live, NEW s \in StreamIds, NEW ok \in BOOLEAN,
         ClientContinuation(s, ok)
  PROVE  Http2Types' /\ Http2Live'
<1>1. PICK f : f = Frame("CONTINUATION", s, {"END_HEADERS"}, <<>>, IF ok THEN 1 ELSE 0)
  OBVIOUS
<1>2. f \in Frames /\ f.stream = s /\ f.type = "CONTINUATION" /\ (f.val # 0 <=> ok)
  BY <1>1, EmptySeq DEF Frame, Frames, RequestFrames
<1>3. PICK d : d = [client[s] EXCEPT !.phase = IF client[s].ended THEN "done" ELSE "body",
                                     !.good = client[s].good /\ ok]
  OBVIOUS
<1>4. client[s] \in Records /\ client[s].phase = "head"
  BY DEF Http2Types, ClientContinuation
<1>5. d \in Records
  BY <1>3, <1>4 DEF Records
<1>6. Follows(s, client[s], f, d)
  BY <1>2, <1>3, <1>4 DEF Follows, Records
<1>7. Updates(s, d, f) /\ Transmit(f)
  BY <1>1, <1>2, <1>3, <1>5, <1>6 DEF Updates, ClientContinuation
<1>8. QED
  BY <1>7, ClientUpdates

(* The client sends a piece of a body.                                     *)
LEMMA ClientDataKeeps ==
  ASSUME Http2Assumption, Http2Types, Http2Live, NEW s \in StreamIds, NEW n \in 0 .. MaxBody,
         NEW flags \in SUBSET {"END_STREAM"}, ClientData(s, n, flags)
  PROVE  Http2Types' /\ Http2Live'
<1>1. PICK f : f = Frame("DATA", s, flags, [j \in 1 .. n |-> <<s, client[s].body + j>>], 0)
  OBVIOUS
<1>2. client[s] \in Records /\ client[s].phase = "body" /\ client[s].body + n <= MaxBody
  BY DEF Http2Types, ClientData
<1>3. client[s].body \in Nat /\ n \in Nat
  BY <1>2, Http2Assumption DEF Records, Http2Assumption
<1>4. /\ f.stream = s /\ f.type = "DATA" /\ f.flags = flags /\ f.data = Part(s, client[s].body, n)
      /\ f \in Frames
  <2>1. Part(s, client[s].body, n) \in [1 .. n -> Bytes]
    BY <1>3 DEF Part, Bytes
  <2>2. Part(s, client[s].body, n) \in Seq(Bytes)
    BY <1>3, <2>1, SeqDef
  <2>3. f = [type |-> "DATA", stream |-> s, flags |-> flags, data |-> Part(s, client[s].body, n), val |-> 0]
    BY <1>1 DEF Frame, Part
  <2>4. QED
    BY <2>2, <2>3 DEF Frames, RequestFrames
<1>5. PICK d : d = [client[s] EXCEPT !.phase = IF "END_STREAM" \in flags THEN "done" ELSE "body",
                                     !.ended = "END_STREAM" \in flags, !.body = client[s].body + n]
  OBVIOUS
<1>6. d \in Records
  <2>1. PICK e \in BOOLEAN : e <=> "END_STREAM" \in flags
    BY Zenon
  <2>2. PICK b \in 0 .. MaxBody : b = client[s].body + n
    BY <1>2, <1>3, Http2Assumption DEF Http2Assumption
  <2>3. /\ d = [phase |-> IF e THEN "done" ELSE "body", ended |-> e, body |-> b, good |-> client[s].good]
        /\ client[s].good \in BOOLEAN
    BY <1>2, <1>5, <2>1, <2>2 DEF Records
  <2>4. QED
    BY <2>3 DEF Records
<1>7. Follows(s, client[s], f, d)
  <2>1. /\ d.phase = IF "END_STREAM" \in f.flags THEN "done" ELSE "body"
        /\ d.ended = ("END_STREAM" \in f.flags) /\ d.good = client[s].good
        /\ d.body = client[s].body + n
    BY <1>2, <1>4, <1>5 DEF Records
  <2>2. \E m \in Nat : f.data = Part(s, client[s].body, m) /\ d.body = client[s].body + m
    BY <1>3, <1>4, <2>1
  <2>3. QED
    BY <1>2, <1>4, <2>1, <2>2, Zenon DEF Follows
<1>8. Updates(s, d, f) /\ Transmit(f)
  BY <1>1, <1>4, <1>5, <1>6, <1>7 DEF Updates, ClientData
<1>9. QED
  BY <1>8, ClientUpdates

(* The client resets a stream.                                             *)
LEMMA ClientResetKeeps ==
  ASSUME Http2Assumption, Http2Types, Http2Live, NEW s \in StreamIds, ClientReset(s)
  PROVE  Http2Types' /\ Http2Live'
<1>1. PICK f : f = Frame("RST_STREAM", s, {}, <<>>, 0)
  OBVIOUS
<1>2. f \in Frames /\ f.stream = s /\ f.type = "RST_STREAM"
  BY <1>1, EmptySeq DEF Frame, Frames, RequestFrames
<1>3. PICK d : d = [client[s] EXCEPT !.phase = "reset"]
  OBVIOUS
<1>4. client[s] \in Records /\ client[s].phase \in {"body", "done"}
  BY DEF Http2Types, ClientReset
<1>5. d \in Records
  BY <1>3, <1>4 DEF Records
<1>6. Follows(s, client[s], f, d)
  BY <1>2, <1>3, <1>4 DEF Follows, Records
<1>7. Updates(s, d, f) /\ Transmit(f)
  BY <1>1, <1>2, <1>3, <1>5, <1>6 DEF Updates, ClientReset
<1>8. QED
  BY <1>7, ClientUpdates

(* DATA on a stream never opened.                                          *)
LEMMA ClientStrayKeeps ==
  ASSUME Http2Assumption, Http2Types, Http2Live, NEW s \in StreamIds, ClientStray(s)
  PROVE  Http2Types' /\ Http2Live'
<1>1. PICK f : f = Frame("DATA", s, {"END_STREAM"}, <<>>, 0)
  OBVIOUS
<1>2. f \in Frames /\ f.stream = s /\ f.type = "DATA"
  BY <1>1, EmptySeq DEF Frame, Frames, RequestFrames
<1>3. client[s] \in Records /\ client[s].phase = "idle" /\ client' = client
  BY DEF Http2Types, ClientStray
<1>4. Follows(s, client[s], f, client[s])
  BY <1>2, <1>3 DEF Follows
<1>5. client' = [client EXCEPT ![s] = client[s]]
  BY <1>3 DEF Http2Types
<1>6. Updates(s, client[s], f) /\ Transmit(f)
  BY <1>1, <1>2, <1>3, <1>4, <1>5 DEF Updates, ClientStray
<1>7. QED
  BY <1>6, ClientUpdates

(* Frames of the connection.                                               *)
LEMMA ClientOtherKeeps ==
  ASSUME Http2Assumption, Http2Types, Http2Live, NEW f \in OtherFrames, ClientOther(f)
  PROVE  Http2Types' /\ Http2Live'
<1>1. f \in Frames /\ f.type \notin RequestFrames
  <2>1. <<>> \in Seq(Bytes) /\ \A n \in Increments : n \in Nat
    BY EmptySeq, Http2Assumption DEF Http2Assumption
  <2>2. PICK t \in {"PING", "GOAWAY", "SETTINGS", "WINDOW_UPDATE"}, s \in StreamIds \cup {0}, n \in Nat :
          f = Frame(t, s, {}, <<>>, n)
    <3>1. 0 \in Nat /\ \A n \in 0 .. 1 : n \in Nat
      OBVIOUS
    <3>2. CASE f \in {Frame(t, 0, {}, <<>>, 0) : t \in {"PING", "GOAWAY"}}
      BY <3>1, <3>2, Zenon
    <3>3. CASE f \in {Frame("SETTINGS", 0, {}, <<>>, n) : n \in 0 .. 1}
      BY <3>1, <3>3, Zenon
    <3>4. CASE f \in {Frame("WINDOW_UPDATE", s, {}, <<>>, n) : s \in StreamIds \cup {0}, n \in Increments}
      <4>1. PICK s \in StreamIds \cup {0}, n \in Increments : f = Frame("WINDOW_UPDATE", s, {}, <<>>, n)
        BY <3>4, SMT
      <4>2. QED
        BY <2>1, <4>1, Zenon
    <3>5. QED
      BY <3>2, <3>3, <3>4 DEF OtherFrames
  <2>3. QED
    BY <2>1, <2>2 DEF Frame, Frames, RequestFrames
<1>2. client' = client /\ client \in [StreamIds -> Records] /\ Transmit(f)
  BY DEF ClientOther, Http2Types
<1>3. ASSUME NEW s \in StreamIds
      PROVE  Follows(s, client[s], f, client'[s])
  BY <1>1, <1>2 DEF Follows
<1>4. QED
  BY <1>1, <1>2, <1>3, Transmits

-------------------------------------------------------------------------------
(* on_read() and the frames that are no part of a request.                 *)
LEMMA Bystanders ==
  ASSUME \A s \in StreamIds : Untouched(s)
  PROVE  Keeps
<1>1. SUFFICES ASSUME NEW s \in StreamIds, NEW r \in Records, Handled(s, r)
               PROVE  Handled(s, r)'
  BY DEF Keeps
<1>2. Untouched(s)
  OBVIOUS
<1>3. QED
  BY <1>1, <1>2, Bystander

(* The input consists of frames.                                           *)
LEMMA InputType ==
  ASSUME Http2Types
  PROVE  Input \in Seq(Frames)
BY ConcatProperties DEF Http2Types, Input

(* The handshake touches no stream.                                        *)
LEMMA HandshakeKeeps ==
  ASSUME Http2Assumption, Http2Types, Http2Live, Handshake
  PROVE  Http2Types' /\ Http2Live'
<1>1. \A s \in StreamIds : Untouched(s)
  BY Http2Assumption DEF Http2Assumption, Handshake, Http2Types, Untouched, replyVars
<1>2. Input' = Input /\ client' = client
  BY DEF Input, Handshake, clientVars
<1>3. Http2Live'
  BY <1>1, <1>2, Bystanders, InputType, LiveKeeps
<1>4. Http2Types'
  BY DEF Http2Types, Handshake, clientVars, settingsVars, replyVars
<1>5. QED
  BY <1>3, <1>4

(* on_read() moves frames to the buffer.                                   *)
LEMMA OnReadKeeps ==
  ASSUME Http2Assumption, Http2Types, Http2Live, OnRead
  PROVE  Http2Types' /\ Http2Live'
<1>1. \A s \in StreamIds : Untouched(s)
  BY Http2Assumption DEF Http2Assumption, OnRead, Http2Types, Untouched, replyVars
<1>2. plaintext \o wire \in Seq(Frames) /\ <<>> \in Seq(Frames)
  BY ConcatProperties, EmptySeq DEF Http2Types
<1>3. Input' = Input /\ client' = client
  <2>1. (plaintext \o wire) \o <<>> = plaintext \o wire
    BY <1>2, ConcatEmptySeq
  <2>2. QED
    BY <2>1 DEF Input, OnRead, clientVars
<1>4. Http2Live'
  BY <1>1, <1>3, Bystanders, InputType, LiveKeeps
<1>5. Http2Types'
  BY <1>2 DEF Http2Types, OnRead, clientVars, settingsVars, replyVars
<1>6. QED
  BY <1>4, <1>5

(* No frame left.                                                          *)
LEMMA NeedMoreKeeps ==
  ASSUME Http2Assumption, Http2Types, Http2Live, NeedMore
  PROVE  Http2Types' /\ Http2Live'
<1>1. \A s \in StreamIds : Untouched(s)
  BY Http2Assumption DEF Http2Assumption, NeedMore, Http2Types, Untouched, replyVars
<1>2. Input' = Input /\ client' = client
  BY DEF Input, NeedMore, clientVars
<1>3. Http2Live'
  BY <1>1, <1>2, Bystanders, InputType, LiveKeeps
<1>4. Http2Types'
  BY DEF Http2Types, NeedMore, clientVars, settingsVars, replyVars
<1>5. QED
  BY <1>3, <1>4

(* What it means to read a frame.                                          *)
LEMMA ReadsFrame ==
  ASSUME Http2Types, NEW type, Reads(type)
  PROVE  /\ Head(plaintext) \in Frames /\ Head(plaintext).type = type
         /\ plaintext' \in Seq(Frames) /\ wire' = wire /\ client' = client /\ tls' = tls
         /\ pc = "loop" /\ replying = 0 /\ offset = 0 /\ tls # "closed"
<1>1. plaintext \in Seq(Frames) /\ plaintext # <<>>
  BY DEF Http2Types, Reads
<1>2. Head(plaintext) \in Frames /\ Tail(plaintext) \in Seq(Frames)
  BY <1>1, HeadTailProperties
<1>3. QED
  BY <1>2 DEF Http2Types, Reads, clientVars

(* A frame that is no part of a request.                                   *)
LEMMA AdvancesOthers ==
  ASSUME Head(plaintext).type \notin RequestFrames, Keeps
  PROVE  Advances
<1>1. SUFFICES ASSUME NEW s \in StreamIds, NEW r \in Records, NEW q \in Records,
                      Handled(s, r), Follows(s, r, Head(plaintext), q)
               PROVE  Handled(s, q)'
  BY DEF Advances
<1>2. q = r
  BY <1>1 DEF Follows, RequestFrames
<1>3. QED
  BY <1>1, <1>2 DEF Keeps

(* The frames the server writes.                                           *)
FramesSent ==
  [type : {"HEADERS", "DATA", "SETTINGS", "PING"}, stream : StreamIds \cup {0},
   flags : SUBSET {"ACK", "END_HEADERS", "END_STREAM"}, data : Seq(Bytes), val : Nat]

(* The entry of out that a write leaves.                                   *)
OnStream(f, payload, whole) ==
  [type |-> f.type, flags |-> f.flags, data |-> payload, whole |-> whole]

(* What a write leaves on its stream, and on the others.                   *)
LEMMA Writing ==
  ASSUME Http2Assumption, Http2Types, NEW f \in FramesSent, Written(f) \/ WriteFails(f)
  PROVE  /\ out' \in [StreamIds \cup {0} -> Seq(FramesOut)]
         /\ \A t \in StreamIds : t # f.stream => out'[t] = out[t]
         /\ fails' \in 0 .. MaxFails /\ (fails' = 0 => fails = 0 /\ Written(f))
         /\ OnStream(f, f.data, TRUE) \in FramesOut /\ OnStream(f, <<>>, FALSE) \in FramesOut
         /\ Written(f) => out'[f.stream] = Append(out[f.stream], OnStream(f, f.data, TRUE))
         /\ WriteFails(f) => \/ out'[f.stream] = out[f.stream]
                             \/ /\ f.data # <<>>
                                /\ out'[f.stream] = Append(out[f.stream], OnStream(f, <<>>, FALSE))
<1>1. out \in [StreamIds \cup {0} -> Seq(FramesOut)] /\ fails \in 0 .. MaxFails
  BY DEF Http2Types
<1>2. f.stream \in StreamIds \cup {0}
  BY DEF FramesSent
<1>3. OnStream(f, f.data, TRUE) \in FramesOut /\ OnStream(f, <<>>, FALSE) \in FramesOut
  BY EmptySeq DEF FramesSent, FramesOut, OnStream
<1>4. ASSUME NEW g \in FramesOut, out' = [out EXCEPT ![f.stream] = Append(@, g)]
      PROVE  /\ out' \in [StreamIds \cup {0} -> Seq(FramesOut)]
             /\ \A t \in StreamIds : t # f.stream => out'[t] = out[t]
             /\ out'[f.stream] = Append(out[f.stream], g)
  <2>1. Append(out[f.stream], g) \in Seq(FramesOut)
    BY <1>1, <1>2, AppendProperties
  <2>2. QED
    BY <1>1, <1>2, <1>4, <2>1
<1>5. CASE Written(f)
  <2>1. out' = [out EXCEPT ![f.stream] = Append(@, OnStream(f, f.data, TRUE))] /\ fails' = fails
    BY <1>5 DEF Written, WriteFrame, OnStream
  <2>2. ~WriteFails(f)
    <3>1. fails' # fails + 1
      BY <1>1, <2>1
    <3>2. QED
      BY <3>1, Zenon DEF WriteFails
  <2>3. QED
    BY <1>1, <1>3, <1>4, <1>5, <2>1, <2>2
<1>6. CASE WriteFails(f)
  <2>1. fails' = fails + 1 /\ fails' \in 0 .. MaxFails /\ fails' # 0 /\ fails' # fails
    BY <1>1, <1>6, Http2Assumption DEF Http2Assumption, WriteFails
  <2>2. ~Written(f)
    BY <2>1 DEF Written
  <2>3. CASE out' = out
    BY <1>1, <1>3, <2>1, <2>2, <2>3
  <2>4. CASE f.data # <<>> /\ WriteFrame(f, <<>>, FALSE)
    <3>1. out' = [out EXCEPT ![f.stream] = Append(@, OnStream(f, <<>>, FALSE))]
      BY <2>4 DEF WriteFrame, OnStream
    <3>2. QED
      BY <1>3, <1>4, <2>1, <2>2, <2>4, <3>1
  <2>5. QED
    BY <1>6, <2>3, <2>4 DEF WriteFails
<1>7. QED
  BY <1>5, <1>6

(* SETTINGS, and the acknowledgement written or not.                       *)
LEMMA HandleSettingsKeeps ==
  ASSUME Http2Assumption, Http2Types, Http2Live, HandleSettings
  PROVE  Http2Types' /\ Http2Live'
<1>1. Reads("SETTINGS") /\ streams' = streams
  BY DEF HandleSettings
<1>2. /\ Head(plaintext).type = "SETTINGS" /\ pc = "loop" /\ replying = 0 /\ offset = 0
      /\ plaintext' \in Seq(Frames) /\ wire' = wire /\ client' = client /\ tls' = tls
      /\ tls # "closed"
  BY <1>1, ReadsFrame
<1>3. PICK ack : ack = Frame("SETTINGS", 0, {"ACK"}, <<>>, 0)
  OBVIOUS
<1>4. ack \in FramesSent /\ ack.stream = 0
  BY <1>3, EmptySeq DEF Frame, FramesSent
<1>5. replying' = 0 /\ offset' = 0 /\ pc' \in {"loop", "idle"}
  BY <1>2 DEF HandleSettings, Done, Fail, replyVars
<1>6. settings_ack_sent' \in BOOLEAN /\ settings_ack_received' \in BOOLEAN
  BY DEF HandleSettings, Http2Types, settingsVars
<1>7. (out' = out /\ fails' = fails) \/ (Written(ack) \/ WriteFails(ack))
  BY <1>3 DEF HandleSettings
<1>8. /\ out' \in [StreamIds \cup {0} -> Seq(FramesOut)] /\ fails' \in 0 .. MaxFails
      /\ \A s \in StreamIds : out'[s] = out[s]
      /\ fails' = 0 => fails = 0
  <2>1. CASE out' = out /\ fails' = fails
    BY <2>1 DEF Http2Types
  <2>2. CASE Written(ack) \/ WriteFails(ack)
    BY <1>4, <2>2, Writing, Http2Assumption DEF Http2Assumption
  <2>3. QED
    BY <1>7, <2>1, <2>2
<1>9. \A s \in StreamIds : Untouched(s)
  BY <1>1, <1>2, <1>5, <1>8, Http2Assumption DEF Http2Assumption, Untouched
<1>10. Http2Live'
  <2>1. Advances
    BY <1>2, <1>9, Bystanders, AdvancesOthers DEF RequestFrames
  <2>2. QED
    BY <1>1, <2>1, LiveReads
<1>11. Http2Types'
  BY <1>1, <1>2, <1>5, <1>6, <1>8 DEF Http2Types
<1>12. QED
  BY <1>10, <1>11

(* PING, and the acknowledgement written or not.                           *)
LEMMA HandlePingKeeps ==
  ASSUME Http2Assumption, Http2Types, Http2Live, HandlePing
  PROVE  Http2Types' /\ Http2Live'
<1>1. Reads("PING") /\ streams' = streams /\ UNCHANGED settingsVars
  BY DEF HandlePing
<1>2. /\ Head(plaintext).type = "PING" /\ pc = "loop" /\ replying = 0 /\ offset = 0
      /\ plaintext' \in Seq(Frames) /\ wire' = wire /\ client' = client /\ tls' = tls
      /\ tls # "closed"
  BY <1>1, ReadsFrame
<1>3. PICK ack : ack = Frame("PING", 0, {"ACK"}, <<>>, 0)
  OBVIOUS
<1>4. ack \in FramesSent /\ ack.stream = 0
  BY <1>3, EmptySeq DEF Frame, FramesSent
<1>5. replying' = 0 /\ offset' = 0 /\ pc' = "loop"
  BY <1>2 DEF HandlePing, Done, replyVars
<1>6. Written(ack) \/ WriteFails(ack)
  BY <1>3 DEF HandlePing
<1>7. /\ out' \in [StreamIds \cup {0} -> Seq(FramesOut)] /\ fails' \in 0 .. MaxFails
      /\ \A s \in StreamIds : out'[s] = out[s]
      /\ fails' = 0 => fails = 0
  BY <1>4, <1>6, Writing, Http2Assumption DEF Http2Assumption
<1>8. \A s \in StreamIds : Untouched(s)
  BY <1>1, <1>2, <1>5, <1>7, Http2Assumption DEF Http2Assumption, Untouched
<1>9. Http2Live'
  <2>1. Advances
    BY <1>2, <1>8, Bystanders, AdvancesOthers DEF RequestFrames
  <2>2. QED
    BY <1>1, <2>1, LiveReads
<1>10. Http2Types'
  BY <1>1, <1>2, <1>5, <1>7 DEF Http2Types, settingsVars
<1>11. QED
  BY <1>9, <1>10

(* GOAWAY.                                                                 *)
LEMMA HandleGoawayKeeps ==
  ASSUME Http2Assumption, Http2Types, Http2Live, HandleGoaway
  PROVE  Http2Types' /\ Http2Live'
<1>1. Reads("GOAWAY") /\ UNCHANGED <<streams, settingsVars, out, fails>>
  BY DEF HandleGoaway
<1>2. /\ Head(plaintext).type = "GOAWAY" /\ pc = "loop" /\ replying = 0 /\ offset = 0
      /\ plaintext' \in Seq(Frames) /\ wire' = wire /\ client' = client /\ tls' = tls
      /\ tls # "closed"
  BY <1>1, ReadsFrame
<1>3. replying' = 0 /\ offset' = 0 /\ pc' = "loop"
  BY <1>2 DEF HandleGoaway, Done, replyVars
<1>4. \A s \in StreamIds : Untouched(s)
  BY <1>1, <1>2, <1>3, Http2Assumption DEF Http2Assumption, Untouched
<1>5. Http2Live'
  <2>1. Advances
    BY <1>2, <1>4, Bystanders, AdvancesOthers DEF RequestFrames
  <2>2. QED
    BY <1>1, <2>1, LiveReads
<1>6. Http2Types'
  BY <1>1, <1>2, <1>3 DEF Http2Types, settingsVars
<1>7. QED
  BY <1>5, <1>6

(* AddToWindow() stays in range.                                           *)
LEMMA WindowBounded ==
  ASSUME Http2Assumption, NEW w \in 0 .. MaxWindow, NEW incr \in Nat
  PROVE  AddToWindow(w, incr) \in 0 .. MaxWindow
BY Http2Assumption DEF Http2Assumption, AddToWindow

(* What the server keeps of a stream.                                      *)
StreamRecords == [state : StreamStates, body : Seq(Bytes), send_window : 0 .. MaxWindow]

(* WINDOW_UPDATE changes windows only.                                     *)
LEMMA HandleWindowUpdateKeeps ==
  ASSUME Http2Assumption, Http2Types, Http2Live, HandleWindowUpdate
  PROVE  Http2Types' /\ Http2Live'
<1>1. Reads("WINDOW_UPDATE") /\ UNCHANGED <<settingsVars, out, fails>>
  BY DEF HandleWindowUpdate
<1>2. /\ Head(plaintext) \in Frames
      /\ Head(plaintext).type = "WINDOW_UPDATE" /\ pc = "loop" /\ replying = 0 /\ offset = 0
      /\ plaintext' \in Seq(Frames) /\ wire' = wire /\ client' = client /\ tls' = tls
      /\ tls # "closed"
  BY <1>1, ReadsFrame
<1>3. replying' = 0 /\ offset' = 0 /\ pc' \in {"loop", "idle"}
  BY <1>2 DEF HandleWindowUpdate, Done, Fail, replyVars
<1>4. /\ DOMAIN streams' = DOMAIN streams
      /\ \A s \in DOMAIN streams :
           /\ streams'[s] \in StreamRecords
           /\ streams'[s].body = streams[s].body /\ streams'[s].state = streams[s].state
  <2>1. \A s \in DOMAIN streams : streams[s] \in StreamRecords
    BY DEF Http2Types, StreamRecords
  <2>2. CASE streams' = streams
    BY <2>1, <2>2
  <2>3. CASE Head(plaintext).val # 0
    <3>1. PICK f \in Frames : f = Head(plaintext)
      BY <1>2
    <3>2. streams' = [s \in DOMAIN streams |->
                        IF f.stream \in {0, s}
                          THEN [streams[s] EXCEPT !.send_window = AddToWindow(@, f.val)]
                          ELSE streams[s]]
      BY <2>3, <3>1 DEF HandleWindowUpdate
    <3>3. SUFFICES ASSUME NEW s \in DOMAIN streams
                   PROVE  /\ streams'[s] \in StreamRecords
                          /\ streams'[s].body = streams[s].body
                          /\ streams'[s].state = streams[s].state
      BY <3>2
    <3>4. streams[s] \in StreamRecords /\ f.val \in Nat
      BY <2>1 DEF Frames
    <3>5. PICK w \in 0 .. MaxWindow : w = AddToWindow(streams[s].send_window, f.val)
      BY <3>4, WindowBounded DEF StreamRecords
    <3>6. streams'[s] = [streams[s] EXCEPT !.send_window = w] \/ streams'[s] = streams[s]
      BY <3>2, <3>5
    <3>7. QED
      BY <3>4, <3>6 DEF StreamRecords
  <2>4. QED
    BY <2>2, <2>3 DEF HandleWindowUpdate
<1>5. \A s \in StreamIds : Untouched(s)
  BY <1>1, <1>2, <1>3, <1>4, Http2Assumption DEF Http2Assumption, Untouched
<1>6. Http2Live'
  <2>1. Advances
    BY <1>2, <1>5, Bystanders, AdvancesOthers DEF RequestFrames
  <2>2. QED
    BY <1>1, <2>1, LiveReads
<1>7. Http2Types'
  BY <1>1, <1>2, <1>3, <1>4 DEF Http2Types, settingsVars, StreamRecords
<1>8. QED
  BY <1>6, <1>7

-------------------------------------------------------------------------------
(* The frames of a request.                                                *)
LEMMA ReadsRecord ==
  ASSUME Http2Types, Http2Live, NEW type, Reads(type), NEW s \in StreamIds
  PROVE  \E r, q \in Records : Handled(s, r) /\ Follows(s, r, Head(plaintext), q)
<1>1. plaintext \in Seq(Frames) /\ wire \in Seq(Frames) /\ plaintext # <<>> /\ client[s] \in Records
  BY DEF Http2Types, Reads
<1>2. Input \in Seq(Frames) /\ Input # <<>> /\ Input[1] = Head(plaintext)
  BY <1>1, InputTail DEF Input
<1>3. PICK h : History(s, Input, client[s], h) /\ Handled(s, h[1])
  BY DEF Http2Live
<1>4. PICK g : /\ History(s, Tail(Input), client[s], g)
               /\ h[1] \in Records /\ g[1] \in Records /\ Follows(s, h[1], Input[1], g[1])
  BY <1>1, <1>2, <1>3, HistoryTail
<1>5. QED
  BY <1>2, <1>3, <1>4

(* Nothing cut up yet.                                                     *)
LEMMA NothingCut ==
  ASSUME NEW reply, Len(reply) \in Nat
  PROVE  \E cut \in [0 .. Len(<<>>) -> 0 .. Len(reply)] :
           CutsUp(<<>>, reply, cut) /\ cut[Len(<<>>)] = 0
<1>1. PICK cut : cut = [i \in 0 .. 0 |-> 0]
  OBVIOUS
<1>2. cut \in [0 .. 0 -> 0 .. Len(reply)] /\ cut[0] = 0 /\ Len(<<>>) = 0
  BY <1>1
<1>3. CutsUp(<<>>, reply, cut)
  BY <1>2 DEF CutsUp
<1>4. QED
  BY <1>2, <1>3

(* A request not to be answered yet.                                       *)
LEMMA Unanswered ==
  ASSUME NEW s \in StreamIds, NEW q \in Records, Stored(s, q)',
         out'[s] = <<>>, replying' # s,
         ~(q.phase = "done" /\ q.good /\ ~SplitHeads)
  PROVE  Handled(s, q)'
<1>1. Len(ReplyTo(s, q.body)) \in Nat
  BY ReplyLength DEF Records
<1>2. Replied(s, q)'
  BY <1>1, NothingCut DEF Replied
<1>3. Shaped(s, q)'
  <2>1. DOMAIN out'[s] = {}
    OBVIOUS
  <2>2. QED
    BY <2>1 DEF Shaped
<1>4. QED
  BY <1>2, <1>3 DEF Handled

(* A request that ends here is replied to from its first byte on.          *)
LEMMA Completed ==
  ASSUME NEW s \in StreamIds, NEW q \in Records, Stored(s, q)',
         out'[s] = <<>>, CompleteRequest(s), q.phase = "done"
  PROVE  Handled(s, q)'
<1>1. Len(ReplyTo(s, q.body)) \in Nat /\ 0 < Len(ReplyTo(s, q.body))
  <2>1. PICK n \in Nat : n = q.body
    BY DEF Records
  <2>2. Len(ReplyTo(s, n)) = IF n = 0 THEN 1 ELSE n
    BY ReplyLength
  <2>3. QED
    BY <2>1, <2>2
<1>2. Replied(s, q)'
  <2>1. q.ended /\ q.phase \in {"done", "reset"}
    BY DEF Records
  <2>2. offset' = 0
    BY DEF CompleteRequest
  <2>3. \E cut \in [0 .. Len(out'[s]) -> 0 .. Len(ReplyTo(s, q.body))] :
          CutsUp(out'[s], ReplyTo(s, q.body), cut) /\ cut[Len(out'[s])] = 0
    BY <1>1, NothingCut
  <2>4. QED
    BY <1>1, <2>1, <2>2, <2>3 DEF Replied
<1>3. Shaped(s, q)'
  <2>1. DOMAIN out'[s] = {}
    OBVIOUS
  <2>2. QED
    BY <2>1 DEF Shaped, CompleteRequest
<1>4. QED
  BY <1>2, <1>3 DEF Handled

(* RST_STREAM: the stream keeps what it has.                               *)
LEMMA HandleRstStreamKeeps ==
  ASSUME Http2Assumption, Http2Types, Http2Live, HandleRstStream
  PROVE  Http2Types' /\ Http2Live'
<1>1. Reads("RST_STREAM") /\ UNCHANGED <<settingsVars, out, fails>>
  BY DEF HandleRstStream
<1>2. /\ Head(plaintext) \in Frames
      /\ Head(plaintext).type = "RST_STREAM" /\ pc = "loop" /\ replying = 0 /\ offset = 0
      /\ plaintext' \in Seq(Frames) /\ wire' = wire /\ client' = client /\ tls' = tls
      /\ tls # "closed"
  BY <1>1, ReadsFrame
<1>3. replying' = 0 /\ offset' = 0 /\ pc' = "loop"
  BY <1>2 DEF HandleRstStream, Done, replyVars
<1>4. PICK f \in Frames : f = Head(plaintext)
  BY <1>2
<1>5. streams' = [t \in DOMAIN streams |->
                    IF t = f.stream THEN [streams[t] EXCEPT !.state = "CLOSED"] ELSE streams[t]]
  BY <1>4 DEF HandleRstStream
<1>6. \A t \in DOMAIN streams : streams[t] \in StreamRecords
  BY DEF Http2Types, StreamRecords
<1>7. /\ DOMAIN streams' = DOMAIN streams
      /\ \A t \in DOMAIN streams :
           /\ streams'[t] \in StreamRecords /\ streams'[t].body = streams[t].body
           /\ IF t = f.stream THEN streams'[t].state = "CLOSED" ELSE streams'[t] = streams[t]
  BY <1>5, <1>6 DEF StreamRecords, StreamStates
<1>8. ASSUME NEW s \in StreamIds, NEW r \in Records, NEW q \in Records,
             Handled(s, r), Follows(s, r, f, q)
      PROVE  Handled(s, q)'
  <2>1. CASE s # f.stream
    <3>1. Untouched(s)
      BY <1>1, <1>2, <1>3, <1>7, <2>1, Http2Assumption DEF Http2Assumption, Untouched
    <3>2. q = r
      BY <1>8, <2>1 DEF Follows
    <3>3. QED
      BY <1>8, <3>1, <3>2, Bystander
  <2>2. CASE s = f.stream
    <3>1. /\ r.phase \in {"body", "done"} /\ q.phase = "reset"
          /\ q.ended = r.ended /\ q.body = r.body
      BY <1>2, <1>4, <1>8, <2>2 DEF Follows, RequestFrames
    <3>2. Stored(s, q)'
      BY <1>7, <1>8, <2>2, <3>1 DEF Handled, Stored
    <3>3. out' = out /\ fails' = fails /\ replying # s /\ replying' # s
      BY <1>1, <1>2, <1>3, Http2Assumption DEF Http2Assumption
    <3>4. Replied(s, q)'
      BY <1>8, <3>1, <3>3 DEF Handled, Replied
    <3>5. Shaped(s, q)'
      BY <1>8, <3>1, <3>3 DEF Handled, Shaped
    <3>6. QED
      BY <3>2, <3>4, <3>5 DEF Handled
  <2>3. QED
    BY <2>1, <2>2
<1>9. Http2Live'
  <2>1. Advances
    BY <1>4, <1>8 DEF Advances
  <2>2. QED
    BY <1>1, <2>1, LiveReads
<1>10. Http2Types'
  BY <1>1, <1>2, <1>3, <1>7 DEF Http2Types, settingsVars, StreamRecords
<1>11. QED
  BY <1>9, <1>10

(* CONTINUATION: the end of a block of headers, maybe of the request.      *)
LEMMA HandleContinuationKeeps ==
  ASSUME Http2Assumption, Http2Types, Http2Live, HandleContinuation
  PROVE  Http2Types' /\ Http2Live'
<1>1. Reads("CONTINUATION") /\ UNCHANGED <<streams, settingsVars, out, fails>>
  BY DEF HandleContinuation
<1>2. /\ Head(plaintext) \in Frames
      /\ Head(plaintext).type = "CONTINUATION" /\ pc = "loop" /\ replying = 0 /\ offset = 0
      /\ plaintext' \in Seq(Frames) /\ wire' = wire /\ client' = client /\ tls' = tls
      /\ tls # "closed"
  BY <1>1, ReadsFrame
<1>3. PICK f \in Frames : f = Head(plaintext)
  BY <1>2
<1>4. f.stream \in StreamIds /\ f.type = "CONTINUATION"
  BY <1>2, <1>3 DEF Frames, RequestFrames
<1>5. f.stream \in DOMAIN streams => ~ContinuationCompletes(f)
  <2>1. PICK r \in Records, q \in Records : Handled(f.stream, r) /\ Follows(f.stream, r, f, q)
    BY <1>1, <1>3, <1>4, ReadsRecord
  <2>2. r.phase = "head"
    BY <1>4, <2>1 DEF Follows, RequestFrames
  <2>3. f.stream \in DOMAIN streams => streams[f.stream].state # "HALF_CLOSED_REMOTE"
    BY <2>1, <2>2 DEF Handled, Stored
  <2>4. QED
    BY <2>3 DEF ContinuationCompletes
<1>6. replying' = 0 /\ offset' = 0 /\ pc' \in {"loop", "idle"}
  BY <1>2, <1>3, <1>5 DEF HandleContinuation, Done, Fail, replyVars
<1>7. ASSUME NEW s \in StreamIds, NEW r \in Records, NEW q \in Records,
             Handled(s, r), Follows(s, r, f, q)
      PROVE  Handled(s, q)'
  <2>1. CASE s # f.stream
    <3>1. Untouched(s)
      BY <1>1, <1>2, <1>6, Http2Assumption DEF Http2Assumption, Untouched
    <3>2. q = r
      BY <1>7, <2>1 DEF Follows
    <3>3. QED
      BY <1>7, <3>1, <3>2, Bystander
  <2>2. CASE s = f.stream
    <3>1. /\ r.phase = "head" /\ q.phase = IF r.ended THEN "done" ELSE "body"
          /\ q.body = r.body
      BY <1>4, <1>7, <2>2 DEF Follows, RequestFrames
    <3>2. Stored(s, q)'
      BY <1>1, <1>7, <3>1 DEF Handled, Stored
    <3>3. out'[s] = <<>> /\ replying' # s
      BY <1>1, <1>6, <1>7, <3>1, Http2Assumption DEF Http2Assumption, Handled, Replied
    <3>4. ~(q.phase = "done" /\ q.good /\ ~SplitHeads)
      BY <3>1 DEF Records
    <3>5. QED
      BY <3>2, <3>3, <3>4, Unanswered
  <2>3. QED
    BY <2>1, <2>2
<1>8. Http2Live'
  <2>1. Advances
    BY <1>3, <1>7 DEF Advances
  <2>2. QED
    BY <1>1, <2>1, LiveReads
<1>9. Http2Types'
  BY <1>1, <1>2, <1>6 DEF Http2Types, settingsVars
<1>10. QED
  BY <1>8, <1>9

(* streams_[s] = st.                                                       *)
LEMMA SettingStream ==
  ASSUME Http2Types, NEW s \in StreamIds, NEW st \in StreamRecords, SetStream(s, st)
  PROVE  /\ DOMAIN streams' = DOMAIN streams \cup {s} /\ DOMAIN streams' \subseteq StreamIds
         /\ streams'[s] = st
         /\ \A t \in DOMAIN streams : t # s => streams'[t] = streams[t]
         /\ \A t \in DOMAIN streams' : streams'[t] \in StreamRecords
BY DEF Http2Types, StreamRecords, SetStream

(* HEADERS: a new stream, maybe a whole request.                           *)
LEMMA HandleHeadersKeeps ==
  ASSUME Http2Assumption, Http2Types, Http2Live, HandleHeaders
  PROVE  Http2Types' /\ Http2Live'
<1>1. Reads("HEADERS") /\ UNCHANGED <<settingsVars, out, fails>>
  BY DEF HandleHeaders
<1>2. /\ Head(plaintext) \in Frames
      /\ Head(plaintext).type = "HEADERS" /\ pc = "loop" /\ replying = 0 /\ offset = 0
      /\ plaintext' \in Seq(Frames) /\ wire' = wire /\ client' = client /\ tls' = tls
      /\ tls # "closed"
  BY <1>1, ReadsFrame
<1>3. PICK f \in Frames : f = Head(plaintext)
  BY <1>2
<1>4. PICK u \in StreamIds : u = f.stream /\ f.type = "HEADERS"
  BY <1>2, <1>3 DEF Frames, RequestFrames
<1>5. u \notin DOMAIN streams
  <2>1. PICK r \in Records, q \in Records : Handled(u, r) /\ Follows(u, r, f, q)
    BY <1>1, <1>3, <1>4, ReadsRecord
  <2>2. r.phase = "idle"
    BY <1>4, <2>1 DEF Follows, RequestFrames
  <2>3. QED
    BY <2>1, <2>2 DEF Handled, Stored
<1>6. PICK st \in StreamRecords :
        /\ SetStream(u, st) /\ st.body = <<>>
        /\ \/ f.val # 0 /\ f.flags = {"END_HEADERS", "END_STREAM"} /\ CompleteRequest(u)
           \/ /\ f.val = 0 \/ f.flags # {"END_HEADERS", "END_STREAM"}
              /\ st.state = "OPEN" /\ (Done \/ Fail)
  <2>1. NewStream \in StreamRecords /\ NewStream.state = "IDLE" /\ NewStream.body = <<>>
    BY Http2Assumption, EmptySeq DEF Http2Assumption, NewStream, StreamRecords, StreamStates
  <2>2. PICK op : op = [NewStream EXCEPT !.state = "OPEN"]
    OBVIOUS
  <2>3. PICK hc : hc = [op EXCEPT !.state = "HALF_CLOSED_REMOTE"]
    OBVIOUS
  <2>4. /\ op \in StreamRecords /\ op.state = "OPEN" /\ op.body = <<>>
        /\ hc \in StreamRecords /\ hc.body = <<>>
    BY <2>1, <2>2, <2>3 DEF StreamRecords, StreamStates
  <2>5. CASE f.val = 0
    <3>1. SetStream(u, op) /\ Fail
      BY <1>3, <1>4, <1>5, <2>1, <2>2, <2>5 DEF HandleHeaders, NewStream
    <3>2. QED
      BY <2>4, <2>5, <3>1, Zenon
  <2>6. CASE f.val # 0 /\ f.flags = {"END_HEADERS", "END_STREAM"}
    <3>1. SetStream(u, hc) /\ CompleteRequest(u)
      BY <1>3, <1>4, <1>5, <2>1, <2>2, <2>3, <2>6 DEF HandleHeaders, NewStream
    <3>2. QED
      BY <2>4, <2>6, <3>1, Zenon
  <2>7. CASE f.val # 0 /\ f.flags # {"END_HEADERS", "END_STREAM"}
    <3>1. SetStream(u, op) /\ Done
      BY <1>3, <1>4, <1>5, <2>1, <2>2, <2>7 DEF HandleHeaders, NewStream
    <3>2. QED
      BY <2>4, <2>7, <3>1, Zenon
  <2>8. QED
    BY <2>5, <2>6, <2>7
<1>7. /\ DOMAIN streams' = DOMAIN streams \cup {u} /\ DOMAIN streams' \subseteq StreamIds
      /\ streams'[u] = st
      /\ \A t \in DOMAIN streams : t # u => streams'[t] = streams[t]
      /\ \A t \in DOMAIN streams' : streams'[t] \in StreamRecords
  BY <1>6, SettingStream
<1>8. /\ replying' \in {0, u} /\ offset' = 0
      /\ \/ CompleteRequest(u) /\ replying' = u /\ pc' = "send headers"
         \/ replying' = 0 /\ pc' \in {"loop", "idle"}
  BY <1>2, <1>6 DEF CompleteRequest, Done, Fail, replyVars
<1>9. ASSUME NEW s \in StreamIds, NEW r \in Records, NEW q \in Records,
             Handled(s, r), Follows(s, r, f, q)
      PROVE  Handled(s, q)'
  <2>1. CASE s # u
    <3>1. Untouched(s)
      BY <1>1, <1>2, <1>7, <1>8, <2>1, Http2Assumption DEF Http2Assumption, Untouched
    <3>2. q = r
      BY <1>4, <1>9, <2>1 DEF Follows
    <3>3. QED
      BY <1>9, <3>1, <3>2, Bystander
  <2>2. CASE s = u
    <3>1. /\ r.phase = "idle"
          /\ q.phase = IF "END_HEADERS" \notin f.flags THEN "head"
                       ELSE IF "END_STREAM" \in f.flags THEN "done" ELSE "body"
          /\ q.body = r.body /\ q.good = (f.val # 0)
      BY <1>4, <1>9, <2>2 DEF Follows, RequestFrames
    <3>2. q.body = 0
      BY <3>1 DEF Records
    <3>3. out'[u] = <<>>
      BY <1>1, <1>9, <2>2, <3>1 DEF Handled, Replied
    <3>4. Part(u, 0, 0) = <<>>
      BY ReplyLength, EmptySeq
    <3>5. CASE f.val # 0 /\ f.flags = {"END_HEADERS", "END_STREAM"} /\ CompleteRequest(u)
      <4>1. q.phase = "done"
        BY <3>1, <3>5
      <4>2. Stored(u, q)'
        BY <1>6, <1>7, <3>2, <3>4, <4>1 DEF Stored
      <4>3. QED
        BY <2>2, <3>3, <3>5, <4>1, <4>2, Completed
    <3>6. CASE /\ f.val = 0 \/ f.flags # {"END_HEADERS", "END_STREAM"}
               /\ st.state = "OPEN" /\ (Done \/ Fail)
      <4>1. ~(q.phase = "done" /\ q.good /\ ~SplitHeads)
        <5>1. f.flags \subseteq {"END_HEADERS", "END_STREAM"}
          BY DEF Frames
        <5>2. QED
          BY <3>1, <3>6, <5>1
      <4>2. Stored(u, q)'
        BY <1>6, <1>7, <3>1, <3>2, <3>4, <3>6 DEF Stored
      <4>3. replying' # u
        BY <1>2, <3>6, Http2Assumption DEF Http2Assumption, Done, Fail, replyVars
      <4>4. QED
        BY <2>2, <3>3, <4>1, <4>2, <4>3, Unanswered
    <3>7. QED
      BY <1>6, <3>5, <3>6
  <2>3. QED
    BY <2>1, <2>2
<1>10. Http2Live'
  <2>1. Advances
    BY <1>3, <1>9 DEF Advances
  <2>2. QED
    BY <1>1, <2>1, LiveReads
<1>11. Http2Types'
  BY <1>1, <1>2, <1>7, <1>8, Http2Assumption DEF Http2Assumption, Http2Types, settingsVars, StreamRecords
<1>12. QED
  BY <1>10, <1>11

(* DATA: the body grows by the bytes that come next, or nothing happens.   *)
LEMMA HandleDataKeeps ==
  ASSUME Http2Assumption, Http2Types, Http2Live, HandleData
  PROVE  Http2Types' /\ Http2Live'
<1>1. Reads("DATA") /\ UNCHANGED <<settingsVars, out, fails>>
  BY DEF HandleData
<1>2. /\ Head(plaintext) \in Frames
      /\ Head(plaintext).type = "DATA" /\ pc = "loop" /\ replying = 0 /\ offset = 0
      /\ plaintext' \in Seq(Frames) /\ wire' = wire /\ client' = client /\ tls' = tls
      /\ tls # "closed"
  BY <1>1, ReadsFrame
<1>3. PICK f \in Frames : f = Head(plaintext)
  BY <1>2
<1>4. PICK u \in StreamIds : u = f.stream /\ f.type = "DATA"
  BY <1>2, <1>3 DEF Frames, RequestFrames
<1>5. CASE u \notin DOMAIN streams
  <2>1. streams' = streams /\ replying' = 0 /\ offset' = 0 /\ pc' = "idle"
    BY <1>2, <1>3, <1>4, <1>5 DEF HandleData, Fail, replyVars
  <2>2. ASSUME NEW s \in StreamIds, NEW r \in Records, NEW q \in Records,
               Handled(s, r), Follows(s, r, f, q)
        PROVE  Handled(s, q)'
    <3>1. Untouched(s)
      BY <1>1, <1>2, <2>1, Http2Assumption DEF Http2Assumption, Untouched
    <3>2. s = u => r.phase = "idle"
      BY <1>5, <2>2 DEF Handled, Stored
    <3>3. q = r
      BY <1>4, <2>2, <3>2 DEF Follows, RequestFrames
    <3>4. QED
      BY <2>2, <3>1, <3>3, Bystander
  <2>3. Http2Live'
    <3>1. Advances
      BY <1>3, <2>2 DEF Advances
    <3>2. QED
      BY <1>1, <3>1, LiveReads
  <2>4. Http2Types'
    BY <1>1, <1>2, <2>1 DEF Http2Types, settingsVars
  <2>5. QED
    BY <2>3, <2>4
<1>6. CASE u \in DOMAIN streams
  <2>1. streams[u] \in StreamRecords
    BY <1>6 DEF Http2Types, StreamRecords
  <2>2. PICK st \in StreamRecords :
          /\ SetStream(u, st) /\ st.body = streams[u].body \o f.data
          /\ \/ "END_STREAM" \in f.flags /\ CompleteRequest(u)
             \/ "END_STREAM" \notin f.flags /\ st.state = streams[u].state /\ Done
    <3>1. PICK b : b = streams[u].body \o f.data
      OBVIOUS
    <3>2. b \in Seq(Bytes)
      BY <2>1, <3>1, ConcatProperties DEF StreamRecords, Frames
    <3>3. PICK op : op = [streams[u] EXCEPT !.body = b]
      OBVIOUS
    <3>4. PICK hc : hc = [op EXCEPT !.state = "HALF_CLOSED_REMOTE"]
      OBVIOUS
    <3>5. /\ op \in StreamRecords /\ op.state = streams[u].state /\ op.body = b
          /\ hc \in StreamRecords /\ hc.body = b
      BY <2>1, <3>2, <3>3, <3>4 DEF StreamRecords, StreamStates
    <3>6. CASE "END_STREAM" \in f.flags
      <4>1. SetStream(u, hc) /\ CompleteRequest(u)
        BY <1>3, <1>4, <1>6, <3>1, <3>3, <3>4, <3>6 DEF HandleData, EndsStream
      <4>2. QED
        BY <3>1, <3>5, <3>6, <4>1, Zenon
    <3>7. CASE "END_STREAM" \notin f.flags
      <4>1. SetStream(u, op) /\ Done
        BY <1>3, <1>4, <1>6, <3>1, <3>3, <3>7 DEF HandleData, EndsStream
      <4>2. QED
        BY <3>1, <3>5, <3>7, <4>1, Zenon
    <3>8. QED
      BY <3>6, <3>7
  <2>3. /\ DOMAIN streams' = DOMAIN streams \cup {u} /\ DOMAIN streams' \subseteq StreamIds
        /\ streams'[u] = st
        /\ \A t \in DOMAIN streams : t # u => streams'[t] = streams[t]
        /\ \A t \in DOMAIN streams' : streams'[t] \in StreamRecords
    BY <2>2, SettingStream
  <2>4. /\ replying' \in {0, u} /\ offset' = 0
        /\ \/ CompleteRequest(u) /\ replying' = u /\ pc' = "send headers"
           \/ replying' = 0 /\ pc' \in {"loop", "idle"}
    BY <1>2, <2>2 DEF CompleteRequest, Done, replyVars
  <2>5. ASSUME NEW s \in StreamIds, NEW r \in Records, NEW q \in Records,
               Handled(s, r), Follows(s, r, f, q)
        PROVE  Handled(s, q)'
    <3>1. CASE s # u
      <4>1. Untouched(s)
        BY <1>1, <1>2, <2>3, <2>4, <3>1, Http2Assumption DEF Http2Assumption, Untouched
      <4>2. q = r
        BY <1>4, <2>5, <3>1 DEF Follows
      <4>3. QED
        BY <2>5, <4>1, <4>2, Bystander
    <3>2. CASE s = u
      <4>1. r.phase # "idle"
        BY <1>6, <2>5, <3>2 DEF Handled, Stored
      <4>2. /\ r.phase = "body"
            /\ q.phase = IF "END_STREAM" \in f.flags THEN "done" ELSE "body"
            /\ \E n \in Nat : f.data = Part(u, r.body, n) /\ q.body = r.body + n
        BY <1>4, <2>5, <3>2, <4>1 DEF Follows, RequestFrames
      <4>3. PICK n \in Nat : f.data = Part(u, r.body, n) /\ q.body = r.body + n
        BY <4>2
      <4>4. st.body = Part(u, 0, q.body)
        <5>1. PICK a \in Nat : a = r.body
          BY DEF Records
        <5>2. streams[u].body = Part(u, 0, a)
          BY <1>6, <2>5, <3>2, <5>1 DEF Handled, Stored
        <5>3. Part(u, 0, a) \o Part(u, a, n) = Part(u, 0, a + n)
          BY PartConcat
        <5>4. QED
          BY <2>2, <4>3, <5>1, <5>2, <5>3
      <4>5. out'[u] = <<>>
        BY <1>1, <2>5, <3>2, <4>2 DEF Handled, Replied
      <4>6. CASE "END_STREAM" \in f.flags /\ CompleteRequest(u)
        <5>1. q.phase = "done"
          BY <4>2, <4>6
        <5>2. Stored(u, q)'
          BY <2>2, <2>3, <4>4, <5>1 DEF Stored
        <5>3. QED
          BY <3>2, <4>5, <4>6, <5>1, <5>2, Completed
      <4>7. CASE "END_STREAM" \notin f.flags /\ st.state = streams[u].state /\ Done
        <5>1. q.phase = "body"
          BY <4>2, <4>7
        <5>2. st.state # "HALF_CLOSED_REMOTE"
          BY <1>6, <2>5, <3>2, <4>2, <4>7 DEF Handled, Stored
        <5>3. Stored(u, q)'
          BY <2>2, <2>3, <4>4, <5>1, <5>2 DEF Stored
        <5>4. replying' # u
          BY <1>2, <4>7, Http2Assumption DEF Http2Assumption, Done, replyVars
        <5>5. QED
          BY <3>2, <4>5, <5>1, <5>3, <5>4, Unanswered
      <4>8. QED
        BY <2>2, <4>6, <4>7
    <3>3. QED
      BY <3>1, <3>2
  <2>6. Http2Live'
    <3>1. Advances
      BY <1>3, <2>5 DEF Advances
    <3>2. QED
      BY <1>1, <3>1, LiveReads
  <2>7. Http2Types'
    BY <1>1, <1>2, <2>3, <2>4, Http2Assumption DEF Http2Assumption, Http2Types, settingsVars, StreamRecords
  <2>8. QED
    BY <2>6, <2>7
<1>7. QED
  BY <1>5, <1>6

-------------------------------------------------------------------------------
(* handle_complete_request().                                              *)
LEMMA EmptyPart ==
  ASSUME NEW S, NEW w \in Seq(S), NEW a \in 0 .. Len(w)
  PROVE  SubSeq(w, a + 1, a) = <<>>
<1>1. SubSeq(w, a + 1, a) = [i \in 1 .. 0 |-> w[i + a]]
  BY LenProperties
<1>2. QED
  BY <1>1

(* Stream u is being replied to.                                           *)
Replying(u) == replying = u

(* The reply is that to the record, and is not yet out.                    *)
LEMMA ReplyingTo ==
  ASSUME Http2Assumption, Http2Types, NEW u \in StreamIds, Replying(u), NEW r \in Records, Handled(u, r)
  PROVE  /\ u \in DOMAIN streams
         /\ ReplyBody(u) = ReplyTo(u, r.body) /\ ReplyBody(u) \in Seq(Bytes)
         /\ Len(ReplyBody(u)) \in Nat /\ offset \in Nat /\ offset < Len(ReplyBody(u))
         /\ Len(ReplyBody(u)) = IF r.body = 0 THEN 1 ELSE r.body
<1>1. /\ r.phase \in {"done", "reset"} /\ offset < Len(ReplyTo(u, r.body)) /\ offset \in Nat
      /\ r.body \in Nat
  <2>1. r.phase \in {"done", "reset"} /\ offset < Len(ReplyTo(u, r.body))
    BY DEF Handled, Replied, Replying
  <2>2. offset \in Nat
    BY DEF Http2Types
  <2>3. r.body \in Nat
    BY DEF Records
  <2>4. QED
    BY <2>1, <2>2, <2>3
<1>2. u \in DOMAIN streams /\ streams[u].body = Part(u, 0, r.body)
  BY <1>1 DEF Handled, Stored
<1>3. /\ ReplyTo(u, r.body) \in Seq(Bytes)
      /\ Len(ReplyTo(u, r.body)) = IF r.body = 0 THEN 1 ELSE r.body
      /\ ReplyTo(u, r.body) = IF Part(u, 0, r.body) = <<>> THEN <<OK>> ELSE Part(u, 0, r.body)
  BY <1>1, ReplyLength
<1>4. ReplyBody(u) = ReplyTo(u, r.body)
  BY <1>2, <1>3 DEF ReplyBody
<1>5. Len(ReplyBody(u)) \in Nat
  BY <1>3, <1>4, LenProperties
<1>6. QED
  BY <1>1, <1>2, <1>3, <1>4, <1>5

(* Frame g takes the reply on stream u from offset to to.                  *)
Carries(u, r, g, to) ==
  /\ g \in FramesOut /\ to \in Nat
  /\ offset <= to /\ to <= Len(ReplyTo(u, r.body))
  /\ g.data = SubSeq(ReplyTo(u, r.body), offset + 1, to)
  /\ Ends(g) => to = Len(ReplyTo(u, r.body))
  /\ out'[u] = Append(out[u], g)
  /\ pc' # "send headers"
  /\ replying' = u => offset' = to /\ to < Len(ReplyTo(u, r.body))

(* A frame with the next bytes of the reply.                               *)
LEMMA RepliedAppend ==
  ASSUME Http2Types, NEW u \in StreamIds, NEW r \in Records, Replied(u, r), Replying(u),
         NEW g, NEW to, Carries(u, r, g, to)
  PROVE  Replied(u, r)'
<1>1. PICK reply, fs, o, n : reply = ReplyTo(u, r.body) /\ fs = out[u] /\ o = offset /\ n = r.body
  OBVIOUS
<1>2. Len(reply) \in Nat /\ fs \in Seq(FramesOut) /\ o \in Nat
  <2>1. n \in Nat
    BY <1>1 DEF Records
  <2>2. fs \in Seq(FramesOut) /\ o \in Nat
    BY <1>1 DEF Http2Types
  <2>3. Len(ReplyTo(u, n)) \in Nat
    BY <2>1, ReplyLength
  <2>4. QED
    BY <1>1, <2>2, <2>3
<1>3. PICK cut \in [0 .. Len(fs) -> 0 .. Len(reply)] :
        CutsUp(fs, reply, cut) /\ cut[Len(fs)] = o
  BY <1>1 DEF Replied, Replying
<1>4. /\ g \in FramesOut /\ to \in Nat /\ o <= to /\ to <= Len(reply)
      /\ g.data = SubSeq(reply, o + 1, to)
      /\ Ends(g) => to = Len(reply)
  BY <1>1 DEF Carries
<1>5. CutTo(Append(fs, g), reply, to)
  <2>1. to \in cut[Len(fs)] .. Len(reply)
    BY <1>2, <1>3, <1>4
  <2>2. g.data = SubSeq(reply, cut[Len(fs)] + 1, to)
    BY <1>3, <1>4
  <2>3. QED
    BY <1>2, <1>3, <1>4, <2>1, <2>2, CutsUpAppend
<1>6. r.ended /\ r.phase \in {"done", "reset"}
  BY DEF Replied, Replying
<1>7. /\ out'[u] = Append(fs, g) /\ pc' # "send headers"
      /\ replying' = u => offset' = to /\ to < Len(reply)
  BY <1>1 DEF Carries
<1>8. QED
  BY <1>1, <1>5, <1>6, <1>7 DEF Replied, CutTo

(* The HEADERS of a reply, written or not.                                 *)
LEMMA SendHeadersKeeps ==
  ASSUME Http2Assumption, Http2Types, Http2Live, SendHeaders
  PROVE  Http2Types' /\ Http2Live'
<1>1. PICK u \in StreamIds : u = replying
  BY DEF Http2Types, SendHeaders
<1>2. PICK f : f = Frame("HEADERS", u, {"END_HEADERS"}, <<>>, 1)
  OBVIOUS
<1>3. f \in FramesSent /\ f.stream = u /\ f.data = <<>> /\ f.type = "HEADERS"
  BY <1>2, EmptySeq DEF Frame, FramesSent
<1>4. /\ Written(f) \/ WriteFails(f)
      /\ pc' = "send data" /\ pc = "send headers"
      /\ UNCHANGED <<client, wire, tls, plaintext, streams, settingsVars, replying, offset>>
  BY <1>1, <1>2 DEF SendHeaders, clientVars, replyVars
<1>5. PICK g : g = OnStream(f, <<>>, TRUE)
  OBVIOUS
<1>6. g \in FramesOut /\ g.type = "HEADERS" /\ g.data = <<>> /\ ~Ends(g)
  BY <1>3, <1>4, <1>5, Writing DEF OnStream, Ends
<1>7. /\ out' \in [StreamIds \cup {0} -> Seq(FramesOut)]
      /\ \A t \in StreamIds : t # u => out'[t] = out[t]
      /\ fails' \in 0 .. MaxFails /\ (fails' = 0 => fails = 0 /\ Written(f))
      /\ Written(f) => out'[u] = Append(out[u], g)
      /\ WriteFails(f) => out'[u] = out[u]
  BY <1>3, <1>4, <1>5, Writing
<1>8. ASSUME NEW s \in StreamIds, NEW r \in Records, Handled(s, r)
      PROVE  Handled(s, r)'
  <2>1. CASE s # u
    <3>1. Untouched(s)
      BY <1>1, <1>4, <1>7, <2>1 DEF Untouched
    <3>2. QED
      BY <1>8, <3>1, Bystander
  <2>2. CASE s = u
    <3>1. Handled(u, r)
      BY <1>8, <2>2
    <3>2. Stored(u, r)'
      BY <1>4, <3>1 DEF Handled, Stored
    <3>3. out[u] = <<>> /\ out[u] \in Seq(FramesOut)
      BY <1>1, <1>4, <3>1 DEF Handled, Replied, Http2Types
    <3>4. Replied(u, r)'
      <4>1. CASE Written(f)
        <5>1. /\ ReplyTo(u, r.body) \in Seq(Bytes) /\ Len(ReplyTo(u, r.body)) \in Nat
              /\ offset \in Nat /\ offset < Len(ReplyTo(u, r.body))
          BY <1>1, <3>1, ReplyingTo DEF Replying
        <5>2. g.data = SubSeq(ReplyTo(u, r.body), offset + 1, offset)
          BY <1>6, <5>1, EmptyPart
        <5>3. /\ out'[u] = Append(out[u], g) /\ pc' # "send headers" /\ offset' = offset
          BY <1>4, <1>7, <4>1
        <5>4. Carries(u, r, g, offset)
          <6>1. offset <= offset /\ offset <= Len(ReplyTo(u, r.body))
            BY <5>1
          <6>2. QED
            BY <1>6, <5>1, <5>2, <5>3, <6>1, Zenon DEF Carries
        <5>5. Replied(u, r) /\ Replying(u)
          BY <1>1, <3>1 DEF Handled, Replying
        <5>6. QED
          BY <5>4, <5>5, RepliedAppend
      <4>2. CASE WriteFails(f)
        BY <1>4, <1>7, <3>1, <4>2 DEF Handled, Replied
      <4>3. QED
        BY <1>4, <4>1, <4>2
    <3>5. Shaped(u, r)'
      <4>1. SUFFICES ASSUME fails' = 0 PROVE Shaped(u, r)'
        BY DEF Shaped
      <4>2. out'[u] = <<g>>
        BY <1>7, <3>3, <4>1
      <4>3. DOMAIN out'[u] = {1} /\ out'[u][1] = g /\ out'[u] # <<>>
        BY <4>2
      <4>4. replying' = u
        BY <1>1, <1>4
      <4>5. QED
        BY <1>6, <4>3, <4>4, Zenon DEF Shaped
    <3>6. QED
      BY <2>2, <3>2, <3>4, <3>5 DEF Handled
  <2>3. QED
    BY <2>1, <2>2
<1>9. Http2Live'
  <2>1. Keeps
    BY <1>8 DEF Keeps
  <2>2. QED
    BY <1>4, <2>1, InputType, LiveKeeps DEF Input
<1>10. Http2Types'
  BY <1>1, <1>4, <1>7 DEF Http2Types, settingsVars
<1>11. QED
  BY <1>9, <1>10

(* The shape of a reply after one more DATA frame.                         *)
HeadersFirst(fs) ==
  \A i \in DOMAIN fs : (fs[i].type = "HEADERS" <=> i = 1) /\ (Ends(fs[i]) => i = Len(fs))

(* No END_STREAM yet.                                                      *)
Unended(fs) == \A i \in DOMAIN fs : ~Ends(fs[i])

(* A DATA frame behind HEADERS.                                            *)
LEMMA OneMoreFrame ==
  ASSUME NEW fs \in Seq(FramesOut), fs # <<>>, HeadersFirst(fs), Unended(fs),
         NEW g \in FramesOut, g.type = "DATA"
  PROVE  /\ Append(fs, g) # <<>> /\ HeadersFirst(Append(fs, g))
         /\ Ends(g) => \E i \in DOMAIN Append(fs, g) : Ends(Append(fs, g)[i])
         /\ ~Ends(g) => Unended(Append(fs, g))
<1>1. PICK n \in Nat : n = Len(fs) /\ DOMAIN fs = 1 .. n /\ n # 0
  BY LenProperties, EmptySeq
<1>2. PICK gs : gs = Append(fs, g)
  OBVIOUS
<1>3. /\ gs \in Seq(FramesOut) /\ Len(gs) = n + 1 /\ gs[n + 1] = g
      /\ \A i \in 1 .. n : gs[i] = fs[i]
  BY <1>1, <1>2, AppendProperties
<1>4. DOMAIN gs = 1 .. n + 1
  BY <1>3, LenProperties
<1>5. ASSUME NEW i \in DOMAIN gs
      PROVE  /\ gs[i].type = "HEADERS" <=> i = 1
             /\ Ends(gs[i]) => i = Len(gs)
             /\ ~Ends(g) => ~Ends(gs[i])
  <2>1. CASE i = n + 1
    <3>1. i # 1 /\ gs[i] = g /\ i = Len(gs)
      BY <1>1, <1>3, <2>1
    <3>2. gs[i].type # "HEADERS"
      BY <3>1
    <3>3. QED
      BY <3>1, <3>2, Zenon
  <2>2. CASE i # n + 1
    <3>1. i \in 1 .. n
      BY <1>4, <2>2
    <3>2. gs[i] = fs[i] /\ i \in DOMAIN fs
      BY <1>1, <1>3, <3>1
    <3>3. QED
      BY <3>2, Zenon DEF HeadersFirst, Unended
  <2>3. QED
    BY <2>1, <2>2
<1>6. gs # <<>> /\ n + 1 \in DOMAIN gs
  BY <1>3, <1>4, EmptySeq
<1>7. QED
  BY <1>2, <1>3, <1>5, <1>6, Zenon DEF HeadersFirst, Unended

(* How stream u goes on after frame g.                                     *)
GoesOn(u, g) ==
  /\ out'[u] = Append(out[u], g)
  /\ replying' = u => ~Ends(g)
  /\ replying' # u => Ends(g)

(* The shape of a reply one DATA frame longer.                             *)
LEMMA ShapedAppend ==
  ASSUME Http2Types, NEW u \in StreamIds, NEW r, Shaped(u, r), Replying(u), SendData, fails = 0,
         NEW g \in FramesOut, g.type = "DATA", GoesOn(u, g)
  PROVE  Shaped(u, r)'
<1>1. PICK fs : fs = out[u]
  OBVIOUS
<1>2. fs # <<>> /\ HeadersFirst(fs) /\ Unended(fs)
  <2>1. pc = "send data"
    BY DEF SendData
  <2>2. QED
    BY <1>1, <2>1, Zenon DEF Shaped, Replying, HeadersFirst, Unended
<1>3. fs \in Seq(FramesOut)
  BY <1>1 DEF Http2Types
<1>4. /\ Append(fs, g) # <<>> /\ HeadersFirst(Append(fs, g))
      /\ Ends(g) => \E i \in DOMAIN Append(fs, g) : Ends(Append(fs, g)[i])
      /\ ~Ends(g) => Unended(Append(fs, g))
  BY <1>2, <1>3, OneMoreFrame
<1>5. out'[u] = Append(fs, g)
  BY <1>1 DEF GoesOn
<1>6. QED
  BY <1>4, <1>5, Zenon DEF Shaped, HeadersFirst, Unended, GoesOn

(* A DATA frame of a reply, written whole, in part or not.                 *)
LEMMA SendDataKeeps ==
  ASSUME Http2Assumption, Http2Types, Http2Live, SendData
  PROVE  Http2Types' /\ Http2Live'
<1>1. PICK u \in StreamIds : u = replying
  BY DEF Http2Types, SendData
<1>2. PICK reply, len : reply = ReplyBody(u) /\ len = Len(reply)
  OBVIOUS
<1>3. /\ pc = "send data"
      /\ UNCHANGED <<client, wire, tls, plaintext, streams, settingsVars>>
  BY DEF SendData, clientVars
<1>4. reply \in Seq(Bytes) /\ len \in Nat /\ offset \in Nat /\ offset < len
  <2>1. PICK h : History(u, Input, client[u], h) /\ Handled(u, h[1])
    BY DEF Http2Live
  <2>2. h[1] \in Records
    BY <2>1, InputType, LenProperties DEF History
  <2>3. QED
    BY <1>1, <1>2, <2>1, <2>2, ReplyingTo DEF Replying
<1>5. PICK to : to = IF offset + MaxFrameSize < len THEN offset + MaxFrameSize ELSE len
  OBVIOUS
<1>6. to \in Nat /\ offset < to /\ to <= len
  BY <1>4, <1>5, Http2Assumption DEF Http2Assumption
<1>7. PICK f : f = Frame("DATA", u, IF LastChunk(to, len) THEN {"END_STREAM"} ELSE {},
                         SubSeq(reply, offset + 1, to), 0)
  OBVIOUS
<1>8. /\ f \in FramesSent /\ f.stream = u /\ f.data = SubSeq(reply, offset + 1, to) /\ f.type = "DATA"
      /\ "END_STREAM" \in f.flags <=> to = len
  <2>1. SubSeq(reply, offset + 1, to) \in Seq(Bytes)
    BY <1>2, <1>4, <1>6, SubSeqProperties
  <2>2. /\ f.stream = u /\ f.data = SubSeq(reply, offset + 1, to) /\ f.type = "DATA" /\ f.val = 0
        /\ f.flags = IF to = len THEN {"END_STREAM"} ELSE {}
        /\ f = [type |-> "DATA", stream |-> u, flags |-> f.flags, data |-> f.data, val |-> 0]
    BY <1>7 DEF Frame, LastChunk
  <2>3. QED
    <3>1. f.flags \in SUBSET {"ACK", "END_HEADERS", "END_STREAM"} /\ ("END_STREAM" \in f.flags <=> to = len)
      BY <2>2
    <3>2. f \in FramesSent
      <4>1. PICK fl, d : fl = f.flags /\ d = f.data
        OBVIOUS
      <4>2. f = [type |-> "DATA", stream |-> u, flags |-> fl, data |-> d, val |-> 0]
        BY <2>2, <4>1
      <4>3. fl \in SUBSET {"ACK", "END_HEADERS", "END_STREAM"} /\ d \in Seq(Bytes)
        BY <2>1, <2>2, <3>1, <4>1
      <4>4. QED
        BY <4>2, <4>3 DEF FramesSent
    <3>3. QED
      BY <2>2, <3>1, <3>2
<1>9. \/ /\ Written(f)
         /\ IF to < len THEN offset' = to /\ pc' = pc /\ replying' = replying
                        ELSE offset' = 0 /\ pc' = "loop" /\ replying' = 0
      \/ /\ WriteFails(f)
         /\ offset' = 0 /\ pc' = "loop" /\ replying' = 0
  BY <1>1, <1>2, <1>5, <1>7 DEF SendData
<1>10. PICK g, b : g = OnStream(f, f.data, TRUE) /\ b = OnStream(f, <<>>, FALSE)
  OBVIOUS
<1>11. /\ out' \in [StreamIds \cup {0} -> Seq(FramesOut)]
       /\ \A t \in StreamIds : t # u => out'[t] = out[t]
       /\ fails' \in 0 .. MaxFails /\ (fails' = 0 => fails = 0 /\ Written(f))
       /\ g \in FramesOut /\ b \in FramesOut
       /\ Written(f) => out'[u] = Append(out[u], g)
       /\ WriteFails(f) => out'[u] = out[u] \/ out'[u] = Append(out[u], b)
  BY <1>8, <1>9, <1>10, Writing
<1>12. /\ g.data = SubSeq(reply, offset + 1, to) /\ g.type = "DATA" /\ (Ends(g) <=> to = len)
       /\ b.data = <<>> /\ ~Ends(b)
  BY <1>8, <1>10 DEF OnStream, Ends
<1>13. ASSUME NEW s \in StreamIds, NEW r \in Records, Handled(s, r)
       PROVE  Handled(s, r)'
  <2>1. CASE s # u
    <3>1. Untouched(s)
      BY <1>1, <1>3, <1>9, <1>11, <2>1, Http2Assumption DEF Http2Assumption, Untouched
    <3>2. QED
      BY <1>13, <3>1, Bystander
  <2>2. CASE s = u
    <3>1. Handled(u, r) /\ Replied(u, r) /\ Shaped(u, r) /\ Replying(u)
      BY <1>1, <1>13, <2>2 DEF Handled, Replying
    <3>2. Stored(u, r)'
      BY <1>3, <3>1 DEF Handled, Stored
    <3>3. reply = ReplyTo(u, r.body) /\ u # 0
      BY <1>1, <1>2, <3>1, ReplyingTo, Http2Assumption DEF Http2Assumption
    <3>4. CASE Written(f) /\ IF to < len THEN offset' = to /\ pc' = pc /\ replying' = replying
                                         ELSE offset' = 0 /\ pc' = "loop" /\ replying' = 0
      <4>1. replying' = u => offset' = to /\ to < len
        BY <3>3, <3>4
      <4>2. Carries(u, r, g, to)
        <5>1. /\ offset <= to /\ pc' # "send headers" /\ out'[u] = Append(out[u], g)
          <6>1. offset <= to
            BY <1>4, <1>6
          <6>2. pc' \in {"send data", "loop"}
            BY <1>3, <3>4, Zenon
          <6>3. out'[u] = Append(out[u], g)
            BY <1>11, <3>4, Zenon
          <6>4. QED
            BY <6>1, <6>2, <6>3
        <5>2. QED
          BY <1>2, <1>6, <1>11, <1>12, <3>3, <4>1, <5>1, Zenon DEF Carries
      <4>3. Replied(u, r)'
        BY <3>1, <4>2, RepliedAppend
      <4>4. Shaped(u, r)'
        <5>1. SUFFICES ASSUME fails' = 0 PROVE Shaped(u, r)'
          BY DEF Shaped
        <5>2. fails = 0 /\ out'[u] = Append(out[u], g)
          BY <1>11, <5>1
        <5>3. replying' = u => ~Ends(g)
          BY <1>4, <1>6, <1>12, <4>1
        <5>4. replying' # u => Ends(g)
          BY <1>1, <1>4, <1>6, <1>12, <3>4
        <5>5. GoesOn(u, g)
          BY <5>2, <5>3, <5>4, Zenon DEF GoesOn
        <5>6. QED
          BY <1>11, <1>12, <3>1, <5>2, <5>5, ShapedAppend
      <4>5. QED
        BY <2>2, <3>2, <4>3, <4>4 DEF Handled
    <3>5. CASE WriteFails(f) /\ offset' = 0 /\ pc' = "loop" /\ replying' = 0
      <4>1. fails' # 0
        <5>1. fails' = fails + 1
          BY <3>5 DEF WriteFails
        <5>2. fails \in Nat
          <6>1. fails \in 0 .. MaxFails
            BY DEF Http2Types
          <6>2. QED
            BY <6>1
        <5>3. QED
          BY <5>1, <5>2
      <4>2. Shaped(u, r)'
        BY <4>1 DEF Shaped
      <4>3. Replied(u, r)'
        <5>1. CASE out'[u] = out[u]
          BY <3>1, <3>3, <3>5, <5>1 DEF Replied, Replying
        <5>2. CASE out'[u] = Append(out[u], b)
          <6>1. b.data = SubSeq(reply, offset + 1, offset) /\ offset <= offset /\ offset <= len
            BY <1>2, <1>4, <1>12, EmptyPart
          <6>2. replying' # u /\ pc' # "send headers"
            BY <3>3, <3>5
          <6>3. Carries(u, r, b, offset)
            BY <1>2, <1>4, <1>11, <1>12, <3>3, <5>2, <6>1, <6>2, Zenon DEF Carries
          <6>4. QED
            BY <3>1, <6>3, RepliedAppend
        <5>3. QED
          BY <1>11, <3>5, <5>1, <5>2
      <4>4. QED
        BY <2>2, <3>2, <4>2, <4>3 DEF Handled
    <3>6. QED
      BY <1>9, <3>4, <3>5
  <2>3. QED
    BY <2>1, <2>2
<1>14. Http2Live'
  <2>1. Keeps
    BY <1>13 DEF Keeps
  <2>2. QED
    BY <1>3, <2>1, InputType, LiveKeeps DEF Input
<1>15. Http2Types'
  <2>1. offset' \in Nat /\ replying' \in {0, u} /\ pc' \in {"send data", "loop"}
        /\ (replying' # 0 <=> pc' = "send data") /\ (replying' = 0 => offset' = 0)
    <3>1. CASE to < len /\ offset' = to /\ pc' = pc /\ replying' = replying
      BY <1>1, <1>3, <1>6, <3>1, Http2Assumption DEF Http2Assumption
    <3>2. CASE offset' = 0 /\ pc' = "loop" /\ replying' = 0
      BY <3>2
    <3>3. QED
      BY <1>9, <3>1, <3>2, Zenon
  <2>2. tls # "closed"
    BY <1>3 DEF Http2Types
  <2>3. QED
    BY <1>3, <1>11, <2>1, <2>2 DEF Http2Types, settingsVars
<1>16. QED
  BY <1>14, <1>15

-------------------------------------------------------------------------------
(* While the handler lives its records give what is promised of out.       *)
LEMMA LiveGives ==
  ASSUME Http2Assumption, Http2Types, Http2Live
  PROVE  EchoesItsOwn /\ RepliesWellFormed
<1>1. ASSUME NEW s \in StreamIds
      PROVE  /\ out[s] # <<>> => client[s].ended
             /\ \E cut \in [0 .. Len(out[s]) -> 0 .. Len(Expected(s))] :
                  CutsUp(out[s], Expected(s), cut)
             /\ fails = 0 =>
                  \A i \in DOMAIN out[s] :
                    /\ out[s][i].type = "HEADERS" <=> i = 1
                    /\ Ends(out[s][i]) => i = Len(out[s])
  <2>1. PICK h : History(s, Input, client[s], h) /\ Handled(s, h[1])
    BY DEF Http2Live
  <2>2. PICK r \in Records : r = h[1]
    BY <2>1, InputType, LenProperties DEF History
  <2>3. r.ended => client[s].ended /\ client[s].body = r.body
    BY <2>1, <2>2, InputType, LenProperties DEF History
  <2>4. Replied(s, r) /\ Shaped(s, r)
    BY <2>1, <2>2 DEF Handled
  <2>5. out[s] # <<>> => client[s].ended
    BY <2>3, <2>4 DEF Replied
  <2>6. \E cut \in [0 .. Len(out[s]) -> 0 .. Len(Expected(s))] :
          CutsUp(out[s], Expected(s), cut)
    <3>1. CASE out[s] # <<>>
      <4>1. Expected(s) = ReplyTo(s, r.body)
        BY <2>3, <2>4, <3>1 DEF Replied, Expected
      <4>2. QED
        BY <2>4, <4>1 DEF Replied
    <3>2. CASE out[s] = <<>>
      <4>1. PICK n : n = client[s].body
        OBVIOUS
      <4>2. n \in Nat
        <5>1. client[s] \in Records
          BY DEF Http2Types
        <5>2. QED
          BY <4>1, <5>1 DEF Records
      <4>3. Len(Expected(s)) \in Nat
        BY <4>1, <4>2, ReplyLength DEF Expected
      <4>4. QED
        BY <3>2, <4>3, NothingCut
    <3>3. QED
      BY <3>1, <3>2
  <2>7. QED
    BY <2>4, <2>5, <2>6 DEF Shaped
<1>2. QED
  BY <1>1, Zenon DEF EchoesItsOwn, RepliesWellFormed

(* close() leaves what was written.                                        *)
LEMMA CloseKeeps ==
  ASSUME Http2Assumption, Http2Types, Http2Live, Close
  PROVE  Http2Types' /\ tls' = "closed" /\ EchoesItsOwn' /\ RepliesWellFormed'
<1>1. EchoesItsOwn /\ RepliesWellFormed
  BY LiveGives
<1>2. client' = client /\ out' = out /\ fails' = fails /\ tls' = "closed"
  BY DEF Close, clientVars
<1>3. EchoesItsOwn' /\ RepliesWellFormed'
  BY <1>1, <1>2 DEF EchoesItsOwn, RepliesWellFormed, Expected
<1>4. Http2Types'
  <2>1. DOMAIN streams' = {}
    BY DEF Close, NoStreams
  <2>2. QED
    BY <2>1 DEF Http2Types, Close, clientVars, replyVars
<1>5. QED
  BY <1>2, <1>3, <1>4

(* Initially there is no stream.                                           *)
LEMMA Http2Start ==
  ASSUME Http2Assumption, Init
  PROVE  Http2Inv
<1>1. PICK c : c = [phase |-> "idle", ended |-> FALSE, body |-> 0, good |-> TRUE]
  OBVIOUS
<1>2. c \in Records /\ c.phase = "idle"
  BY <1>1, Http2Assumption DEF Records, Http2Assumption
<1>3. client = [s \in StreamIds |-> c] /\ plaintext = <<>> /\ wire = <<>>
  BY <1>1 DEF Init
<1>4. DOMAIN streams = {}
  BY DEF Init, NoStreams
<1>5. Http2Types
  BY <1>2, <1>3, <1>4, EmptySeq, Http2Assumption DEF Http2Types, Init, Http2Assumption
<1>6. Http2Live
  <2>1. SUFFICES ASSUME NEW s \in StreamIds
                 PROVE  \E h : History(s, Input, client[s], h) /\ Handled(s, h[1])
    BY DEF Http2Live
  <2>2. Input = <<>> /\ client[s] = c
    BY <1>3, ConcatEmptySeq, EmptySeq DEF Input
  <2>3. PICK h : h = [i \in 1 .. 1 |-> c]
    OBVIOUS
  <2>4. History(s, Input, client[s], h) /\ h[1] = c
    <3>1. History(s, <<>>, c, [i \in 1 .. 1 |-> c])
      BY <1>2, HistoryEmpty
    <3>2. QED
      BY <2>2, <2>3, <3>1
  <2>5. out[s] = <<>> /\ replying # s /\ DOMAIN out[s] = {} /\ s \notin DOMAIN streams
    BY <1>4, Http2Assumption DEF Init, Http2Assumption
  <2>6. Len(ReplyTo(s, c.body)) \in Nat
    BY <1>2, ReplyLength DEF Records
  <2>7. Stored(s, c)
    BY <1>2, <2>5 DEF Stored
  <2>8. Replied(s, c)
    BY <2>5, <2>6, NothingCut DEF Replied
  <2>9. Shaped(s, c)
    BY <1>2, <2>5 DEF Shaped
  <2>10. QED
    BY <2>4, <2>7, <2>8, <2>9 DEF Handled
<1>7. QED
  BY <1>5, <1>6 DEF Http2Inv, Init

(* Every step keeps the invariant.                                         *)
LEMMA Http2Step ==
  ASSUME Http2Assumption, Http2Inv, [Next]_vars
  PROVE  Http2Inv'
<1>1. CASE UNCHANGED vars
  <2>1. /\ UNCHANGED <<client, wire, tls, pc, plaintext, streams, settings_ack_sent,
                       settings_ack_received, replying, offset, out, fails>>
    BY <1>1 DEF vars, clientVars, settingsVars, replyVars
  <2>2. Http2Types'
    BY <2>1 DEF Http2Inv, Http2Types
  <2>3. Http2Live' = Http2Live /\ EchoesItsOwn' = EchoesItsOwn /\ RepliesWellFormed' = RepliesWellFormed
    BY <2>1 DEF Http2Live, Input, Handled, Stored, Replied, Shaped, EchoesItsOwn, RepliesWellFormed, Expected
  <2>4. QED
    BY <2>1, <2>2, <2>3 DEF Http2Inv
<1>2. CASE Next
  <2>1. tls # "closed" /\ Http2Types /\ Http2Live
    <3>1. Http2Types /\ (tls = "closed" => pc = "idle")
      BY DEF Http2Inv, Http2Types
    <3>2. tls # "closed"
      BY <1>2, <3>1 DEF Next, ClientStep, ClientHeaders, ClientContinuation, ClientData, ClientReset,
         ClientStray, ClientOther, Transmit, Handshake, OnRead, NeedMore, HandleSettings, HandleHeaders,
         HandleData, HandleContinuation, HandleWindowUpdate, HandleRstStream, HandlePing, HandleGoaway,
         Reads, SendHeaders, SendData, Close
    <3>3. QED
      BY <3>1, <3>2 DEF Http2Inv
  <2>2. CASE Close
    BY <2>1, <2>2, CloseKeeps DEF Http2Inv
  <2>3. CASE ~Close
    <3>1. Http2Types' /\ Http2Live'
      <4>1. CASE ClientStep
        BY <2>1, <4>1, ClientHeadersKeeps, ClientContinuationKeeps, ClientDataKeeps, ClientResetKeeps,
           ClientStrayKeeps, ClientOtherKeeps DEF ClientStep
      <4>2. CASE ~ClientStep
        BY <1>2, <2>1, <2>3, <4>2, HandshakeKeeps, OnReadKeeps, NeedMoreKeeps, HandleSettingsKeeps,
           HandleHeadersKeeps, HandleDataKeeps, HandleContinuationKeeps, HandleWindowUpdateKeeps,
           HandleRstStreamKeeps, HandlePingKeeps, HandleGoawayKeeps, SendHeadersKeeps, SendDataKeeps DEF Next
      <4>3. QED
        BY <4>1, <4>2
    <3>2. tls' # "closed"
      BY <1>2, <2>1, <2>3 DEF Next, ClientStep, ClientHeaders, ClientContinuation, ClientData, ClientReset,
         ClientStray, ClientOther, Transmit, Handshake, OnRead, NeedMore, HandleSettings, HandleHeaders,
         HandleData, HandleContinuation, HandleWindowUpdate, HandleRstStream, HandlePing, HandleGoaway,
         Reads, SendHeaders, SendData
    <3>3. QED
      BY <3>1, <3>2 DEF Http2Inv
  <2>4. QED
    BY <2>2, <2>3
<1>3. QED
  BY <1>1, <1>2

(* The inductive invariant of the HTTP/2 handler, for any streams, frame   *)
(* sizes and windows, any interleaving of streams and any failed writes    *)
(* (on_read(), the frame handlers, send_response()).                       *)
THEOREM Http2Invariant == Spec => []Http2Inv
<1>1. Init => Http2Inv
  BY Http2Start, Http2Assumption
<1>2. Http2Inv /\ [Next]_vars => Http2Inv'
  BY Http2Step, Http2Assumption
<1>3. QED
  BY <1>1, <1>2, PTL DEF Spec

(* The record of a stream.                                                 *)
LEMMA RecordOf ==
  ASSUME Http2Inv, tls # "closed", NEW s \in StreamIds
  PROVE  \E h : /\ History(s, Input, client[s], h)
                /\ h[1] \in Records /\ Handled(s, h[1])
<1>1. Http2Types /\ Http2Live
  BY DEF Http2Inv
<1>2. PICK h : History(s, Input, client[s], h) /\ Handled(s, h[1])
  BY <1>1 DEF Http2Live
<1>3. h[1] \in Records
  BY <1>1, <1>2, InputType, LenProperties DEF History
<1>4. QED
  BY <1>2, <1>3

(* The HTTP/2 handler is type correct: no window exceeds its limit and no  *)
(* reply runs past the longest body.                                       *)
THEOREM Http2TypeCorrect == Spec => []TypeOK
<1>1. Http2Inv => TypeOK
  <2>1. SUFFICES ASSUME Http2Inv PROVE TypeOK
    OBVIOUS
  <2>2. Http2Types
    BY <2>1 DEF Http2Inv
  <2>3. \A s \in DOMAIN out : \A i \in DOMAIN out[s] : out[s][i].data \in Seq(Bytes)
    <3>1. SUFFICES ASSUME NEW s \in DOMAIN out, NEW i \in DOMAIN out[s]
                   PROVE  out[s][i].data \in Seq(Bytes)
      OBVIOUS
    <3>2. out[s] \in Seq(FramesOut)
      BY <2>2, <3>1 DEF Http2Types
    <3>3. out[s][i] \in FramesOut
      BY <3>1, <3>2, ElementOfSeq, LenProperties
    <3>4. QED
      BY <3>3 DEF FramesOut
  <2>4. replying \in DOMAIN streams \cup {0} /\ offset \in 0 .. MaxBody
    <3>1. CASE replying = 0
      <4>1. offset = 0
        BY <2>2, <3>1 DEF Http2Types
      <4>2. QED
        BY <3>1, <4>1, Http2Assumption DEF Http2Assumption
    <3>2. CASE replying # 0
      <4>1. PICK u \in StreamIds : Replying(u)
        BY <2>2, <3>2 DEF Http2Types, Replying
      <4>2. tls # "closed"
        BY <2>2, <3>2 DEF Http2Types
      <4>3. PICK h : h[1] \in Records /\ Handled(u, h[1])
        BY <2>1, <4>2, RecordOf
      <4>4. PICK r \in Records : r = h[1] /\ Handled(u, r)
        BY <4>3
      <4>5. /\ u \in DOMAIN streams /\ offset \in Nat
            /\ Len(ReplyBody(u)) \in Nat /\ offset < Len(ReplyBody(u))
            /\ Len(ReplyBody(u)) = IF r.body = 0 THEN 1 ELSE r.body
        BY <2>2, <4>1, <4>4, ReplyingTo, Http2Assumption
      <4>6. r.body \in 0 .. MaxBody
        BY DEF Records
      <4>7. offset \in 0 .. MaxBody
        BY <4>5, <4>6, Http2Assumption DEF Http2Assumption
      <4>8. QED
        BY <4>1, <4>5, <4>7 DEF Replying
    <3>3. QED
      BY <3>1, <3>2
  <2>5. QED
    BY <2>2, <2>3, <2>4 DEF Http2Types, TypeOK
<1>2. QED
  BY <1>1, Http2Invariant, PTL

(* Http2Handler writes on a stream only when its request is complete, and  *)
(* only the next bytes of that request's own body, in DATA frames of any   *)
(* size, with streams interleaved and writes failing.                      *)
THEOREM EchoesItsOwnAlways == Spec => []EchoesItsOwn
<1>1. Http2Inv => EchoesItsOwn
  BY LiveGives, Http2Assumption DEF Http2Inv
<1>2. QED
  BY <1>1, Http2Invariant, PTL

(* Http2Handler writes one HEADERS frame first and one END_STREAM last,    *)
(* and answers no request a second time, as long as no write fails.        *)
THEOREM RepliesWellFormedAlways == Spec => []RepliesWellFormed
<1>1. Http2Inv => RepliesWellFormed
  BY LiveGives, Http2Assumption DEF Http2Inv
<1>2. QED
  BY <1>1, Http2Invariant, PTL

(* Http2Handler has answered every complete and well-formed request to its *)
(* end when it has handled all its input, provided no request ends in the  *)
(* middle of a block of headers (END_STREAM on HEADERS that CONTINUATION   *)
(* follows, SplitHeads), which handle_continuation_frame() does not        *)
(* answer.                                                                 *)
THEOREM AnsweredWhenEndedAlways ==
  ASSUME ~SplitHeads
  PROVE  Spec => []AnsweredWhenEnded
<1>1. Http2Inv => AnsweredWhenEnded
  <2>1. SUFFICES ASSUME Http2Inv, tls = "open", pc = "idle", wire = <<>>, plaintext = <<>>, fails = 0,
                        NEW s \in StreamIds, client[s].phase = "done", client[s].good
                 PROVE  \E i \in DOMAIN out[s] : Ends(out[s][i])
    BY DEF AnsweredWhenEnded
  <2>2. Http2Types /\ replying = 0 /\ s # 0
    BY <2>1, Http2Assumption DEF Http2Inv, Http2Types, Http2Assumption
  <2>3. PICK h : History(s, Input, client[s], h) /\ Handled(s, h[1])
    BY <2>1, RecordOf
  <2>4. Input = <<>>
    BY <2>1, ConcatEmptySeq, EmptySeq DEF Input
  <2>5. h[1] = client[s]
    BY <2>3, <2>4 DEF History
  <2>6. QED
    BY <2>1, <2>2, <2>3, <2>5 DEF Handled, Shaped
<1>2. QED
  BY <1>1, Http2Invariant, PTL

===============================================================================
