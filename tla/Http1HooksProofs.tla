--------------------------- MODULE Http1HooksProofs ----------------------------
(***************************************************************************)
(* HTTP/1.1 on a connection, and the two extension points of request       *)
(* processing: three components that share no state, each with an          *)
(* invariant of its own.                                                   *)
(*                                                                         *)
(* The two extension points of request processing.                         *)
(*                                                                         *)
(* Callback.  The count of a strategy is the number of references to it,   *)
(* for any number of threads and ports.  The map gives each strategy to    *)
(* one port at most (OnePortEach), because a registration makes a new one: *)
(* so dropping a port or the whole map takes one reference from each       *)
(* strategy it names, which is what Release does.  The references are      *)
(* finitely many at any time (Finite), whatever Threads and Ports are.     *)
(*                                                                         *)
(* DebugChain.  Names and objects are each in the vector at most once, and *)
(* the vector is in order whenever sorted_ says so (Table): a registration *)
(* clears sorted_, an erase() keeps the order of the rest, and a sort      *)
(* leaves a permutation, because an ascending vector repeats no handler    *)
(* and as many places as there are handlers then leave none out.  So a     *)
(* pass has called exactly the handlers before its place (Passing), and an *)
(* error code set during a request was set behind that place, where the    *)
(* handler that disconnects cannot come any more (Contexts).  While a pass *)
(* sorts there is no other (Sorting): this is what FirstAlone asks of the  *)
(* callers, and where every theorem about the chain needs it.              *)
(*                                                                         *)
(* Http1Handler.  Let T be all the client has sent; request k is in it     *)
(* from place at[k] on.  The handler has taken the first d units of T, and *)
(* what is buffered or on its way is the rest (Tracks): so which request a *)
(* unit belongs to is known from its place, although the handler never     *)
(* looks.  Where the handler is in request c, the first not answered,      *)
(* fixes d (Progress): at its beginning, behind its line, behind           *)
(* header_count of its headers, behind Len(body) bytes of its body, or at  *)
(* its end.  A reply needs c at its end, and the beginning of c + 1 is the *)
(* end of c, so no byte is ever skipped or shared.  A refusal needs a line *)
(* of c that no well-formed request has, since the headers stored are      *)
(* exactly those of c read so far (HeadersRead).  All this ends with the   *)
(* first refusal, which is why nothing more is claimed in ERROR.           *)
(*                                                                         *)
(* A read that ends within a head would break it: parse_headers() starts   *)
(* afresh with headers already taken from the buffer.  WholeHeads rules it *)
(* out and every theorem about the handler assumes it; then a request      *)
(* whose line is buffered has its whole head buffered (WholeHead).         *)
(***************************************************************************)
EXTENDS Http1Handler, DebugChain, Callback, FiniteSetTheorems, SequenceTheorems, TLAPS

(* The ports, and the running invocations, that refer to strategy s.       *)
Entries(s) == {p \in DOMAIN callback_map : callback_map[p] = s}
Holders(s) == {t \in Threads : held[t] = s}
Holding == {t \in Threads : held[t] # NoStrategy}

(* The types of the registry.                                              *)
CallbackTypes ==
  /\ made \in 0 .. MaxStrategies
  /\ DOMAIN callback_map \subseteq Ports
  /\ \A p \in DOMAIN callback_map : callback_map[p] \in 1 .. made
  /\ refs \in [Strategies -> Nat]
  /\ alive \subseteq Strategies
  /\ held \in [Threads -> 0 .. made]

(* No strategy is registered under two ports.                              *)
OnePortEach ==
  \A p, q \in DOMAIN callback_map : callback_map[p] = callback_map[q] => p = q

(* References can be counted.                                              *)
Finite == IsFiniteSet(DOMAIN callback_map) /\ IsFiniteSet(Holding)

(* The inductive invariant of the registry.                                *)
CallbackInv == CallbackTypes /\ OnePortEach /\ Finite /\ AliveWhileReferenced

-------------------------------------------------------------------------------
(* The number of references to s.                                          *)
References(s) == Cardinality(Entries(s)) + Cardinality(Holders(s))

(* The references to a strategy that finitely many can have.               *)
LEMMA CountOfTwo ==
  ASSUME NEW E, NEW H, IsFiniteSet(E), IsFiniteSet(H)
  PROVE  /\ Cardinality(E) \in Nat /\ Cardinality(H) \in Nat
         /\ Cardinality(E) + Cardinality(H) = 0 <=> E = {} /\ H = {}
<1>1. Cardinality(E) \in Nat /\ Cardinality(H) \in Nat
  BY FS_CardinalityType
<1>2. (Cardinality(E) = 0 <=> E = {}) /\ (Cardinality(H) = 0 <=> H = {})
  BY FS_EmptySet
<1>3. QED
  BY <1>1, <1>2

(* The sets counted are finite.                                            *)
LEMMA ReferencesFinite ==
  ASSUME Finite, NEW s \in Strategies
  PROVE  IsFiniteSet(Entries(s)) /\ IsFiniteSet(Holders(s))
<1>1. Entries(s) \subseteq DOMAIN callback_map
  BY DEF Entries
<1>2. Holders(s) \subseteq Holding
  BY CallbackAssumption DEF Holders, Holding, NoStrategy, Strategies
<1>3. QED
  BY <1>1, <1>2, FS_Subset DEF Finite

(* A registered strategy has one entry.                                    *)
LEMMA EntryOfPort ==
  ASSUME OnePortEach, NEW p \in DOMAIN callback_map
  PROVE  Entries(callback_map[p]) = {p} /\ Cardinality(Entries(callback_map[p])) = 1
<1>1. Entries(callback_map[p]) = {p}
  BY DEF OnePortEach, Entries
<1>2. QED
  BY <1>1, FS_Singleton

(* The property in terms of the number of references.                      *)
LEMMA Counting ==
  ASSUME Finite
  PROVE  AliveWhileReferenced <=>
           \A s \in Strategies : refs[s] = References(s) /\ (s \in alive <=> References(s) # 0)
<1>1. ASSUME NEW s \in Strategies
      PROVE  References(s) # 0 <=> Entries(s) # {} \/ Holders(s) # {}
  BY ReferencesFinite, CountOfTwo DEF References
<1>2. AliveWhileReferenced <=>
        \A s \in Strategies : /\ refs[s] = References(s)
                              /\ s \in alive <=> Entries(s) # {} \/ Holders(s) # {}
  BY DEF AliveWhileReferenced, References, Entries, Holders
<1>3. QED
  BY <1>1, <1>2

(* An empty registry satisfies it.                                         *)
LEMMA CallbackStart == CallbackInit => CallbackInv
<1> SUFFICES ASSUME CallbackInit PROVE CallbackInv
  OBVIOUS
<1> USE DEF CallbackInit
<1>1. DOMAIN callback_map = {}
  OBVIOUS
<1>2. CallbackTypes
  BY <1>1, CallbackAssumption DEF CallbackTypes, NoStrategy
<1>3. OnePortEach
  BY <1>1 DEF OnePortEach
<1>4. Holding = {}
  BY DEF Holding
<1>5. Finite
  BY <1>1, <1>4, FS_EmptySet DEF Finite
<1>6. AliveWhileReferenced
  <2>1. ASSUME NEW s \in Strategies PROVE Entries(s) = {} /\ Holders(s) = {} /\ refs[s] = 0
    BY <1>1, CallbackAssumption DEF Entries, Holders, NoStrategy, Strategies
  <2>2. ASSUME NEW s \in Strategies PROVE References(s) = 0
    <3>1. Cardinality(Entries(s)) = 0 /\ Cardinality(Holders(s)) = 0
      BY <2>1, FS_EmptySet
    <3>2. QED
      BY <3>1 DEF References
  <2>3. QED
    BY <1>5, <2>1, <2>2, Counting
<1>7. QED
  BY <1>2, <1>3, <1>5, <1>6 DEF CallbackInv

(* What there is to show of a step: the parts of the invariant other than  *)
(* the count, and for each strategy how the number of its references,      *)
(* its count and its life have changed.                                    *)
Balanced(s) ==
  \/ refs'[s] = refs[s] /\ References(s)' = References(s) /\ (s \in alive' <=> s \in alive)
  \/ refs'[s] = refs[s] + 1 /\ References(s)' = References(s) + 1 /\ s \in alive'
  \/ /\ refs'[s] = refs[s] - 1 /\ References(s)' = References(s) - 1
     /\ s \in alive' <=> s \in alive /\ refs[s] # 1

(* A step that changes the count of each strategy by as much as its number *)
(* of references keeps AliveWhileReferenced.                               *)
LEMMA StepBalances ==
  ASSUME CallbackInv, CallbackTypes', OnePortEach', Finite', \A s \in Strategies : Balanced(s)
  PROVE  CallbackInv'
<1>1. \A s \in Strategies : refs[s] = References(s) /\ (s \in alive <=> References(s) # 0)
  BY Counting DEF CallbackInv
<1>2. ASSUME NEW s \in Strategies
      PROVE  refs'[s] = References(s)' /\ (s \in alive' <=> References(s)' # 0)
  <2>1. refs[s] \in Nat /\ refs'[s] \in Nat
    BY DEF CallbackInv, CallbackTypes
  <2>2. PICK n \in Nat, k \in Nat : n = refs[s] /\ k = refs'[s]
    BY <2>1
  <2>3. CASE refs'[s] = refs[s] /\ References(s)' = References(s) /\ (s \in alive' <=> s \in alive)
    BY <1>1, <2>3
  <2>4. CASE refs'[s] = refs[s] + 1 /\ References(s)' = References(s) + 1 /\ s \in alive'
    <3>1. k = n + 1 /\ References(s)' = n + 1
      BY <1>1, <2>2, <2>4
    <3>2. References(s)' # 0
      BY <3>1
    <3>3. QED
      BY <2>2, <2>4, <3>1, <3>2
  <2>5. CASE /\ refs'[s] = refs[s] - 1 /\ References(s)' = References(s) - 1
             /\ s \in alive' <=> s \in alive /\ refs[s] # 1
    <3>1. k = n - 1 /\ References(s)' = n - 1 /\ (s \in alive <=> n # 0)
      BY <1>1, <2>2, <2>5
    <3>2. (n # 0 /\ n # 1) <=> n - 1 # 0
      BY <2>2, <3>1
    <3>3. QED
      BY <2>2, <2>5, <3>1, <3>2
  <2>6. QED
    BY <2>3, <2>4, <2>5 DEF Balanced
<1>3. AliveWhileReferenced'
  <2>1. ASSUME NEW s \in Strategies
        PROVE  IsFiniteSet(Entries(s)') /\ IsFiniteSet(Holders(s)')
    <3>1. Entries(s)' \subseteq DOMAIN callback_map'
      BY DEF Entries
    <3>2. Holders(s)' \subseteq Holding'
      BY CallbackAssumption DEF Holders, Holding, NoStrategy, Strategies
    <3>3. QED
      BY <3>1, <3>2, FS_Subset DEF Finite
  <2>2. ASSUME NEW s \in Strategies
        PROVE  References(s)' # 0 <=> Entries(s)' # {} \/ Holders(s)' # {}
    BY <2>1, CountOfTwo DEF References
  <2>3. ASSUME NEW s \in Strategies
        PROVE  /\ refs'[s] = Cardinality(Entries(s)') + Cardinality(Holders(s)')
               /\ s \in alive' <=> Entries(s)' # {} \/ Holders(s)' # {}
    BY <1>2, <2>2 DEF References
  <2>4. QED
    BY <2>3 DEF AliveWhileReferenced, Entries, Holders
<1>4. QED
  BY <1>3 DEF CallbackInv

(* The next strategy is new.                                               *)
LEMMA RegisterKeeps ==
  ASSUME CallbackInv, NEW port \in Ports, RegisterCallback(port)
  PROVE  CallbackInv'
<1>1. /\ made \in 0 .. MaxStrategies /\ DOMAIN callback_map \subseteq Ports
      /\ \A p \in DOMAIN callback_map : callback_map[p] \in 1 .. made
      /\ refs \in [Strategies -> Nat] /\ alive \subseteq Strategies
      /\ held \in [Threads -> 0 .. made]
  BY DEF CallbackInv, CallbackTypes
<1>2. PICK new \in Strategies : new = made + 1 /\ new \notin 0 .. made /\ new # 0
  BY <1>1, CallbackAssumption DEF RegisterCallback, Strategies
<1>3. /\ port \notin DOMAIN callback_map /\ made' = new /\ held' = held
      /\ callback_map' = [p \in DOMAIN callback_map \cup {port} |->
                           IF p = port THEN new ELSE callback_map[p]]
      /\ refs' = [refs EXCEPT ![new] = 1] /\ alive' = alive \cup {new}
  BY <1>2 DEF RegisterCallback
<1>4. /\ DOMAIN callback_map' = DOMAIN callback_map \cup {port}
      /\ callback_map'[port] = new
      /\ \A p \in DOMAIN callback_map : callback_map'[p] = callback_map[p]
  BY <1>3
<1>5. made' \in 0 .. MaxStrategies /\ 0 .. made \subseteq 0 .. made' /\ 1 .. made \subseteq 1 .. made'
  BY <1>1, <1>2, <1>3, CallbackAssumption DEF Strategies
<1>6. new \in 1 .. made'
  BY <1>2, <1>3, CallbackAssumption DEF Strategies
<1>7. CallbackTypes'
  BY <1>1, <1>3, <1>4, <1>5, <1>6 DEF CallbackTypes
<1>8. \A p \in DOMAIN callback_map : callback_map[p] # new
  BY <1>1, <1>2
<1>9. OnePortEach'
  BY <1>4, <1>8 DEF CallbackInv, OnePortEach
<1>10. Finite'
  BY <1>3, <1>4, FS_AddElement DEF CallbackInv, Finite, Holding
<1>11. ASSUME NEW s \in Strategies PROVE Balanced(s)
  <2>1. Holders(s)' = Holders(s)
    BY <1>3 DEF Holders
  <2>2. CASE s # new
    <3>1. Entries(s)' = Entries(s)
      BY <1>3, <1>4, <2>2 DEF Entries
    <3>2. refs'[s] = refs[s] /\ (s \in alive' <=> s \in alive)
      BY <1>1, <1>3, <2>2
    <3>3. QED
      BY <2>1, <3>1, <3>2 DEF Balanced, References
  <2>3. CASE s = new
    <3>1. Entries(s) = {} /\ Entries(s)' = {port}
      BY <1>4, <1>8, <2>3 DEF Entries
    <3>2. Holders(s) = {}
      BY <1>1, <1>2, <2>3 DEF Holders
    <3>3. References(s) = 0 /\ References(s)' = 1
      <4>1. Cardinality(Entries(s)) = 0 /\ Cardinality(Holders(s)) = 0
        BY <3>1, <3>2, FS_EmptySet
      <4>2. Cardinality(Entries(s)') = 1 /\ Cardinality(Holders(s)') = 0
        BY <2>1, <3>1, <4>1, FS_Singleton
      <4>3. QED
        BY <4>1, <4>2 DEF References
    <3>4. refs[s] = 0
      BY <3>3, Counting DEF CallbackInv
    <3>5. refs'[s] = 1 /\ s \in alive'
      BY <1>1, <1>3, <2>3
    <3>6. QED
      BY <3>3, <3>4, <3>5 DEF Balanced
  <2>4. QED
    BY <2>2, <2>3
<1>12. QED
  BY <1>7, <1>9, <1>10, <1>11, StepBalances

(* Release() takes one from the count of each of the strategies.           *)
LEMMA ReleaseTypes ==
  ASSUME CallbackInv, NEW S \in SUBSET Strategies, Release(S), \A s \in S : refs[s] # 0
  PROVE  /\ refs' \in [Strategies -> Nat] /\ alive' \subseteq Strategies
         /\ \A s \in Strategies : s \notin S => refs'[s] = refs[s] /\ (s \in alive' <=> s \in alive)
         /\ \A s \in S : refs'[s] = refs[s] - 1 /\ (s \in alive' <=> s \in alive /\ refs[s] # 1)
<1>1. refs \in [Strategies -> Nat] /\ alive \subseteq Strategies
  BY DEF CallbackInv, CallbackTypes
<1>2. /\ refs' = [s \in Strategies |-> IF s \in S THEN refs[s] - 1 ELSE refs[s]]
      /\ alive' = alive \ {s \in S : refs[s] = 1}
  BY DEF Release
<1>3. \A s \in S : refs[s] - 1 \in Nat
  BY <1>1
<1>4. refs' \in [Strategies -> Nat]
  BY <1>1, <1>2, <1>3
<1>5. QED
  BY <1>1, <1>2, <1>4

(* Whoever has an entry or is held has references.                         *)
LEMMA ReferencedCounts ==
  ASSUME CallbackInv, NEW s \in Strategies, Entries(s) # {} \/ Holders(s) # {}
  PROVE  refs[s] # 0
<1>1. Finite /\ AliveWhileReferenced
  BY DEF CallbackInv
<1>2. References(s) # 0
  BY <1>1, ReferencesFinite, CountOfTwo DEF References
<1>3. QED
  BY <1>1, <1>2, Counting

(* deregister_callback(), clear() and the destructor of the registry: the  *)
(* ports in gone lose their entries.                                       *)
LEMMA DropPorts ==
  ASSUME CallbackInv, NEW gone \in SUBSET DOMAIN callback_map,
         DOMAIN callback_map' = DOMAIN callback_map \ gone,
         \A p \in DOMAIN callback_map' : callback_map'[p] = callback_map[p],
         Release({callback_map[p] : p \in gone}), UNCHANGED <<made, held>>
  PROVE  CallbackInv'
<1> DEFINE S == {callback_map[p] : p \in gone}
<1>1. /\ made \in 0 .. MaxStrategies /\ DOMAIN callback_map \subseteq Ports
      /\ \A p \in DOMAIN callback_map : callback_map[p] \in 1 .. made
      /\ refs \in [Strategies -> Nat] /\ held \in [Threads -> 0 .. made] /\ OnePortEach
  BY DEF CallbackInv, CallbackTypes
<1>2. \A p \in DOMAIN callback_map : callback_map[p] \in Strategies
  BY <1>1, CallbackAssumption DEF Strategies
<1>3. S \in SUBSET Strategies
  BY <1>2
<1>4. \A s \in S : refs[s] # 0
  <2>1. ASSUME NEW p \in gone PROVE refs[callback_map[p]] # 0
    BY <1>1, <1>2, EntryOfPort, ReferencedCounts
  <2>2. QED
    BY <2>1
<1>5. /\ refs' \in [Strategies -> Nat] /\ alive' \subseteq Strategies
      /\ \A s \in Strategies : s \notin S => refs'[s] = refs[s] /\ (s \in alive' <=> s \in alive)
      /\ \A s \in S : refs'[s] = refs[s] - 1 /\ (s \in alive' <=> s \in alive /\ refs[s] # 1)
  BY <1>3, <1>4, ReleaseTypes
<1>6. CallbackTypes'
  BY <1>1, <1>5 DEF CallbackTypes
<1>7. OnePortEach'
  BY <1>1 DEF OnePortEach
<1>8. Finite'
  <2>1. DOMAIN callback_map' \subseteq DOMAIN callback_map /\ Holding' = Holding
    BY DEF Holding
  <2>2. QED
    BY <2>1, FS_Subset DEF CallbackInv, Finite
<1>9. ASSUME NEW s \in Strategies PROVE Balanced(s)
  <2>1. Holders(s)' = Holders(s)
    BY DEF Holders
  <2>2. CASE s \notin S
    <3>1. Entries(s)' = Entries(s)
      BY <2>2 DEF Entries
    <3>2. QED
      BY <1>5, <2>1, <2>2, <3>1 DEF Balanced, References
  <2>3. CASE s \in S
    <3>1. PICK p \in gone : s = callback_map[p]
      BY <2>3
    <3>2. Entries(s) = {p} /\ Cardinality(Entries(s)) = 1
      BY <1>1, <3>1, EntryOfPort
    <3>3. Entries(s)' = {}
      BY <3>1, <3>2 DEF Entries
    <3>4. Cardinality(Entries(s)') = 0
      BY <3>3, FS_EmptySet
    <3>5. IsFiniteSet(Holders(s))
      BY ReferencesFinite DEF CallbackInv
    <3>6. PICK n \in Nat : n = Cardinality(Holders(s))
      BY <3>5, FS_CardinalityType
    <3>7. References(s) = 1 + n /\ References(s)' = 0 + n
      BY <2>1, <3>2, <3>4, <3>6 DEF References
    <3>8. References(s)' = References(s) - 1
      BY <3>7
    <3>9. QED
      BY <1>5, <2>3, <3>8 DEF Balanced
  <2>4. QED
    BY <2>2, <2>3
<1>10. QED
  BY <1>6, <1>7, <1>8, <1>9, StepBalances

(* Deregistration drops the reference of one port.                         *)
LEMMA DeregisterKeeps ==
  ASSUME CallbackInv, NEW port \in Ports, DeregisterCallback(port)
  PROVE  CallbackInv'
<1>1. /\ port \in DOMAIN callback_map /\ Release({callback_map[port]})
      /\ callback_map' = Restrict(callback_map, DOMAIN callback_map \ {port})
      /\ UNCHANGED <<made, held>>
  BY DEF DeregisterCallback
<1>2. {callback_map[p] : p \in {port}} = {callback_map[port]}
  OBVIOUS
<1>3. /\ DOMAIN callback_map' = DOMAIN callback_map \ {port}
      /\ \A p \in DOMAIN callback_map' : callback_map'[p] = callback_map[p]
  BY <1>1 DEF Restrict
<1>4. Release({callback_map[p] : p \in {port}})
  BY <1>1, <1>2
<1>5. {port} \in SUBSET DOMAIN callback_map
  BY <1>1
<1>6. QED
  BY <1>1, <1>3, <1>4, <1>5, DropPorts

(* The destructor of the map drops one reference of each strategy in it.   *)
LEMMA DropAllKeeps ==
  ASSUME CallbackInv, callback_map' = <<>>, Release(Range(callback_map)), UNCHANGED <<made, held>>
  PROVE  CallbackInv'
<1>1. Range(callback_map) = {callback_map[p] : p \in DOMAIN callback_map}
  BY DEF Range
<1>2. DOMAIN callback_map' = DOMAIN callback_map \ DOMAIN callback_map
  OBVIOUS
<1>3. Release({callback_map[p] : p \in DOMAIN callback_map})
  BY <1>1
<1>4. \A p \in DOMAIN callback_map' : callback_map'[p] = callback_map[p]
  BY <1>2
<1>5. DOMAIN callback_map \in SUBSET DOMAIN callback_map
  OBVIOUS
<1>6. QED
  BY <1>2, <1>3, <1>4, <1>5, DropPorts

(* An invocation copies the shared_ptr under the mutex.                    *)
LEMMA LookUpKeeps ==
  ASSUME CallbackInv, NEW t \in Threads, NEW port \in Ports, LookUp(t, port)
  PROVE  CallbackInv'
<1>1. /\ made \in 0 .. MaxStrategies /\ refs \in [Strategies -> Nat]
      /\ \A p \in DOMAIN callback_map : callback_map[p] \in 1 .. made
      /\ held \in [Threads -> 0 .. made] /\ OnePortEach
  BY DEF CallbackInv, CallbackTypes
<1>2. /\ port \in DOMAIN callback_map /\ held[t] = NoStrategy
      /\ UNCHANGED <<callback_map, alive, made>>
  BY DEF LookUp
<1>3. PICK s0 \in Strategies : s0 = callback_map[port] /\ s0 \in 0 .. made /\ s0 # NoStrategy
  BY <1>1, <1>2, CallbackAssumption DEF Strategies, NoStrategy
<1>4. held' = [held EXCEPT ![t] = s0] /\ refs' = [refs EXCEPT ![s0] = @ + 1]
  BY <1>3 DEF LookUp
<1>5. \A u \in Threads : held'[u] = IF u = t THEN s0 ELSE held[u]
  BY <1>1, <1>4
<1>6. CallbackTypes'
  BY <1>1, <1>2, <1>3, <1>4 DEF CallbackInv, CallbackTypes
<1>7. OnePortEach'
  BY <1>1, <1>2 DEF OnePortEach
<1>8. Finite'
  <2>1. Holding' = Holding \cup {t}
    BY <1>3, <1>5 DEF Holding
  <2>2. QED
    BY <1>2, <2>1, FS_AddElement DEF CallbackInv, Finite
<1>9. ASSUME NEW s \in Strategies PROVE Balanced(s)
  <2>1. Entries(s)' = Entries(s)
    BY <1>2 DEF Entries
  <2>2. CASE s # s0
    <3>1. Holders(s)' = Holders(s)
      <4>1. s # NoStrategy
        BY CallbackAssumption DEF Strategies, NoStrategy
      <4>2. QED
        BY <1>2, <1>5, <2>2, <4>1 DEF Holders
    <3>2. refs'[s] = refs[s]
      BY <1>1, <1>4, <2>2
    <3>3. QED
      BY <1>2, <2>1, <3>1, <3>2 DEF Balanced, References
  <2>3. CASE s = s0
    <3>1. Holders(s)' = Holders(s) \cup {t} /\ t \notin Holders(s)
      BY <1>2, <1>3, <1>5, <2>3 DEF Holders
    <3>2. IsFiniteSet(Holders(s)) /\ IsFiniteSet(Entries(s))
      BY ReferencesFinite DEF CallbackInv
    <3>3. Cardinality(Holders(s)') = Cardinality(Holders(s)) + 1
      BY <3>1, <3>2, FS_AddElement
    <3>4. PICK n \in Nat, m \in Nat : n = Cardinality(Holders(s)) /\ m = Cardinality(Entries(s))
      BY <3>2, FS_CardinalityType
    <3>5. References(s) = m + n /\ References(s)' = m + (n + 1)
      BY <2>1, <3>3, <3>4 DEF References
    <3>6. References(s)' = References(s) + 1
      BY <3>5
    <3>7. refs'[s] = refs[s] + 1
      BY <1>1, <1>4, <2>3
    <3>8. s \in alive'
      <4>1. Entries(s) # {}
        BY <1>2, <1>3, <2>3 DEF Entries
      <4>2. s \in alive
        BY <4>1 DEF CallbackInv, AliveWhileReferenced, Entries
      <4>3. QED
        BY <1>2, <4>2
    <3>9. QED
      BY <3>6, <3>7, <3>8 DEF Balanced
  <2>4. QED
    BY <2>2, <2>3
<1>10. QED
  BY <1>6, <1>7, <1>8, <1>9, StepBalances

(* It gives its copy back.                                                 *)
LEMMA ReturnKeeps ==
  ASSUME CallbackInv, NEW t \in Threads, Return(t)
  PROVE  CallbackInv'
<1>1. /\ made \in 0 .. MaxStrategies /\ refs \in [Strategies -> Nat]
      /\ held \in [Threads -> 0 .. made] /\ OnePortEach
  BY DEF CallbackInv, CallbackTypes
<1>2. /\ held[t] # NoStrategy /\ held' = [held EXCEPT ![t] = NoStrategy]
      /\ Release({held[t]}) /\ UNCHANGED <<callback_map, made>>
  BY DEF Return
<1>3. PICK s0 \in Strategies : s0 = held[t] /\ s0 # NoStrategy
  BY <1>1, <1>2, CallbackAssumption DEF Strategies, NoStrategy
<1>4. \A u \in Threads : held'[u] = IF u = t THEN NoStrategy ELSE held[u]
  BY <1>1, <1>2
<1>5. refs[s0] # 0
  <2>1. Holders(s0) # {}
    BY <1>3 DEF Holders
  <2>2. QED
    BY <2>1, ReferencedCounts
<1>6. /\ refs' \in [Strategies -> Nat] /\ alive' \subseteq Strategies
      /\ \A s \in Strategies : s \notin {s0} => refs'[s] = refs[s] /\ (s \in alive' <=> s \in alive)
      /\ \A s \in {s0} : refs'[s] = refs[s] - 1 /\ (s \in alive' <=> s \in alive /\ refs[s] # 1)
  BY <1>2, <1>3, <1>5, ReleaseTypes
<1>7. CallbackTypes'
  <2>1. held' \in [Threads -> 0 .. made]
    BY <1>1, <1>2, CallbackAssumption DEF NoStrategy
  <2>2. QED
    BY <1>1, <1>2, <1>6, <2>1 DEF CallbackInv, CallbackTypes
<1>8. OnePortEach'
  BY <1>1, <1>2 DEF OnePortEach
<1>9. Finite'
  <2>1. Holding' \subseteq Holding
    BY <1>4 DEF Holding
  <2>2. QED
    BY <1>2, <2>1, FS_Subset DEF CallbackInv, Finite
<1>10. ASSUME NEW s \in Strategies PROVE Balanced(s)
  <2>1. Entries(s)' = Entries(s) /\ s # NoStrategy
    BY <1>2, CallbackAssumption DEF Entries, Strategies, NoStrategy
  <2>2. CASE s # s0
    <3>1. Holders(s)' = Holders(s)
      BY <1>3, <1>4, <2>1, <2>2 DEF Holders
    <3>2. QED
      BY <1>6, <2>1, <2>2, <3>1 DEF Balanced, References
  <2>3. CASE s = s0
    <3>1. Holders(s)' = Holders(s) \ {t} /\ t \in Holders(s)
      BY <1>3, <1>4, <2>1, <2>3 DEF Holders
    <3>2. IsFiniteSet(Holders(s)) /\ IsFiniteSet(Entries(s))
      BY ReferencesFinite DEF CallbackInv
    <3>3. Cardinality(Holders(s)') = Cardinality(Holders(s)) - 1
      BY <3>1, <3>2, FS_RemoveElement
    <3>4. PICK n \in Nat, m \in Nat : n = Cardinality(Holders(s)) /\ m = Cardinality(Entries(s))
      BY <3>2, FS_CardinalityType
    <3>5. References(s) = m + n /\ References(s)' = m + (n - 1)
      BY <2>1, <3>3, <3>4 DEF References
    <3>6. References(s)' = References(s) - 1
      BY <3>5
    <3>7. QED
      BY <1>6, <2>3, <3>6 DEF Balanced
  <2>4. QED
    BY <2>2, <2>3
<1>11. QED
  BY <1>7, <1>8, <1>9, <1>10, StepBalances

(* Every step of the registry keeps the invariant.                         *)
LEMMA CallbackStep == CallbackInv /\ [CallbackNext]_callbackVars => CallbackInv'
<1> SUFFICES ASSUME CallbackInv, [CallbackNext]_callbackVars PROVE CallbackInv'
  OBVIOUS
<1>1. CASE \E port \in Ports : RegisterCallback(port) \/ DeregisterCallback(port)
  BY <1>1, RegisterKeeps, DeregisterKeeps
<1>2. CASE ClearCallbacks
  BY <1>2, DropAllKeeps DEF ClearCallbacks
<1>3. CASE DestroyRegistry
  BY <1>3, DropAllKeeps DEF DestroyRegistry
<1>4. CASE \E t \in Threads : Return(t) \/ \E port \in Ports : LookUp(t, port)
  BY <1>4, ReturnKeeps, LookUpKeeps
<1>5. CASE UNCHANGED callbackVars
  <2>1. UNCHANGED <<callback_map, refs, alive, made, held>>
    BY <1>5 DEF callbackVars
  <2>2. CallbackTypes' /\ OnePortEach' /\ Finite'
    BY <2>1 DEF CallbackInv, CallbackTypes, OnePortEach, Finite, Holding
  <2>3. AliveWhileReferenced'
    BY <2>1 DEF CallbackInv, AliveWhileReferenced
  <2>4. QED
    BY <2>2, <2>3 DEF CallbackInv
<1>6. QED
  BY <1>1, <1>2, <1>3, <1>4, <1>5 DEF CallbackNext

(* The registry's invariant: counts, types and one port per strategy.      *)
THEOREM CallbackInvariant == CallbackSpec => []CallbackInv
  BY CallbackStart, CallbackStep, PTL DEF CallbackSpec

(* A strategy lives exactly as long as callback_map_ or a running          *)
(* invocation refers to it, for any number of threads, ports and           *)
(* registrations and whatever is deregistered or destroyed meanwhile.      *)
THEOREM CallbackAliveWhileReferenced == CallbackSpec => []AliveWhileReferenced
<1>1. CallbackInv => AliveWhileReferenced
  BY DEF CallbackInv
<1>2. QED
  BY <1>1, CallbackInvariant, PTL

-------------------------------------------------------------------------------
(* DebugChain: the invariant and its parts.                                *)

(* The names a handler can have.                                           *)
Names == Default \cup Custom

(* The types of the chain.                                                 *)
ChainTypes ==
  /\ created \in 0 .. MaxObjects
  /\ handlers \in Seq([name : Names, obj : 1 .. created])
  /\ sorted \in BOOLEAN /\ exists \in BOOLEAN
  /\ freed \in [1 .. MaxObjects -> Nat]
  /\ wpc \in [Workers -> {"idle", "sort", "run", "done"}]
  /\ phase \in [Workers -> {"request", "response"}]
  /\ config \in [Workers -> Configs]
  /\ ctx \in [Workers -> [status : Nat, disconnect : BOOLEAN]]
  /\ pos \in [Workers -> Nat]
  /\ ran \in [Workers -> Seq(Names)]

(* What the vector holds: names and objects once each, in order if sorted. *)
Table ==
  /\ \A i, j \in 1 .. Len(handlers) :
       handlers[i].name = handlers[j].name \/ handlers[i].obj = handlers[j].obj => i = j
  /\ sorted => Ascending(handlers)

(* An object is destroyed once, when it is no longer in the vector.        *)
Owned ==
  /\ \A o \in 1 .. created : freed[o] = IF Places(o) = {} THEN 1 ELSE 0
  /\ \A o \in created + 1 .. MaxObjects : freed[o] = 0

(* A pass that sorts is alone.                                             *)
Sorting ==
  \A w \in Workers : wpc[w] = "sort" =>
    /\ ~sorted /\ pos[w] = 1 /\ ran[w] = <<>>
    /\ \A v \in Workers \ {w} : wpc[v] \in {"idle", "done"}

(* A pass has called exactly the handlers before its place.                *)
Passing ==
  \A w \in Workers : wpc[w] = "run" =>
    /\ sorted
    /\ pos[w] \in 1 .. Len(handlers) + 1
    /\ Len(ran[w]) = pos[w] - 1
    /\ \A j \in 1 .. pos[w] - 1 : ran[w][j] = handlers[j].name

(* An error status comes from the error code handler, already called.      *)
Contexts ==
  \A w \in Workers : phase[w] = "request" =>
    /\ wpc[w] \in {"idle", "sort"} => ctx[w] = NewContext
    /\ wpc[w] = "run" =>
         /\ ~ctx[w].disconnect
         /\ ctx[w].status # 0 => \E k \in 1 .. pos[w] - 1 : handlers[k].name = ErrorCode
    /\ ctx[w].disconnect => ctx[w].status = 0

(* The inductive invariant of the chain.                                   *)
ChainInv == ChainTypes /\ Table /\ Owned /\ Sorting /\ Passing /\ Contexts

(* What the order of the handlers rests on.                                *)
LEMMA Priorities ==
  /\ Names \subseteq Nat
  /\ \A n \in Names : priority(n) \in Nat
  /\ Disconnect \in Names /\ ErrorCode \in Names
  /\ priority(Disconnect) = 200 /\ priority(ErrorCode) = 400
  /\ Disconnect # ErrorCode /\ Disconnect \notin Custom /\ ErrorCode \notin Custom
<1> USE ChainAssumption DEF Names, Default, Delay, Disconnect, ErrorCode, Log
<1>1. Names \subseteq Nat /\ Disconnect \in Names /\ ErrorCode \in Names
  OBVIOUS
<1>2. 1 \notin Custom /\ 2 \notin Custom /\ 3 \notin Custom /\ 4 \notin Custom
  OBVIOUS
<1>3. priority(1) = 100 /\ priority(2) = 200 /\ priority(3) = 400 /\ priority(4) = 300
  BY <1>2 DEF priority
<1>4. \A n \in Custom : priority(n) \in Nat
  BY DEF priority
<1>5. \A n \in Names : priority(n) \in Nat
  BY <1>3, <1>4
<1>6. QED
  BY <1>1, <1>2, <1>3, <1>5

(* No handler comes before itself, nor error code before disconnect.       *)
LEMMA BeforeIsStrict ==
  /\ \A m, n \in Names : Before(m, n) => m # n
  /\ ~Before(ErrorCode, Disconnect)
  BY Priorities DEF Before

(* A place of handlers_ and what is there.                                 *)
LEMMA HandlerTypes ==
  ASSUME ChainTypes
  PROVE  /\ Len(handlers) \in Nat /\ DOMAIN handlers = 1 .. Len(handlers)
         /\ created \in Nat /\ MaxObjects \in Nat
         /\ \A j \in 1 .. Len(handlers) :
              /\ handlers[j] \in [name : Names, obj : 1 .. created]
              /\ handlers[j].name \in Names /\ handlers[j].obj \in 1 .. created
<1>1. handlers \in Seq([name : Names, obj : 1 .. created])
  BY DEF ChainTypes
<1>2. Len(handlers) \in Nat /\ DOMAIN handlers = 1 .. Len(handlers)
  BY <1>1, LenProperties
<1>3. \A j \in 1 .. Len(handlers) : handlers[j] \in [name : Names, obj : 1 .. created]
  BY <1>1, ElementOfSeq
<1>4. created \in Nat /\ MaxObjects \in Nat
  BY ChainAssumption DEF ChainTypes
<1>5. QED
  BY <1>2, <1>3, <1>4

(* Registration happens between passes and leaves the passes alone.        *)
LEMMA QuietKeepsWork ==
  ASSUME ChainInv, Quiescent, UNCHANGED workVars
  PROVE  Sorting' /\ Passing' /\ Contexts'
<1>1. /\ UNCHANGED <<wpc, phase, config, ctx, pos, ran>>
      /\ \A w \in Workers : wpc[w] \in {"idle", "done"}
  BY DEF workVars, Quiescent
<1>2. Sorting' /\ Passing'
  BY <1>1 DEF Sorting, Passing
<1>3. Contexts'
  BY <1>1 DEF ChainInv, Contexts
<1>4. QED
  BY <1>2, <1>3

(* Steps of registration leave the types of the passes alone.              *)
LEMMA WorkTypesSame ==
  ASSUME ChainTypes, UNCHANGED workVars,
         created' \in 0 .. MaxObjects,
         handlers' \in Seq([name : Names, obj : 1 .. created']),
         sorted' \in BOOLEAN, exists' \in BOOLEAN, freed' \in [1 .. MaxObjects -> Nat]
  PROVE  ChainTypes'
  BY DEF ChainTypes, workVars

(* A new object goes to the end of the vector.                             *)
LEMMA RegisterKeepsInv ==
  ASSUME ChainInv, NEW n \in Registrable, Register(n)
  PROVE  ChainInv'
<1> USE DEF ChainInv
<1>1. /\ Quiescent /\ created < MaxObjects /\ created' = created + 1 /\ Named(n) = {}
      /\ handlers' = Append(handlers, [name |-> n, obj |-> created + 1])
      /\ sorted' = FALSE /\ UNCHANGED <<freed, exists, workVars>>
  BY DEF Register
<1>2. /\ Len(handlers) \in Nat /\ created \in Nat /\ MaxObjects \in Nat
      /\ \A j \in 1 .. Len(handlers) :
              /\ handlers[j] \in [name : Names, obj : 1 .. created]
              /\ handlers[j].name \in Names /\ handlers[j].obj \in 1 .. created
  BY HandlerTypes
<1>3. PICK N \in Nat, m \in Nat : N = Len(handlers) /\ m = created
  BY <1>2
<1>4. n \in Names
  BY ChainAssumption DEF Names
<1>5. PICK h : h = [name |-> n, obj |-> m + 1]
  OBVIOUS
<1>6. h.name = n /\ h.obj = m + 1 /\ h \in [name : Names, obj : 1 .. m + 1]
  BY <1>4, <1>5
<1>7. handlers \in Seq([name : Names, obj : 1 .. m + 1])
  <2>1. [name : Names, obj : 1 .. m] \subseteq [name : Names, obj : 1 .. m + 1]
    OBVIOUS
  <2>2. handlers \in Seq([name : Names, obj : 1 .. m])
    BY <1>3 DEF ChainTypes
  <2>3. QED
    BY <2>1, <2>2, SeqMonotonic
<1>8. /\ handlers' \in Seq([name : Names, obj : 1 .. m + 1])
      /\ Len(handlers') = N + 1 /\ handlers'[N + 1] = h
      /\ \A j \in 1 .. N : handlers'[j] = handlers[j]
  BY <1>1, <1>3, <1>5, <1>6, <1>7, AppendProperties
<1>9. ChainTypes'
  <2>1. created' \in 0 .. MaxObjects
    BY <1>1, <1>2
  <2>2. QED
    BY <1>1, <1>3, <1>8, <2>1, WorkTypesSame DEF ChainTypes
<1>10. Table'
  <2>1. \A j \in 1 .. N : handlers[j].name # n /\ handlers[j].obj # m + 1
    BY <1>1, <1>2, <1>3, SMTT(40) DEF Named
  <2>2. ASSUME NEW j \in 1 .. N + 1, NEW k \in 1 .. N + 1,
               handlers'[j].name = handlers'[k].name \/ handlers'[j].obj = handlers'[k].obj
        PROVE  j = k
    <3>1. CASE j \in 1 .. N /\ k \in 1 .. N
      BY <2>2, <3>1, <1>3, <1>8 DEF Table
    <3>2. CASE j = N + 1 /\ k \in 1 .. N
      BY <2>1, <2>2, <3>2, <1>6, <1>8
    <3>3. CASE j \in 1 .. N /\ k = N + 1
      BY <2>1, <2>2, <3>3, <1>6, <1>8
    <3>4. QED
      BY <3>1, <3>2, <3>3
  <2>3. QED
    BY <1>1, <1>8, <2>2 DEF Table
<1>11. Owned'
  <2>1. \A o \in 1 .. m : Places(o)' = {} <=> Places(o) = {}
    <3> SUFFICES ASSUME NEW o \in 1 .. m PROVE Places(o)' = Places(o)
      OBVIOUS
    <3>1. \A j \in 1 .. N + 1 : handlers'[j].obj = o <=> j \in 1 .. N /\ handlers[j].obj = o
      BY <1>6, <1>8
    <3>2. QED
      BY <1>3, <1>8, <3>1 DEF Places
  <2>2. Places(m + 1)' # {}
    BY <1>6, <1>8 DEF Places
  <2>3. freed' = freed /\ created' = m + 1 /\ m + 1 \in created + 1 .. MaxObjects
    BY <1>1, <1>2, <1>3
  <2>4. \A o \in 1 .. m : freed[o] = IF Places(o) = {} THEN 1 ELSE 0
    BY <1>3 DEF Owned
  <2>5. \A o \in m + 1 .. MaxObjects : freed[o] = 0
    BY <1>3 DEF Owned
  <2>6. QED
    BY <1>2, <1>3, <2>1, <2>2, <2>3, <2>4, <2>5 DEF Owned
<1>12. QED
  BY <1>1, <1>9, <1>10, <1>11, QuietKeepsWork

(* A refused object is destroyed by the caller and never gets in.          *)
LEMMA RegisterExistsKeepsInv ==
  ASSUME ChainInv, NEW n \in Registrable, RegisterExists(n)
  PROVE  ChainInv'
<1> USE DEF ChainInv
<1>1. /\ Quiescent /\ created < MaxObjects /\ created' = created + 1
      /\ freed' = [freed EXCEPT ![created + 1] = @ + 1]
      /\ UNCHANGED <<handlers, sorted, exists, workVars>>
  BY DEF RegisterExists
<1>2. /\ Len(handlers) \in Nat /\ created \in Nat /\ MaxObjects \in Nat
      /\ \A j \in 1 .. Len(handlers) : handlers[j].obj \in 1 .. created
  BY HandlerTypes
<1>3. PICK m \in Nat : m = created
  BY <1>2
<1>4. handlers' \in Seq([name : Names, obj : 1 .. m + 1])
  <2>1. [name : Names, obj : 1 .. m] \subseteq [name : Names, obj : 1 .. m + 1]
    OBVIOUS
  <2>2. handlers \in Seq([name : Names, obj : 1 .. m])
    BY <1>3 DEF ChainTypes
  <2>3. QED
    BY <1>1, <2>1, <2>2, SeqMonotonic
<1>5. freed \in [1 .. MaxObjects -> Nat] /\ m + 1 \in 1 .. MaxObjects
  BY <1>1, <1>2, <1>3 DEF ChainTypes
<1>6. /\ freed'[m + 1] = freed[m + 1] + 1 /\ freed' \in [1 .. MaxObjects -> Nat]
      /\ \A o \in 1 .. MaxObjects : o # m + 1 => freed'[o] = freed[o]
  BY <1>1, <1>3, <1>5
<1>7. ChainTypes'
  <2>1. created' \in 0 .. MaxObjects /\ created' = m + 1
    BY <1>1, <1>2, <1>3
  <2>2. QED
    BY <1>1, <1>4, <1>6, <2>1, WorkTypesSame DEF ChainTypes
<1>8. Table'
  BY <1>1 DEF Table, Ascending
<1>9. Owned'
  <2>1. \A o \in 1 .. MaxObjects : Places(o)' = Places(o)
    BY <1>1 DEF Places
  <2>2. Places(m + 1) = {}
    BY <1>2, <1>3 DEF Places
  <2>3. freed[m + 1] = 0
    BY <1>3, <1>5 DEF Owned
  <2>4. \A o \in 1 .. m : freed[o] = IF Places(o) = {} THEN 1 ELSE 0
    BY <1>3 DEF Owned
  <2>5. \A o \in m + 1 .. MaxObjects : freed[o] = 0
    BY <1>3 DEF Owned
  <2>6. created' = m + 1
    BY <1>1, <1>3
  <2>7. ASSUME NEW o \in 1 .. m + 1 PROVE freed'[o] = IF Places(o)' = {} THEN 1 ELSE 0
    <3>1. o \in 1 .. MaxObjects /\ (o = m + 1 \/ (o \in 1 .. m /\ o # m + 1))
      BY <1>2, <1>5
    <3>2. CASE o = m + 1
      BY <1>6, <2>1, <2>2, <2>3, <3>1, <3>2
    <3>3. CASE o \in 1 .. m /\ o # m + 1
      BY <1>6, <2>1, <2>4, <3>1, <3>3
    <3>4. QED
      BY <3>1, <3>2, <3>3
  <2>8. ASSUME NEW o \in m + 1 + 1 .. MaxObjects PROVE freed'[o] = 0
    <3>1. o \in 1 .. MaxObjects /\ o \in m + 1 .. MaxObjects /\ o # m + 1
      BY <1>2
    <3>2. QED
      BY <1>6, <2>5, <3>1
  <2>9. QED
    BY <2>6, <2>7, <2>8 DEF Owned
<1>10. QED
  BY <1>1, <1>7, <1>8, <1>9, QuietKeepsWork

(* erase(): the ones behind move up by one.                                *)
LEMMA RemoveAtShape ==
  ASSUME NEW S, NEW s \in Seq(S), NEW k \in 1 .. Len(s)
  PROVE  /\ RemoveAt(s, k) \in Seq(S)
         /\ Len(RemoveAt(s, k)) = Len(s) - 1
         /\ \A j \in 1 .. Len(s) - 1 :
              RemoveAt(s, k)[j] = IF j < k THEN s[j] ELSE s[j + 1]
<1>1. PICK N \in Nat : N = Len(s) /\ k \in 1 .. N
  BY LenProperties
<1>2. PICK a, b : a = SubSeq(s, 1, k - 1) /\ b = SubSeq(s, k + 1, N)
  OBVIOUS
<1>3. /\ a \in Seq(S) /\ Len(a) = k - 1
      /\ \A j \in 1 .. k - 1 : a[j] = s[j]
  <2>1. CASE k = 1
    <3>1. a = <<>>
      BY <1>2, <2>1, SubSeqEmpty
    <3>2. QED
      BY <2>1, <3>1, EmptySeq
  <2>2. CASE k > 1
    <3>1. 1 \in 1 .. N /\ k - 1 \in 1 .. N
      BY <1>1, <2>2
    <3>2. QED
      BY <1>1, <1>2, <2>2, <3>1, SubSeqProperties
  <2>3. QED
    BY <1>1, <2>1, <2>2
<1>4. /\ b \in Seq(S) /\ Len(b) = N - k
      /\ \A j \in 1 .. N - k : b[j] = s[k + j]
  <2>1. CASE k = N
    <3>1. b = <<>>
      BY <1>1, <1>2, <2>1, SubSeqEmpty
    <3>2. QED
      BY <1>1, <2>1, <3>1, EmptySeq
  <2>2. CASE k < N
    <3>1. k + 1 \in 1 .. N /\ N \in 1 .. N
      BY <1>1, <2>2
    <3>2. QED
      BY <1>1, <1>2, <2>2, <3>1, SubSeqProperties
  <2>3. QED
    BY <1>1, <2>1, <2>2
<1>5. a \o b \in Seq(S) /\ Len(a \o b) = N - 1
  <2>1. a \o b \in Seq(S) /\ Len(a \o b) = Len(a) + Len(b)
    BY <1>3, <1>4, ConcatProperties
  <2>2. QED
    BY <1>1, <1>3, <1>4, <2>1
<1>6. \A j \in 1 .. N - 1 : (a \o b)[j] = IF j < k THEN s[j] ELSE s[j + 1]
  <2> SUFFICES ASSUME NEW j \in 1 .. N - 1
               PROVE  (a \o b)[j] = IF j < k THEN s[j] ELSE s[j + 1]
    OBVIOUS
  <2>1. (a \o b)[j] = IF j <= Len(a) THEN a[j] ELSE b[j - Len(a)]
    <3>1. j \in 1 .. Len(a) + Len(b)
      BY <1>1, <1>3, <1>4
    <3>2. QED
      BY <1>3, <1>4, <3>1, ConcatProperties
  <2>2. CASE j < k
    <3>1. j <= Len(a) /\ j \in 1 .. k - 1
      BY <1>1, <1>3, <2>2
    <3>2. QED
      BY <1>3, <2>1, <2>2, <3>1
  <2>3. CASE ~(j < k)
    <3>1. PICK i : i = j - Len(a)
      OBVIOUS
    <3>2. ~(j <= Len(a)) /\ i \in 1 .. N - k /\ k + i = j + 1
      BY <1>1, <1>3, <2>3, <3>1
    <3>3. (a \o b)[j] = b[i]
      BY <2>1, <3>1, <3>2
    <3>4. QED
      BY <1>4, <2>3, <3>2, <3>3
  <2>4. QED
    BY <2>2, <2>3
<1>7. RemoveAt(s, k) = a \o b
  BY <1>1, <1>2 DEF RemoveAt
<1>8. QED
  BY <1>1, <1>5, <1>6, <1>7


\* q is the vector of N handlers without the one at i.
Erased(q, i, N) ==
  /\ N = Len(handlers) /\ Len(q) = N - 1
  /\ \A j \in 1 .. N - 1 : q[j] = IF j < i THEN handlers[j] ELSE handlers[j + 1]

\* It has no duplicates, is still in order, and lacks that one object only.
WithoutOne(q, i, N) ==
  /\ \A j, k \in 1 .. N - 1 : q[j].name = q[k].name \/ q[j].obj = q[k].obj => j = k
  /\ sorted => \A j, k \in 1 .. N - 1 : j < k => Before(q[j].name, q[k].name)
  /\ \A j \in 1 .. N - 1 : q[j].obj # handlers[i].obj
  /\ \A o : (\E j \in 1 .. N - 1 : q[j].obj = o)
       <=> o # handlers[i].obj /\ \E j \in 1 .. N : handlers[j].obj = o

(* Where the handlers are after the erase().                               *)
LEMMA RemovedPlaces ==
  ASSUME ChainInv, NEW N \in Nat, NEW i \in 1 .. N, NEW q, Erased(q, i, N)
  PROVE  WithoutOne(q, i, N)
<1> DEFINE Old(j) == IF j < i THEN j ELSE j + 1
<1>1. ASSUME NEW j \in 1 .. N - 1
      PROVE  Old(j) \in 1 .. N /\ Old(j) # i /\ q[j] = handlers[Old(j)]
  BY DEF Erased
<1>2. ASSUME NEW j \in 1 .. N, j # i
      PROVE  \E k \in 1 .. N - 1 : Old(k) = j
  <2>1. CASE j < i
    <3>1. j \in 1 .. N - 1 /\ Old(j) = j
      BY <2>1
    <3>2. QED
      BY <3>1
  <2>2. CASE j > i
    <3>1. j - 1 \in 1 .. N - 1 /\ Old(j - 1) = j
      BY <2>2
    <3>2. QED
      BY <3>1
  <2>3. QED
    BY <1>2, <2>1, <2>2
<1>3. \A j, k \in 1 .. N - 1 : (Old(j) = Old(k) => j = k) /\ (j < k => Old(j) < Old(k))
  OBVIOUS
<1>4. \A j, k \in 1 .. N :
        handlers[j].name = handlers[k].name \/ handlers[j].obj = handlers[k].obj => j = k
  BY DEF Erased, ChainInv, Table
<1>5. sorted => \A j, k \in 1 .. N : j < k => Before(handlers[j].name, handlers[k].name)
  BY DEF Erased, ChainInv, Table, Ascending
<1> HIDE DEF Old
<1>6. \A j, k \in 1 .. N - 1 : q[j].name = q[k].name \/ q[j].obj = q[k].obj => j = k
  BY <1>1, <1>3, <1>4
<1>7. sorted => \A j, k \in 1 .. N - 1 : j < k => Before(q[j].name, q[k].name)
  BY <1>1, <1>3, <1>5
<1>8. \A j \in 1 .. N - 1 : q[j].obj # handlers[i].obj
  BY <1>1, <1>4
<1>9. ASSUME NEW o
      PROVE  (\E j \in 1 .. N - 1 : q[j].obj = o)
              <=> o # handlers[i].obj /\ \E j \in 1 .. N : handlers[j].obj = o
  <2>1. ASSUME NEW j \in 1 .. N - 1, q[j].obj = o
        PROVE  o # handlers[i].obj /\ \E k \in 1 .. N : handlers[k].obj = o
    BY <1>1, <1>8, <2>1
  <2>2. ASSUME o # handlers[i].obj, NEW j \in 1 .. N, handlers[j].obj = o
        PROVE  \E k \in 1 .. N - 1 : q[k].obj = o
    <3>1. PICK k \in 1 .. N - 1 : Old(k) = j
      BY <1>2, <2>2
    <3>2. q[k].obj = o
      BY <1>1, <2>2, <3>1
    <3>3. QED
      BY <3>2
  <2>3. QED
    BY <2>1, <2>2
<1>10. QED
  BY <1>6, <1>7, <1>8, <1>9 DEF WithoutOne

(* destroy() and erase() go together: the one object that leaves the       *)
(* vector is the one destroyed.                                            *)
LEMMA UnregisterKeepsInv ==
  ASSUME ChainInv, NEW n \in Registrable, Unregister(n)
  PROVE  ChainInv'
<1> USE DEF ChainInv
<1>1. Quiescent /\ UNCHANGED <<sorted, created, exists, workVars>>
  BY DEF Unregister
<1>2. PICK i \in Named(n) : /\ freed' = [freed EXCEPT ![handlers[i].obj] = @ + 1]
                            /\ handlers' = RemoveAt(handlers, i)
  BY DEF Unregister
<1>3. /\ Len(handlers) \in Nat /\ created \in 0 .. MaxObjects /\ MaxObjects \in Nat
      /\ \A j \in 1 .. Len(handlers) : handlers[j].obj \in 1 .. created
  BY HandlerTypes DEF ChainTypes
<1>4. PICK N \in Nat : N = Len(handlers)
  BY <1>3
<1>5. i \in 1 .. N
  BY <1>2, <1>4 DEF Named
<1>6. PICK x : x = handlers[i].obj
  OBVIOUS
<1>7. x \in 1 .. created /\ x \in 1 .. MaxObjects
  BY <1>3, <1>4, <1>5, <1>6
<1>8. PICK q : q = handlers'
  OBVIOUS
<1>9. /\ q \in Seq([name : Names, obj : 1 .. created]) /\ Len(q) = N - 1
      /\ \A j \in 1 .. N - 1 : q[j] = IF j < i THEN handlers[j] ELSE handlers[j + 1]
  <2>1. PICK S : S = [name : Names, obj : 1 .. created]
    OBVIOUS
  <2>2. handlers \in Seq(S)
    BY <2>1 DEF ChainTypes
  <2>3. QED
    BY <1>2, <1>4, <1>5, <1>8, <2>1, <2>2, RemoveAtShape
<1>10. /\ \A j, k \in 1 .. N - 1 : q[j].name = q[k].name \/ q[j].obj = q[k].obj => j = k
       /\ sorted => \A j, k \in 1 .. N - 1 : j < k => Before(q[j].name, q[k].name)
       /\ \A j \in 1 .. N - 1 : q[j].obj # x
       /\ \A o : (\E j \in 1 .. N - 1 : q[j].obj = o)
              <=> o # x /\ \E j \in 1 .. N : handlers[j].obj = o
  <2> HIDE DEF ChainInv
  <2>1. Erased(q, i, N)
    BY <1>4, <1>9 DEF Erased
  <2>2. WithoutOne(q, i, N)
    BY <1>5, <2>1, RemovedPlaces
  <2>3. QED
    BY <1>6, <2>2 DEF WithoutOne
<1>11. freed \in [1 .. MaxObjects -> Nat]
  BY DEF ChainTypes
<1>12. /\ freed'[x] = freed[x] + 1 /\ freed' \in [1 .. MaxObjects -> Nat]
       /\ \A o \in 1 .. MaxObjects : o # x => freed'[o] = freed[o]
  BY <1>2, <1>6, <1>7, <1>11
<1>13. ChainTypes'
  BY <1>1, <1>3, <1>8, <1>9, <1>12, WorkTypesSame DEF ChainTypes
<1>14. Table'
  <2>1. \A j, k \in 1 .. Len(handlers)' :
          handlers'[j].name = handlers'[k].name \/ handlers'[j].obj = handlers'[k].obj => j = k
    BY <1>8, <1>9, <1>10
  <2>2. sorted' => Ascending(handlers)'
    BY <1>1, <1>8, <1>9, <1>10 DEF Ascending
  <2>3. QED
    BY <2>1, <2>2 DEF Table
<1>15. Owned'
  <2>1. \A o : Places(o) = {} <=> ~\E j \in 1 .. N : handlers[j].obj = o
    BY <1>4 DEF Places
  <2>2. \A o : Places(o)' = {} <=> ~\E j \in 1 .. N - 1 : q[j].obj = o
    BY <1>8, <1>9 DEF Places
  <2>3. Places(x) # {} /\ Places(x)' = {} /\ \A o : o # x => (Places(o)' = {} <=> Places(o) = {})
    BY <1>5, <1>6, <1>10, <2>1, <2>2
  <2>4. \A o \in 1 .. created : freed[o] = IF Places(o) = {} THEN 1 ELSE 0
    BY DEF Owned
  <2>5. \A o \in created + 1 .. MaxObjects : freed[o] = 0 /\ o # x
    BY <1>3, <1>7 DEF Owned
  <2>6. \A o \in 1 .. created : freed'[o] = IF Places(o)' = {} THEN 1 ELSE 0
    BY <1>3, <1>7, <1>12, <2>3, <2>4, SMTT(40)
  <2>7. \A o \in created + 1 .. MaxObjects : freed'[o] = 0
    BY <1>3, <1>12, <2>5
  <2>8. QED
    BY <1>1, <2>6, <2>7 DEF Owned
<1>16. QED
  BY <1>1, <1>13, <1>14, <1>15, QuietKeepsWork

(* An object is in the vector at most once.                                *)
LEMMA PlacesCount ==
  ASSUME Table, NEW o
  PROVE  Cardinality(Places(o)) = IF Places(o) = {} THEN 0 ELSE 1
<1>1. CASE Places(o) = {}
  BY <1>1, FS_EmptySet
<1>2. CASE Places(o) # {}
  <2>1. PICK i : i \in Places(o)
    BY <1>2
  <2>2. Places(o) = {i}
    BY <2>1 DEF Places, Table
  <2>3. QED
    BY <1>2, <2>2, FS_Singleton
<1>3. QED
  BY <1>1, <1>2

(* The destructor destroys what is still in the vector, each once.         *)
LEMMA DestroyKeepsInv ==
  ASSUME ChainInv, DestroyChain
  PROVE  ChainInv'
<1> USE DEF ChainInv
<1>1. /\ Quiescent /\ handlers' = <<>> /\ exists' = FALSE
      /\ freed' = [o \in 1 .. MaxObjects |-> freed[o] + Cardinality(Places(o))]
      /\ UNCHANGED <<sorted, created, workVars>>
  BY DEF DestroyChain
<1>2. created \in 0 .. MaxObjects /\ MaxObjects \in Nat /\ freed \in [1 .. MaxObjects -> Nat]
  BY HandlerTypes DEF ChainTypes
<1>3. \A o \in 1 .. MaxObjects :
        /\ freed'[o] = freed[o] + Cardinality(Places(o))
        /\ Cardinality(Places(o)) = IF Places(o) = {} THEN 0 ELSE 1
  BY <1>1, PlacesCount
<1>4. freed' \in [1 .. MaxObjects -> Nat]
  <2>1. \A o \in 1 .. MaxObjects : freed[o] + Cardinality(Places(o)) \in Nat
    BY <1>2, <1>3
  <2>2. QED
    BY <1>1, <2>1
<1>5. Len(handlers') = 0 /\ handlers' \in Seq([name : Names, obj : 1 .. created'])
  BY <1>1, EmptySeq
<1>6. ChainTypes'
  BY <1>1, <1>2, <1>4, <1>5, WorkTypesSame DEF ChainTypes
<1>7. Table'
  BY <1>5 DEF Table, Ascending
<1>8. Owned'
  <2>1. \A o : Places(o)' = {}
    BY <1>5 DEF Places
  <2>2. \A o \in 1 .. created : freed[o] = IF Places(o) = {} THEN 1 ELSE 0
    BY DEF Owned
  <2>3. \A o \in created + 1 .. MaxObjects : freed[o] = 0 /\ Places(o) = {}
    <3>1. \A j \in 1 .. Len(handlers) : handlers[j].obj \in 1 .. created
      BY HandlerTypes
    <3>2. \A o \in created + 1 .. MaxObjects : o \notin 1 .. created
      BY <1>2
    <3>3. QED
      BY <3>1, <3>2 DEF Owned, Places
  <2>4. ASSUME NEW o \in 1 .. created PROVE freed'[o] = 1
    <3>1. PICK e \in BOOLEAN : e <=> Places(o) = {}
      OBVIOUS
    <3>2. freed'[o] = freed[o] + IF e THEN 0 ELSE 1
      BY <1>2, <1>3, <3>1
    <3>3. freed[o] = IF e THEN 1 ELSE 0
      BY <2>2, <3>1
    <3>4. QED
      BY <3>2, <3>3
  <2>5. ASSUME NEW o \in created + 1 .. MaxObjects PROVE freed'[o] = 0
    <3>1. o \in 1 .. MaxObjects
      BY <1>2
    <3>2. freed'[o] = freed[o] + 0
      BY <1>3, <2>3, <3>1
    <3>3. QED
      BY <2>3, <3>2
  <2>6. QED
    BY <1>1, <2>1, <2>4, <2>5 DEF Owned
<1>9. QED
  BY <1>1, <1>6, <1>7, <1>8, QuietKeepsWork


(* A step of a pass that leaves the vector alone.                          *)
LEMMA PassKeepsTable ==
  ASSUME ChainInv, UNCHANGED tableVars
  PROVE  Table' /\ Owned'
<1>1. UNCHANGED <<handlers, sorted, created, freed, exists>>
  BY DEF tableVars
<1>2. Table'
  BY <1>1 DEF ChainInv, Table, Ascending
<1>3. Owned'
  BY <1>1 DEF ChainInv, Owned, Places
<1>4. QED
  BY <1>2, <1>3

(* Steps of a pass leave the types of the vector alone.                    *)
LEMMA TableTypesSame ==
  ASSUME ChainTypes, UNCHANGED tableVars,
         wpc' \in [Workers -> {"idle", "sort", "run", "done"}],
         phase' \in [Workers -> {"request", "response"}],
         config' \in [Workers -> Configs],
         ctx' \in [Workers -> [status : Nat, disconnect : BOOLEAN]],
         pos' \in [Workers -> Nat],
         ran' \in [Workers -> Seq(Names)]
  PROVE  ChainTypes'
<1>1. UNCHANGED <<handlers, sorted, created, freed, exists>>
  BY DEF tableVars
<1>2. QED
  BY <1>1 DEF ChainTypes

(* A pass that finds the vector unsorted is the only one.                  *)
LEMMA ProcessKeepsInv ==
  ASSUME ChainInv, FirstAlone, NEW w \in Workers, Process(w)
  PROVE  ChainInv'
<1> USE DEF ChainInv
<1>1. /\ wpc[w] = "idle"
      /\ ~sorted => \A v \in Workers : wpc[v] \in {"idle", "done"}
      /\ pos' = [pos EXCEPT ![w] = 1] /\ ran' = [ran EXCEPT ![w] = <<>>]
      /\ UNCHANGED <<tableVars, phase, ctx>>
  BY DEF Process
<1>2. PICK c \in Configs :
        /\ config' = [config EXCEPT ![w] = c]
        /\ wpc' = [wpc EXCEPT ![w] = IF ~c.enabled THEN "done" ELSE IF sorted THEN "run" ELSE "sort"]
  BY DEF Process
<1>3. UNCHANGED <<handlers, sorted>>
  BY <1>1 DEF tableVars
<1>4. /\ wpc \in [Workers -> {"idle", "sort", "run", "done"}] /\ pos \in [Workers -> Nat]
      /\ ran \in [Workers -> Seq(Names)] /\ config \in [Workers -> Configs]
      /\ Len(handlers) \in Nat
  BY HandlerTypes DEF ChainTypes
<1>5. /\ wpc'[w] \in {"done", "run", "sort"}
      /\ wpc'[w] = "run" => sorted
      /\ wpc'[w] = "sort" => ~sorted
      /\ pos'[w] = 1 /\ ran'[w] = <<>>
      /\ \A v \in Workers : v # w => /\ wpc'[v] = wpc[v] /\ pos'[v] = pos[v]
                                     /\ ran'[v] = ran[v]
  BY <1>1, <1>2, <1>4
<1>6. ChainTypes'
  <2>1. <<>> \in Seq(Names)
    BY EmptySeq
  <2>2. QED
    BY <1>1, <1>2, <1>4, <2>1, TableTypesSame DEF ChainTypes
<1>7. Sorting'
  <2> SUFFICES ASSUME NEW v \in Workers, wpc'[v] = "sort"
               PROVE  /\ ~sorted' /\ pos'[v] = 1 /\ ran'[v] = <<>>
                      /\ \A u \in Workers \ {v} : wpc'[u] \in {"idle", "done"}
    BY DEF Sorting
  <2>1. CASE v = w
    BY <1>1, <1>3, <1>5, <2>1
  <2>2. CASE v # w
    <3>1. wpc[v] = "sort"
      BY <1>5, <2>2
    <3>2. ~sorted
      BY <3>1 DEF Sorting
    <3>3. wpc[v] \in {"idle", "done"}
      BY <1>1, <3>2
    <3>4. QED
      BY <3>1, <3>3
  <2>3. QED
    BY <2>1, <2>2
<1>8. Passing'
  <2> SUFFICES ASSUME NEW v \in Workers, wpc'[v] = "run"
               PROVE  /\ sorted' /\ pos'[v] \in 1 .. Len(handlers') + 1
                      /\ Len(ran'[v]) = pos'[v] - 1
                      /\ \A j \in 1 .. pos'[v] - 1 : ran'[v][j] = handlers'[j].name
    BY DEF Passing
  <2>1. CASE v = w
    <3>1. Len(<<>>) = 0
      BY EmptySeq
    <3>2. QED
      BY <1>3, <1>4, <1>5, <2>1, <3>1
  <2>2. CASE v # w
    BY <1>3, <1>5, <2>2 DEF Passing
  <2>3. QED
    BY <2>1, <2>2
<1>9. Contexts'
  <2> SUFFICES ASSUME NEW v \in Workers, phase[v] = "request"
               PROVE  /\ wpc'[v] \in {"idle", "sort"} => ctx[v] = NewContext
                      /\ wpc'[v] = "run" =>
                           /\ ~ctx[v].disconnect
                           /\ ctx[v].status # 0 => \E k \in 1 .. pos'[v] - 1 : handlers[k].name = ErrorCode
                      /\ ctx[v].disconnect => ctx[v].status = 0
    BY <1>1, <1>3 DEF Contexts
  <2>1. CASE v = w
    <3>1. ctx[w] = NewContext
      BY <1>1, <2>1 DEF Contexts
    <3>2. ~ctx[w].disconnect /\ ctx[w].status = 0
      BY <3>1 DEF NewContext
    <3>3. QED
      BY <2>1, <3>1, <3>2
  <2>2. CASE v # w
    BY <1>5, <2>2 DEF Contexts
  <2>3. QED
    BY <2>1, <2>2
<1>10. QED
  BY <1>1, <1>6, <1>7, <1>8, <1>9, PassKeepsTable

(* An injection of N places into what N places hold leaves nothing out.    *)
LEMMA PermutesAll ==
  ASSUME NEW N \in Nat, NEW S, NEW h \in Bijection(1 .. N, S), NEW t \in Injection(1 .. N, S)
  PROVE  t \in Surjection(1 .. N, S)
<1>1. IsFiniteSet(1 .. N)
  BY FS_Interval
<1>2. ExistsBijection(1 .. N, S)
  BY DEF ExistsBijection
<1>3. IsFiniteSet(S) /\ Cardinality(S) = Cardinality(1 .. N)
  BY <1>1, <1>2, FS_Bijection
<1>4. QED
  BY <1>3, FS_Injection


(* What std::sort() leaves holds every handler that was there, once.       *)
LEMMA SortedVector ==
  ASSUME ChainInv, NEW t \in Vectors, Ascending(t)
  PROVE  /\ t \in Seq([name : Names, obj : 1 .. created]) /\ Len(t) = Len(handlers)
         /\ \A j, k \in 1 .. Len(handlers) :
              t[j].name = t[k].name \/ t[j].obj = t[k].obj => j = k
         /\ \A o : (\E j \in 1 .. Len(handlers) : t[j].obj = o) <=> Places(o) # {}
<1>1. /\ Len(handlers) \in Nat /\ DOMAIN handlers = 1 .. Len(handlers)
      /\ \A j \in 1 .. Len(handlers) :
              /\ handlers[j] \in [name : Names, obj : 1 .. created]
              /\ handlers[j].name \in Names /\ handlers[j].obj \in 1 .. created
      /\ handlers \in Seq([name : Names, obj : 1 .. created])
  BY HandlerTypes DEF ChainInv, ChainTypes
<1>len. PICK N \in Nat : N = Len(handlers)
  BY <1>1
<1>2. PICK S : N = Len(handlers) /\ S = {handlers[j] : j \in 1 .. N}
  BY <1>len
<1>3. t \in [1 .. N -> S] /\ \A j, k \in 1 .. N : j < k => Before(t[j].name, t[k].name)
  BY <1>2 DEF Vectors, Ascending
<1>4. handlers \in [1 .. N -> S]
  <2>1. handlers \in [DOMAIN handlers -> {handlers[j] : j \in DOMAIN handlers}]
    BY <1>1, LenProperties
  <2>2. QED
    BY <1>1, <1>2, <2>1
<1>5. \A j, k \in 1 .. N :
        handlers[j].name = handlers[k].name \/ handlers[j].obj = handlers[k].obj => j = k
  BY <1>2 DEF ChainInv, Table
<1>6. handlers \in Bijection(1 .. N, S)
  <2>1. handlers \in Injection(1 .. N, S)
    BY <1>4, <1>5 DEF Injection, IsInjective
  <2>2. handlers \in Surjection(1 .. N, S)
    BY <1>2, <1>4 DEF Surjection
  <2>3. QED
    BY <2>1, <2>2 DEF Bijection
<1>7. ASSUME NEW j \in 1 .. N PROVE \E m \in 1 .. N : t[j] = handlers[m]
  BY <1>2, <1>3
<1>8. ASSUME NEW j \in 1 .. N PROVE t[j].name \in Names
  BY <1>1, <1>2, <1>7
<1>9. ASSUME NEW j \in 1 .. N, NEW k \in 1 .. N, t[j].name = t[k].name PROVE j = k
  <2>1. ~(j < k) /\ ~(k < j)
    BY <1>3, <1>8, <1>9, BeforeIsStrict
  <2>2. QED
    BY <2>1
<1>10. ASSUME NEW j \in 1 .. N, NEW k \in 1 .. N, t[j].obj = t[k].obj PROVE j = k
  <2>1. PICK m \in 1 .. N, l \in 1 .. N : t[j] = handlers[m] /\ t[k] = handlers[l]
    BY <1>7
  <2>2. m = l
    BY <1>5, <1>10, <2>1
  <2>3. QED
    BY <1>9, <2>1, <2>2
<1>11. t \in Injection(1 .. N, S)
  <2>1. \A j, k \in 1 .. N : t[j] = t[k] => j = k
    BY <1>9
  <2>2. QED
    BY <1>3, <2>1 DEF Injection, IsInjective
<1>12. \A m \in 1 .. N : \E j \in 1 .. N : t[j] = handlers[m]
  <2>1. t \in Surjection(1 .. N, S)
    BY <1>6, <1>11, PermutesAll
  <2>2. QED
    BY <1>2, <2>1 DEF Surjection
<1>13. ASSUME NEW o PROVE (\E j \in 1 .. N : t[j].obj = o) <=> Places(o) # {}
  <2>1. Places(o) # {} <=> \E m \in 1 .. N : handlers[m].obj = o
    BY <1>2 DEF Places
  <2>2. ASSUME NEW j \in 1 .. N, t[j].obj = o PROVE \E m \in 1 .. N : handlers[m].obj = o
    BY <1>7, <2>2
  <2>3. ASSUME NEW m \in 1 .. N, handlers[m].obj = o PROVE \E j \in 1 .. N : t[j].obj = o
    BY <1>12, <2>3
  <2>4. QED
    BY <2>1, <2>2, <2>3
<1>14. t \in Seq([name : Names, obj : 1 .. created]) /\ Len(t) = N
  <2>1. PICK R : R = [name : Names, obj : 1 .. created]
    OBVIOUS
  <2>2. S \subseteq R
    BY <1>1, <1>2, <2>1
  <2>3. t \in [1 .. N -> R]
    BY <1>3, <2>2
  <2>4. t \in Seq(R)
    BY <2>3, SeqDef
  <2>5. Len(t) = N
    BY <2>3, <2>4, LenProperties
  <2>6. QED
    BY <2>1, <2>4, <2>5
<1>15. QED
  BY <1>2, <1>9, <1>10, <1>13, <1>14

(* A sort keeps the handlers and makes sorted_ true.                       *)
LEMMA SortKeepsInv ==
  ASSUME ChainInv, NEW w \in Workers, Sort(w)
  PROVE  ChainInv'
<1> USE DEF ChainInv
<1>1. /\ wpc[w] = "sort" /\ sorted' = TRUE /\ wpc' = [wpc EXCEPT ![w] = "run"]
      /\ UNCHANGED <<created, freed, exists, phase, config, ctx, pos, ran>>
  BY DEF Sort
<1>2. /\ pos[w] = 1 /\ ran[w] = <<>>
      /\ \A v \in Workers \ {w} : wpc[v] \in {"idle", "done"}
  BY <1>1 DEF Sorting
<1>3. handlers' \in Vectors /\ Ascending(handlers')
  <2>1. ~\E v \in Workers \ {w} : wpc[v] = "sort"
    BY <1>2
  <2>2. QED
    BY <2>1 DEF Sort
<1>4. PICK t : t = handlers'
  OBVIOUS
<1>5. /\ t \in Seq([name : Names, obj : 1 .. created]) /\ Len(t) = Len(handlers)
      /\ \A j, k \in 1 .. Len(handlers) :
           t[j].name = t[k].name \/ t[j].obj = t[k].obj => j = k
      /\ \A o : (\E j \in 1 .. Len(handlers) : t[j].obj = o) <=> Places(o) # {}
  <2> HIDE DEF ChainInv
  <2>1. t \in Vectors /\ Ascending(t)
    BY <1>3, <1>4
  <2>2. QED
    BY <2>1, SortedVector
<1>6. /\ wpc \in [Workers -> {"idle", "sort", "run", "done"}]
      /\ Len(handlers) \in Nat
  BY HandlerTypes DEF ChainTypes
<1>7. wpc'[w] = "run" /\ \A v \in Workers \ {w} : wpc'[v] = wpc[v] /\ wpc'[v] \in {"idle", "done"}
  BY <1>1, <1>2, <1>6
<1>8. ChainTypes'
  <2>1. wpc' \in [Workers -> {"idle", "sort", "run", "done"}]
    BY <1>1, <1>6
  <2>2. QED
    BY <1>1, <1>4, <1>5, <2>1 DEF ChainTypes
<1>9. Table'
  <2>1. Ascending(handlers)'
    BY <1>3, <1>4, <1>5 DEF Ascending
  <2>2. QED
    BY <1>4, <1>5, <2>1 DEF Table
<1>10. Owned'
  <2>1. ASSUME NEW o PROVE Places(o)' = {} <=> Places(o) = {}
    <3>1. Places(o)' = {j \in 1 .. Len(handlers) : t[j].obj = o}
      BY <1>4, <1>5 DEF Places
    <3>2. QED
      BY <1>5, <3>1
  <2>2. QED
    BY <1>1, <2>1 DEF Owned
<1>11. Sorting'
  BY <1>7 DEF Sorting
<1>12. Passing'
  <2>1. Len(<<>>) = 0
    BY EmptySeq
  <2>2. \A v \in Workers : wpc'[v] = "run" => v = w
    BY <1>7
  <2>3. /\ sorted' /\ pos'[w] = 1 /\ pos'[w] \in 1 .. Len(handlers') + 1
        /\ Len(ran'[w]) = pos'[w] - 1
    BY <1>1, <1>2, <1>4, <1>5, <1>6, <2>1
  <2>4. QED
    BY <2>2, <2>3 DEF Passing
<1>13. Contexts'
  <2> SUFFICES ASSUME NEW v \in Workers, phase[v] = "request"
               PROVE  /\ wpc'[v] \in {"idle", "sort"} => ctx[v] = NewContext
                      /\ wpc'[v] = "run" => ~ctx[v].disconnect /\ ctx[v].status = 0
                      /\ ctx[v].disconnect => ctx[v].status = 0
    BY <1>1 DEF Contexts
  <2>1. CASE v = w
    <3>1. ctx[w] = NewContext
      BY <1>1, <2>1 DEF Contexts
    <3>2. QED
      BY <1>7, <2>1, <3>1 DEF NewContext
  <2>2. CASE v # w
    BY <1>7, <2>2 DEF Contexts
  <2>3. QED
    BY <2>1, <2>2
<1>14. QED
  BY <1>8, <1>9, <1>10, <1>11, <1>12, <1>13


(* One handler is called: the pass moves on by one place, and an error     *)
(* code can only have been set behind it.                                  *)
LEMMA CallHandlerKeepsInv ==
  ASSUME ChainInv, NEW w \in Workers, CallHandler(w)
  PROVE  ChainInv'
<1> USE DEF ChainInv
<1>1. /\ wpc[w] = "run" /\ pos[w] <= Len(handlers)
      /\ Calls(w, handlers[pos[w]].name)
      /\ pos' = [pos EXCEPT ![w] = @ + 1]
      /\ ran' = [ran EXCEPT ![w] = Append(@, handlers[pos[w]].name)]
      /\ UNCHANGED <<tableVars, phase, config>>
  BY DEF CallHandler
<1>2. UNCHANGED <<handlers, sorted>>
  BY <1>1 DEF tableVars
<1>3. /\ wpc \in [Workers -> {"idle", "sort", "run", "done"}]
      /\ pos \in [Workers -> Nat] /\ ran \in [Workers -> Seq(Names)]
      /\ ctx \in [Workers -> [status : Nat, disconnect : BOOLEAN]]
      /\ config \in [Workers -> Configs] /\ phase \in [Workers -> {"request", "response"}]
  BY DEF ChainTypes
<1>4. PICK N \in Nat, p \in Nat : N = Len(handlers) /\ p = pos[w]
  BY <1>3, HandlerTypes
<1>5. sorted /\ p \in 1 .. N /\ Len(ran[w]) = p - 1 /\ \A j \in 1 .. p - 1 : ran[w][j] = handlers[j].name
  BY <1>1, <1>4 DEF Passing
<1>6. PICK n \in Names : n = handlers[p].name
  BY <1>4, <1>5, HandlerTypes
<1>7. PICK forced \in BOOLEAN : forced <=> n = Disconnect /\ config[w].disconnect
  OBVIOUS
<1>8. PICK st : st = StatusAfter(w, n)
  OBVIOUS
<1>9. config[w].status \in Nat /\ st \in Nat
  <2>1. config[w].status \in Nat
    <3>1. config[w] \in Configs
      BY <1>3
    <3>2. CASE config[w] = Off
      BY <3>2 DEF Off
    <3>3. CASE config[w] \in [enabled : {TRUE}, disconnect : BOOLEAN, status : Statuses]
      BY <3>3, ChainAssumption
    <3>4. QED
      BY <3>1, <3>2, <3>3 DEF Configs
  <2>2. ctx[w].status \in Nat
    BY <1>3
  <2>3. QED
    BY <1>8, <2>1, <2>2 DEF StatusAfter
<1>10. /\ ctx' \in [Workers -> [status : Nat, disconnect : BOOLEAN]]
       /\ ctx'[w].status = st
       /\ ctx'[w].disconnect <=> ctx[w].disconnect \/ forced
       /\ \A v \in Workers : v # w => ctx'[v] = ctx[v]
  <2>1. ctx' = [ctx EXCEPT ![w].disconnect = @ \/ (n = Disconnect /\ config[w].disconnect),
                           ![w].status = StatusAfter(w, n)]
    BY <1>1, <1>4, <1>6 DEF Calls
  <2>2. PICK d \in BOOLEAN : d = (ctx[w].disconnect \/ forced)
    OBVIOUS
  <2>3. ctx' = [ctx EXCEPT ![w].disconnect = d, ![w].status = st]
    BY <1>7, <1>8, <2>1, <2>2
  <2>4. PICK c, e : c = ctx /\ e = ctx'
    OBVIOUS
  <2>5. c \in [Workers -> [status : Nat, disconnect : BOOLEAN]]
    BY <1>3, <2>4
  <2>6. e = [c EXCEPT ![w].disconnect = d, ![w].status = st]
    BY <2>3, <2>4
  <2>7. e = [v \in Workers |-> e[v]] /\ \A v \in Workers : v # w => e[v] = c[v]
    BY <2>5, <2>6
  <2>8. PICK r : r = c[w] /\ r \in [status : Nat, disconnect : BOOLEAN]
    BY <2>5
  <2>9. e[w] = [r EXCEPT !.disconnect = d, !.status = st]
    BY <2>5, <2>6, <2>8
  <2>10. /\ e[w] \in [status : Nat, disconnect : BOOLEAN]
         /\ e[w].status = st /\ e[w].disconnect = d
    BY <1>9, <2>8, <2>9
  <2>11. \A v \in Workers : e[v] \in [status : Nat, disconnect : BOOLEAN]
    BY <2>5, <2>7, <2>10
  <2>12. e \in [Workers -> [status : Nat, disconnect : BOOLEAN]]
    BY <2>7, <2>11
  <2>13. QED
    BY <2>2, <2>4, <2>7, <2>10, <2>12
<1>11. PICK stop \in IF n \in Custom THEN BOOLEAN ELSE {forced} :
         wpc' = [wpc EXCEPT ![w] = IF stop THEN "done" ELSE "run"]
  BY <1>1, <1>4, <1>6, <1>7 DEF Calls
<1>12. /\ wpc' \in [Workers -> {"idle", "sort", "run", "done"}]
       /\ wpc'[w] \in {"run", "done"}
       /\ wpc'[w] = "run" => ~stop
       /\ \A v \in Workers : v # w => wpc'[v] = wpc[v]
  BY <1>3, <1>11
<1>13. wpc'[w] = "run" => ~forced
  BY <1>7, <1>11, <1>12, Priorities
<1>14. /\ pos' \in [Workers -> Nat] /\ pos'[w] = p + 1
       /\ \A v \in Workers : v # w => pos'[v] = pos[v]
  BY <1>1, <1>3, <1>4
<1>15. /\ ran' \in [Workers -> Seq(Names)] /\ Len(ran'[w]) = p /\ ran'[w][p] = n
       /\ \A j \in 1 .. p - 1 : ran'[w][j] = handlers[j].name
       /\ \A v \in Workers : v # w => ran'[v] = ran[v]
  <2>1. PICK r \in Seq(Names) : r = ran[w]
    BY <1>3
  <2>2. ran' = [ran EXCEPT ![w] = Append(r, n)]
    BY <1>1, <1>4, <1>6, <2>1
  <2>3. /\ Append(r, n) \in Seq(Names) /\ Len(Append(r, n)) = Len(r) + 1
        /\ Append(r, n)[Len(r) + 1] = n
        /\ \A j \in 1 .. Len(r) : Append(r, n)[j] = r[j]
    BY AppendProperties
  <2>4. ran'[w] = Append(r, n) /\ ran' \in [Workers -> Seq(Names)]
    BY <1>3, <2>2, <2>3
  <2>5. Len(r) = p - 1 /\ Len(r) + 1 = p
    BY <1>5, <2>1
  <2>6. QED
    BY <1>3, <1>5, <2>1, <2>2, <2>3, <2>4, <2>5
<1>16. ChainTypes'
  BY <1>1, <1>3, <1>10, <1>12, <1>14, <1>15, TableTypesSame
<1>17. Sorting'
  <2>1. \A v \in Workers : wpc[v] # "sort"
    BY <1>1 DEF Sorting
  <2>2. \A v \in Workers : wpc'[v] # "sort"
    BY <1>12, <2>1
  <2>3. QED
    BY <2>2 DEF Sorting
<1>18. Passing'
  <2> SUFFICES ASSUME NEW v \in Workers, wpc'[v] = "run"
               PROVE  /\ sorted /\ pos'[v] \in 1 .. Len(handlers) + 1
                      /\ Len(ran'[v]) = pos'[v] - 1
                      /\ \A j \in 1 .. pos'[v] - 1 : ran'[v][j] = handlers[j].name
    BY <1>2 DEF Passing
  <2>1. CASE v = w
    <3>1. pos'[w] \in 1 .. Len(handlers) + 1 /\ Len(ran'[w]) = pos'[w] - 1 /\ pos'[w] - 1 = p
      BY <1>4, <1>5, <1>14, <1>15, SMTT(40)
    <3>2. \A j \in 1 .. p : ran'[w][j] = handlers[j].name
      <4>1. \A j \in 1 .. p : j \in 1 .. p - 1 \/ j = p
        OBVIOUS
      <4>2. QED
        BY <1>6, <1>15, <4>1
    <3>3. QED
      BY <1>5, <2>1, <3>1, <3>2
  <2>2. CASE v # w
    BY <1>12, <1>14, <1>15, <2>2 DEF Passing
  <2>3. QED
    BY <2>1, <2>2
<1>19. Contexts'
  <2> SUFFICES ASSUME NEW v \in Workers, phase[v] = "request"
               PROVE  /\ wpc'[v] \in {"idle", "sort"} => ctx'[v] = NewContext
                      /\ wpc'[v] = "run" =>
                           /\ ~ctx'[v].disconnect
                           /\ ctx'[v].status # 0 => \E k \in 1 .. pos'[v] - 1 : handlers[k].name = ErrorCode
                      /\ ctx'[v].disconnect => ctx'[v].status = 0
    BY <1>1, <1>2 DEF Contexts
  <2>1. CASE v = w
    <3>1. /\ ~ctx[w].disconnect
          /\ ctx[w].status # 0 => \E k \in 1 .. p - 1 : handlers[k].name = ErrorCode
      BY <1>1, <1>4, <2>1 DEF Contexts
    <3>2. ctx'[w].disconnect <=> forced
      BY <1>10, <3>1
    <3>3. n # ErrorCode => st = ctx[w].status
      BY <1>8 DEF StatusAfter
    <3>4. ASSUME ctx'[w].status # 0 PROVE \E k \in 1 .. p : handlers[k].name = ErrorCode
      <4>1. CASE n = ErrorCode
        <5>1. p \in 1 .. p
          BY <1>5
        <5>2. QED
          BY <1>6, <4>1, <5>1
      <4>2. CASE n # ErrorCode
        <5>1. PICK k \in 1 .. p - 1 : handlers[k].name = ErrorCode
          BY <1>10, <3>1, <3>3, <3>4, <4>2
        <5>2. k \in 1 .. p
          OBVIOUS
        <5>3. QED
          BY <5>1, <5>2
      <4>3. QED
        BY <4>1, <4>2
    <3>5. ASSUME forced PROVE st = 0
      <4>1. n = Disconnect /\ n # ErrorCode
        BY <1>7, <3>5, Priorities
      <4>2. ASSUME st # 0 PROVE FALSE
        <5>1. PICK k \in 1 .. p - 1 : handlers[k].name = ErrorCode
          BY <3>1, <3>3, <4>1, <4>2
        <5>2. k \in 1 .. N /\ k < p
          BY <1>5
        <5>3. Before(ErrorCode, Disconnect)
          <6>1. \A j, l \in 1 .. N : j < l => Before(handlers[j].name, handlers[l].name)
            BY <1>4, <1>5 DEF Table, Ascending
          <6>2. Before(handlers[k].name, handlers[p].name)
            BY <1>5, <5>2, <6>1
          <6>3. QED
            BY <1>6, <4>1, <5>1, <6>2
        <5>4. QED
          BY <5>3, BeforeIsStrict
      <4>3. QED
        BY <4>2
    <3>6. pos'[w] - 1 = p
      BY <1>14
    <3>7. QED
      BY <1>10, <1>12, <1>13, <2>1, <3>2, <3>4, <3>5, <3>6
  <2>2. CASE v # w
    BY <1>10, <1>12, <1>14, <2>2 DEF Contexts
  <2>3. QED
    BY <2>1, <2>2
<1>20. QED
  BY <1>1, <1>16, <1>17, <1>18, <1>19, PassKeepsTable


(* A pass ends when it has called every handler.                           *)
LEMMA EndOfChainKeepsInv ==
  ASSUME ChainInv, NEW w \in Workers, EndOfChain(w)
  PROVE  ChainInv'
<1> USE DEF ChainInv
<1>1. /\ wpc[w] = "run" /\ wpc' = [wpc EXCEPT ![w] = "done"]
      /\ UNCHANGED <<tableVars, phase, config, ctx, pos, ran>>
  BY DEF EndOfChain
<1>2. UNCHANGED <<handlers, sorted>>
  BY <1>1 DEF tableVars
<1>3. wpc \in [Workers -> {"idle", "sort", "run", "done"}]
  BY DEF ChainTypes
<1>4. /\ wpc' \in [Workers -> {"idle", "sort", "run", "done"}]
      /\ wpc'[w] = "done" /\ \A v \in Workers : v # w => wpc'[v] = wpc[v]
  BY <1>1, <1>3
<1>5. ChainTypes'
  BY <1>1, <1>4, TableTypesSame DEF ChainTypes
<1>6. Sorting'
  BY <1>1, <1>2, <1>4 DEF Sorting
<1>7. Passing'
  BY <1>1, <1>2, <1>4 DEF Passing
<1>8. Contexts'
  BY <1>1, <1>2, <1>4 DEF Contexts
<1>9. QED
  BY <1>1, <1>5, <1>6, <1>7, <1>8, PassKeepsTable

(* The response keeps the context of its request; a new request has a new  *)
(* one.                                                                    *)
LEMMA NextPassKeepsInv ==
  ASSUME ChainInv, NEW w \in Workers, NextPass(w)
  PROVE  ChainInv'
<1> USE DEF ChainInv
<1>1. /\ wpc[w] = "done" /\ wpc' = [wpc EXCEPT ![w] = "idle"]
      /\ pos' = [pos EXCEPT ![w] = 0] /\ ran' = [ran EXCEPT ![w] = <<>>]
      /\ config' = [config EXCEPT ![w] = Off]
      /\ phase' = [phase EXCEPT ![w] = IF @ = "request" THEN "response" ELSE "request"]
      /\ ctx' = IF phase[w] = "request" THEN ctx ELSE [ctx EXCEPT ![w] = NewContext]
      /\ UNCHANGED tableVars
  BY DEF NextPass
<1>2. UNCHANGED <<handlers, sorted>>
  BY <1>1 DEF tableVars
<1>3. /\ wpc \in [Workers -> {"idle", "sort", "run", "done"}]
      /\ pos \in [Workers -> Nat] /\ ran \in [Workers -> Seq(Names)]
      /\ ctx \in [Workers -> [status : Nat, disconnect : BOOLEAN]]
      /\ config \in [Workers -> Configs] /\ phase \in [Workers -> {"request", "response"}]
  BY DEF ChainTypes
<1>4. /\ wpc' \in [Workers -> {"idle", "sort", "run", "done"}]
      /\ wpc'[w] = "idle" /\ \A v \in Workers : v # w => wpc'[v] = wpc[v]
  BY <1>1, <1>3
<1>5. /\ phase' \in [Workers -> {"request", "response"}]
      /\ phase'[w] = "request" => phase[w] # "request"
      /\ \A v \in Workers : v # w => phase'[v] = phase[v]
  BY <1>1, <1>3
<1>6. /\ ctx' \in [Workers -> [status : Nat, disconnect : BOOLEAN]]
      /\ phase[w] # "request" => ctx'[w] = NewContext
      /\ \A v \in Workers : v # w => ctx'[v] = ctx[v]
  <2>1. NewContext \in [status : Nat, disconnect : BOOLEAN]
    BY DEF NewContext
  <2>2. QED
    BY <1>1, <1>3, <2>1
<1>7. /\ pos' \in [Workers -> Nat] /\ ran' \in [Workers -> Seq(Names)]
      /\ config' \in [Workers -> Configs]
      /\ \A v \in Workers : v # w => pos'[v] = pos[v] /\ ran'[v] = ran[v]
  <2>1. <<>> \in Seq(Names) /\ Off \in Configs
    BY EmptySeq DEF Configs
  <2>2. QED
    BY <1>1, <1>3, <2>1
<1>8. ChainTypes'
  BY <1>1, <1>4, <1>5, <1>6, <1>7, TableTypesSame
<1>9. Sorting'
  <2> SUFFICES ASSUME NEW v \in Workers, wpc'[v] = "sort"
               PROVE  /\ ~sorted' /\ pos'[v] = 1 /\ ran'[v] = <<>>
                      /\ \A u \in Workers \ {v} : wpc'[u] \in {"idle", "done"}
    BY DEF Sorting
  <2>1. v # w /\ wpc[v] = "sort" /\ pos'[v] = pos[v] /\ ran'[v] = ran[v]
    BY <1>4, <1>7
  <2>2. /\ ~sorted /\ pos[v] = 1 /\ ran[v] = <<>>
        /\ \A u \in Workers \ {v} : wpc[u] \in {"idle", "done"}
    BY <2>1 DEF Sorting
  <2>3. QED
    BY <1>2, <1>4, <2>1, <2>2
<1>10. Passing'
  <2> SUFFICES ASSUME NEW v \in Workers, wpc'[v] = "run"
               PROVE  /\ sorted' /\ pos'[v] \in 1 .. Len(handlers') + 1
                      /\ Len(ran'[v]) = pos'[v] - 1
                      /\ \A j \in 1 .. pos'[v] - 1 : ran'[v][j] = handlers'[j].name
    BY DEF Passing
  <2>1. v # w /\ wpc[v] = "run" /\ pos'[v] = pos[v] /\ ran'[v] = ran[v]
    BY <1>4, <1>7
  <2>2. QED
    BY <1>2, <2>1 DEF Passing
<1>11. Contexts'
  <2> SUFFICES ASSUME NEW v \in Workers, phase'[v] = "request"
               PROVE  /\ wpc'[v] \in {"idle", "sort"} => ctx'[v] = NewContext
                      /\ wpc'[v] = "run" =>
                           /\ ~ctx'[v].disconnect
                           /\ ctx'[v].status # 0 => \E k \in 1 .. pos'[v] - 1 : handlers[k].name = ErrorCode
                      /\ ctx'[v].disconnect => ctx'[v].status = 0
    BY <1>2 DEF Contexts
  <2>1. CASE v = w
    <3>1. ctx'[w] = NewContext
      BY <1>5, <1>6, <2>1
    <3>2. ~ctx'[w].disconnect
      BY <3>1 DEF NewContext
    <3>3. QED
      BY <1>4, <2>1, <3>1, <3>2
  <2>2. CASE v # w
    BY <1>4, <1>5, <1>6, <1>7, <2>2 DEF Contexts
  <2>3. QED
    BY <2>1, <2>2
<1>12. QED
  BY <1>1, <1>8, <1>9, <1>10, <1>11, PassKeepsTable

(* The chain starts empty or with the four default handlers.               *)
LEMMA ChainStart == ChainInit => ChainInv
<1> SUFFICES ASSUME ChainInit PROVE ChainInv
  OBVIOUS
<1>1. /\ sorted = FALSE /\ created = Len(handlers) /\ exists = TRUE
      /\ freed = [o \in 1 .. MaxObjects |-> 0]
      /\ wpc = [w \in Workers |-> "idle"] /\ phase = [w \in Workers |-> "request"]
      /\ config = [w \in Workers |-> Off] /\ ctx = [w \in Workers |-> NewContext]
      /\ pos = [w \in Workers |-> 0] /\ ran = [w \in Workers |-> <<>>]
  BY DEF ChainInit
<1>2. PICK d : d = <<Delay, Disconnect, Log, ErrorCode>>
  OBVIOUS
<1>3. d[1] = 1 /\ d[2] = 2 /\ d[3] = 4 /\ d[4] = 3
  BY <1>2 DEF Delay, Disconnect, Log, ErrorCode
<1>4. handlers = <<>> \/ handlers = [k \in 1 .. 4 |-> [name |-> d[k], obj |-> k]]
  BY <1>2 DEF ChainInit
<1>5. /\ created \in 0 .. MaxObjects /\ handlers \in Seq([name : Names, obj : 1 .. created])
      /\ \A j \in 1 .. Len(handlers) : handlers[j].obj = j
      /\ \A j, k \in 1 .. Len(handlers) : handlers[j].name = handlers[k].name => j = k
  <2>1. CASE handlers = <<>>
    <3>1. Len(handlers) = 0 /\ handlers \in Seq([name : Names, obj : 1 .. created])
      BY <2>1, EmptySeq
    <3>2. QED
      BY <1>1, <3>1, ChainAssumption
  <2>2. CASE handlers = [k \in 1 .. 4 |-> [name |-> d[k], obj |-> k]]
    <3>1. \A k \in 1 .. 4 : d[k] \in Names
      BY <1>3 DEF Names, Default, Delay, Disconnect, ErrorCode, Log
    <3>2. PICK R : R = [name : Names, obj : 1 .. 4]
      OBVIOUS
    <3>3. handlers \in [1 .. 4 -> R]
      BY <2>2, <3>1, <3>2
    <3>4. handlers \in Seq(R) /\ Len(handlers) = 4
      <4>1. handlers \in Seq(R)
        BY <3>3, SeqDef
      <4>2. QED
        BY <3>3, <4>1, LenProperties
    <3>5. \A j \in 1 .. 4 : handlers[j].obj = j /\ handlers[j].name = d[j]
      BY <2>2
    <3>6. \A j, k \in 1 .. 4 : d[j] = d[k] => j = k
      BY <1>3
    <3>7. QED
      BY <1>1, <3>2, <3>4, <3>5, <3>6, ChainAssumption
  <2>3. QED
    BY <1>4, <2>1, <2>2
<1>6. ChainTypes
  <2>1. <<>> \in Seq(Names) /\ Off \in Configs
    BY EmptySeq DEF Configs
  <2>2. NewContext \in [status : Nat, disconnect : BOOLEAN]
    BY DEF NewContext
  <2>3. QED
    BY <1>1, <1>5, <2>1, <2>2 DEF ChainTypes
<1>7. Table
  BY <1>1, <1>5 DEF Table
<1>8. Owned
  <2>1. \A o \in 1 .. created : o \in Places(o)
    BY <1>1, <1>5 DEF Places
  <2>2. \A o \in 1 .. MaxObjects : freed[o] = 0
    BY <1>1
  <2>3. created \in 0 .. MaxObjects /\ MaxObjects \in Nat
    BY <1>5, ChainAssumption
  <2>4. QED
    BY <2>1, <2>2, <2>3 DEF Owned
<1>9. Sorting /\ Passing
  BY <1>1 DEF Sorting, Passing
<1>10. Contexts
  BY <1>1 DEF Contexts, NewContext
<1>11. QED
  BY <1>6, <1>7, <1>8, <1>9, <1>10 DEF ChainInv

(* Every step of the chain keeps the invariant.                            *)
LEMMA ChainStep ==
  ASSUME FirstAlone
  PROVE  ChainInv /\ [ChainNext]_chainVars => ChainInv'
<1> SUFFICES ASSUME ChainInv, [ChainNext]_chainVars PROVE ChainInv'
  OBVIOUS
<1>1. CASE \E n \in Registrable : Register(n) \/ RegisterExists(n) \/ Unregister(n)
  BY <1>1, RegisterKeepsInv, RegisterExistsKeepsInv, UnregisterKeepsInv
<1>2. CASE DestroyChain
  BY <1>2, DestroyKeepsInv
<1>3. CASE \E w \in Workers : Process(w) \/ Sort(w) \/ CallHandler(w) \/ EndOfChain(w) \/ NextPass(w)
  BY <1>3, ProcessKeepsInv, SortKeepsInv, CallHandlerKeepsInv, EndOfChainKeepsInv, NextPassKeepsInv
<1>4. CASE UNCHANGED chainVars
  <2>1. UNCHANGED <<handlers, sorted, created, freed, exists, wpc, phase, config, ctx, pos, ran>>
    BY <1>4 DEF chainVars
  <2>2. ChainTypes'
    BY <2>1 DEF ChainInv, ChainTypes
  <2>3. Table' /\ Owned'
    BY <2>1, PassKeepsTable DEF tableVars
  <2>4. Sorting' /\ Passing' /\ Contexts'
    BY <2>1 DEF ChainInv, Sorting, Passing, Contexts
  <2>5. QED
    BY <2>2, <2>3, <2>4 DEF ChainInv
<1>5. QED
  BY <1>1, <1>2, <1>3, <1>4 DEF ChainNext

(* The chain's invariant, when the pass that sorts has the chain to itself *)
(* (FirstAlone; without it two threads sort one vector at once).           *)
THEOREM ChainInvariant ==
  ASSUME FirstAlone
  PROVE  ChainSpec => []ChainInv
  BY ChainStart, ChainStep, PTL DEF ChainSpec

(* Every pass calls the handlers in order, once each and none left out,    *)
(* for any handlers with any priorities, any number of workers and any     *)
(* registrations between passes.                                           *)
THEOREM ChainPassesInOrder ==
  ASSUME FirstAlone
  PROVE  ChainSpec => []PassesInOrder
<1>1. ChainInv => PassesInOrder
  <2> SUFFICES ASSUME ChainInv, NEW w \in Workers, wpc[w] = "run"
               PROVE  /\ \A j, k \in 1 .. Len(ran[w]) : j < k => Before(ran[w][j], ran[w][k])
                      /\ \A i \in 1 .. Len(handlers) :
                           \/ \E j \in 1 .. Len(ran[w]) : ran[w][j] = handlers[i].name
                           \/ /\ pos[w] <= Len(handlers)
                              /\ \A j \in 1 .. Len(ran[w]) : Before(ran[w][j], handlers[i].name)
    BY DEF PassesInOrder
  <2>1. PICK N \in Nat, p \in Nat : N = Len(handlers) /\ p = pos[w]
    BY HandlerTypes DEF ChainInv, ChainTypes
  <2>2. /\ sorted /\ p \in 1 .. N + 1 /\ Len(ran[w]) = p - 1
        /\ \A j \in 1 .. p - 1 : ran[w][j] = handlers[j].name
    BY <2>1 DEF ChainInv, Passing
  <2>3. \A j, k \in 1 .. N : j < k => Before(handlers[j].name, handlers[k].name)
    BY <2>1, <2>2 DEF ChainInv, Table, Ascending
  <2>4. ASSUME NEW j \in 1 .. p - 1, NEW k \in 1 .. p - 1, j < k
        PROVE  Before(ran[w][j], ran[w][k])
    <3>1. j \in 1 .. N /\ k \in 1 .. N
      BY <2>2
    <3>2. QED
      BY <2>2, <2>3, <2>4, <3>1
  <2>5. ASSUME NEW i \in 1 .. N
        PROVE  \/ \E j \in 1 .. p - 1 : ran[w][j] = handlers[i].name
               \/ p <= N /\ \A j \in 1 .. p - 1 : Before(ran[w][j], handlers[i].name)
    <3>1. CASE i < p
      <4>1. i \in 1 .. p - 1
        BY <3>1
      <4>2. QED
        BY <2>2, <4>1
    <3>2. CASE p <= i
      <4>1. p <= N /\ \A j \in 1 .. p - 1 : j \in 1 .. N /\ j < i
        BY <2>2, <3>2
      <4>2. QED
        BY <2>2, <2>3, <4>1
    <3>3. QED
      BY <3>1, <3>2
  <2>6. QED
    BY <2>1, <2>2, <2>4, <2>5
<1>2. QED
  BY <1>1, ChainInvariant, PTL

(* A request that ends disconnected has no status set on it, wherever in   *)
(* the chain the two handlers were registered.                             *)
THEOREM ChainDisconnectPreempts ==
  ASSUME FirstAlone
  PROVE  ChainSpec => []DisconnectPreempts
<1>1. ChainInv => DisconnectPreempts
  BY DEF ChainInv, Contexts, DisconnectPreempts
<1>2. QED
  BY <1>1, ChainInvariant, PTL

(* Each handler object is in the chain once and alive, or has been         *)
(* destroyed exactly once.                                                 *)
THEOREM ChainHandlersOwned ==
  ASSUME FirstAlone
  PROVE  ChainSpec => []HandlersOwned
<1>1. ChainInv => HandlersOwned
  <2> SUFFICES ASSUME ChainInv, NEW o \in 1 .. created
               PROVE  freed[o] + Cardinality(Places(o)) = 1
    BY DEF HandlersOwned
  <2>1. freed[o] = IF Places(o) = {} THEN 1 ELSE 0
    BY DEF ChainInv, Owned
  <2>2. Cardinality(Places(o)) = IF Places(o) = {} THEN 0 ELSE 1
    BY PlacesCount DEF ChainInv
  <2>3. QED
    BY <2>1, <2>2
<1>2. QED
  BY <1>1, ChainInvariant, PTL

-------------------------------------------------------------------------------
(* HTTP/1.1.                                                               *)

(* What has been sent and not yet been taken from the buffer.              *)
Input == plaintext \o wire

(* The client has sent T, request k from place at[k] on.                   *)
Sent(T, at, reqs) ==
  /\ T \in Seq(Units)
  /\ at \in [1 .. Len(reqs) + 1 -> 0 .. Len(T)]
  /\ at[Len(reqs) + 1] = Len(T)
  /\ \A k \in 1 .. Len(reqs) :
       /\ at[k + 1] = at[k] + Len(Encoded(k, reqs[k]))
       /\ \A j \in 1 .. Len(Encoded(k, reqs[k])) : T[at[k] + j] = Encoded(k, reqs[k])[j]

(* What is left of T after d units.                                        *)
Rest(T, d, in) ==
  /\ d \in Nat /\ in \in Seq(Units)
  /\ d + Len(in) = Len(T)
  /\ \A i \in 1 .. Len(in) : in[i] = T[d + i]

(* Where the handler is in request c: before its line ...                  *)
AtLine(c, at, d) ==
  /\ state = "EXPECT_REQUEST_LINE" /\ pc \in {"idle", "loop"}
  /\ d = at[c] /\ body = <<>>

(* ... in its head, all of which is buffered ...                           *)
InHead(c, at, d, s) ==
  /\ state = "EXPECT_HEADERS"
  /\ c <= Len(requests) /\ s = requests[c]
  /\ s.line = "line" /\ body = <<>>
  /\ at[c] + Len(s.headers) + 2 <= d + Len(plaintext)

(* ... behind its line ...                                                 *)
AtHeaders(c, at, d, s) ==
  /\ InHead(c, at, d, s)
  /\ pc = "loop" /\ d = at[c] + 1

(* The headers stored are the first header_count of the request.           *)
HeadersRead(s) ==
  /\ header_count <= Len(s.headers)
  /\ \A h \in DOMAIN headers : \E j \in 1 .. header_count : h = s.headers[j]
  /\ \A j \in 1 .. header_count : s.headers[j] \in DOMAIN headers /\ s.headers[j] # "junk"
  /\ "length" \in DOMAIN headers => headers["length"] = s.body

(* ... between two lines of its head ...                                   *)
InHeaders(c, at, d, s) ==
  /\ InHead(c, at, d, s)
  /\ pc = "headers" /\ d = at[c] + 1 + header_count
  /\ HeadersRead(s)

(* ... in its body, of which body is the beginning ...                     *)
AtBody(c, at, d, s) ==
  /\ state = "EXPECT_BODY" /\ pc \in {"idle", "loop"}
  /\ c <= Len(requests) /\ s = requests[c] /\ WellFormed(s)
  /\ content_length = s.body /\ Len(body) < s.body
  /\ d = at[c] + Len(s.headers) + 2 + Len(body)
  /\ \A j \in 1 .. Len(body) : body[j] = Unit(c, "byte", j)

(* ... and behind it, body being all of it.                                *)
AtComplete(c, at, d, s) ==
  /\ state = "EXPECT_COMPLETE" /\ pc \in {"idle", "loop"}
  /\ c <= Len(requests) /\ s = requests[c] /\ WellFormed(s)
  /\ d = at[c] + Len(s.headers) + 2 + s.body
  /\ body = Body(c, s)

(* Where in request c the handler is.                                      *)
Progress(c, at, d) ==
  \/ AtLine(c, at, d)
  \/ \E s : AtHeaders(c, at, d, s)
  \/ \E s : InHeaders(c, at, d, s)
  \/ \E s : AtBody(c, at, d, s)
  \/ \E s : AtComplete(c, at, d, s)

(* The handler has taken d units of T, which end in request c, the first   *)
(* not answered.                                                           *)
Tracks(T, at, d, c) ==
  /\ c = Len(responses) + 1 /\ c \in 1 .. Len(requests) + 1
  /\ Sent(T, at, requests) /\ Rest(T, d, Input) /\ Progress(c, at, d)

(* As long as nothing was refused.                                         *)
Http1Live ==
  /\ \A k \in DOMAIN responses : responses[k].status = 200
  /\ \E T, at, d, c : Tracks(T, at, d, c)

(* What is still to be read begins outside a head.                         *)
HeadsWhole == wire # <<>> => wire[1].is \in LineKinds \cup {"byte"}

(* The inductive invariant.                                                *)
Http1Inv ==
  /\ TypeOK
  /\ HeadsWhole
  /\ tls # "open" => pc = "idle"
  /\ state = "ERROR" => pc # "headers"
  /\ RepliesInOrder
  /\ RejectsOnlyBad
  /\ tls = "open" /\ state # "ERROR" => Http1Live

-------------------------------------------------------------------------------
(* A unit of input is one.                                                 *)
LEMMA UnitType ==
  ASSUME NEW k \in Nat, NEW v \in Nat
  PROVE  /\ \A is \in LineKinds \cup HeaderKinds \cup {"blank", "byte"} : Unit(k, is, v) \in Units
         /\ \A is : Unit(k, is, v).is = is /\ Unit(k, is, v).val = v
BY DEF Unit, Units

(* The fields of a unit.                                                   *)
LEMMA UnitFields ==
  ASSUME NEW k, NEW kind, NEW v
  PROVE  Unit(k, kind, v).req = k /\ Unit(k, kind, v).is = kind /\ Unit(k, kind, v).val = v
BY DEF Unit

(* The fields of a request.                                                *)
LEMMA ShapeType ==
  ASSUME Http1Assumption, NEW s \in Shapes
  PROVE  /\ s.line \in LineKinds /\ s.headers \in Seq(HeaderKinds) /\ s.body \in Nat
         /\ Len(s.headers) \in Nat /\ DOMAIN s.headers = 1 .. Len(s.headers)
         /\ \A j \in 1 .. Len(s.headers) : s.headers[j] \in HeaderKinds
<1>1. s.line \in LineKinds /\ s.headers \in Seq(HeaderKinds) /\ s.body \in Nat
  BY Http1Assumption DEF Http1Assumption
<1>2. QED
  BY <1>1, LenProperties, ElementOfSeq

(* E is request k of shape s, with H headers and B bytes of body.          *)
Laid(E, k, s, H, B) ==
  /\ Len(E) = H + 2 + B
  /\ E[1] = Unit(k, s.line, 0)
  /\ \A j \in 1 .. H : E[1 + j] = Unit(k, s.headers[j], IF s.headers[j] = "length" THEN B ELSE 0)
  /\ E[H + 2] = Unit(k, "blank", 0)
  /\ \A j \in 1 .. B : E[H + 2 + j] = Unit(k, "byte", j)

(* The parts of a request.                                                 *)
LEMMA EncodedParts ==
  ASSUME Http1Assumption, NEW s \in Shapes, NEW k \in Nat
  PROVE  /\ Encoded(k, s) \in Seq(Units)
         /\ Laid(Encoded(k, s), k, s, Len(s.headers), s.body)
<1>1. PICK H \in Nat : /\ H = Len(s.headers) /\ DOMAIN s.headers = 1 .. H
                       /\ \A j \in 1 .. H : s.headers[j] \in HeaderKinds
  BY ShapeType
<1>2. PICK B \in Nat : B = s.body
  BY ShapeType
<1>3. PICK a, hs, b, bs :
        /\ a = <<Unit(k, s.line, 0)>> /\ b = <<Unit(k, "blank", 0)>>
        /\ hs = [j \in 1 .. H |-> Unit(k, s.headers[j], IF s.headers[j] = "length" THEN B ELSE 0)]
        /\ bs = [j \in 1 .. B |-> Unit(k, "byte", j)]
  OBVIOUS
<1>4. /\ a \in Seq(Units) /\ Len(a) = 1 /\ a[1] = Unit(k, s.line, 0)
      /\ b \in Seq(Units) /\ Len(b) = 1 /\ b[1] = Unit(k, "blank", 0)
  <2>1. Unit(k, s.line, 0) \in Units /\ Unit(k, "blank", 0) \in Units
    BY ShapeType, UnitType
  <2>2. QED
    BY <1>3, <2>1
<1>5. /\ hs \in Seq(Units) /\ Len(hs) = H
      /\ \A j \in 1 .. H : hs[j] = Unit(k, s.headers[j], IF s.headers[j] = "length" THEN B ELSE 0)
  <2>1. \A j \in 1 .. H : Unit(k, s.headers[j], IF s.headers[j] = "length" THEN B ELSE 0) \in Units
    BY <1>1, UnitType
  <2>2. hs \in [1 .. H -> Units]
    BY <1>3, <2>1
  <2>3. hs \in Seq(Units) /\ Len(hs) = H
    BY <2>2, SeqDef, LenProperties
  <2>4. QED
    BY <1>3, <2>3
<1>6. bs \in Seq(Units) /\ Len(bs) = B /\ \A j \in 1 .. B : bs[j] = Unit(k, "byte", j)
  <2>1. \A j \in 1 .. B : Unit(k, "byte", j) \in Units
    BY UnitType
  <2>2. bs \in [1 .. B -> Units]
    BY <1>3, <2>1
  <2>3. bs \in Seq(Units) /\ Len(bs) = B
    BY <2>2, SeqDef, LenProperties
  <2>4. QED
    BY <1>3, <2>3
<1>7. Encoded(k, s) = ((a \o hs) \o b) \o bs
  BY <1>1, <1>2, <1>3 DEF Encoded, Body
<1>8. PICK x, y, z : x = a \o hs /\ y = x \o b /\ z = y \o bs
  OBVIOUS
<1>9. /\ x \in Seq(Units) /\ Len(x) = 1 + H
      /\ \A i \in 1 .. 1 + H : x[i] = IF i <= 1 THEN a[i] ELSE hs[i - 1]
  <2>1. a \in Seq(Units) /\ hs \in Seq(Units)
    BY <1>4, <1>5
  <2>2. Len(x) = Len(a) + Len(hs) /\ x \in Seq(Units)
        /\ \A i \in 1 .. Len(a) + Len(hs) : x[i] = IF i <= Len(a) THEN a[i] ELSE hs[i - Len(a)]
    BY <1>8, <2>1, ConcatProperties
  <2>3. QED
    BY <1>4, <1>5, <2>2
<1>10. /\ y \in Seq(Units) /\ Len(y) = H + 2
       /\ \A i \in 1 .. H + 2 : y[i] = IF i <= 1 + H THEN x[i] ELSE b[i - (1 + H)]
  <2>1. Len(y) = Len(x) + Len(b) /\ y \in Seq(Units)
        /\ \A i \in 1 .. Len(x) + Len(b) : y[i] = IF i <= Len(x) THEN x[i] ELSE b[i - Len(x)]
    <3>1. x \in Seq(Units) /\ b \in Seq(Units)
      BY <1>4, <1>9
    <3>2. QED
      BY <1>8, <3>1, ConcatProperties
  <2>2. QED
    BY <1>4, <1>9, <2>1
<1>11. /\ z \in Seq(Units) /\ Len(z) = H + 2 + B
       /\ \A i \in 1 .. H + 2 + B : z[i] = IF i <= H + 2 THEN y[i] ELSE bs[i - (H + 2)]
  <2>0. y \in Seq(Units) /\ bs \in Seq(Units)
    BY <1>6, <1>10
  <2>1. Len(z) = Len(y) + Len(bs) /\ z \in Seq(Units)
        /\ \A i \in 1 .. Len(y) + Len(bs) : z[i] = IF i <= Len(y) THEN y[i] ELSE bs[i - Len(y)]
    BY <1>8, <2>0, ConcatProperties
  <2>2. QED
    BY <1>6, <1>10, <2>1
<1>12. z[1] = a[1]
  BY <1>9, <1>10, <1>11
<1>13. \A j \in 1 .. H : z[1 + j] = hs[j]
  BY <1>9, <1>10, <1>11
<1>14. z[H + 2] = b[1]
  BY <1>10, <1>11
<1>15. \A j \in 1 .. B : z[H + 2 + j] = bs[j]
  BY <1>11
<1>16. Encoded(k, s) = z
  BY <1>7, <1>8
<1>17. Laid(z, k, s, H, B)
  BY <1>4, <1>5, <1>6, <1>11, <1>12, <1>13, <1>14, <1>15 DEF Laid
<1>18. QED
  BY <1>1, <1>2, <1>11, <1>16, <1>17, Zenon

(* Request k, of shape s with H headers and B bytes of body, is in T from  *)
(* place a on.                                                             *)
PartsAt(T, a, k, s, H, B) ==
  /\ a + H + 2 + B <= Len(T)
  /\ T[a + 1] = Unit(k, s.line, 0)
  /\ \A j \in 1 .. H : T[a + 1 + j] = Unit(k, s.headers[j], IF s.headers[j] = "length" THEN B ELSE 0)
  /\ T[a + H + 2] = Unit(k, "blank", 0)
  /\ \A j \in 1 .. B : T[a + H + 2 + j] = Unit(k, "byte", j)

(* The parts of request k, at their places in what was sent.               *)
LEMMA SentParts ==
  ASSUME Http1Assumption, NEW reqs \in Seq(Shapes), NEW T, NEW at, Sent(T, at, reqs),
         NEW k \in 1 .. Len(reqs)
  PROVE  /\ reqs[k] \in Shapes /\ at[k] \in Nat /\ T \in Seq(Units)
         /\ at[k + 1] = at[k] + Len(reqs[k].headers) + 2 + reqs[k].body
         /\ PartsAt(T, at[k], k, reqs[k], Len(reqs[k].headers), reqs[k].body)
<1>1. reqs[k] \in Shapes /\ Len(reqs) \in Nat /\ k \in Nat
  BY ElementOfSeq, LenProperties
<1>2. PICK s \in Shapes : s = reqs[k]
  BY <1>1
<1>3. PICK E : E = Encoded(k, s)
  OBVIOUS
<1>4. PICK H \in Nat, B \in Nat : H = Len(s.headers) /\ B = s.body
  BY ShapeType
<1>5a. Laid(E, k, s, H, B)
  BY <1>1, <1>3, <1>4, EncodedParts, Zenon
<1>5. /\ Len(E) = H + 2 + B /\ E[1] = Unit(k, s.line, 0)
      /\ \A j \in 1 .. H : E[1 + j] = Unit(k, s.headers[j], IF s.headers[j] = "length" THEN B ELSE 0)
      /\ E[H + 2] = Unit(k, "blank", 0)
      /\ \A j \in 1 .. B : E[H + 2 + j] = Unit(k, "byte", j)
  BY <1>5a, Zenon DEF Laid
<1>6. T \in Seq(Units) /\ at \in [1 .. Len(reqs) + 1 -> 0 .. Len(T)]
  BY DEF Sent
<1>7. Len(T) \in Nat
  BY <1>6, LenProperties
<1>8. at[k] \in 0 .. Len(T) /\ at[k + 1] \in 0 .. Len(T)
  <2>1. PICK n \in Nat : n = Len(reqs)
    BY <1>1
  <2>2. k \in 1 .. n + 1 /\ k + 1 \in 1 .. n + 1
    BY <2>1
  <2>3. QED
    BY <1>6, <2>1, <2>2, Zenon
<1>9. /\ at[k + 1] = at[k] + Len(E)
      /\ \A j \in 1 .. Len(E) : T[at[k] + j] = E[j]
  BY <1>2, <1>3 DEF Sent
<1>10. PICK a \in Nat : a = at[k]
  BY <1>7, <1>8
<1>11. \A j \in 1 .. H + 2 + B : T[a + j] = E[j]
  BY <1>5, <1>9, <1>10
<1>12. T[a + 1] = E[1] /\ T[a + H + 2] = E[H + 2]
  <2>1. 1 \in 1 .. H + 2 + B /\ H + 2 \in 1 .. H + 2 + B /\ a + H + 2 = a + (H + 2)
    OBVIOUS
  <2>2. T[a + 1] = E[1] /\ T[a + (H + 2)] = E[H + 2]
    BY <1>11, <2>1, Zenon
  <2>3. QED
    BY <2>1, <2>2
<1>13. ASSUME NEW j \in 1 .. H PROVE T[a + 1 + j] = E[1 + j]
  <2>1. 1 + j \in 1 .. H + 2 + B /\ a + 1 + j = a + (1 + j)
    OBVIOUS
  <2>2. QED
    BY <1>11, <2>1, Zenon
<1>14. ASSUME NEW j \in 1 .. B PROVE T[a + H + 2 + j] = E[H + 2 + j]
  <2>1. PICK i : i = H + 2 + j
    OBVIOUS
  <2>2. i \in 1 .. H + 2 + B /\ a + H + 2 + j = a + i
    BY <2>1
  <2>3. T[a + i] = E[i]
    BY <1>11, <2>2, Zenon
  <2>4. QED
    BY <2>1, <2>2, <2>3, Zenon
<1>15. at[k + 1] = a + H + 2 + B /\ a + H + 2 + B <= Len(T)
  <2>1. PICK e : e = at[k + 1]
    OBVIOUS
  <2>2. PICK l \in Nat : l = Len(T)
    BY <1>7
  <2>3. e \in 0 .. l /\ e = a + (H + 2 + B)
    BY <1>5, <1>8, <1>9, <1>10, <2>1, <2>2, Zenon
  <2>4. e = a + H + 2 + B /\ a + H + 2 + B <= l
    BY <2>3
  <2>5. QED
    BY <2>1, <2>2, <2>4, Zenon
<1>16. PartsAt(T, a, k, s, H, B)
  BY <1>5, <1>12, <1>13, <1>14, <1>15, Zenon DEF PartsAt
<1>17. at[k] \in Nat
  BY <1>10
<1>18. QED
  BY <1>1, <1>2, <1>4, <1>6, <1>10, <1>15, <1>16, <1>17, Zenon

(* One more request is sent.                                               *)
LEMMA SentMore ==
  ASSUME Http1Assumption, NEW reqs \in Seq(Shapes), NEW T, NEW at, Sent(T, at, reqs), NEW s \in Shapes
  PROVE  \E at2 : /\ Sent(T \o Encoded(Len(reqs) + 1, s), at2, Append(reqs, s))
                  /\ \A k \in 1 .. Len(reqs) + 1 : at2[k] = at[k]
<1>1. PICK n \in Nat : n = Len(reqs)
  BY LenProperties
<1>2. PICK E, T2, reqs2 : E = Encoded(n + 1, s) /\ T2 = T \o E /\ reqs2 = Append(reqs, s)
  OBVIOUS
<1>3. E \in Seq(Units) /\ Len(E) \in Nat
  <2>1. E \in Seq(Units)
    BY <1>1, <1>2, EncodedParts
  <2>2. QED
    BY <2>1, LenProperties
<1>4. PICK m \in Nat : m = Len(T)
  BY LenProperties DEF Sent
<1>5. /\ T2 \in Seq(Units) /\ Len(T2) = m + Len(E)
      /\ \A i \in 1 .. m : T2[i] = T[i]
      /\ \A i \in 1 .. Len(E) : T2[m + i] = E[i]
  <2>1. T \in Seq(Units)
    BY DEF Sent
  <2>2. /\ T2 \in Seq(Units) /\ Len(T2) = m + Len(E)
        /\ \A i \in 1 .. m + Len(E) : T2[i] = IF i <= m THEN T[i] ELSE E[i - m]
    BY <1>2, <1>3, <1>4, <2>1, ConcatProperties
  <2>3. ASSUME NEW i \in 1 .. m PROVE T2[i] = T[i]
    <3>1. i \in 1 .. m + Len(E) /\ i <= m
      BY <1>3
    <3>2. QED
      BY <2>2, <3>1
  <2>4. ASSUME NEW i \in 1 .. Len(E) PROVE T2[m + i] = E[i]
    <3>1. m + i \in 1 .. m + Len(E) /\ ~(m + i <= m) /\ m + i - m = i
      BY <1>3
    <3>2. QED
      BY <2>2, <3>1
  <2>5. QED
    BY <2>2, <2>3, <2>4
<1>6. Len(reqs2) = n + 1 /\ reqs2[n + 1] = s /\ \A k \in 1 .. n : reqs2[k] = reqs[k]
  BY <1>1, <1>2, AppendProperties
<1>7. PICK at2 : at2 = [k \in 1 .. n + 2 |-> IF k <= n + 1 THEN at[k] ELSE m + Len(E)]
  OBVIOUS
<1>8. /\ at \in [1 .. n + 1 -> 0 .. m] /\ at[n + 1] = m
  BY <1>1, <1>4 DEF Sent
<1>9. /\ at2 \in [1 .. n + 2 -> 0 .. m + Len(E)] /\ at2[n + 2] = m + Len(E)
      /\ \A k \in 1 .. n + 1 : at2[k] = at[k]
  BY <1>3, <1>7, <1>8
<1>10. ASSUME NEW k \in 1 .. n + 1
       PROVE  /\ at2[k + 1] = at2[k] + Len(Encoded(k, reqs2[k]))
              /\ \A j \in 1 .. Len(Encoded(k, reqs2[k])) : T2[at2[k] + j] = Encoded(k, reqs2[k])[j]
  <2>1. CASE k = n + 1
    <3>1. at2[k] = m /\ at2[k + 1] = m + Len(E) /\ Encoded(k, reqs2[k]) = E
      BY <1>2, <1>6, <1>8, <1>9, <2>1
    <3>2. QED
      BY <1>5, <3>1
  <2>2. CASE k # n + 1
    <3>1. k \in 1 .. n /\ k + 1 \in 1 .. n + 1
      BY <2>2
    <3>2. at2[k] = at[k] /\ at2[k + 1] = at[k + 1] /\ reqs2[k] = reqs[k]
      BY <1>6, <1>9, <3>1
    <3>3. PICK F : F = Encoded(k, reqs[k])
      OBVIOUS
    <3>4. /\ at[k + 1] = at[k] + Len(F)
          /\ \A j \in 1 .. Len(F) : T[at[k] + j] = F[j]
      BY <1>1, <3>1, <3>3 DEF Sent
    <3>5. at[k] \in 0 .. m /\ at[k + 1] \in 0 .. m
      BY <1>8, <3>1
    <3>6. Len(F) \in Nat
      <4>1. reqs[k] \in Shapes
        BY <1>1, <3>1, ElementOfSeq
      <4>2. k \in Nat
        BY <3>1
      <4>2a. F \in Seq(Units)
        BY <3>3, <4>1, <4>2, EncodedParts, Zenon
      <4>3. QED
        BY <4>2a, LenProperties
    <3>7. ASSUME NEW j \in 1 .. Len(F) PROVE T2[at[k] + j] = F[j]
      <4>1. at[k] + j \in 1 .. m
        BY <3>4, <3>5, <3>6
      <4>2. QED
        BY <1>5, <3>4, <4>1
    <3>8. QED
      BY <3>2, <3>3, <3>4, <3>7
  <2>3. QED
    BY <2>1, <2>2
<1>11. Sent(T2, at2, reqs2)
  <2>1. Len(reqs2) = n + 1 /\ Len(reqs2) + 1 = n + 2 /\ Len(T2) = m + Len(E)
    BY <1>5, <1>6
  <2>2. /\ at2 \in [1 .. Len(reqs2) + 1 -> 0 .. Len(T2)]
        /\ at2[Len(reqs2) + 1] = Len(T2)
    BY <1>9, <2>1
  <2>3. \A k \in 1 .. Len(reqs2) :
          /\ at2[k + 1] = at2[k] + Len(Encoded(k, reqs2[k]))
          /\ \A j \in 1 .. Len(Encoded(k, reqs2[k])) : T2[at2[k] + j] = Encoded(k, reqs2[k])[j]
    BY <1>10, <2>1, Zenon
  <2>4. QED
    BY <1>5, <2>2, <2>3, Zenon DEF Sent
<1>12. QED
  BY <1>1, <1>2, <1>9, <1>11

(* What is sent is appended to what is left.                               *)
LEMMA RestMore ==
  ASSUME NEW T \in Seq(Units), NEW d, NEW in, Rest(T, d, in), NEW E \in Seq(Units)
  PROVE  Rest(T \o E, d, in \o E)
<1>1. PICK m \in Nat, l \in Nat, e \in Nat : m = Len(T) /\ l = Len(in) /\ e = Len(E)
  BY LenProperties DEF Rest
<1>2. d \in Nat /\ in \in Seq(Units) /\ d + l = m /\ \A i \in 1 .. l : in[i] = T[d + i]
  BY <1>1 DEF Rest
<1>3. PICK T2, in2 : T2 = T \o E /\ in2 = in \o E
  OBVIOUS
<1>4. /\ T2 \in Seq(Units) /\ Len(T2) = m + e
      /\ \A i \in 1 .. m + e : T2[i] = IF i <= m THEN T[i] ELSE E[i - m]
  BY <1>1, <1>3, ConcatProperties
<1>5. /\ in2 \in Seq(Units) /\ Len(in2) = l + e
      /\ \A i \in 1 .. l + e : in2[i] = IF i <= l THEN in[i] ELSE E[i - l]
  BY <1>1, <1>2, <1>3, ConcatProperties
<1>6. ASSUME NEW i \in 1 .. l + e PROVE in2[i] = T2[d + i]
  <2>1. d + i \in 1 .. m + e /\ (i <= l <=> d + i <= m) /\ (d + i) - m = i - l
    <3>1. d \in Nat /\ d + l = m
      BY <1>2
    <3>2. QED
      BY <3>1
  <2>2. in2[i] = IF i <= l THEN in[i] ELSE E[i - l]
    BY <1>5
  <2>3. T2[d + i] = IF d + i <= m THEN T[d + i] ELSE E[(d + i) - m]
    BY <1>4, <2>1
  <2>4. i <= l => in[i] = T[d + i]
    BY <1>2
  <2>5. QED
    BY <2>1, <2>2, <2>3, <2>4
<1>7. d + Len(in2) = Len(T2)
  BY <1>2, <1>4, <1>5
<1>8. Rest(T2, d, in2)
  BY <1>2, <1>5, <1>6, <1>7 DEF Rest
<1>9. QED
  BY <1>3, <1>8

(* p and w are the last parts of T, behind its first d units.              *)
InParts(T, d, p, w) ==
  /\ d \in Nat /\ d + Len(p) + Len(w) = Len(T)
  /\ \A i \in 1 .. Len(p) : p[i] = T[d + i]
  /\ \A i \in 1 .. Len(w) : w[i] = T[d + Len(p) + i]

(* Where the two parts of the input are in T.                              *)
LEMMA RestParts ==
  ASSUME NEW T \in Seq(Units), NEW d, NEW p \in Seq(Units), NEW w \in Seq(Units), Rest(T, d, p \o w)
  PROVE  InParts(T, d, p, w)
<1>1. PICK m \in Nat, l \in Nat, e \in Nat : m = Len(T) /\ l = Len(p) /\ e = Len(w)
  BY LenProperties
<1>2. PICK in : in = p \o w
  OBVIOUS
<1>3. /\ in \in Seq(Units) /\ Len(in) = l + e
      /\ \A i \in 1 .. l + e : in[i] = IF i <= l THEN p[i] ELSE w[i - l]
  BY <1>1, <1>2, ConcatProperties
<1>4. d \in Nat /\ d + (l + e) = m /\ \A i \in 1 .. l + e : in[i] = T[d + i]
  BY <1>1, <1>2, <1>3 DEF Rest
<1>5. ASSUME NEW i \in 1 .. l PROVE p[i] = T[d + i]
  BY <1>3, <1>4
<1>6. ASSUME NEW i \in 1 .. e PROVE w[i] = T[d + l + i]
  <2>1. l + i \in 1 .. l + e /\ ~(l + i <= l) /\ (l + i) - l = i /\ d + (l + i) = d + l + i
    BY <1>4
  <2>2. QED
    BY <1>3, <1>4, <2>1
<1>7. d + l + e = m
  BY <1>4
<1>8. QED
  BY <1>1, <1>4, <1>5, <1>6, <1>7, Zenon DEF InParts

(* Units are taken from the buffer.                                        *)
LEMMA RestDrop ==
  ASSUME NEW T \in Seq(Units), NEW d, NEW p \in Seq(Units), NEW w \in Seq(Units), Rest(T, d, p \o w),
         NEW m \in 0 .. Len(p)
  PROVE  /\ SubSeq(p, m + 1, Len(p)) \in Seq(Units)
         /\ Len(SubSeq(p, m + 1, Len(p))) = Len(p) - m
         /\ Rest(T, d + m, SubSeq(p, m + 1, Len(p)) \o w)
<1>1. PICK l \in Nat, e \in Nat : l = Len(p) /\ e = Len(w)
  BY LenProperties
<1>2. PICK q : q = SubSeq(p, m + 1, l)
  OBVIOUS
<1>3. q \in Seq(Units) /\ Len(q) = l - m /\ \A i \in 1 .. l - m : q[i] = p[m + i]
  <2>1. \A i \in m + 1 .. l : p[i] \in Units
    BY <1>1, ElementOfSeq
  <2>2. /\ q \in Seq(Units) /\ Len(q) = IF m + 1 <= l THEN l - (m + 1) + 1 ELSE 0
        /\ \A i \in 1 .. l - (m + 1) + 1 : q[i] = p[m + 1 + i - 1]
    BY <1>1, <1>2, <2>1, SubSeqProperties
  <2>3. QED
    BY <1>1, <2>2
<1>4. PICK in : in = q \o w
  OBVIOUS
<1>5. /\ in \in Seq(Units) /\ Len(in) = (l - m) + e
      /\ \A i \in 1 .. (l - m) + e : in[i] = IF i <= l - m THEN q[i] ELSE w[i - (l - m)]
  <2>1. q \in Seq(Units) /\ Len(q) = l - m
    BY <1>3
  <2>2. /\ in \in Seq(Units) /\ Len(in) = Len(q) + Len(w)
        /\ \A i \in 1 .. Len(q) + Len(w) : in[i] = IF i <= Len(q) THEN q[i] ELSE w[i - Len(q)]
    BY <1>4, <2>1, ConcatProperties
  <2>3. QED
    BY <1>1, <2>1, <2>2, Zenon
<1>6. /\ d \in Nat /\ d + l + e = Len(T)
      /\ \A i \in 1 .. l : p[i] = T[d + i]
      /\ \A i \in 1 .. e : w[i] = T[d + l + i]
  <2>1. InParts(T, d, p, w)
    BY RestParts
  <2>2. QED
    BY <1>1, <2>1, Zenon DEF InParts
<1>7. ASSUME NEW i \in 1 .. (l - m) + e PROVE in[i] = T[d + m + i]
  <2>1. CASE i <= l - m
    <3>1. m + i \in 1 .. l /\ i \in 1 .. l - m /\ d + (m + i) = d + m + i
      BY <1>1, <1>6, <2>1
    <3>2. QED
      BY <1>3, <1>5, <1>6, <2>1, <3>1
  <2>2. CASE ~(i <= l - m)
    <3>1. i - (l - m) \in 1 .. e /\ d + l + (i - (l - m)) = d + m + i
      BY <1>1, <1>6, <2>2
    <3>2. QED
      BY <1>5, <1>6, <2>2, <3>1
  <2>3. QED
    BY <2>1, <2>2
<1>8. d + m \in Nat /\ d + m + Len(in) = Len(T)
  <2>1. m \in Nat /\ d + m \in Nat
    BY <1>6
  <2>2. d + m + ((l - m) + e) = d + l + e
    BY <1>6, <2>1
  <2>3. QED
    BY <1>5, <1>6, <2>1, <2>2
<1>9. Rest(T, d + m, in)
  BY <1>5, <1>7, <1>8 DEF Rest
<1>10. QED
  BY <1>1, <1>2, <1>3, <1>4, <1>9


(* Request c, of shape s with H headers and B bytes of body, begins at a;  *)
(* l units are buffered.                                                   *)
Position(T, at, d, c, s, a, H, B, l) ==
  /\ s = requests[c] /\ a = at[c] /\ H = Len(s.headers) /\ B = s.body /\ l = Len(plaintext)
  /\ d \in Nat /\ at[c + 1] = a + H + 2 + B /\ a + H + 2 + B <= Len(T)
  /\ \A i \in 1 .. l : plaintext[i] = T[d + i]
  /\ T[a + 1] = Unit(c, s.line, 0)
  /\ \A j \in 1 .. H : T[a + 1 + j] = Unit(c, s.headers[j], IF s.headers[j] = "length" THEN B ELSE 0)
  /\ T[a + H + 2] = Unit(c, "blank", 0)
  /\ \A j \in 1 .. B : T[a + H + 2 + j] = Unit(c, "byte", j)

(* The request being read, and what of it is buffered.                     *)
LEMMA Located ==
  ASSUME Http1Assumption, TypeOK, NEW T, NEW at, NEW d, NEW c \in Nat, Tracks(T, at, d, c),
         c <= Len(requests)
  PROVE  \E s \in Shapes, a \in Nat, H \in Nat, B \in Nat, l \in Nat :
           Position(T, at, d, c, s, a, H, B, l)
<1>1. PICK reqs : reqs = requests
  OBVIOUS
<1>2. reqs \in Seq(Shapes) /\ Sent(T, at, reqs) /\ c \in 1 .. Len(reqs)
  <2>1. c \in 1 .. Len(requests) + 1 /\ Sent(T, at, requests) /\ requests \in Seq(Shapes)
    BY DEF Tracks, TypeOK
  <2>2. PICK n \in Nat : n = Len(requests)
    BY <2>1, LenProperties
  <2>3. c \in 1 .. n
    BY <2>1, <2>2
  <2>4. QED
    BY <1>1, <2>1, <2>2, <2>3
<1>3. /\ reqs[c] \in Shapes /\ at[c] \in Nat /\ T \in Seq(Units)
      /\ at[c + 1] = at[c] + Len(reqs[c].headers) + 2 + reqs[c].body
      /\ PartsAt(T, at[c], c, reqs[c], Len(reqs[c].headers), reqs[c].body)
  BY <1>2, SentParts, Zenon
<1>4. PICK s \in Shapes, a \in Nat : s = reqs[c] /\ a = at[c]
  BY <1>3
<1>5. PICK H \in Nat, B \in Nat : H = Len(s.headers) /\ B = s.body
  BY ShapeType
<1>6. plaintext \in Seq(Units) /\ wire \in Seq(Units) /\ Rest(T, d, plaintext \o wire)
  BY DEF TypeOK, Tracks, Input
<1>7. PICK l \in Nat : l = Len(plaintext)
  BY <1>6, LenProperties
<1>8. d \in Nat /\ \A i \in 1 .. l : plaintext[i] = T[d + i]
  <2>1. PICK p \in Seq(Units), w \in Seq(Units) : p = plaintext /\ w = wire
    BY <1>6
  <2>2. T \in Seq(Units)
    BY <1>3
  <2>3. Rest(T, d, p \o w)
    BY <1>6, <2>1
  <2>0. InParts(T, d, p, w)
    BY <2>2, <2>3, RestParts
  <2>4. /\ d \in Nat /\ d + Len(p) + Len(w) = Len(T)
        /\ \A i \in 1 .. Len(p) : p[i] = T[d + i]
        /\ \A i \in 1 .. Len(w) : w[i] = T[d + Len(p) + i]
    BY <2>0, Zenon DEF InParts
  <2>5. QED
    BY <1>7, <2>1, <2>4, Zenon
<1>9. /\ at[c + 1] = a + H + 2 + B /\ a + H + 2 + B <= Len(T)
      /\ T[a + 1] = Unit(c, s.line, 0)
      /\ \A j \in 1 .. H : T[a + 1 + j] = Unit(c, s.headers[j], IF s.headers[j] = "length" THEN B ELSE 0)
      /\ T[a + H + 2] = Unit(c, "blank", 0)
      /\ \A j \in 1 .. B : T[a + H + 2 + j] = Unit(c, "byte", j)
  BY <1>3, <1>4, <1>5, Zenon DEF PartsAt
<1>10. Position(T, at, d, c, s, a, H, B, l)
  BY <1>1, <1>4, <1>5, <1>7, <1>8, <1>9, Zenon DEF Position
<1>11. QED
  BY <1>10

(* read_line() takes one unit when that unit is a line.                    *)
LEMMA FirstLine ==
  ASSUME plaintext \in Seq(Units), Len(plaintext) > 0, plaintext[1].is # "byte"
  PROVE  LineEnds # {} /\ LineLength = 1
<1>1. PICK p \in Seq(Units) : p = plaintext
  OBVIOUS
<1>2. PICK l \in Nat : l = Len(p) /\ l > 0 /\ DOMAIN p = 1 .. l
  BY <1>1, LenProperties
<1>3. PICK L : L = LineEnds
  OBVIOUS
<1>4. 1 \in L /\ \A e \in L : e \in Nat /\ 1 <= e
  BY <1>1, <1>2, <1>3 DEF LineEnds
<1>5. (CHOOSE j \in L : \A e \in L : j <= e) = 1
  <2>1. \E j \in L : \A e \in L : j <= e
    BY <1>4
  <2>2. PICK x : x = CHOOSE j \in L : \A e \in L : j <= e
    OBVIOUS
  <2>3. x \in L /\ \A e \in L : x <= e
    BY <2>1, <2>2
  <2>4. x = 1
    BY <1>4, <2>3
  <2>5. QED
    BY <2>2, <2>4
<1>6. QED
  BY <1>3, <1>4, <1>5, Zenon DEF LineLength

(* DropLine, when the first unit is a line.                                *)
LEMMA DropFirst ==
  ASSUME TypeOK, NEW T, NEW at, NEW d, NEW c, Tracks(T, at, d, c),
         Len(plaintext) > 0, plaintext[1].is # "byte", DropLine, wire' = wire
  PROVE  /\ plaintext' \in Seq(Units) /\ Len(plaintext') = Len(plaintext) - 1
         /\ Rest(T, d + 1, Input')
<1>1. /\ plaintext \in Seq(Units) /\ wire \in Seq(Units) /\ T \in Seq(Units)
      /\ Rest(T, d, plaintext \o wire)
  BY DEF TypeOK, Tracks, Input, Sent
<1>2. LineLength = 1
  BY <1>1, FirstLine
<1>3. plaintext' = SubSeq(plaintext, 1 + 1, Len(plaintext))
  BY <1>2, Zenon DEF DropLine
<1>4. 1 \in 0 .. Len(plaintext)
  BY <1>1, LenProperties
<1>5. /\ SubSeq(plaintext, 1 + 1, Len(plaintext)) \in Seq(Units)
      /\ Len(SubSeq(plaintext, 1 + 1, Len(plaintext))) = Len(plaintext) - 1
      /\ Rest(T, d + 1, SubSeq(plaintext, 1 + 1, Len(plaintext)) \o wire)
  BY <1>1, <1>4, RestDrop, Zenon
<1>6. QED
  BY <1>3, <1>5, Zenon DEF Input

-------------------------------------------------------------------------------
(* The first request not answered is malformed.                            *)
FirstBad ==
  \E k \in 1 .. Len(requests) :
    /\ ~WellFormed(requests[k]) /\ ~Answered(k)
    /\ \A j \in 1 .. k - 1 : Answered(j)

(* After a 400 there are only 400s.                                        *)
Final400 ==
  \A i, j \in DOMAIN responses :
    i <= j /\ responses[i].status = 400 => responses[j].status = 400

(* The two halves of RejectsOnlyBad.                                       *)
LEMMA RejectsParts == RejectsOnlyBad <=> ((state = "ERROR" /\ tls = "open" => FirstBad) /\ Final400)
BY DEF RejectsOnlyBad, FirstBad, Final400

(* A step that writes no response.                                         *)
LEMMA NothingWritten ==
  ASSUME RepliesInOrder, RejectsOnlyBad, UNCHANGED <<requests, responses>>
  PROVE  /\ RepliesInOrder' /\ Final400' /\ (FirstBad => FirstBad')
<1>1. requests' = requests /\ responses' = responses
  OBVIOUS
<1>2. \A k : Answered(k)' <=> Answered(k)
  BY <1>1, Zenon DEF Answered
<1>3. RepliesInOrder'
  BY <1>1 DEF RepliesInOrder, Answered, WellFormed
<1>4. Final400'
  BY <1>1, RejectsParts DEF Final400
<1>5. ASSUME FirstBad PROVE FirstBad'
  BY <1>1, <1>5 DEF FirstBad, Answered, WellFormed
<1>6. QED
  BY <1>3, <1>4, <1>5

(* What responses ranges over.                                             *)
Replies == Seq([status : {200, 400}, body : Seq(Units)])

(* One more response.                                                      *)
LEMMA OneMore ==
  ASSUME NEW R \in Replies, NEW r \in [status : {200, 400}, body : Seq(Units)]
  PROVE  /\ Append(R, r) \in Replies /\ Len(R) \in Nat /\ Len(Append(R, r)) = Len(R) + 1
         /\ DOMAIN R = 1 .. Len(R) /\ DOMAIN Append(R, r) = 1 .. Len(R) + 1
         /\ \A k \in 1 .. Len(R) : Append(R, r)[k] = R[k]
         /\ Append(R, r)[Len(R) + 1] = r
<1>1. R \in Seq([status : {200, 400}, body : Seq(Units)])
  BY DEF Replies
<1>2. PICK S, Q : S = [status : {200, 400}, body : Seq(Units)] /\ Q = Append(R, r)
  OBVIOUS
<1>3. R \in Seq(S) /\ r \in S
  BY <1>1, <1>2
<1>4. /\ Q \in Seq(S) /\ Len(Q) = Len(R) + 1
      /\ \A k \in 1 .. Len(R) : Q[k] = R[k]
      /\ Q[Len(R) + 1] = r
  BY <1>2, <1>3, AppendProperties
<1>5. Len(R) \in Nat /\ DOMAIN R = 1 .. Len(R) /\ DOMAIN Q = 1 .. Len(Q)
  BY <1>3, <1>4, LenProperties
<1>6. Q \in Replies /\ DOMAIN Q = 1 .. Len(R) + 1
  BY <1>2, <1>4, <1>5, Zenon DEF Replies
<1>7. QED
  BY <1>2, <1>4, <1>5, <1>6, Zenon

(* A 400 is written.                                                       *)
Write400 == responses' = Append(responses, [status |-> 400, body |-> <<>>])

(* A 400 is no answer: it leaves the claims about the answers.             *)
LEMMA Refusal ==
  ASSUME TypeOK, RepliesInOrder, RejectsOnlyBad, UNCHANGED requests, Write400
  PROVE  /\ RepliesInOrder' /\ Final400' /\ (FirstBad => FirstBad')
         /\ responses' \in Seq([status : {200, 400}, body : Seq(Units)])
<1>1. PICK R \in Replies : R = responses
  BY DEF TypeOK, Replies
<1>2. PICK r \in [status : {200, 400}, body : Seq(Units)] : r = [status |-> 400, body |-> <<>>]
  BY EmptySeq
<1>3. PICK n \in Nat : n = Len(R)
  BY <1>1, OneMore, <1>2
<1>4. PICK Q : Q = Append(R, r)
  OBVIOUS
<1>5. /\ Q \in Replies /\ DOMAIN R = 1 .. n /\ DOMAIN Q = 1 .. n + 1
      /\ \A k \in 1 .. n : Q[k] = R[k]
      /\ Q[n + 1] = r
  BY <1>3, <1>4, OneMore
<1>6. responses' = Q
  BY <1>1, <1>2, <1>4, Zenon DEF Write400
<1>7. r.status = 400
  BY <1>2
<1>8. ASSUME NEW k
      PROVE  (k \in DOMAIN Q /\ Q[k].status = 200) <=> (k \in DOMAIN R /\ R[k].status = 200)
  <2>1. CASE k \in 1 .. n
    <3>1. k \in 1 .. n + 1
      BY <2>1
    <3>2. QED
      BY <1>5, <2>1, <3>1
  <2>2. CASE k = n + 1
    <3>1. ~(k \in 1 .. n) /\ 400 # 200
      BY <2>2
    <3>2. QED
      BY <1>5, <1>7, <2>2, <3>1
  <2>3. CASE ~(k \in 1 .. n + 1)
    <3>1. ~(k \in 1 .. n)
      BY <2>3
    <3>2. QED
      BY <1>5, <2>3, <3>1
  <2>4. k \in 1 .. n + 1 => k \in 1 .. n \/ k = n + 1
    OBVIOUS
  <2>5. QED
    BY <2>1, <2>2, <2>3, <2>4
<1>9. \A k : Answered(k)' <=> Answered(k)
  BY <1>1, <1>6, <1>8 DEF Answered
<1>10. \A k : Answered(k) => k \in 1 .. n /\ Q[k] = R[k]
  BY <1>1, <1>5 DEF Answered
<1>11. RepliesInOrder'
  <2> SUFFICES ASSUME NEW k \in DOMAIN responses', Answered(k)'
               PROVE  /\ k <= Len(requests') /\ WellFormed(requests[k])'
                      /\ responses'[k].body = Body(k, requests'[k])
    BY DEF RepliesInOrder
  <2>1. Answered(k) /\ k \in DOMAIN responses
    BY <1>9 DEF Answered
  <2>2. k <= Len(requests) /\ WellFormed(requests[k]) /\ responses[k].body = Body(k, requests[k])
    BY <2>1 DEF RepliesInOrder
  <2>3. responses'[k] = responses[k]
    BY <1>1, <1>6, <1>10, <2>1
  <2>4. requests' = requests
    OBVIOUS
  <2>5. WellFormed(requests[k])'
    BY <2>2, <2>4 DEF WellFormed
  <2>6. QED
    BY <2>2, <2>3, <2>4, <2>5
<1>12. Final400'
  <2>1. \A i, j \in 1 .. n : i <= j /\ R[i].status = 400 => R[j].status = 400
    BY <1>1, <1>5, RejectsParts DEF Final400
  <2>2. ASSUME NEW i \in 1 .. n + 1, NEW j \in 1 .. n + 1, i <= j, Q[i].status = 400
        PROVE  Q[j].status = 400
    <3>1. CASE j = n + 1
      BY <1>5, <1>7, <3>1, Zenon
    <3>2. CASE j # n + 1
      <4>1. i \in 1 .. n /\ j \in 1 .. n
        BY <2>2, <3>2
      <4>2. QED
        BY <1>5, <2>1, <2>2, <4>1
    <3>3. QED
      BY <3>1, <3>2
  <2>3. QED
    BY <1>5, <1>6, <2>2 DEF Final400
<1>13. ASSUME FirstBad PROVE FirstBad'
  <2>1. PICK k \in 1 .. Len(requests) :
          ~WellFormed(requests[k]) /\ ~Answered(k) /\ \A j \in 1 .. k - 1 : Answered(j)
    BY <1>13 DEF FirstBad
  <2>2. requests' = requests
    OBVIOUS
  <2>3. ~WellFormed(requests[k])'
    BY <2>1, <2>2 DEF WellFormed
  <2>4. QED
    BY <1>9, <2>1, <2>2, <2>3 DEF FirstBad
<1>14. QED
  BY <1>5, <1>6, <1>11, <1>12, <1>13, Zenon DEF Replies

(* A refusal that has a reason keeps the invariant.                        *)
LEMMA RejectKeeps ==
  ASSUME TypeOK, RepliesInOrder, RejectsOnlyBad, FirstBad, Http1Assumption,
         tls = "open", Reject, plaintext' \in Seq(Units), HeadsWhole
  PROVE  Http1Inv'
<1>0. /\ requests' = requests /\ wire' = wire /\ tls' = tls
      /\ headers' = headers /\ header_count' = header_count
      /\ content_length' = content_length /\ body' = body
      /\ state' = "ERROR" /\ pc' = "idle"
  BY DEF Reject, requestVars
<1>1. CASE Write400 /\ fails' = fails
  <2>1. /\ RepliesInOrder' /\ Final400' /\ FirstBad'
        /\ responses' \in Seq([status : {200, 400}, body : Seq(Units)])
    BY <1>0, <1>1, Refusal
  <2>2. TypeOK'
    BY <1>0, <1>1, <2>1 DEF TypeOK, States
  <2>3. RejectsOnlyBad'
    BY <2>1 DEF RejectsOnlyBad, FirstBad, Final400
  <2>4. QED
    BY <1>0, <2>1, <2>2, <2>3 DEF Http1Inv, HeadsWhole
<1>2. CASE responses' = responses /\ fails < MaxFails /\ fails' = fails + 1
  <2>1. RepliesInOrder' /\ Final400' /\ FirstBad'
    BY <1>0, <1>2, NothingWritten
  <2>2. fails' \in 0 .. MaxFails
    BY <1>2 DEF TypeOK, Http1Assumption
  <2>3. TypeOK'
    BY <1>0, <1>2, <2>2 DEF TypeOK, States
  <2>4. RejectsOnlyBad'
    BY <2>1 DEF RejectsOnlyBad, FirstBad, Final400
  <2>5. QED
    BY <1>0, <2>1, <2>3, <2>4 DEF Http1Inv, HeadsWhole
<1>3. QED
  BY <1>1, <1>2 DEF Reject, Write400

-------------------------------------------------------------------------------
(* Inside on_read() and not in ERROR, the place in the input is known.     *)
LEMMA Http1LiveNow ==
  ASSUME Http1Inv, pc # "idle", state # "ERROR"
  PROVE  tls = "open" /\ \E T, at, d, c : c \in Nat /\ Tracks(T, at, d, c)
<1>1. tls = "open" /\ Http1Live
  BY DEF Http1Inv
<1>2. PICK T, at, d, c : Tracks(T, at, d, c)
  BY <1>1 DEF Http1Live
<1>3. c \in Nat
  BY <1>2 DEF Tracks
<1>4. QED
  BY <1>1, <1>2, <1>3

(* Steps that read and answer nothing.                                     *)
LEMMA Reads ==
  ASSUME Http1Inv, tls = "open", state # "ERROR",
         UNCHANGED <<requests, responses, tls>>, state' # "ERROR",
         TypeOK', HeadsWhole', NEW T, NEW at, NEW d, NEW c, Tracks(T, at, d, c)'
  PROVE  Http1Inv'
<1>1. requests' = requests /\ responses' = responses /\ tls' = tls
  OBVIOUS
<1>2. RepliesInOrder' /\ Final400'
  BY <1>1, NothingWritten DEF Http1Inv
<1>3. RejectsOnlyBad'
  BY <1>2 DEF RejectsOnlyBad, FirstBad, Final400
<1>4. \A k \in DOMAIN responses : responses[k].status = 200
  BY DEF Http1Inv, Http1Live
<1>5. Http1Live'
  BY <1>1, <1>4 DEF Http1Live
<1>6. QED
  BY <1>1, <1>2, <1>3, <1>5 DEF Http1Inv

(* parse_headers() is at a line that is buffered: header n + 1, or the     *)
(* blank one after the last.                                               *)
AtHeader(T, at, d, c, s, a, H, B, l, n) ==
  /\ InHeaders(c, at, d, s) /\ c <= Len(requests) /\ Position(T, at, d, c, s, a, H, B, l)
  /\ s \in Shapes /\ a \in Nat /\ H \in Nat /\ B \in Nat /\ l \in Nat /\ n \in Nat
  /\ n = header_count /\ n <= H /\ d = a + 1 + n /\ l > 0 /\ a + H + 2 <= d + l
  /\ plaintext[1].is # "byte"
  /\ n = H => plaintext[1].is = "blank"
  /\ n # H => /\ n + 1 \in 1 .. H /\ plaintext[1].is = s.headers[n + 1]
              /\ plaintext[1].is \in HeaderKinds
              /\ plaintext[1].val = IF s.headers[n + 1] = "length" THEN B ELSE 0

(* Under the invariant parse_headers() is at such a line.                  *)
LEMMA NextHeader ==
  ASSUME Http1Assumption, TypeOK, NEW T, NEW at, NEW d, NEW c \in Nat, Tracks(T, at, d, c),
         pc = "headers"
  PROVE  \E s, a, H, B, l, n : AtHeader(T, at, d, c, s, a, H, B, l, n)
<1>1. PICK s0 : InHeaders(c, at, d, s0)
  BY DEF Tracks, Progress, AtLine, AtHeaders, AtBody, AtComplete
<1>2. c <= Len(requests)
  BY <1>1 DEF InHeaders, InHead
<1>3. PICK s \in Shapes, a \in Nat, H \in Nat, B \in Nat, l \in Nat :
        Position(T, at, d, c, s, a, H, B, l)
  BY <1>2, Located
<1>4. PICK n \in Nat : n = header_count
  BY DEF TypeOK
<1>5. s0 = s /\ d = a + 1 + n /\ n <= H /\ a + H + 2 <= d + l
  BY <1>1, <1>3, <1>4 DEF Position, InHeaders, InHead, HeadersRead
<1>6. l > 0 /\ l = Len(plaintext) /\ plaintext[1] = T[d + 1]
  <2>1. l > 0 /\ 1 \in 1 .. l
    BY <1>5
  <2>2. QED
    BY <1>3, <2>1 DEF Position
<1>7. CASE n = H
  <2>1. d + 1 = a + H + 2
    BY <1>5, <1>7
  <2>2. plaintext[1] = Unit(c, "blank", 0)
    BY <1>3, <1>6, <2>1 DEF Position
  <2>3. plaintext[1].is = "blank"
    BY <2>2, UnitFields
  <2>4. AtHeader(T, at, d, c, s, a, H, B, l, n)
    BY <1>1, <1>2, <1>3, <1>4, <1>5, <1>6, <1>7, <2>3 DEF AtHeader
  <2>5. QED
    BY <2>4
<1>8. CASE n # H
  <2>1. PICK j \in 1 .. H : j = n + 1 /\ d + 1 = a + 1 + j
    BY <1>5, <1>8
  <2>2. plaintext[1] = Unit(c, s.headers[j], IF s.headers[j] = "length" THEN B ELSE 0)
    BY <1>3, <1>6, <2>1 DEF Position
  <2>3. s.headers[j] \in HeaderKinds
    BY <1>3, ShapeType DEF Position
  <2>4. /\ plaintext[1].is = s.headers[j]
        /\ plaintext[1].val = IF s.headers[j] = "length" THEN B ELSE 0
    BY <2>2, UnitFields
  <2>5. plaintext[1].is # "byte"
    BY <2>3, <2>4 DEF HeaderKinds
  <2>6. AtHeader(T, at, d, c, s, a, H, B, l, n)
    BY <1>1, <1>2, <1>3, <1>4, <1>5, <1>6, <1>8, <2>1, <2>3, <2>4, <2>5 DEF AtHeader
  <2>7. QED
    BY <2>6
<1>9. QED
  BY <1>7, <1>8

(* Only a request line can be incomplete.                                  *)
LEMMA NeedMoreKeeps ==
  ASSUME Http1Assumption, Http1Inv, NeedMore
  PROVE  Http1Inv'
<1>0. /\ requests' = requests /\ wire' = wire /\ tls' = tls /\ plaintext' = plaintext
      /\ state' = state /\ headers' = headers /\ header_count' = header_count
      /\ content_length' = content_length /\ body' = body
      /\ responses' = responses /\ fails' = fails /\ pc' = "idle"
  BY DEF NeedMore, requestVars
<1>1. pc # "idle" /\ state # "ERROR" /\ TypeOK
  BY DEF NeedMore, Http1Inv
<1>2. PICK T, at, d, c : c \in Nat /\ Tracks(T, at, d, c)
  BY <1>1, Http1LiveNow
<1>3. AtLine(c, at, d)
  <2>1. CASE pc = "loop" /\ state = "EXPECT_REQUEST_LINE"
    BY <1>2, <2>1 DEF Tracks, Progress, AtHeaders, InHeaders, InHead, AtBody, AtComplete
  <2>2. CASE pc = "headers"
    <3>1. PICK s, a, H, B, l, n : AtHeader(T, at, d, c, s, a, H, B, l, n)
      BY <1>1, <1>2, <2>2, NextHeader DEF Http1Inv
    <3>2. LineEnds # {}
      BY <1>1, <3>1, FirstLine DEF TypeOK, AtHeader, Position
    <3>3. QED
      BY <3>2 DEF NeedMore
  <2>3. QED
    BY <2>1, <2>2 DEF NeedMore
<1>4. Tracks(T, at, d, c)'
  <2>1. AtLine(c, at, d)'
    BY <1>0, <1>3 DEF AtLine
  <2>2. QED
    BY <1>0, <1>2, <2>1 DEF Tracks, Progress, Input
<1>5. TypeOK' /\ HeadsWhole'
  BY <1>0 DEF Http1Inv, TypeOK, HeadsWhole
<1>6. tls = "open"
  BY <1>1, Http1LiveNow
<1>7. QED
  BY <1>0, <1>1, <1>4, <1>5, <1>6, Reads

(* parse_headers() begins behind the request line, so it loses nothing.    *)
LEMMA HeadersBeginKeeps ==
  ASSUME Http1Assumption, Http1Inv, HeadersBegin
  PROVE  Http1Inv'
<1>0. /\ requests' = requests /\ wire' = wire /\ tls' = tls /\ plaintext' = plaintext
      /\ state' = state /\ headers' = NoHeaders /\ header_count' = 0
      /\ content_length' = content_length /\ body' = body
      /\ responses' = responses /\ fails' = fails /\ pc' = "headers"
  BY DEF HeadersBegin
<1>1. pc # "idle" /\ state # "ERROR" /\ TypeOK
  BY DEF HeadersBegin, Http1Inv
<1>2. PICK T, at, d, c : c \in Nat /\ Tracks(T, at, d, c)
  BY <1>1, Http1LiveNow
<1>3. PICK s : AtHeaders(c, at, d, s)
  BY <1>2 DEF HeadersBegin, Tracks, Progress, AtLine, InHeaders, AtBody, AtComplete
<1>4. c <= Len(requests)
  BY <1>3 DEF AtHeaders, InHead
<1>5. PICK s1 \in Shapes, a \in Nat, H \in Nat, B \in Nat, l \in Nat :
        Position(T, at, d, c, s1, a, H, B, l)
  BY <1>1, <1>2, <1>4, Located
<1>6. s1 = s /\ a = at[c] /\ H = Len(s.headers)
  BY <1>3, <1>5 DEF Position, AtHeaders, InHead
<1>7. InHeaders(c, at, d, s)'
  <2>1. InHead(c, at, d, s)'
    BY <1>0, <1>3 DEF AtHeaders, InHead
  <2>2. DOMAIN NoHeaders = {}
    BY DEF NoHeaders
  <2>3. HeadersRead(s)'
    BY <1>0, <1>6, <2>2 DEF HeadersRead
  <2>4. d = at[c] + 1 + header_count'
    BY <1>0, <1>3, <1>6 DEF AtHeaders
  <2>5. QED
    BY <1>0, <2>1, <2>3, <2>4 DEF InHeaders
<1>8. Tracks(T, at, d, c)'
  BY <1>0, <1>2, <1>7 DEF Tracks, Progress, Input
<1>9. TypeOK' /\ HeadsWhole'
  <2>1. DOMAIN NoHeaders = {} /\ Range(NoHeaders) = {}
    BY DEF NoHeaders, Range
  <2>2. header_count' \in 0 .. MaxHeaders
    BY <1>0 DEF Http1Assumption
  <2>3. pc' \in {"idle", "loop", "headers"}
    BY <1>0
  <2>4. DOMAIN headers' \subseteq HeaderKinds /\ Range(headers') \subseteq Nat
    BY <1>0, <2>1
  <2>5. QED
    BY <1>0, <2>2, <2>3, <2>4 DEF Http1Inv, TypeOK, HeadsWhole
<1>10. tls = "open"
  BY <1>1, Http1LiveNow
<1>11. QED
  BY <1>0, <1>1, <1>8, <1>9, <1>10, Reads

(* TLS fails: from here on only the claims about responses count.          *)
LEMMA OnReadFailsKeeps ==
  ASSUME Http1Assumption, Http1Inv, OnReadFails
  PROVE  Http1Inv'
<1>0. /\ requests' = requests /\ wire' = wire /\ plaintext' = plaintext /\ pc' = pc
      /\ headers' = headers /\ header_count' = header_count
      /\ content_length' = content_length /\ body' = body /\ fails' = fails
      /\ state' = "ERROR" /\ pc = "idle"
  BY DEF OnReadFails, requestVars
<1>1. TypeOK /\ RepliesInOrder /\ RejectsOnlyBad /\ HeadsWhole
  BY DEF Http1Inv
<1>2. /\ RepliesInOrder' /\ Final400'
      /\ responses' \in Seq([status : {200, 400}, body : Seq(Units)])
  <2>1. CASE Write400
    BY <1>0, <1>1, <2>1, Refusal
  <2>2. CASE responses' = responses
    BY <1>0, <1>1, <2>2, NothingWritten DEF TypeOK
  <2>3. QED
    BY <2>1, <2>2 DEF OnReadFails, Write400
<1>3. tls' # "open" /\ tls' \in {"open", "failed", "closed"}
  BY <1>1 DEF OnReadFails, TypeOK
<1>4. TypeOK'
  BY <1>0, <1>1, <1>2, <1>3 DEF TypeOK, States
<1>5. RejectsOnlyBad'
  BY <1>2, <1>3 DEF RejectsOnlyBad, Final400
<1>6. QED
  BY <1>0, <1>1, <1>2, <1>3, <1>4, <1>5 DEF Http1Inv, HeadsWhole

(* The connection is closed.                                               *)
LEMMA CloseKeeps ==
  ASSUME Http1Assumption, Http1Inv, Close
  PROVE  Http1Inv'
<1>0. /\ requests' = requests /\ wire' = wire /\ plaintext' = plaintext /\ pc' = pc
      /\ headers' = NoHeaders /\ header_count' = 0
      /\ content_length' = 0 /\ body' = <<>> /\ fails' = fails /\ responses' = responses
      /\ state' = "EXPECT_REQUEST_LINE" /\ pc = "idle" /\ tls' = "closed"
  BY DEF Close, Reset
<1>1. TypeOK /\ RepliesInOrder /\ RejectsOnlyBad /\ HeadsWhole
  BY DEF Http1Inv
<1>2. RepliesInOrder' /\ Final400'
  BY <1>0, <1>1, NothingWritten
<1>3. TypeOK'
  <2>1. DOMAIN NoHeaders = {} /\ Range(NoHeaders) = {}
    BY DEF NoHeaders, Range
  <2>2. header_count' \in 0 .. MaxHeaders /\ content_length' \in Nat
    BY <1>0 DEF Http1Assumption
  <2>3. DOMAIN headers' \subseteq HeaderKinds /\ Range(headers') \subseteq Nat
    BY <1>0, <2>1
  <2>4. body' \in Seq(Units)
    BY <1>0, EmptySeq
  <2>5. QED
    BY <1>0, <1>1, <2>2, <2>3, <2>4 DEF TypeOK, States
<1>4. RejectsOnlyBad'
  BY <1>0, <1>2 DEF RejectsOnlyBad, Final400
<1>5. QED
  BY <1>0, <1>1, <1>2, <1>3, <1>4 DEF Http1Inv, HeadsWhole

(* In ERROR the reason of the first refusal is still there.                *)
LEMMA StillInErrorKeeps ==
  ASSUME Http1Assumption, Http1Inv, StillInError
  PROVE  Http1Inv'
<1>1. tls = "open" /\ state = "ERROR" /\ Reject /\ plaintext' = plaintext
  BY DEF Http1Inv, StillInError
<1>2. FirstBad
  BY <1>1 DEF Http1Inv, RejectsOnlyBad, FirstBad
<1>3. plaintext' \in Seq(Units)
  BY <1>1 DEF Http1Inv, TypeOK
<1>4. QED
  BY <1>1, <1>2, <1>3, RejectKeeps DEF Http1Inv

(* Concatenation of three pieces of input.                                 *)
LEMMA Concat3 ==
  ASSUME NEW u \in Seq(Units), NEW v \in Seq(Units), NEW w \in Seq(Units)
  PROVE  (u \o v) \o w = u \o (v \o w)
<1>1. PICK S : S = Units
  OBVIOUS
<1>2. u \in Seq(S) /\ v \in Seq(S) /\ w \in Seq(S)
  BY <1>1
<1>3. QED
  BY <1>2, ConcatAssociative

(* What TLS hands over moves from one buffer to the other.                 *)
LEMMA MovedInput ==
  ASSUME NEW p \in Seq(Units), NEW w \in Seq(Units), NEW n \in 0 .. Len(w)
  PROVE  /\ p \o SubSeq(w, 1, n) \in Seq(Units) /\ SubSeq(w, n + 1, Len(w)) \in Seq(Units)
         /\ Len(p \o SubSeq(w, 1, n)) = Len(p) + n
         /\ (p \o SubSeq(w, 1, n)) \o SubSeq(w, n + 1, Len(w)) = p \o w
         /\ SubSeq(w, n + 1, Len(w)) # <<>> => n < Len(w) /\ SubSeq(w, n + 1, Len(w))[1] = w[n + 1]
<1>1. PICK l \in Nat : l = Len(w)
  BY LenProperties
<1>2. PICK x, y : x = SubSeq(w, 1, n) /\ y = SubSeq(w, n + 1, l)
  OBVIOUS
<1>3. \A i \in 1 .. l : w[i] \in Units
  BY <1>1, ElementOfSeq
<1>4. n \in 0 .. l /\ n \in Nat
  BY <1>1
<1>5. x \in Seq(Units) /\ Len(x) = n /\ \A i \in 1 .. n : x[i] = w[i]
  <2>1. \A i \in 1 .. n : w[i] \in Units
    BY <1>3, <1>4
  <2>2. /\ x \in Seq(Units) /\ Len(x) = IF 1 <= n THEN n - 1 + 1 ELSE 0
        /\ \A i \in 1 .. n - 1 + 1 : x[i] = w[1 + i - 1]
    BY <1>2, <1>4, <2>1, SubSeqProperties
  <2>3. Len(x) = n /\ 1 .. n - 1 + 1 = 1 .. n /\ \A i \in 1 .. n : 1 + i - 1 = i
    BY <1>4, <2>2
  <2>4. QED
    BY <2>2, <2>3
<1>6. y \in Seq(Units) /\ Len(y) = l - n /\ \A i \in 1 .. l - n : y[i] = w[n + i]
  <2>1. \A i \in n + 1 .. l : w[i] \in Units
    BY <1>3, <1>4
  <2>2. /\ y \in Seq(Units) /\ Len(y) = IF n + 1 <= l THEN l - (n + 1) + 1 ELSE 0
        /\ \A i \in 1 .. l - (n + 1) + 1 : y[i] = w[n + 1 + i - 1]
    BY <1>1, <1>2, <1>4, <2>1, SubSeqProperties
  <2>3. /\ Len(y) = l - n /\ 1 .. l - (n + 1) + 1 = 1 .. l - n
        /\ \A i \in 1 .. l - n : n + 1 + i - 1 = n + i
    BY <1>1, <1>4, <2>2
  <2>4. QED
    BY <2>2, <2>3
<1>7. x \o y = w
  <2>1. PICK z : z = x \o y
    OBVIOUS
  <2>2. /\ z \in Seq(Units) /\ Len(z) = n + (l - n)
        /\ \A i \in 1 .. n + (l - n) : z[i] = IF i <= n THEN x[i] ELSE y[i - n]
    <3>1. x \in Seq(Units) /\ y \in Seq(Units)
      BY <1>5, <1>6
    <3>2. /\ z \in Seq(Units) /\ Len(z) = Len(x) + Len(y)
          /\ \A i \in 1 .. Len(x) + Len(y) : z[i] = IF i <= Len(x) THEN x[i] ELSE y[i - Len(x)]
      BY <2>1, <3>1, ConcatProperties
    <3>3. QED
      BY <1>5, <1>6, <3>2
  <2>3. Len(z) = l
    BY <1>4, <2>2
  <2>4. ASSUME NEW i \in 1 .. l PROVE z[i] = w[i]
    <3>1. CASE i <= n
      <4>1. i \in 1 .. n /\ i \in 1 .. n + (l - n)
        BY <1>4, <3>1
      <4>2. QED
        BY <1>5, <2>2, <3>1, <4>1
    <3>2. CASE ~(i <= n)
      <4>1. i - n \in 1 .. l - n /\ i \in 1 .. n + (l - n) /\ n + (i - n) = i
        BY <1>4, <3>2
      <4>2. QED
        BY <1>6, <2>2, <3>2, <4>1
    <3>3. QED
      BY <3>1, <3>2
  <2>5. z = w
    BY <1>1, <2>2, <2>3, <2>4, SeqEqual
  <2>6. QED
    BY <2>1, <2>5
<1>8. (p \o x) \o y = p \o w
  <2>1. x \in Seq(Units) /\ y \in Seq(Units)
    BY <1>5, <1>6
  <2>2. (p \o x) \o y = p \o (x \o y)
    BY <2>1, Concat3, Zenon
  <2>3. QED
    BY <1>7, <2>2
<1>9. p \o x \in Seq(Units) /\ Len(p \o x) = Len(p) + n
  BY <1>5, ConcatProperties
<1>10. ASSUME y # <<>> PROVE n < l /\ y[1] = w[n + 1]
  <2>1. Len(y) # 0
    BY <1>6, <1>10, EmptySeq
  <2>2. QED
    BY <1>4, <1>6, <2>1
<1>11. QED
  BY <1>1, <1>2, <1>6, <1>8, <1>9, <1>10

(* on_read() moves input to the buffer, between heads.                     *)
LEMMA OnReadKeeps ==
  ASSUME Http1Assumption, WholeHeads, Http1Inv, NEW n \in 0 .. Len(wire), OnRead(n)
  PROVE  Http1Inv'
<1>0. /\ requests' = requests /\ tls' = tls /\ state' = state
      /\ headers' = headers /\ header_count' = header_count
      /\ content_length' = content_length /\ body' = body
      /\ responses' = responses /\ fails' = fails /\ pc' = "loop"
      /\ pc = "idle" /\ tls = "open"
  BY DEF OnRead, requestVars
<1>1. TypeOK /\ RepliesInOrder /\ RejectsOnlyBad
  BY DEF Http1Inv
<1>2. PICK p \in Seq(Units), w \in Seq(Units) : p = plaintext /\ w = wire
  BY <1>1 DEF TypeOK
<1>3. plaintext' = p \o SubSeq(w, 1, n) /\ wire' = SubSeq(w, n + 1, Len(w)) /\ n \in 0 .. Len(w)
  BY <1>2 DEF OnRead
<1>4. /\ plaintext' \in Seq(Units) /\ wire' \in Seq(Units)
      /\ Len(plaintext') = Len(p) + n
      /\ Input' = Input
      /\ wire' # <<>> => n < Len(w) /\ wire'[1] = w[n + 1]
  <2>1. plaintext' \o wire' = p \o w
    BY <1>3, MovedInput, Zenon
  <2>2. plaintext \o wire = p \o w
    BY <1>2
  <2>3. /\ p \o SubSeq(w, 1, n) \in Seq(Units) /\ SubSeq(w, n + 1, Len(w)) \in Seq(Units)
        /\ Len(p \o SubSeq(w, 1, n)) = Len(p) + n
        /\ SubSeq(w, n + 1, Len(w)) # <<>> => n < Len(w) /\ SubSeq(w, n + 1, Len(w))[1] = w[n + 1]
    BY <1>3, MovedInput, Zenon
  <2>4. QED
    BY <1>3, <2>1, <2>2, <2>3, Zenon DEF Input
<1>5. TypeOK'
  BY <1>0, <1>1, <1>4 DEF TypeOK
<1>6. HeadsWhole'
  <2>1. n < Len(wire) => wire[n + 1].is \in LineKinds \cup {"byte"}
    BY DEF OnRead
  <2>2. QED
    BY <1>2, <1>4, <2>1 DEF HeadsWhole
<1>7. CASE state # "ERROR"
  <2>1. PICK T, at, d, c : Tracks(T, at, d, c)
    BY <1>0, <1>7 DEF Http1Inv, Http1Live
  <2>2. CASE AtLine(c, at, d)
    <3>1. AtLine(c, at, d)'
      BY <1>0, <2>2 DEF AtLine
    <3>2. Tracks(T, at, d, c)'
      BY <1>0, <1>4, <2>1, <3>1 DEF Tracks, Progress
    <3>3. QED
      BY <1>0, <1>5, <1>6, <1>7, <3>2, Reads
  <2>3. CASE \E s : AtBody(c, at, d, s)
    <3>1. PICK s : AtBody(c, at, d, s)
      BY <2>3
    <3>2. AtBody(c, at, d, s)'
      BY <1>0, <3>1 DEF AtBody, WellFormed
    <3>3. Tracks(T, at, d, c)'
      BY <1>0, <1>4, <2>1, <3>2 DEF Tracks, Progress
    <3>4. QED
      BY <1>0, <1>5, <1>6, <1>7, <3>3, Reads
  <2>4. CASE \E s : AtComplete(c, at, d, s)
    <3>1. PICK s : AtComplete(c, at, d, s)
      BY <2>4
    <3>2. AtComplete(c, at, d, s)'
      BY <1>0, <3>1 DEF AtComplete, WellFormed
    <3>3. Tracks(T, at, d, c)'
      BY <1>0, <1>4, <2>1, <3>2 DEF Tracks, Progress
    <3>4. QED
      BY <1>0, <1>5, <1>6, <1>7, <3>3, Reads
  <2>5. QED
    BY <1>0, <2>1, <2>2, <2>3, <2>4 DEF Tracks, Progress, AtHeaders, InHeaders
<1>8. CASE state = "ERROR"
  <2>1. FirstBad
    BY <1>0, <1>1, <1>8 DEF RejectsOnlyBad, FirstBad
  <2>2. RepliesInOrder' /\ Final400' /\ FirstBad'
    BY <1>0, <1>1, <2>1, NothingWritten
  <2>3. RejectsOnlyBad'
    BY <2>2 DEF RejectsOnlyBad, FirstBad, Final400
  <2>4. QED
    BY <1>0, <1>5, <1>6, <1>8, <2>2, <2>3 DEF Http1Inv
<1>9. QED
  BY <1>7, <1>8

(* The client sends a request behind what it has sent before.              *)
LEMMA SendKeeps ==
  ASSUME Http1Assumption, Http1Inv, NEW s \in Shapes, Send(s)
  PROVE  Http1Inv'
<1>0. /\ tls' = tls /\ pc' = pc /\ plaintext' = plaintext /\ state' = state
      /\ headers' = headers /\ header_count' = header_count
      /\ content_length' = content_length /\ body' = body
      /\ responses' = responses /\ fails' = fails /\ tls = "open"
  BY DEF Send, requestVars
<1>1. TypeOK /\ RepliesInOrder /\ RejectsOnlyBad /\ HeadsWhole
  BY DEF Http1Inv
<1>2. PICK reqs \in Seq(Shapes), p \in Seq(Units), w \in Seq(Units) :
        reqs = requests /\ p = plaintext /\ w = wire
  BY <1>1 DEF TypeOK
<1>3. PICK n \in Nat : n = Len(reqs)
  BY LenProperties
<1>4. PICK E : E = Encoded(n + 1, s)
  OBVIOUS
<1>5. requests' = Append(reqs, s) /\ wire' = w \o E
  BY <1>2, <1>3, <1>4 DEF Send
<1>6. /\ requests' \in Seq(Shapes) /\ Len(requests') = n + 1
      /\ \A k \in 1 .. n : requests'[k] = reqs[k]
  BY <1>3, <1>5, AppendProperties
<1>7. E \in Seq(Units) /\ Laid(E, n + 1, s, Len(s.headers), s.body)
  BY <1>4, EncodedParts
<1>8. PICK H \in Nat, B \in Nat : H = Len(s.headers) /\ B = s.body
  BY ShapeType
<1>9. Len(E) = H + 2 + B /\ E[1].is = s.line
  BY <1>7, <1>8, UnitFields DEF Laid
<1>10. wire' \in Seq(Units)
  BY <1>5, <1>7, ConcatProperties
<1>11. wire'[1] = IF w = <<>> THEN E[1] ELSE w[1]
  <2>1. PICK l \in Nat : l = Len(w) /\ (w = <<>> <=> l = 0)
    BY EmptySeq, LenProperties
  <2>2. PICK e \in Nat : e = Len(E) /\ e > 0
    BY <1>9
  <2>3. \A i \in 1 .. l + e : (w \o E)[i] = IF i <= l THEN w[i] ELSE E[i - l]
    BY <1>7, <2>1, <2>2, ConcatProperties
  <2>4. (w \o E)[1] = IF 1 <= l THEN w[1] ELSE E[1 - l]
    <3>1. 1 \in 1 .. l + e
      BY <2>2
    <3>2. QED
      BY <2>3, <3>1
  <2>5. QED
    BY <1>5, <2>1, <2>4
<1>12. HeadsWhole'
  <2>1. s.line \in LineKinds
    BY ShapeType
  <2>2. QED
    BY <1>1, <1>2, <1>9, <1>11, <2>1 DEF HeadsWhole
<1>13. TypeOK'
  BY <1>0, <1>1, <1>6, <1>10 DEF TypeOK
<1>14. \A k \in 1 .. Len(requests) :
         /\ k \in 1 .. Len(requests') /\ requests'[k] = requests[k]
  BY <1>2, <1>3, <1>6
<1>15. \A k : Answered(k)' <=> Answered(k)
  BY <1>0 DEF Answered
<1>16. RepliesInOrder'
  <2> SUFFICES ASSUME NEW k \in DOMAIN responses', Answered(k)'
               PROVE  /\ k <= Len(requests') /\ WellFormed(requests'[k])
                      /\ responses'[k].body = Body(k, requests'[k])
    BY DEF RepliesInOrder, WellFormed
  <2>1. Answered(k) /\ k \in DOMAIN responses
    BY <1>0, <1>15
  <2>2. k <= Len(requests) /\ WellFormed(requests[k]) /\ responses[k].body = Body(k, requests[k])
    BY <1>1, <2>1 DEF RepliesInOrder
  <2>3. k \in 1 .. Len(requests)
    <3>1. DOMAIN responses = 1 .. Len(responses) /\ Len(responses) \in Nat
      BY <1>1, LenProperties DEF TypeOK
    <3>2. k \in Nat /\ 1 <= k /\ Len(requests) \in Nat
      BY <1>2, <1>3, <2>1, <3>1
    <3>3. QED
      BY <2>2, <3>2
  <2>4. requests'[k] = requests[k] /\ k \in 1 .. Len(requests')
    BY <1>14, <2>3
  <2>5. QED
    BY <1>0, <2>2, <2>4
<1>17. RejectsOnlyBad'
  <2>1. Final400'
    BY <1>0, <1>1 DEF RejectsOnlyBad, Final400
  <2>2. ASSUME FirstBad PROVE FirstBad'
    <3>1. PICK k \in 1 .. Len(requests) :
            ~WellFormed(requests[k]) /\ ~Answered(k) /\ \A j \in 1 .. k - 1 : Answered(j)
      BY <2>2 DEF FirstBad
    <3>2. k \in 1 .. Len(requests') /\ ~WellFormed(requests'[k])
      BY <1>14, <3>1
    <3>3. QED
      BY <1>15, <3>1, <3>2 DEF FirstBad, WellFormed
  <2>3. QED
    BY <1>0, <1>1, <2>1, <2>2 DEF RejectsOnlyBad, FirstBad, Final400
<1>18. CASE state # "ERROR"
  <2>1. PICK T, at, d, c : Tracks(T, at, d, c)
    BY <1>0, <1>18 DEF Http1Inv, Http1Live
  <2>2. Sent(T, at, reqs) /\ T \in Seq(Units)
    BY <1>2, <2>1 DEF Tracks, Sent
  <2>3. PICK at2 : /\ Sent(T \o E, at2, Append(reqs, s))
                   /\ \A k \in 1 .. n + 1 : at2[k] = at[k]
    BY <1>3, <1>4, <2>2, SentMore
  <2>4. Rest(T \o E, d, Input')
    <3>1. Rest(T, d, p \o w)
      BY <1>2, <2>1 DEF Tracks, Input
    <3>2. Rest(T \o E, d, (p \o w) \o E)
      BY <1>7, <2>2, <3>1, RestMore
    <3>3. (p \o w) \o E = p \o (w \o E)
      BY <1>7, Concat3, Zenon
    <3>4. Input' = p \o (w \o E)
      BY <1>0, <1>2, <1>5 DEF Input
    <3>5. QED
      BY <3>2, <3>3, <3>4
  <2>5. c \in 1 .. n + 1 /\ at2[c] = at[c]
    BY <1>2, <1>3, <2>1, <2>3 DEF Tracks
  <2>6. c <= n => requests'[c] = requests[c] /\ c <= n + 1
    <3>1. c <= n => c \in 1 .. n /\ c <= n + 1
      BY <2>5
    <3>2. QED
      BY <1>2, <1>6, <3>1
  <2>7. c = Len(responses') + 1 /\ c \in 1 .. Len(requests') + 1
    BY <1>0, <1>6, <2>1, <2>5 DEF Tracks
  <2>8. Progress(c, at2, d)'
    <3>1. CASE AtLine(c, at, d)
      <4>1. AtLine(c, at2, d)'
        BY <1>0, <2>5, <3>1 DEF AtLine
      <4>2. QED
        BY <4>1 DEF Progress
    <3>2. CASE \E x : AtHeaders(c, at, d, x)
      <4>1. PICK x : AtHeaders(c, at, d, x)
        BY <3>2
      <4>2. AtHeaders(c, at2, d, x)'
        BY <1>0, <1>2, <1>3, <1>6, <2>5, <2>6, <4>1 DEF AtHeaders, InHead
      <4>3. QED
        BY <4>2 DEF Progress
    <3>3. CASE \E x : InHeaders(c, at, d, x)
      <4>1. PICK x : InHeaders(c, at, d, x)
        BY <3>3
      <4>2. InHead(c, at2, d, x)'
        BY <1>0, <1>2, <1>3, <1>6, <2>5, <2>6, <4>1 DEF InHeaders, InHead
      <4>3. HeadersRead(x)'
        BY <1>0, <4>1 DEF InHeaders, HeadersRead
      <4>4. InHeaders(c, at2, d, x)'
        BY <1>0, <2>5, <4>1, <4>2, <4>3 DEF InHeaders
      <4>5. QED
        BY <4>4 DEF Progress
    <3>4. CASE \E x : AtBody(c, at, d, x)
      <4>1. PICK x : AtBody(c, at, d, x)
        BY <3>4
      <4>2. AtBody(c, at2, d, x)'
        BY <1>0, <1>2, <1>3, <1>6, <2>5, <2>6, <4>1 DEF AtBody, WellFormed
      <4>3. QED
        BY <4>2 DEF Progress
    <3>5. CASE \E x : AtComplete(c, at, d, x)
      <4>1. PICK x : AtComplete(c, at, d, x)
        BY <3>5
      <4>2. AtComplete(c, at2, d, x)'
        BY <1>0, <1>2, <1>3, <1>6, <2>5, <2>6, <4>1 DEF AtComplete, WellFormed
      <4>3. QED
        BY <4>2 DEF Progress
    <3>6. QED
      BY <2>1, <3>1, <3>2, <3>3, <3>4, <3>5 DEF Tracks, Progress
  <2>9. Tracks(T \o E, at2, d, c)'
    BY <1>5, <2>3, <2>4, <2>7, <2>8 DEF Tracks
  <2>10. Http1Live'
    <3>1. \A k \in DOMAIN responses' : responses'[k].status = 200
      BY <1>0, <1>18 DEF Http1Inv, Http1Live
    <3>2. QED
      BY <2>9, <3>1 DEF Http1Live
  <2>11. QED
    BY <1>0, <1>12, <1>13, <1>16, <1>17, <1>18, <2>10 DEF Http1Inv
<1>19. CASE state = "ERROR"
  BY <1>0, <1>12, <1>13, <1>16, <1>17, <1>19 DEF Http1Inv
<1>20. QED
  BY <1>18, <1>19

(* The request being read is malformed: the connection may be given up.    *)
LEMMA BadNow ==
  ASSUME Http1Inv, tls = "open", state # "ERROR", NEW T, NEW at, NEW d, NEW c \in Nat,
         Tracks(T, at, d, c), c <= Len(requests), ~WellFormed(requests[c])
  PROVE  FirstBad
<1>1. PICK R : R = responses
  OBVIOUS
<1>2. PICK r \in Nat : r = Len(R) /\ DOMAIN R = 1 .. r
  BY <1>1, LenProperties DEF Http1Inv, TypeOK
<1>3. c = r + 1
  BY <1>1, <1>2 DEF Tracks
<1>4. \A k \in DOMAIN R : R[k].status = 200
  BY <1>1 DEF Http1Inv, Http1Live
<1>5. ~Answered(c)
  BY <1>1, <1>2, <1>3 DEF Answered
<1>6. \A j \in 1 .. c - 1 : Answered(j)
  BY <1>1, <1>2, <1>3, <1>4 DEF Answered
<1>7. c \in 1 .. Len(requests)
  <2>1. PICK n \in Nat : n = Len(requests)
    BY LenProperties DEF Http1Inv, TypeOK
  <2>2. QED
    BY <1>3, <2>1
<1>8. QED
  BY <1>5, <1>6, <1>7 DEF FirstBad

(* A request of which the line is buffered has its whole head buffered.    *)
LEMMA WholeHead ==
  ASSUME Http1Assumption, TypeOK, HeadsWhole, NEW T, NEW at, NEW d, NEW c \in Nat,
         Tracks(T, at, d, c), AtLine(c, at, d), Len(plaintext) > 0
  PROVE  /\ c <= Len(requests)
         /\ plaintext[1].is = requests[c].line
         /\ at[c] + Len(requests[c].headers) + 2 <= d + Len(plaintext)
<1>1. PICK n \in Nat : n = Len(requests)
  BY LenProperties DEF TypeOK
<1>2. PICK l \in Nat, e \in Nat, m \in Nat : l = Len(plaintext) /\ e = Len(wire) /\ m = Len(T)
  BY LenProperties DEF TypeOK, Tracks, Sent
<1>3. /\ d \in Nat /\ d + l + e = m
      /\ \A i \in 1 .. e : wire[i] = T[d + l + i]
  <2>1. T \in Seq(Units) /\ plaintext \in Seq(Units) /\ wire \in Seq(Units) /\ Rest(T, d, plaintext \o wire)
    BY DEF TypeOK, Tracks, Sent, Input
  <2>2. PICK p \in Seq(Units), w \in Seq(Units) : p = plaintext /\ w = wire
    BY <2>1
  <2>3. Rest(T, d, p \o w)
    BY <2>1, <2>2
  <2>0. InParts(T, d, p, w)
    BY <2>1, <2>3, RestParts
  <2>4. /\ d \in Nat /\ d + Len(p) + Len(w) = Len(T)
        /\ \A i \in 1 .. Len(w) : w[i] = T[d + Len(p) + i]
    BY <2>0, Zenon DEF InParts
  <2>5. QED
    BY <1>2, <2>2, <2>4, Zenon
<1>4. c <= n
  <2>1. SUFFICES ASSUME c = n + 1 PROVE FALSE
    BY <1>1 DEF Tracks
  <2>2. d = m
    BY <1>1, <1>2, <2>1 DEF Tracks, Sent, AtLine
  <2>3. QED
    BY <1>2, <1>3, <2>2
<1>5. PICK s \in Shapes, a \in Nat, H \in Nat, B \in Nat, l1 \in Nat :
        Position(T, at, d, c, s, a, H, B, l1)
  BY <1>1, <1>4, Located
<1>6. /\ s = requests[c] /\ a = at[c] /\ H = Len(s.headers) /\ l1 = l /\ d = a
      /\ a + H + 2 + B <= m /\ plaintext[1] = T[d + 1] /\ T[a + 1] = Unit(c, s.line, 0)
  <2>1. 1 \in 1 .. l
    BY <1>2
  <2>2. /\ s = requests[c] /\ a = at[c] /\ H = Len(s.headers) /\ l1 = l
        /\ a + H + 2 + B <= m /\ T[a + 1] = Unit(c, s.line, 0)
        /\ \A i \in 1 .. l : plaintext[i] = T[d + i]
    BY <1>2, <1>5, Zenon DEF Position
  <2>3. QED
    BY <2>1, <2>2, Zenon DEF AtLine
<1>7. plaintext[1].is = s.line
  <2>1. plaintext[1] = Unit(c, s.line, 0)
    BY <1>6, Zenon
  <2>2. QED
    BY <2>1, UnitFields
<1>8. a + H + 2 <= d + l
  <2>1. SUFFICES ASSUME ~(a + H + 2 <= d + l) PROVE FALSE
    OBVIOUS
  <2>2. l > 0 /\ l < H + 2 /\ e > 0
    <3>1. d = a /\ a + H + 2 + B <= m /\ d + l + e = m /\ d \in Nat
      BY <1>3, <1>6, Zenon
    <3>2. l > 0
      BY <1>2
    <3>3. QED
      BY <2>1, <3>1, <3>2
  <2>3. wire # <<>> /\ wire[1] = T[a + l + 1]
    <3>1. 1 \in 1 .. e
      BY <2>2
    <3>2. wire[1] = T[d + l + 1]
      BY <1>3, <3>1
    <3>3. QED
      BY <1>2, <1>6, <2>2, <3>2, EmptySeq
  <2>4. ~(wire[1].is \in LineKinds \cup {"byte"})
    <3>1. CASE l = H + 1
      <4>1. a + l + 1 = a + H + 2
        BY <3>1
      <4>2. wire[1] = Unit(c, "blank", 0)
        BY <1>5, <2>3, <4>1 DEF Position
      <4>3. wire[1].is = "blank"
        BY <4>2, UnitFields
      <4>4. QED
        BY <4>3 DEF LineKinds
    <3>2. CASE l # H + 1
      <4>1. l \in 1 .. H /\ a + l + 1 = a + 1 + l
        BY <2>2, <3>2
      <4>2. wire[1] = Unit(c, s.headers[l], IF s.headers[l] = "length" THEN B ELSE 0)
        <5>1. \A j \in 1 .. H :
                T[a + 1 + j] = Unit(c, s.headers[j], IF s.headers[j] = "length" THEN B ELSE 0)
          BY <1>5, Zenon DEF Position
        <5>2. QED
          BY <2>3, <4>1, <5>1, Zenon
      <4>3. wire[1].is = s.headers[l]
        BY <4>2, UnitFields
      <4>4. s.headers[l] \in HeaderKinds
        BY <1>6, <4>1, ShapeType
      <4>5. QED
        BY <4>3, <4>4 DEF LineKinds, HeaderKinds
    <3>3. QED
      BY <3>1, <3>2
  <2>5. QED
    BY <2>3, <2>4 DEF HeadsWhole
<1>9. QED
  BY <1>1, <1>2, <1>4, <1>6, <1>7, <1>8

(* The request line is that of request c, and is refused only if bad.      *)
LEMMA RequestLineKeeps ==
  ASSUME Http1Assumption, Http1Inv, RequestLine
  PROVE  Http1Inv'
<1>1. pc # "idle" /\ pc = "loop" /\ state # "ERROR" /\ TypeOK /\ HeadsWhole /\ DropLine /\ wire' = wire
  BY DEF RequestLine, Http1Inv, Reject
<1>2. tls = "open"
  BY <1>1, Http1LiveNow
<1>3. PICK T, at, d, c : c \in Nat /\ Tracks(T, at, d, c)
  BY <1>1, Http1LiveNow
<1>4. AtLine(c, at, d)
  BY <1>1, <1>3 DEF RequestLine, Tracks, Progress, AtHeaders, InHeaders, InHead, AtBody, AtComplete
<1>5. Len(plaintext) > 0
  <2>1. PICK p \in Seq(Units), l \in Nat : p = plaintext /\ l = Len(p) /\ DOMAIN p = 1 .. l
    BY <1>1, LenProperties DEF TypeOK
  <2>2. PICK j : j \in 1 .. l
    BY <2>1 DEF RequestLine, LineEnds
  <2>3. QED
    BY <2>1, <2>2
<1>6. /\ c <= Len(requests)
      /\ plaintext[1].is = requests[c].line
      /\ at[c] + Len(requests[c].headers) + 2 <= d + Len(plaintext)
  BY <1>1, <1>3, <1>4, <1>5, WholeHead
<1>7. PICK s \in Shapes, a \in Nat, H \in Nat, B \in Nat, l \in Nat :
        Position(T, at, d, c, s, a, H, B, l)
  BY <1>1, <1>3, <1>6, Located
<1>8. /\ s = requests[c] /\ a = at[c] /\ H = Len(s.headers) /\ l = Len(plaintext)
      /\ d = a /\ l > 0 /\ a + H + 2 <= d + l /\ d \in Nat
  BY <1>4, <1>5, <1>6, <1>7 DEF Position, AtLine
<1>9. s.line \in LineKinds /\ plaintext[1].is # "byte"
  BY <1>6, <1>8, ShapeType DEF LineKinds
<1>10. LineLength = 1
  BY <1>1, <1>5, <1>9, FirstLine DEF TypeOK
<1>11. /\ plaintext' \in Seq(Units) /\ Len(plaintext') = l - 1 /\ Rest(T, d + 1, Input')
  BY <1>1, <1>3, <1>5, <1>8, <1>9, DropFirst
<1>12. CASE s.line = "line"
  <2>1. /\ requests' = requests /\ tls' = tls /\ pc' = pc
        /\ headers' = headers /\ header_count' = header_count
        /\ content_length' = content_length /\ body' = body
        /\ responses' = responses /\ fails' = fails /\ state' = "EXPECT_HEADERS"
    BY <1>6, <1>8, <1>10, <1>12 DEF RequestLine, requestVars
  <2>2. body = <<>>
    BY <1>4 DEF AtLine
  <2>3. AtHeaders(c, at, d + 1, s)'
    <3>1. at[c] + Len(s.headers) + 2 <= (d + 1) + Len(plaintext')
      <4>1. a + H + 2 <= (d + 1) + (l - 1)
        <5>1. a + H + 2 <= d + l /\ d \in Nat
          BY <1>8, Zenon
        <5>2. QED
          BY <5>1
      <4>2. QED
        BY <1>8, <1>11, <4>1, Zenon
    <3>2. d + 1 = at[c] + 1
      BY <1>8
    <3>3. InHead(c, at, d + 1, s)'
      BY <1>6, <1>8, <1>12, <2>1, <2>2, <3>1 DEF InHead
    <3>4. QED
      BY <1>1, <2>1, <3>2, <3>3 DEF AtHeaders
  <2>4. Tracks(T, at, d + 1, c)'
    BY <1>3, <1>11, <2>1, <2>3 DEF Tracks, Progress
  <2>5. TypeOK' /\ HeadsWhole'
    BY <1>1, <1>11, <2>1 DEF TypeOK, HeadsWhole, States
  <2>6. QED
    BY <1>1, <1>2, <2>1, <2>4, <2>5, Reads
<1>13. CASE s.line # "line"
  <2>1. Reject
    BY <1>6, <1>8, <1>10, <1>13 DEF RequestLine
  <2>2. ~WellFormed(requests[c])
    BY <1>8, <1>13 DEF WellFormed
  <2>3. FirstBad
    BY <1>1, <1>2, <1>3, <1>6, <2>2, BadNow
  <2>4. QED
    BY <1>1, <1>2, <1>11, <2>1, <2>3, RejectKeeps DEF Http1Inv
<1>14. QED
  BY <1>12, <1>13

(* The line is the next header of request c, or one too many.              *)
LEMMA HeaderLineKeeps ==
  ASSUME Http1Assumption, Http1Inv, HeaderLine
  PROVE  Http1Inv'
<1>1. pc # "idle" /\ pc = "headers" /\ state # "ERROR" /\ TypeOK /\ HeadsWhole /\ DropLine /\ wire' = wire
  BY DEF HeaderLine, Http1Inv, Reject
<1>2. tls = "open"
  BY <1>1, Http1LiveNow
<1>3. PICK T, at, d, c : c \in Nat /\ Tracks(T, at, d, c)
  BY <1>1, Http1LiveNow
<1>4. PICK s, a, H, B, l, n : AtHeader(T, at, d, c, s, a, H, B, l, n)
  BY <1>1, <1>3, NextHeader
<1>5. /\ s \in Shapes /\ a \in Nat /\ H \in Nat /\ B \in Nat /\ l \in Nat /\ n \in Nat
      /\ s = requests[c] /\ a = at[c] /\ H = Len(s.headers) /\ B = s.body /\ l = Len(plaintext)
      /\ c <= Len(requests) /\ n = header_count
  BY <1>4 DEF AtHeader, Position
<1>0. a \in Nat /\ H \in Nat /\ B \in Nat /\ l \in Nat /\ n \in Nat
  BY <1>5
<1>6. n <= H /\ d = a + 1 + n /\ l > 0 /\ a + H + 2 <= d + l
  BY <1>4 DEF AtHeader
<1>7. LineLength = 1
  BY <1>1, <1>4, FirstLine DEF TypeOK, AtHeader, Position
<1>8. plaintext' \in Seq(Units) /\ Len(plaintext') = l - 1 /\ Rest(T, d + 1, Input')
  BY <1>1, <1>3, <1>4, DropFirst DEF AtHeader, Position
<1>9. PICK h, v : h = plaintext[1].is /\ v = plaintext[1].val
  OBVIOUS
<1>10. n # H
  BY <1>4, <1>7 DEF HeaderLine, AtHeader
<1>11. /\ n + 1 \in 1 .. H /\ h = s.headers[n + 1] /\ h \in HeaderKinds
       /\ v = IF h = "length" THEN B ELSE 0
  BY <1>4, <1>9, <1>10 DEF AtHeader
<1>12. CASE TooMany \/ h = "junk"
  <2>1. Reject
    BY <1>7, <1>9, <1>12 DEF HeaderLine
  <2>2. ~WellFormed(s)
    <3>1. CASE TooMany
      <4>1. n >= MaxHeaders /\ n < H /\ MaxHeaders \in Nat
        BY <1>5, <1>6, <1>10, <3>1 DEF TooMany, Http1Assumption
      <4>2. ~(H <= MaxHeaders)
        BY <1>5, <4>1
      <4>3. QED
        BY <1>5, <4>2 DEF WellFormed
    <3>2. CASE h = "junk"
      <4>1. DOMAIN s.headers = 1 .. H
        BY <1>5, ShapeType
      <4>2. "junk" \in Range(s.headers)
        BY <1>11, <3>2, <4>1 DEF Range
      <4>3. QED
        BY <4>2 DEF WellFormed
    <3>3. QED
      BY <1>12, <3>1, <3>2
  <2>3. FirstBad
    BY <1>1, <1>2, <1>3, <1>5, <2>2, BadNow
  <2>4. QED
    BY <1>1, <1>2, <1>8, <2>1, <2>3, RejectKeeps DEF Http1Inv
<1>13. CASE ~(TooMany \/ h = "junk")
  <2>1. /\ requests' = requests /\ tls' = tls /\ pc' = pc /\ state' = state
        /\ content_length' = content_length /\ body' = body
        /\ responses' = responses /\ fails' = fails /\ header_count' = n + 1
        /\ headers' = [x \in DOMAIN headers \cup {h} |-> IF x = h THEN v ELSE headers[x]]
    BY <1>5, <1>7, <1>9, <1>13 DEF HeaderLine
  <2>2. HeadersRead(s)
    BY <1>4 DEF AtHeader, InHeaders
  <2>3. HeadersRead(s)'
    <3>1. PICK hs : hs = headers
      OBVIOUS
    <3>2. PICK gs : gs = [x \in DOMAIN hs \cup {h} |-> IF x = h THEN v ELSE hs[x]]
      OBVIOUS
    <3>3. /\ \A x \in DOMAIN hs : \E j \in 1 .. n : x = s.headers[j]
          /\ \A j \in 1 .. n : s.headers[j] \in DOMAIN hs /\ s.headers[j] # "junk"
          /\ "length" \in DOMAIN hs => hs["length"] = B
      BY <1>5, <2>2, <3>1 DEF HeadersRead
    <3>4. /\ DOMAIN gs = DOMAIN hs \cup {h} /\ gs[h] = v
          /\ \A x \in DOMAIN hs : x # h => gs[x] = hs[x]
      BY <3>2
    <3>5. ASSUME NEW x \in DOMAIN gs PROVE \E j \in 1 .. n + 1 : x = s.headers[j]
      <4>1. CASE x = h
        BY <1>11, <4>1
      <4>2. CASE x \in DOMAIN hs
        <5>1. PICK j \in 1 .. n : x = s.headers[j]
          BY <3>3, <4>2
        <5>2. j \in 1 .. n + 1
          BY <1>0
        <5>3. QED
          BY <5>1, <5>2
      <4>3. QED
        BY <3>4, <4>1, <4>2
    <3>6. ASSUME NEW j \in 1 .. n + 1 PROVE s.headers[j] \in DOMAIN gs /\ s.headers[j] # "junk"
      <4>1. CASE j = n + 1
        BY <1>11, <1>13, <3>4, <4>1
      <4>2. CASE j # n + 1
        <5>1. j \in 1 .. n
          BY <1>0, <4>2
        <5>2. QED
          BY <3>3, <3>4, <5>1
      <4>3. QED
        BY <4>1, <4>2
    <3>7. "length" \in DOMAIN gs => gs["length"] = B
      <4>1. CASE h = "length"
        BY <1>11, <3>4, <4>1
      <4>2. CASE h # "length"
        BY <3>3, <3>4, <4>2
      <4>3. QED
        BY <4>1, <4>2
    <3>8. n + 1 <= Len(s.headers)
      BY <1>5, <1>11
    <3>9. headers' = gs /\ header_count' = n + 1
      BY <2>1, <3>1, <3>2
    <3>10. QED
      BY <1>5, <3>5, <3>6, <3>7, <3>8, <3>9 DEF HeadersRead
  <2>4. InHeaders(c, at, d + 1, s)'
    <3>1. a + H + 2 <= (d + 1) + (l - 1) /\ d + 1 = a + 1 + (n + 1)
      <4>1. d \in Nat
        BY <1>0, <1>6
      <4>2. QED
        BY <1>0, <1>6, <4>1
    <3>2. at[c] + Len(s.headers) + 2 <= (d + 1) + Len(plaintext') /\ d + 1 = at[c] + 1 + (n + 1)
      BY <1>5, <1>8, <3>1, Zenon
    <3>3. InHead(c, at, d, s)
      BY <1>4 DEF AtHeader, InHeaders
    <3>4. InHead(c, at, d + 1, s)'
      BY <1>5, <2>1, <3>2, <3>3 DEF InHead
    <3>5. QED
      BY <1>1, <2>1, <2>3, <3>2, <3>4 DEF InHeaders
  <2>5. Tracks(T, at, d + 1, c)'
    BY <1>3, <1>8, <2>1, <2>4 DEF Tracks, Progress
  <2>6. TypeOK' /\ HeadsWhole'
    <3>1. header_count' \in 0 .. MaxHeaders
      BY <1>5, <1>13, <2>1 DEF TooMany, Http1Assumption
    <3>2. v \in Nat
      BY <1>5, <1>11
    <3>3. DOMAIN headers' \subseteq HeaderKinds /\ Range(headers') \subseteq Nat
      <4>1. /\ DOMAIN headers' = DOMAIN headers \cup {h}
            /\ \A x \in DOMAIN headers \cup {h} : headers'[x] = IF x = h THEN v ELSE headers[x]
        BY <2>1
      <4>2. DOMAIN headers \subseteq HeaderKinds /\ \A x \in DOMAIN headers : headers[x] \in Nat
        BY <1>1 DEF TypeOK, Range
      <4>3. \A x \in DOMAIN headers' : headers'[x] \in Nat
        BY <3>2, <4>1, <4>2
      <4>4. Range(headers') \subseteq Nat
        BY <4>3 DEF Range
      <4>5. QED
        BY <1>11, <4>1, <4>2, <4>4
    <3>4. QED
      BY <1>1, <1>8, <2>1, <3>1, <3>3 DEF TypeOK, HeadsWhole
  <2>7. QED
    BY <1>1, <1>2, <2>1, <2>5, <2>6, Reads
<1>14. QED
  BY <1>12, <1>13

(* The blank line is that of request c: all its headers are stored, and    *)
(* the length they give is that of its body.                               *)
LEMMA HeadersEndKeeps ==
  ASSUME Http1Assumption, Http1Inv, HeadersEnd
  PROVE  Http1Inv'
<1>1. pc # "idle" /\ pc = "headers" /\ state # "ERROR" /\ TypeOK /\ HeadsWhole /\ DropLine /\ wire' = wire
  BY DEF HeadersEnd, Http1Inv, Reject
<1>2. tls = "open"
  BY <1>1, Http1LiveNow
<1>3. PICK T, at, d, c : c \in Nat /\ Tracks(T, at, d, c)
  BY <1>1, Http1LiveNow
<1>4. PICK s, a, H, B, l, n : AtHeader(T, at, d, c, s, a, H, B, l, n)
  BY <1>1, <1>3, NextHeader
<1>5. /\ s \in Shapes /\ a \in Nat /\ H \in Nat /\ B \in Nat /\ l \in Nat /\ n \in Nat
      /\ s = requests[c] /\ a = at[c] /\ H = Len(s.headers) /\ B = s.body /\ l = Len(plaintext)
      /\ c <= Len(requests) /\ n = header_count
  BY <1>4 DEF AtHeader, Position
<1>0. a \in Nat /\ H \in Nat /\ B \in Nat /\ l \in Nat /\ n \in Nat
  BY <1>5
<1>6. d = a + 1 + n /\ l > 0
  BY <1>4 DEF AtHeader
<1>7. LineLength = 1
  BY <1>1, <1>4, FirstLine DEF TypeOK, AtHeader, Position
<1>8. plaintext' \in Seq(Units) /\ Rest(T, d + 1, Input')
  BY <1>1, <1>3, <1>4, DropFirst DEF AtHeader, Position
<1>9. n = H
  BY <1>4, <1>7 DEF HeadersEnd, AtHeader, HeaderKinds
<1>10. /\ s.line = "line" /\ body = <<>> /\ DOMAIN s.headers = 1 .. H
       /\ \A j \in 1 .. H : s.headers[j] \in HeaderKinds
  BY <1>4, <1>5, ShapeType DEF AtHeader, InHeaders, InHead
<1>11. PICK hs : hs = headers
  OBVIOUS
<1>12. /\ \A x \in DOMAIN hs : \E j \in 1 .. H : x = s.headers[j]
       /\ \A j \in 1 .. H : s.headers[j] \in DOMAIN hs /\ s.headers[j] # "junk"
       /\ "length" \in DOMAIN hs => hs["length"] = B
  <2>1. HeadersRead(s)
    BY <1>4 DEF AtHeader, InHeaders
  <2>2. header_count = H /\ s.body = B
    BY <1>5, <1>9
  <2>3. QED
    BY <1>11, <2>1, <2>2, Zenon DEF HeadersRead
<1>13. CASE {"chunked", "bad length"} \cap DOMAIN headers # {}
  <2>1. Reject
    BY <1>13 DEF HeadersEnd
  <2>2. PICK j \in 1 .. H : s.headers[j] \in {"chunked", "bad length"}
    BY <1>11, <1>12, <1>13
  <2>3. s.headers[j] \in Range(s.headers)
    BY <1>10, <2>2 DEF Range
  <2>4. ~WellFormed(s)
    BY <2>2, <2>3 DEF WellFormed
  <2>5. FirstBad
    BY <1>1, <1>2, <1>3, <1>5, <2>4, BadNow
  <2>6. QED
    BY <1>1, <1>2, <1>8, <2>1, <2>5, RejectKeeps DEF Http1Inv
<1>14. CASE ~({"chunked", "bad length"} \cap DOMAIN headers # {})
  <2>1. /\ requests' = requests /\ tls' = tls /\ pc' = "loop"
        /\ headers' = headers /\ header_count' = header_count /\ body' = body
        /\ responses' = responses /\ fails' = fails
        /\ content_length' = (IF "length" \in DOMAIN hs THEN hs["length"] ELSE 0)
        /\ state' = IF content_length' > 0 THEN "EXPECT_BODY" ELSE "EXPECT_COMPLETE"
    BY <1>11, <1>14 DEF HeadersEnd
  <2>2. (IF "length" \in DOMAIN hs THEN hs["length"] ELSE 0) = B
    <3>1. CASE "length" \in DOMAIN hs
      BY <1>12, <3>1
    <3>2. CASE ~("length" \in DOMAIN hs)
      <4>1. ~("length" \in Range(s.headers))
        BY <1>10, <1>12, <3>2 DEF Range
      <4>2. ~(s.body > 0)
        BY <1>5, <4>1 DEF Http1Assumption
      <4>3. ~(B > 0)
        BY <1>5, <4>2
      <4>4. B = 0
        BY <1>0, <4>3
      <4>5. QED
        BY <3>2, <4>4
    <3>3. QED
      BY <3>1, <3>2
  <2>3. content_length' = B
    BY <2>1, <2>2, Zenon
  <2>4. WellFormed(s)
    <3>1. Len(s.headers) <= MaxHeaders
      BY <1>1, <1>5, <1>9 DEF TypeOK, Http1Assumption
    <3>2. ASSUME NEW j \in 1 .. H PROVE s.headers[j] \in {"length", "other"}
      <4>1. s.headers[j] # "junk" /\ s.headers[j] # "chunked" /\ s.headers[j] # "bad length"
        BY <1>11, <1>12, <1>14
      <4>2. QED
        BY <1>10, <4>1 DEF HeaderKinds
    <3>3. Range(s.headers) \subseteq {"length", "other"}
      BY <1>10, <3>2 DEF Range
    <3>4. QED
      BY <1>10, <3>1, <3>3 DEF WellFormed
  <2>5. d + 1 = a + H + 2
    BY <1>0, <1>6, <1>9
  <2>6. CASE B > 0
    <3>1. state' = "EXPECT_BODY"
      BY <2>1, <2>3, <2>6
    <3>2. AtBody(c, at, d + 1, s)'
      <4>1. Len(body') = 0 /\ body' = <<>>
        BY <1>10, <2>1
      <4>2. d + 1 = at[c] + Len(s.headers) + 2 + 0
        BY <1>0, <1>5, <2>5
      <4>3. \A j \in 1 .. 0 : body'[j] = Unit(c, "byte", j)
        OBVIOUS
      <4>4. WellFormed(s)' /\ s = requests'[c] /\ c <= Len(requests')
        BY <1>5, <2>1, <2>4 DEF WellFormed
      <4>5. QED
        BY <1>5, <2>1, <2>3, <2>6, <3>1, <4>1, <4>2, <4>3, <4>4 DEF AtBody
    <3>3. Tracks(T, at, d + 1, c)'
      BY <1>3, <1>8, <2>1, <3>2 DEF Tracks, Progress
    <3>4. TypeOK' /\ HeadsWhole'
      BY <1>0, <1>1, <1>8, <2>1, <2>3, <3>1 DEF TypeOK, HeadsWhole, States
    <3>5. QED
      BY <1>1, <1>2, <2>1, <3>1, <3>3, <3>4, Reads
  <2>7. CASE ~(B > 0)
    <3>0. B = 0
      BY <1>0, <2>7
    <3>1. state' = "EXPECT_COMPLETE"
      BY <2>1, <2>3, <2>7
    <3>2. AtComplete(c, at, d + 1, s)'
      <4>1. body' = <<>>
        BY <1>10, <2>1
      <4>2. d + 1 = at[c] + Len(s.headers) + 2 + s.body
        BY <1>0, <1>5, <2>5, <3>0
      <4>3. Body(c, s) = <<>>
        <5>1. s.body = 0
          BY <1>5, <3>0
        <5>2. [j \in 1 .. 0 |-> Unit(c, "byte", j)] = <<>>
          <6>1. [j \in 1 .. 0 |-> Unit(c, "byte", j)] \in [1 .. 0 -> Units]
            OBVIOUS
          <6>2. PICK e : e = [j \in 1 .. 0 |-> Unit(c, "byte", j)]
            OBVIOUS
          <6>3. e \in Seq(Units) /\ Len(e) = 0
            BY <6>1, <6>2, SeqDef, LenProperties
          <6>4. QED
            BY <6>2, <6>3, EmptySeq
        <5>3. QED
          BY <5>1, <5>2 DEF Body
      <4>4. WellFormed(s)' /\ s = requests'[c] /\ c <= Len(requests')
        BY <1>5, <2>1, <2>4 DEF WellFormed
      <4>5. QED
        BY <2>1, <3>1, <4>1, <4>2, <4>3, <4>4 DEF AtComplete, Body
    <3>3. Tracks(T, at, d + 1, c)'
      BY <1>3, <1>8, <2>1, <3>2 DEF Tracks, Progress
    <3>4. TypeOK' /\ HeadsWhole'
      BY <1>0, <1>1, <1>8, <2>1, <2>3, <3>1 DEF TypeOK, HeadsWhole, States
    <3>5. QED
      BY <1>1, <1>2, <2>1, <3>1, <3>3, <3>4, Reads
  <2>8. QED
    BY <2>6, <2>7
<1>15. QED
  BY <1>13, <1>14

(* n bytes of request c, from byte m + 1 on.                               *)
BytesFrom(c, x, m, n) == \A i \in 1 .. n : x[i] = Unit(c, "byte", m + i)

(* The first n bytes of request c.                                         *)
FirstBytes(c, x, n) ==
  /\ x \in Seq(Units) /\ Len(x) = n
  /\ \A j \in 1 .. n : x[j] = Unit(c, "byte", j)

(* The bytes that are read are the next ones of the body.                  *)
LEMMA BodyGrows ==
  ASSUME NEW c \in Nat, NEW b, NEW p \in Seq(Units), NEW m \in Nat,
         NEW r \in 0 .. Len(p), FirstBytes(c, b, m), BytesFrom(c, p, m, r)
  PROVE  FirstBytes(c, b \o SubSeq(p, 1, r), m + r)
<1>0. /\ b \in Seq(Units) /\ Len(b) = m /\ \A j \in 1 .. m : b[j] = Unit(c, "byte", j)
      /\ \A i \in 1 .. r : p[i] = Unit(c, "byte", m + i)
  BY DEF FirstBytes, BytesFrom
<1>1. PICK l \in Nat : l = Len(p)
  BY LenProperties
<1>2. r \in Nat /\ r \in 0 .. l
  BY <1>1
<1>3. PICK x : x = SubSeq(p, 1, r)
  OBVIOUS
<1>4. x \in Seq(Units) /\ Len(x) = r /\ \A i \in 1 .. r : x[i] = p[i]
  <2>1. \A i \in 1 .. r : p[i] \in Units
    BY <1>1, <1>2, ElementOfSeq
  <2>2. /\ x \in Seq(Units) /\ Len(x) = IF 1 <= r THEN r - 1 + 1 ELSE 0
        /\ \A i \in 1 .. r - 1 + 1 : x[i] = p[1 + i - 1]
    BY <1>2, <1>3, <2>1, SubSeqProperties
  <2>3. QED
    BY <1>2, <2>2
<1>5. PICK y : y = b \o x
  OBVIOUS
<1>6. /\ y \in Seq(Units) /\ Len(y) = m + r
      /\ \A j \in 1 .. m + r : y[j] = IF j <= m THEN b[j] ELSE x[j - m]
  <2>1. x \in Seq(Units) /\ b \in Seq(Units)
    BY <1>0, <1>4
  <2>2. /\ y \in Seq(Units) /\ Len(y) = Len(b) + Len(x)
        /\ \A j \in 1 .. Len(b) + Len(x) : y[j] = IF j <= Len(b) THEN b[j] ELSE x[j - Len(b)]
    BY <1>5, <2>1, ConcatProperties
  <2>3. QED
    BY <1>0, <1>4, <2>2
<1>7. ASSUME NEW j \in 1 .. m + r PROVE y[j] = Unit(c, "byte", j)
  <2>1. CASE j <= m
    <3>1. j \in 1 .. m
      BY <2>1
    <3>2. QED
      BY <1>0, <1>6, <2>1, <3>1
  <2>2. CASE ~(j <= m)
    <3>1. PICK i \in 1 .. r : i = j - m /\ m + i = j
      BY <1>2, <2>2
    <3>2. y[j] = x[i]
      BY <1>6, <2>2, <3>1
    <3>3. x[i] = p[i]
      BY <1>4
    <3>4. p[i] = Unit(c, "byte", m + i)
      BY <1>0
    <3>5. QED
      BY <3>1, <3>2, <3>3, <3>4
  <2>3. QED
    BY <2>1, <2>2
<1>8. FirstBytes(c, y, m + r)
  BY <1>6, <1>7 DEF FirstBytes
<1>9. QED
  BY <1>3, <1>5, <1>8, Zenon

(* All the bytes of a body are the body.                                   *)
LEMMA BodyWhole ==
  ASSUME NEW c \in Nat, NEW B \in Nat, NEW y, FirstBytes(c, y, B)
  PROVE  y = [j \in 1 .. B |-> Unit(c, "byte", j)]
<1>0. y \in Seq(Units) /\ Len(y) = B /\ \A j \in 1 .. B : y[j] = Unit(c, "byte", j)
  BY DEF FirstBytes
<1>1. PICK z : z = [j \in 1 .. B |-> Unit(c, "byte", j)]
  OBVIOUS
<1>2. \A j \in 1 .. B : Unit(c, "byte", j) \in Units
  BY UnitType
<1>3. z \in [1 .. B -> Units]
  BY <1>1, <1>2
<1>4. z \in Seq(Units) /\ Len(z) = B
  BY <1>3, SeqDef, LenProperties
<1>5. \A j \in 1 .. B : y[j] = z[j]
  BY <1>0, <1>1
<1>6. y = z
  BY <1>0, <1>4, <1>5, SeqEqual
<1>7. QED
  BY <1>1, <1>6

(* The bytes taken are the next ones of the body, and no more than that.   *)
LEMMA ReadBodyKeeps ==
  ASSUME Http1Assumption, Http1Inv, ReadBody
  PROVE  Http1Inv'
<1>0. /\ requests' = requests /\ wire' = wire /\ tls' = tls /\ headers' = headers
      /\ header_count' = header_count /\ content_length' = content_length
      /\ responses' = responses /\ fails' = fails
  BY DEF ReadBody
<1>1. pc # "idle" /\ pc = "loop" /\ state = "EXPECT_BODY" /\ state # "ERROR" /\ TypeOK /\ HeadsWhole
  BY DEF ReadBody, Http1Inv
<1>2. tls = "open"
  BY <1>1, Http1LiveNow
<1>3. PICK T, at, d, c : c \in Nat /\ Tracks(T, at, d, c)
  BY <1>1, Http1LiveNow
<1>4. PICK s : AtBody(c, at, d, s)
  BY <1>1, <1>3 DEF Tracks, Progress, AtLine, AtHeaders, InHeaders, InHead, AtComplete
<1>5. c <= Len(requests)
  BY <1>4 DEF AtBody
<1>6. PICK s1 \in Shapes, a \in Nat, H \in Nat, B \in Nat, l \in Nat :
        Position(T, at, d, c, s1, a, H, B, l)
  BY <1>1, <1>3, <1>5, Located
<1>7. /\ s1 = s /\ s = requests[c] /\ a = at[c] /\ H = Len(s.headers) /\ B = s.body
      /\ l = Len(plaintext)
  BY <1>4, <1>6 DEF Position, AtBody
<1>8. PICK p \in Seq(Units), w \in Seq(Units), b \in Seq(Units) :
        p = plaintext /\ w = wire /\ b = body
  BY <1>1 DEF TypeOK
<1>9. PICK m \in Nat : m = Len(b)
  BY LenProperties
<1>10. /\ content_length = B /\ m < B /\ d = a + H + 2 + m
       /\ \A j \in 1 .. m : b[j] = Unit(c, "byte", j)
  BY <1>4, <1>7, <1>8, <1>9 DEF AtBody
<1>11. PICK r : r = IF l < B - m THEN l ELSE B - m
  OBVIOUS
<1>12. r \in 0 .. l /\ r \in Nat /\ m + r <= B
  BY <1>10, <1>11
<1>13. /\ body' = b \o SubSeq(p, 1, r)
       /\ plaintext' = SubSeq(p, r + 1, l)
       /\ (Len(body') = B) => state' = "EXPECT_COMPLETE" /\ pc' = pc
       /\ (Len(body') # B) => pc' = "idle" /\ state' = state
  BY <1>7, <1>8, <1>9, <1>10, <1>11, Zenon DEF ReadBody
<1>14. \A i \in 1 .. r : p[i] = Unit(c, "byte", m + i)
  <2> SUFFICES ASSUME NEW i \in 1 .. r PROVE p[i] = Unit(c, "byte", m + i)
    OBVIOUS
  <2>1. i \in 1 .. l /\ d + i = a + H + 2 + (m + i) /\ m + i \in 1 .. B
    BY <1>10, <1>12
  <2>2. p[i] = T[d + i]
    BY <1>6, <1>8, <2>1 DEF Position
  <2>3. PICK j \in 1 .. B : j = m + i
    BY <2>1
  <2>4. T[a + H + 2 + j] = Unit(c, "byte", j)
    BY <1>6 DEF Position
  <2>5. QED
    BY <2>1, <2>2, <2>3, <2>4
<1>15. /\ body' \in Seq(Units) /\ Len(body') = m + r
       /\ \A j \in 1 .. m + r : body'[j] = Unit(c, "byte", j)
       /\ m + r = B => body' = [j \in 1 .. B |-> Unit(c, "byte", j)]
  <2>1. c \in Nat /\ r \in 0 .. Len(p)
    BY <1>3, <1>7, <1>8, <1>12
  <2>2. PICK x : x = b \o SubSeq(p, 1, r)
    OBVIOUS
  <2>3. FirstBytes(c, b, m) /\ BytesFrom(c, p, m, r)
    BY <1>9, <1>10, <1>14 DEF FirstBytes, BytesFrom
  <2>4. FirstBytes(c, x, m + r)
    BY <2>1, <2>2, <2>3, BodyGrows, Zenon
  <2>5. m + r = B => x = [j \in 1 .. B |-> Unit(c, "byte", j)]
    BY <2>1, <2>4, BodyWhole, Zenon
  <2>6. QED
    BY <1>13, <2>2, <2>4, <2>5 DEF FirstBytes
<1>16. plaintext' \in Seq(Units) /\ Rest(T, d + r, Input')
  <2>1. r \in 0 .. Len(p) /\ l = Len(p)
    BY <1>7, <1>8, <1>12
  <2>2. T \in Seq(Units) /\ Rest(T, d, p \o w)
    BY <1>3, <1>8 DEF Tracks, Sent, Input
  <2>3. SubSeq(p, r + 1, Len(p)) \in Seq(Units) /\ Rest(T, d + r, SubSeq(p, r + 1, Len(p)) \o w)
    BY <2>1, <2>2, RestDrop
  <2>4. plaintext' = SubSeq(p, r + 1, Len(p)) /\ wire' = w
    BY <1>0, <1>8, <1>13, <2>1
  <2>5. QED
    BY <2>3, <2>4 DEF Input
<1>17. d + r = a + H + 2 + (m + r)
  BY <1>10, <1>12
<1>18. WellFormed(s)' /\ s = requests'[c] /\ c <= Len(requests')
  BY <1>0, <1>4 DEF AtBody, WellFormed
<1>19. CASE m + r = B
  <2>1. state' = "EXPECT_COMPLETE" /\ pc' = "loop"
    BY <1>1, <1>13, <1>15, <1>19
  <2>2. AtComplete(c, at, d + r, s)'
    <3>1. body' = Body(c, s)
      BY <1>7, <1>15, <1>19 DEF Body
    <3>2. d + r = at[c] + Len(s.headers) + 2 + s.body
      BY <1>7, <1>17, <1>19
    <3>3. QED
      BY <1>18, <2>1, <3>1, <3>2 DEF AtComplete, Body
  <2>3. Tracks(T, at, d + r, c)'
    BY <1>0, <1>3, <1>16, <2>2 DEF Tracks, Progress
  <2>4. TypeOK' /\ HeadsWhole'
    BY <1>0, <1>1, <1>15, <1>16, <2>1 DEF TypeOK, HeadsWhole, States
  <2>5. QED
    BY <1>0, <1>1, <1>2, <2>1, <2>3, <2>4, Reads
<1>20. CASE m + r # B
  <2>1. state' = "EXPECT_BODY" /\ pc' = "idle"
    BY <1>1, <1>13, <1>15, <1>20
  <2>2. AtBody(c, at, d + r, s)'
    <3>1. m + r < B
      BY <1>12, <1>20
    <3>2. d + r = at[c] + Len(s.headers) + 2 + Len(body')
      BY <1>7, <1>15, <1>17
    <3>3. content_length' = s.body /\ Len(body') < s.body
      BY <1>0, <1>7, <1>10, <1>15, <3>1
    <3>4. \A j \in 1 .. Len(body') : body'[j] = Unit(c, "byte", j)
      BY <1>15
    <3>5. QED
      BY <1>18, <2>1, <3>2, <3>3, <3>4 DEF AtBody
  <2>3. Tracks(T, at, d + r, c)'
    BY <1>0, <1>3, <1>16, <2>2 DEF Tracks, Progress
  <2>4. TypeOK' /\ HeadsWhole'
    BY <1>0, <1>1, <1>15, <1>16, <2>1 DEF TypeOK, HeadsWhole, States
  <2>5. QED
    BY <1>0, <1>1, <1>2, <2>1, <2>3, <2>4, Reads
<1>21. QED
  BY <1>19, <1>20

(* The reply echoes request c, and its end is the beginning of the next.   *)
LEMMA CompleteRequestKeeps ==
  ASSUME Http1Assumption, Http1Inv, CompleteRequest
  PROVE  Http1Inv'
<1>0. /\ requests' = requests /\ wire' = wire /\ tls' = tls /\ plaintext' = plaintext
      /\ pc' = "idle"
  BY DEF CompleteRequest
<1>1. /\ pc # "idle" /\ pc = "loop" /\ state = "EXPECT_COMPLETE" /\ state # "ERROR" /\ TypeOK
      /\ HeadsWhole /\ RepliesInOrder /\ RejectsOnlyBad
  BY DEF CompleteRequest, Http1Inv
<1>2. tls = "open"
  BY <1>1, Http1LiveNow
<1>3. PICK T, at, d, c : c \in Nat /\ Tracks(T, at, d, c)
  BY <1>1, Http1LiveNow
<1>4. PICK s : AtComplete(c, at, d, s)
  BY <1>1, <1>3 DEF Tracks, Progress, AtLine, AtHeaders, InHeaders, InHead, AtBody
<1>5. c <= Len(requests)
  BY <1>4 DEF AtComplete
<1>6. PICK s1 \in Shapes, a \in Nat, H \in Nat, B \in Nat, l \in Nat :
        Position(T, at, d, c, s1, a, H, B, l)
  BY <1>1, <1>3, <1>5, Located
<1>7. /\ s1 = s /\ s = requests[c] /\ a = at[c] /\ H = Len(s.headers) /\ B = s.body
      /\ at[c + 1] = a + H + 2 + B
  BY <1>4, <1>6 DEF Position, AtComplete
<1>8. d = at[c + 1] /\ body = Body(c, s) /\ WellFormed(s)
  BY <1>4, <1>7 DEF AtComplete
<1>9. CASE responses' = Append(responses, [status |-> 200, body |-> body]) /\ Reset /\ fails' = fails
  <2>1. /\ headers' = NoHeaders /\ header_count' = 0 /\ content_length' = 0 /\ body' = <<>>
        /\ state' = "EXPECT_REQUEST_LINE"
    BY <1>9 DEF Reset
  <2>2. PICK R \in Replies : R = responses
    BY <1>1 DEF TypeOK, Replies
  <2>3. PICK r \in [status : {200, 400}, body : Seq(Units)] : r = [status |-> 200, body |-> body]
    BY <1>1 DEF TypeOK
  <2>4. PICK n \in Nat : n = Len(R)
    BY <2>3, OneMore
  <2>5. PICK Q : Q = Append(R, r)
    OBVIOUS
  <2>6. /\ Q \in Replies /\ DOMAIN R = 1 .. n /\ Len(Q) = n + 1 /\ DOMAIN Q = 1 .. n + 1
        /\ \A k \in 1 .. n : Q[k] = R[k]
        /\ Q[n + 1] = r
    BY <2>4, <2>5, OneMore
  <2>7. responses' = Q
    BY <1>9, <2>2, <2>3, <2>5
  <2>8. c = n + 1
    BY <1>3, <2>2, <2>4 DEF Tracks
  <2>9. r.status = 200 /\ r.body = Body(c, s)
    BY <1>8, <2>3
  <2>10. \A k \in 1 .. n : R[k].status = 200
    <3>1. \A k \in DOMAIN responses : responses[k].status = 200
      BY <1>1, <1>2 DEF Http1Inv, Http1Live
    <3>2. QED
      BY <2>2, <2>6, <3>1
  <2>11. \A k \in 1 .. n + 1 : Q[k].status = 200
    <3> SUFFICES ASSUME NEW k \in 1 .. n + 1 PROVE Q[k].status = 200
      OBVIOUS
    <3>1. CASE k = n + 1
      BY <2>6, <2>9, <3>1
    <3>2. CASE k # n + 1
      <4>1. k \in 1 .. n
        BY <3>2
      <4>2. QED
        BY <2>6, <2>10, <4>1
    <3>3. QED
      BY <3>1, <3>2
  <2>12. RepliesInOrder'
    <3> SUFFICES ASSUME NEW k \in DOMAIN responses'
                 PROVE  /\ k <= Len(requests') /\ WellFormed(requests'[k])
                        /\ responses'[k].body = Body(k, requests'[k])
      BY DEF RepliesInOrder, WellFormed
    <3>1. k \in 1 .. n + 1
      BY <2>6, <2>7
    <3>2. CASE k = n + 1
      BY <1>0, <1>5, <1>7, <1>8, <2>6, <2>7, <2>8, <2>9, <3>2
    <3>3. CASE k # n + 1
      <4>1. k \in 1 .. n
        BY <3>1, <3>3
      <4>2. k \in DOMAIN responses /\ Answered(k)
        BY <2>2, <2>6, <2>10, <4>1 DEF Answered
      <4>3. /\ k <= Len(requests) /\ WellFormed(requests[k])
            /\ responses[k].body = Body(k, requests[k])
        BY <1>1, <4>2 DEF RepliesInOrder
      <4>4. responses'[k] = responses[k]
        BY <2>2, <2>6, <2>7, <4>1
      <4>5. QED
        BY <1>0, <4>3, <4>4
    <3>4. QED
      BY <3>2, <3>3
  <2>13. Final400'
    <3>1. \A k \in DOMAIN responses' : responses'[k].status # 400
      BY <2>6, <2>7, <2>11
    <3>2. QED
      BY <3>1 DEF Final400
  <2>14. RejectsOnlyBad'
    BY <2>1, <2>13 DEF RejectsOnlyBad, Final400
  <2>15. TypeOK'
    <3>1. DOMAIN NoHeaders = {} /\ Range(NoHeaders) = {}
      BY DEF NoHeaders, Range
    <3>2. header_count' \in 0 .. MaxHeaders /\ content_length' \in Nat
      BY <2>1 DEF Http1Assumption
    <3>3. DOMAIN headers' \subseteq HeaderKinds /\ Range(headers') \subseteq Nat
      BY <2>1, <3>1
    <3>4. body' \in Seq(Units)
      BY <2>1, EmptySeq
    <3>5. responses' \in Seq([status : {200, 400}, body : Seq(Units)])
      BY <2>6, <2>7 DEF Replies
    <3>6. QED
      BY <1>0, <1>1, <1>9, <2>1, <3>2, <3>3, <3>4, <3>5 DEF TypeOK, States
  <2>16. Tracks(T, at, d, c + 1)'
    <3>1. AtLine(c + 1, at, d)'
      BY <1>0, <1>8, <2>1 DEF AtLine
    <3>2. c + 1 = Len(responses') + 1 /\ c + 1 \in 1 .. Len(requests') + 1
      <4>1. PICK k \in Nat : k = Len(requests)
        BY <1>1, LenProperties DEF TypeOK
      <4>2. c + 1 \in 1 .. k + 1
        BY <1>3, <1>5, <4>1
      <4>3. QED
        BY <1>0, <2>6, <2>7, <2>8, <4>1, <4>2
    <3>3. QED
      BY <1>0, <1>3, <3>1, <3>2 DEF Tracks, Progress, Input
  <2>17. Http1Live'
    BY <2>6, <2>7, <2>11, <2>16 DEF Http1Live
  <2>18. QED
    BY <1>0, <1>1, <2>1, <2>12, <2>14, <2>15, <2>17 DEF Http1Inv, HeadsWhole
<1>10. CASE /\ fails < MaxFails /\ fails' = fails + 1
            /\ UNCHANGED <<responses, state, requestVars>>
  <2>1. /\ responses' = responses /\ state' = state /\ headers' = headers
        /\ header_count' = header_count /\ content_length' = content_length /\ body' = body
    BY <1>10 DEF requestVars
  <2>2. AtComplete(c, at, d, s)'
    BY <1>0, <1>4, <2>1 DEF AtComplete, WellFormed, Body
  <2>3. Tracks(T, at, d, c)'
    BY <1>0, <1>3, <2>1, <2>2 DEF Tracks, Progress, Input
  <2>4. fails' \in 0 .. MaxFails
    BY <1>1, <1>10 DEF TypeOK, Http1Assumption
  <2>5. TypeOK' /\ HeadsWhole'
    BY <1>0, <1>1, <2>1, <2>4 DEF TypeOK, HeadsWhole
  <2>6. QED
    BY <1>0, <1>1, <1>2, <2>1, <2>3, <2>5, Reads
<1>11. QED
  BY <1>9, <1>10 DEF CompleteRequest

-------------------------------------------------------------------------------
(* Initially nothing has been sent.                                        *)
LEMMA Http1Start ==
  ASSUME Http1Assumption, Init
  PROVE  Http1Inv
<1>1. /\ requests = <<>> /\ wire = <<>> /\ tls = "open" /\ pc = "idle" /\ plaintext = <<>>
      /\ state = "EXPECT_REQUEST_LINE" /\ headers = NoHeaders /\ header_count = 0
      /\ content_length = 0 /\ body = <<>> /\ responses = <<>> /\ fails = 0
  BY DEF Init
<1>2. TypeOK
  <2>1. DOMAIN NoHeaders = {} /\ Range(NoHeaders) = {}
    BY DEF NoHeaders, Range
  <2>2. header_count \in 0 .. MaxHeaders /\ content_length \in Nat /\ fails \in 0 .. MaxFails
    BY <1>1 DEF Http1Assumption
  <2>3. DOMAIN headers \subseteq HeaderKinds /\ Range(headers) \subseteq Nat
    BY <1>1, <2>1
  <2>4. /\ requests \in Seq(Shapes)
        /\ wire \in Seq(Units) /\ plaintext \in Seq(Units) /\ body \in Seq(Units)
        /\ responses \in Seq([status : {200, 400}, body : Seq(Units)])
    BY <1>1, EmptySeq
  <2>5. QED
    BY <1>1, <2>2, <2>3, <2>4 DEF TypeOK, States
<1>3. DOMAIN responses = {} /\ Len(responses) = 0 /\ Len(requests) = 0
  BY <1>1
<1>4. RepliesInOrder /\ RejectsOnlyBad /\ HeadsWhole
  BY <1>1, <1>3 DEF RepliesInOrder, RejectsOnlyBad, HeadsWhole
<1>5. PICK T, at : T = <<>> /\ at = [k \in 1 .. 1 |-> 0]
  OBVIOUS
<1>6. Sent(T, at, requests)
  <2>1. T \in Seq(Units) /\ Len(T) = 0
    BY <1>5, EmptySeq
  <2>2. at \in [1 .. 0 + 1 -> 0 .. 0] /\ at[0 + 1] = 0
    BY <1>5
  <2>3. QED
    BY <1>3, <2>1, <2>2 DEF Sent
<1>7. Rest(T, 0, Input)
  <2>1. Input = <<>>
    BY <1>1, EmptySeq DEF Input
  <2>2. QED
    BY <1>5, <2>1, EmptySeq DEF Rest
<1>8. AtLine(1, at, 0)
  BY <1>1, <1>5 DEF AtLine
<1>9. Tracks(T, at, 0, 1)
  BY <1>3, <1>6, <1>7, <1>8 DEF Tracks, Progress
<1>10. Http1Live
  BY <1>3, <1>9 DEF Http1Live
<1>11. QED
  BY <1>1, <1>2, <1>4, <1>10 DEF Http1Inv

(* A step of the environment that changes nothing here.                    *)
LEMMA Http1StutterKeeps ==
  ASSUME Http1Inv, UNCHANGED vars
  PROVE  Http1Inv'
<1>0. /\ requests' = requests /\ wire' = wire /\ tls' = tls /\ pc' = pc /\ plaintext' = plaintext
      /\ state' = state /\ headers' = headers /\ header_count' = header_count
      /\ content_length' = content_length /\ body' = body
      /\ responses' = responses /\ fails' = fails
  BY DEF vars, requestVars
<1>1. TypeOK' /\ HeadsWhole'
  BY <1>0 DEF Http1Inv, TypeOK, HeadsWhole
<1>2. RepliesInOrder' /\ Final400' /\ (FirstBad => FirstBad')
  BY <1>0, NothingWritten DEF Http1Inv
<1>3. RejectsOnlyBad'
  BY <1>0, <1>2 DEF Http1Inv, RejectsOnlyBad, FirstBad, Final400
<1>4. CASE tls = "open" /\ state # "ERROR"
  <2>1. PICK T, at, d, c : Tracks(T, at, d, c)
    BY <1>4 DEF Http1Inv, Http1Live
  <2>2. Tracks(T, at, d, c)'
    BY <1>0, <2>1 DEF Tracks, Progress, Input, AtLine, AtHeaders, InHeaders, InHead, HeadersRead,
                      AtBody, AtComplete, WellFormed, Body
  <2>3. QED
    BY <1>0, <1>1, <1>4, <2>2, Reads
<1>5. CASE ~(tls = "open" /\ state # "ERROR")
  BY <1>0, <1>1, <1>2, <1>3, <1>5 DEF Http1Inv
<1>6. QED
  BY <1>4, <1>5

(* The inductive invariant of the HTTP/1.1 handler, for any requests, any  *)
(* pipelining and any way the input is cut up between heads (on_read(),    *)
(* parse_headers(), process_request()).                                    *)
THEOREM Http1Invariant ==
  ASSUME WholeHeads
  PROVE  Spec => []Http1Inv
<1>1. Init => Http1Inv
  BY Http1Assumption, Http1Start
<1>2. ASSUME Http1Inv, [Next]_vars
      PROVE  Http1Inv'
  <2>1. ASSUME NEW s \in Shapes, Send(s) PROVE Http1Inv'
    BY <1>2, <2>1, Http1Assumption, SendKeeps
  <2>2. ASSUME NEW n \in 0 .. Len(wire), OnRead(n) PROVE Http1Inv'
    BY <1>2, <2>2, Http1Assumption, OnReadKeeps
  <2>3. CASE OnReadFails
    BY <1>2, <2>3, Http1Assumption, OnReadFailsKeeps
  <2>4. CASE Close
    BY <1>2, <2>4, Http1Assumption, CloseKeeps
  <2>5. CASE NeedMore
    BY <1>2, <2>5, Http1Assumption, NeedMoreKeeps
  <2>6. CASE RequestLine
    BY <1>2, <2>6, Http1Assumption, RequestLineKeeps
  <2>7. CASE HeadersBegin
    BY <1>2, <2>7, Http1Assumption, HeadersBeginKeeps
  <2>8. CASE HeaderLine
    BY <1>2, <2>8, Http1Assumption, HeaderLineKeeps
  <2>9. CASE HeadersEnd
    BY <1>2, <2>9, Http1Assumption, HeadersEndKeeps
  <2>10. CASE ReadBody
    BY <1>2, <2>10, Http1Assumption, ReadBodyKeeps
  <2>11. CASE CompleteRequest
    BY <1>2, <2>11, Http1Assumption, CompleteRequestKeeps
  <2>12. CASE StillInError
    BY <1>2, <2>12, Http1Assumption, StillInErrorKeeps
  <2>13. CASE UNCHANGED vars
    BY <1>2, <2>13, Http1StutterKeeps
  <2>14. QED
    BY <1>2, <2>1, <2>2, <2>3, <2>4, <2>5, <2>6, <2>7, <2>8, <2>9, <2>10, <2>11, <2>12, <2>13
    DEF Next
<1>3. QED
  BY <1>1, <1>2, PTL DEF Spec

(* The HTTP/1.1 handler is type correct; in particular request lines and   *)
(* bytes of a body are never stored as headers, and no more headers are    *)
(* counted than the limit allows.                                          *)
THEOREM Http1TypeCorrect ==
  ASSUME WholeHeads
  PROVE  Spec => []TypeOK
<1>1. Http1Inv => TypeOK
  BY DEF Http1Inv
<1>2. QED
  BY <1>1, Http1Invariant, PTL

(* Http1Handler answers requests in order, each at most once and with its  *)
(* own body, for any number of requests and failed writes.                 *)
THEOREM RepliesInOrderAlways ==
  ASSUME WholeHeads
  PROVE  Spec => []RepliesInOrder
<1>1. Http1Inv => RepliesInOrder
  BY DEF Http1Inv
<1>2. QED
  BY <1>1, Http1Invariant, PTL

(* Http1Handler refuses a request only if it is malformed, and then takes  *)
(* nothing that follows for a request.                                     *)
THEOREM RejectsOnlyBadAlways ==
  ASSUME WholeHeads
  PROVE  Spec => []RejectsOnlyBad
<1>1. Http1Inv => RejectsOnlyBad
  BY DEF Http1Inv
<1>2. QED
  BY <1>1, Http1Invariant, PTL

===============================================================================
