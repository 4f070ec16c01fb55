------------------------ MODULE ConnectionManagerProofs ------------------------
(***************************************************************************)
(* Connections outlive their users and close their own descriptor once,    *)
(* for any number of connections and descriptors.                          *)
(*                                                                         *)
(* A descriptor and its connection point at each other: fd_ names it and   *)
(* the kernel has it open for this connection (Owns, NoLeakedFd).  The one *)
(* exception is the connection whose sweep stands between close() and      *)
(* fd_ = -1: its fd_ names a number that may already be another's (Stale). *)
(* That connection is in the vector of the sweep, so its destructor, which *)
(* would close the number again, cannot run (Sweeping).  What close()      *)
(* skips because it is DISCONNECTED has no descriptor (Disconnected),      *)
(* since a serving thread never stores that state (Serving).               *)
(***************************************************************************)
EXTENDS ConnectionManager, TLAPS

Numbering ==
  /\ next_connection_id \in 1 .. MaxConns + 1
  /\ \A c \in alive : c < next_connection_id
  /\ \A c \in Ids : c \notin alive => fd[c] = NoFd

Stale(c) == spc = "clear" /\ c = cur

Owns ==
  /\ \A c \in Ids : fd[c] # NoFd /\ ~Stale(c) => owner[fd[c]] = c
  /\ spc = "clear" => \A f \in Fds : owner[f] # cur

Sweeping ==
  /\ spc = "idle" => vector = {}
  /\ cur # Nobody <=> spc \in {"close", "clear", "finish"}
  /\ cur # Nobody => cur \in vector /\ cur \notin todo
  /\ spc = "finish" => fd[cur] = NoFd

Disconnected == \A c \in Ids : state[c] = "DISCONNECTED" => fd[c] = NoFd

Serving ==
  /\ writing # "nothing" => held # Nobody
  /\ writing \notin {"DISCONNECTING", "DISCONNECTED"}

ConnInv ==
  /\ TypeOK /\ NoUseAfterFree /\ ClosesOnlyItsOwn /\ NoLeakedFd /\ SweptIsClosed
  /\ Numbering /\ Owns /\ Sweeping /\ Disconnected /\ Serving

-------------------------------------------------------------------------------
(* 0 is no connection and no descriptor.                                   *)
LEMMA NullValues == Nobody \notin Ids /\ NoFd \notin Fds /\ Ids \subseteq Nat
  BY ConnAssumption DEF Nobody, NoFd, Ids

(* An empty table.                                                         *)
LEMMA InitInv == Init => ConnInv
<1> SUFFICES ASSUME Init PROVE ConnInv
  OBVIOUS
<1>1. TypeOK
  BY DEF Init, TypeOK, States
<1>2. NoUseAfterFree /\ ClosesOnlyItsOwn /\ NoLeakedFd /\ SweptIsClosed
  BY DEF Init, NoUseAfterFree, ClosesOnlyItsOwn, NoLeakedFd, SweptIsClosed
<1>3. Numbering
  BY ConnAssumption DEF Init, Numbering
<1>4. Owns /\ Sweeping /\ Disconnected /\ Serving
  BY DEF Init, Owns, Sweeping, Disconnected, Serving
<1>5. QED
  BY <1>1, <1>2, <1>3, <1>4 DEF ConnInv

(* A step that leaves the descriptors alone keeps who owns which.          *)
LEMMA SameOwners ==
  ASSUME ConnInv, UNCHANGED <<alive, fd, owner, foreignClose, next_connection_id>>,
         spc' = "clear" <=> spc = "clear", spc = "clear" => cur' = cur
  PROVE  Numbering' /\ Owns' /\ NoLeakedFd' /\ ClosesOnlyItsOwn'
<1>1. Numbering'
  BY DEF ConnInv, Numbering
<1>2. Owns'
  BY DEF ConnInv, Owns, Stale
<1>3. NoLeakedFd' /\ ClosesOnlyItsOwn'
  BY DEF ConnInv, NoLeakedFd, ClosesOnlyItsOwn
<1>4. QED
  BY <1>1, <1>2, <1>3

(* The destructor runs for objects nobody refers to.  Each has its own     *)
(* descriptor or none, because the one with a stale fd_ is referred to.    *)
LEMMA DestroyKeeps ==
  ASSUME ConnInv, NEW refs, Destroy(refs), next_connection_id' = next_connection_id,
         spc' = "clear" <=> spc = "clear", spc = "clear" => cur' = cur /\ cur \in refs
  PROVE  /\ alive' = alive \cap refs
         /\ fd' \in [Ids -> Fds \cup {NoFd}] /\ owner' \in [Fds -> Ids \cup {Nobody}]
         /\ foreignClose' \in BOOLEAN
         /\ \A c \in Ids : fd'[c] = fd[c] \/ fd'[c] = NoFd
         /\ Numbering' /\ Owns' /\ NoLeakedFd' /\ ClosesOnlyItsOwn'
<1> USE DEF ConnInv
<1> DEFINE dead == {c \in alive \ refs : fd[c] # NoFd}
<1>1. /\ alive' = alive \cap refs
      /\ owner' = [f \in Fds |-> IF \E c \in dead : fd[c] = f THEN Nobody ELSE owner[f]]
      /\ foreignClose' = (foreignClose \/ \E c \in dead : owner[fd[c]] # c)
      /\ fd' = [c \in Ids |-> IF c \in dead THEN NoFd ELSE fd[c]]
  BY DEF Destroy
<1>2. /\ alive \subseteq Ids
      /\ fd \in [Ids -> Fds \cup {NoFd}] /\ owner \in [Fds -> Ids \cup {Nobody}]
  BY DEF TypeOK
<1>3. \A c \in dead : c \in Ids /\ c \notin refs /\ fd[c] \in Fds /\ owner[fd[c]] = c
  <2> SUFFICES ASSUME NEW c \in dead
               PROVE  c \in Ids /\ c \notin refs /\ fd[c] \in Fds /\ owner[fd[c]] = c
    OBVIOUS
  <2>1. c \in Ids /\ c \notin refs /\ fd[c] # NoFd
    BY <1>2
  <2>2. ~Stale(c)
    BY <2>1 DEF Stale
  <2>3. QED
    BY <1>2, <2>1, <2>2 DEF Owns
<1>4. fd' \in [Ids -> Fds \cup {NoFd}] /\ owner' \in [Fds -> Ids \cup {Nobody}]
  BY <1>1, <1>2
<1>5. \A c \in Ids : fd'[c] = IF c \in dead THEN NoFd ELSE fd[c]
  BY <1>1
<1>6. \A f \in Fds : owner'[f] = IF \E c \in dead : fd[c] = f THEN Nobody ELSE owner[f]
  BY <1>1
<1>7. Numbering'
  BY <1>1, <1>2, <1>5 DEF Numbering
<1>8. Owns'
  <2>1. ASSUME NEW c \in Ids, fd'[c] # NoFd, ~Stale(c)' PROVE owner'[fd'[c]] = c
    <3>1. c \notin dead /\ fd'[c] = fd[c]
      BY <1>5, <2>1
    <3>2. ~Stale(c)
      BY <2>1 DEF Stale
    <3>3. owner[fd[c]] = c /\ fd[c] \in Fds
      BY <1>2, <2>1, <3>1, <3>2 DEF Owns
    <3>4. ~\E d \in dead : fd[d] = fd[c]
      BY <1>3, <3>1, <3>3
    <3>5. QED
      BY <1>6, <3>1, <3>3, <3>4
  <2>2. ASSUME spc' = "clear", NEW f \in Fds PROVE owner'[f] # cur'
    <3>1. cur' = cur /\ owner[f] # cur /\ cur # Nobody
      BY <2>2 DEF Owns, Sweeping
    <3>2. QED
      BY <1>6, <3>1
  <2>3. QED
    BY <2>1, <2>2 DEF Owns
<1>9. NoLeakedFd'
  <2> SUFFICES ASSUME NEW f \in Fds, owner'[f] # Nobody
               PROVE  owner'[f] \in alive' /\ fd'[owner'[f]] = f
    BY DEF NoLeakedFd
  <2>1. owner'[f] = owner[f] /\ ~\E c \in dead : fd[c] = f
    BY <1>6
  <2>2. owner[f] \in alive /\ fd[owner[f]] = f
    BY <2>1 DEF NoLeakedFd
  <2>3. owner[f] \notin dead /\ owner[f] \in Ids
    BY <1>2, <2>1, <2>2
  <2>4. f # NoFd
    BY NullValues
  <2>5. owner[f] \in refs
    BY <2>2, <2>3, <2>4
  <2>6. QED
    BY <1>1, <1>5, <2>1, <2>2, <2>3, <2>5
<1>10. ClosesOnlyItsOwn'
  BY <1>1, <1>3 DEF ClosesOnlyItsOwn
<1>11. foreignClose' \in BOOLEAN
  BY <1>1, Zenon
<1>12. QED
  BY <1>1, <1>4, <1>5, <1>7, <1>8, <1>9, <1>10, <1>11

-------------------------------------------------------------------------------
(* The serving thread.  A new connection has the next number, which no     *)
(* object has had, and a descriptor nobody has open.                       *)
LEMMA CreateKeeps ==
  ASSUME ConnInv, NEW f \in Fds, next_connection_id <= MaxConns, Create(f)
  PROVE  ConnInv'
<1> USE DEF ConnInv
<1> DEFINE c == next_connection_id
<1>1. /\ c \in Ids /\ c \notin alive /\ c # Nobody
      /\ c + 1 \in 1 .. MaxConns + 1 /\ \A d \in alive : d < c + 1
  BY ConnAssumption DEF TypeOK, Numbering, Ids, Nobody
<1>2. /\ owner[f] = Nobody
      /\ owner' = [owner EXCEPT ![f] = c]
      /\ next_connection_id' = c + 1
      /\ connections' = connections \cup {c}
      /\ alive' = alive \cup {c}
      /\ state' = [state EXCEPT ![c] = "ACCEPTING"]
      /\ fd' = [fd EXCEPT ![c] = f]
      /\ in_callback' = [in_callback EXCEPT ![c] = FALSE]
      /\ held' = c
      /\ UNCHANGED <<writing, spc, vector, todo, cur, foreignClose>>
  BY DEF Create, sweepVars
<1>3. /\ alive \subseteq Ids /\ vector \subseteq alive /\ (cur # Nobody => cur \in alive)
      /\ fd \in [Ids -> Fds \cup {NoFd}] /\ owner \in [Fds -> Ids \cup {Nobody}]
      /\ fd[c] = NoFd /\ f # NoFd /\ cur # c
  BY <1>1, NullValues DEF TypeOK, NoUseAfterFree, Numbering
<1>4. TypeOK'
  BY <1>1, <1>2, ConnAssumption DEF TypeOK, States
<1>5. NoUseAfterFree'
  BY <1>2 DEF NoUseAfterFree
<1>6. Numbering'
  <2>1. \A d \in alive' : d < c + 1
    BY <1>1, <1>2 DEF Ids
  <2>2. \A d \in Ids : d \notin alive' => fd'[d] = NoFd
    BY <1>2, <1>3 DEF Numbering
  <2>3. QED
    BY <1>1, <1>2, <2>1, <2>2 DEF Numbering
<1>7. \A d \in Ids : d # c => fd'[d] = fd[d]
  BY <1>2, <1>3
<1>8. fd'[c] = f /\ owner'[f] = c /\ \A g \in Fds : g # f => owner'[g] = owner[g]
  BY <1>1, <1>2, <1>3
<1>9. Owns'
  <2>1. ASSUME NEW d \in Ids, fd'[d] # NoFd, ~Stale(d)' PROVE owner'[fd'[d]] = d
    <3>1. CASE d = c
      BY <1>8, <3>1
    <3>2. CASE d # c
      <4>1. fd'[d] = fd[d] /\ ~Stale(d)
        BY <1>2, <1>7, <2>1, <3>2 DEF Stale
      <4>2. owner[fd[d]] = d /\ fd[d] \in Fds
        BY <1>3, <2>1, <4>1 DEF Owns
      <4>3. fd[d] # f
        BY <1>2, <4>2, NullValues
      <4>4. QED
        BY <1>8, <4>1, <4>2, <4>3
    <3>3. QED
      BY <3>1, <3>2
  <2>2. ASSUME spc' = "clear", NEW g \in Fds PROVE owner'[g] # cur'
    BY <1>2, <1>3, <1>8, <2>2 DEF Owns
  <2>3. QED
    BY <2>1, <2>2 DEF Owns
<1>10. NoLeakedFd'
  <2> SUFFICES ASSUME NEW g \in Fds, owner'[g] # Nobody
               PROVE  owner'[g] \in alive' /\ fd'[owner'[g]] = g
    BY DEF NoLeakedFd
  <2>1. CASE g = f
    BY <1>2, <1>8, <2>1
  <2>2. CASE g # f
    BY <1>1, <1>2, <1>3, <1>7, <1>8, <2>2 DEF NoLeakedFd
  <2>3. QED
    BY <2>1, <2>2
<1>11. SweptIsClosed'
  BY <1>1, <1>2, <1>3, <1>7 DEF SweptIsClosed
<1>12. Sweeping'
  BY <1>2, <1>3, <1>7 DEF Sweeping, TypeOK
<1>13. Disconnected'
  BY <1>2, <1>7 DEF Disconnected, TypeOK
<1>14. Serving' /\ ClosesOnlyItsOwn'
  BY <1>1, <1>2 DEF Serving, ClosesOnlyItsOwn
<1>15. QED
  BY <1>4, <1>5, <1>6, <1>9, <1>10, <1>11, <1>12, <1>13, <1>14

(* Taking a shared_ptr from the table.                                     *)
LEMMA GetKeeps ==
  ASSUME ConnInv, NEW c \in connections, Get(c)
  PROVE  ConnInv'
<1> USE DEF ConnInv
<1>1. held' = c /\ UNCHANGED <<next_connection_id, connections, alive, state, fd, in_callback,
                               owner, writing, spc, vector, todo, cur, foreignClose>>
  BY DEF Get, objVars, sweepVars
<1>2. c \in Ids /\ c # Nobody
  BY NullValues DEF TypeOK
<1>3. TypeOK'
  BY <1>1, <1>2 DEF TypeOK
<1>4. NoUseAfterFree' /\ SweptIsClosed' /\ Sweeping'
  BY <1>1, <1>2 DEF NoUseAfterFree, SweptIsClosed, Sweeping
<1>5. Disconnected' /\ Serving'
  BY <1>1, <1>2 DEF Disconnected, Serving
<1>6. Numbering' /\ Owns' /\ NoLeakedFd' /\ ClosesOnlyItsOwn'
  BY <1>1, SameOwners
<1>7. QED
  BY <1>3, <1>4, <1>5, <1>6

(* Giving it back, and removing an entry of the table, destroy at most the *)
(* connection in question, and never one in the vector of a sweep.         *)
LEMMA ReleaseKeeps ==
  ASSUME ConnInv, Release
  PROVE  ConnInv'
<1> USE DEF ConnInv
<1> DEFINE refs == Referenced(connections, vector, Nobody)
<1>1. /\ writing = "nothing" /\ held' = Nobody /\ Destroy(refs)
      /\ UNCHANGED <<next_connection_id, connections, state, in_callback, writing,
                     spc, vector, todo, cur>>
  BY DEF Release, sweepVars
<1>2. refs = connections \cup vector
  BY DEF Referenced
<1>3. cur # Nobody => cur \in vector
  BY DEF Sweeping
<1>4. spc = "clear" => cur \in refs
  BY <1>2, <1>3 DEF Sweeping
<1> HIDE DEF refs
<1>5. /\ alive' = alive \cap refs
      /\ fd' \in [Ids -> Fds \cup {NoFd}] /\ owner' \in [Fds -> Ids \cup {Nobody}]
      /\ foreignClose' \in BOOLEAN
      /\ \A c \in Ids : fd'[c] = fd[c] \/ fd'[c] = NoFd
      /\ Numbering' /\ Owns' /\ NoLeakedFd' /\ ClosesOnlyItsOwn'
  BY <1>1, <1>4, DestroyKeeps
<1>6. TypeOK'
  BY <1>1, <1>5 DEF TypeOK
<1>7. NoUseAfterFree'
  BY <1>1, <1>2, <1>3, <1>5 DEF NoUseAfterFree
<1>8. SweptIsClosed' /\ Sweeping' /\ Disconnected' /\ Serving'
  BY <1>1, <1>5 DEF SweptIsClosed, Sweeping, Disconnected, Serving, TypeOK
<1>9. QED
  BY <1>5, <1>6, <1>7, <1>8

LEMMA RemoveKeeps ==
  ASSUME ConnInv, NEW c \in connections, Remove(c)
  PROVE  ConnInv'
<1> USE DEF ConnInv
<1> DEFINE refs == Referenced(connections', vector, held)
<1>1. /\ connections' = connections \ {c} /\ Destroy(refs)
      /\ UNCHANGED <<next_connection_id, state, in_callback, held, writing,
                     spc, vector, todo, cur>>
  BY DEF Remove, sweepVars, serveVars
<1>2. refs = connections' \cup vector \cup ({held} \ {Nobody})
  BY DEF Referenced
<1>3. cur # Nobody => cur \in vector
  BY DEF Sweeping
<1>4. spc = "clear" => cur \in refs
  BY <1>2, <1>3 DEF Sweeping
<1> HIDE DEF refs
<1>5. /\ alive' = alive \cap refs
      /\ fd' \in [Ids -> Fds \cup {NoFd}] /\ owner' \in [Fds -> Ids \cup {Nobody}]
      /\ foreignClose' \in BOOLEAN
      /\ \A d \in Ids : fd'[d] = fd[d] \/ fd'[d] = NoFd
      /\ Numbering' /\ Owns' /\ NoLeakedFd' /\ ClosesOnlyItsOwn'
  BY <1>1, <1>4, DestroyKeeps
<1>6. TypeOK'
  BY <1>1, <1>5 DEF TypeOK
<1>7. NoUseAfterFree'
  BY <1>1, <1>2, <1>3, <1>5 DEF NoUseAfterFree
<1>8. SweptIsClosed' /\ Sweeping' /\ Disconnected' /\ Serving'
  BY <1>1, <1>5 DEF SweptIsClosed, Sweeping, Disconnected, Serving, TypeOK
<1>9. QED
  BY <1>5, <1>6, <1>7, <1>8

(* The steps of transition_to() and of a callback.                         *)
LEMMA ServeKeeps ==
  ASSUME ConnInv,
         (\E new \in States : TransitionCheck(new)) \/ TransitionStore
           \/ CallbackStarts \/ CallbackCompletes
  PROVE  ConnInv'
<1> USE DEF ConnInv
<1>1. UNCHANGED <<next_connection_id, connections, alive, fd, owner, held,
                  spc, vector, todo, cur, foreignClose>>
  BY DEF TransitionCheck, TransitionStore, CallbackStarts, CallbackCompletes,
         objVars, serveVars, sweepVars
<1>2. Numbering' /\ Owns' /\ NoLeakedFd' /\ ClosesOnlyItsOwn'
  BY <1>1, SameOwners
<1>3. NoUseAfterFree' /\ SweptIsClosed' /\ Sweeping'
  BY <1>1 DEF NoUseAfterFree, SweptIsClosed, Sweeping
<1>4. held # Nobody => held \in Ids
  BY DEF TypeOK
<1>5. TypeOK' /\ Disconnected' /\ Serving'
  <2>1. ASSUME NEW new \in States, TransitionCheck(new)
        PROVE  TypeOK' /\ Disconnected' /\ Serving'
    <3>1. /\ held # Nobody /\ writing' = new
          /\ new \notin {"DISCONNECTING", "DISCONNECTED"}
          /\ UNCHANGED <<state, in_callback>>
      BY <2>1 DEF TransitionCheck, objVars
    <3>2. QED
      BY <1>1, <3>1 DEF TypeOK, Disconnected, Serving
  <2>2. CASE TransitionStore
    <3>1. /\ writing # "nothing" /\ writing' = "nothing" /\ UNCHANGED in_callback
          /\ state' = [state EXCEPT ![held] = writing]
      BY <2>2 DEF TransitionStore
    <3>2. writing \in States /\ writing # "DISCONNECTED" /\ held \in Ids
      BY <1>4, <3>1 DEF TypeOK, Serving
    <3>3. QED
      BY <1>1, <3>1, <3>2 DEF TypeOK, Disconnected, Serving
  <2>3. CASE CallbackStarts \/ CallbackCompletes
    <3>1. /\ UNCHANGED <<state, writing>> /\ held # Nobody
          /\ \E b \in BOOLEAN : in_callback' = [in_callback EXCEPT ![held] = b]
      BY <2>3 DEF CallbackStarts, CallbackCompletes, serveVars
    <3>2. in_callback' \in [Ids -> BOOLEAN]
      BY <3>1 DEF TypeOK
    <3>3. QED
      BY <1>1, <3>1, <3>2 DEF TypeOK, Disconnected, Serving
  <2>4. QED
    BY <2>1, <2>2, <2>3
<1>6. QED
  BY <1>2, <1>3, <1>5

-------------------------------------------------------------------------------
(* The sweeping thread.  It takes shared_ptrs under the lock: those of the *)
(* connections that are late, which stay in the table ...                  *)
LEMMA CollectLateKeeps ==
  ASSUME ConnInv, NEW late \in SUBSET connections, CollectLate(late)
  PROVE  ConnInv'
<1> USE DEF ConnInv
<1>1. /\ spc = "idle" /\ spc' = "next" /\ vector' = late /\ todo' = late
      /\ UNCHANGED <<next_connection_id, connections, alive, state, fd, in_callback, owner,
                     held, writing, cur, foreignClose>>
  BY DEF CollectLate, objVars, serveVars
<1>2. Numbering' /\ Owns' /\ NoLeakedFd' /\ ClosesOnlyItsOwn'
  BY <1>1, SameOwners
<1>3. TypeOK'
  BY <1>1 DEF TypeOK
<1>4. NoUseAfterFree' /\ SweptIsClosed'
  BY <1>1 DEF NoUseAfterFree, SweptIsClosed
<1>5. Sweeping' /\ Disconnected' /\ Serving'
  BY <1>1 DEF Sweeping, Disconnected, Serving
<1>6. QED
  BY <1>2, <1>3, <1>4, <1>5

(* ... or all of them, with the table emptied.                             *)
LEMMA CollectAllKeeps ==
  ASSUME ConnInv, CollectAll
  PROVE  ConnInv'
<1> USE DEF ConnInv
<1> DEFINE refs == Referenced({}, vector', held)
<1>1. /\ spc = "idle" /\ spc' = "next" /\ vector' = connections /\ todo' = connections
      /\ connections' = {} /\ Destroy(refs)
      /\ UNCHANGED <<next_connection_id, state, in_callback, held, writing, cur>>
  BY DEF CollectAll, serveVars
<1>2. refs = connections \cup ({held} \ {Nobody})
  BY <1>1 DEF Referenced
<1> HIDE DEF refs
<1>3. /\ alive' = alive \cap refs
      /\ fd' \in [Ids -> Fds \cup {NoFd}] /\ owner' \in [Fds -> Ids \cup {Nobody}]
      /\ foreignClose' \in BOOLEAN
      /\ \A c \in Ids : fd'[c] = fd[c] \/ fd'[c] = NoFd
      /\ Numbering' /\ Owns' /\ NoLeakedFd' /\ ClosesOnlyItsOwn'
  BY <1>1, DestroyKeeps
<1>4. cur' = Nobody
  BY <1>1 DEF Sweeping
<1>5. TypeOK'
  BY <1>1, <1>3 DEF TypeOK
<1>6. NoUseAfterFree'
  BY <1>1, <1>2, <1>3, <1>4 DEF NoUseAfterFree
<1>7. SweptIsClosed' /\ Sweeping' /\ Disconnected' /\ Serving'
  BY <1>1, <1>3, <1>4 DEF SweptIsClosed, Sweeping, Disconnected, Serving, TypeOK
<1>8. QED
  BY <1>3, <1>5, <1>6, <1>7

(* close(): a connection that is DISCONNECTED has no descriptor, another   *)
(* is worked on until it has none.                                         *)
LEMMA CloseBeginKeeps ==
  ASSUME ConnInv, NEW c \in todo, CloseBegin(c)
  PROVE  ConnInv'
<1> USE DEF ConnInv
<1>1. /\ spc = "next" /\ todo' = todo \ {c}
      /\ UNCHANGED <<next_connection_id, connections, alive, fd, in_callback, owner,
                     held, writing, vector, foreignClose>>
      /\ \/ state[c] = "DISCONNECTED" /\ UNCHANGED <<state, spc, cur>>
         \/ state' = [state EXCEPT ![c] = "DISCONNECTING"] /\ spc' = "close" /\ cur' = c
  BY DEF CloseBegin, serveVars
<1>2. c \in Ids /\ c \in vector /\ c # Nobody /\ cur = Nobody
  BY <1>1, NullValues DEF TypeOK, Sweeping
<1>3. Numbering' /\ Owns' /\ NoLeakedFd' /\ ClosesOnlyItsOwn'
  BY <1>1, SameOwners
<1>4. CASE state[c] = "DISCONNECTED" /\ UNCHANGED <<state, spc, cur>>
  <2>1. fd[c] = NoFd
    BY <1>2, <1>4 DEF Disconnected
  <2>2. SweptIsClosed'
    BY <1>1, <1>4, <2>1 DEF SweptIsClosed
  <2>3. TypeOK' /\ NoUseAfterFree' /\ Sweeping' /\ Disconnected' /\ Serving'
    BY <1>1, <1>4 DEF TypeOK, NoUseAfterFree, Sweeping, Disconnected, Serving
  <2>4. QED
    BY <1>3, <2>2, <2>3
<1>5. CASE state' = [state EXCEPT ![c] = "DISCONNECTING"] /\ spc' = "close" /\ cur' = c
  <2>1. TypeOK'
    BY <1>1, <1>2, <1>5 DEF TypeOK, States
  <2>2. SweptIsClosed' /\ NoUseAfterFree'
    <3>1. \A d \in vector : d # Nobody
      BY NullValues DEF TypeOK
    <3>2. QED
      BY <1>1, <1>2, <1>5, <3>1 DEF SweptIsClosed, NoUseAfterFree
  <2>3. Sweeping' /\ Serving'
    BY <1>1, <1>2, <1>5 DEF Sweeping, Serving
  <2>4. Disconnected'
    BY <1>1, <1>2, <1>5 DEF Disconnected, TypeOK
  <2>5. QED
    BY <1>3, <2>1, <2>2, <2>3, <2>4
<1>6. QED
  BY <1>1, <1>4, <1>5

(* close() of the descriptor: it is still its own, and from here on until  *)
(* fd_ = -1 the number is stale.                                           *)
LEMMA CloseFdKeeps ==
  ASSUME ConnInv, CloseFd
  PROVE  ConnInv'
<1> USE DEF ConnInv
<1>1. /\ spc = "close"
      /\ UNCHANGED <<next_connection_id, connections, alive, state, fd, in_callback,
                     held, writing, vector, todo, cur>>
  BY DEF CloseFd, objVars, serveVars
<1>2. /\ cur \in Ids /\ cur # Nobody /\ cur \in vector /\ cur \notin todo
      /\ fd \in [Ids -> Fds \cup {NoFd}] /\ owner \in [Fds -> Ids \cup {Nobody}]
  BY <1>1 DEF Sweeping, TypeOK
<1>3. CASE fd[cur] = NoFd
  <2>1. spc' = "finish" /\ UNCHANGED <<owner, foreignClose>>
    BY <1>3 DEF CloseFd
  <2>2. Numbering' /\ Owns' /\ NoLeakedFd' /\ ClosesOnlyItsOwn'
    BY <1>1, <2>1, SameOwners
  <2>3. TypeOK' /\ NoUseAfterFree' /\ SweptIsClosed'
    BY <1>1, <2>1 DEF TypeOK, NoUseAfterFree, SweptIsClosed
  <2>4. Sweeping' /\ Disconnected' /\ Serving'
    BY <1>1, <1>2, <1>3, <2>1 DEF Sweeping, Disconnected, Serving
  <2>5. QED
    BY <2>2, <2>3, <2>4
<1>4. CASE fd[cur] # NoFd
  <2>1. /\ spc' = "clear" /\ owner' = [owner EXCEPT ![fd[cur]] = Nobody]
        /\ foreignClose' = (foreignClose \/ owner[fd[cur]] # cur)
    BY <1>4 DEF CloseFd
  <2>2. fd[cur] \in Fds /\ owner[fd[cur]] = cur
    BY <1>1, <1>2, <1>4 DEF Owns, Stale
  <2>3. /\ owner'[fd[cur]] = Nobody
        /\ \A f \in Fds : f # fd[cur] => owner'[f] = owner[f]
    BY <1>2, <2>1, <2>2
  <2>4. ClosesOnlyItsOwn' /\ foreignClose' \in BOOLEAN
    <3>1. ~foreignClose'
      BY <2>1, <2>2 DEF ClosesOnlyItsOwn
    <3>2. foreignClose' \in BOOLEAN
      BY <2>1, Zenon
    <3>3. QED
      BY <3>1, <3>2 DEF ClosesOnlyItsOwn
  <2>5. \A f \in Fds : owner[f] = cur => f = fd[cur]
    BY <1>2 DEF NoLeakedFd
  <2>6. Owns'
    <3>1. ASSUME NEW c \in Ids, fd'[c] # NoFd, ~Stale(c)' PROVE owner'[fd'[c]] = c
      <4>1. c # cur /\ fd'[c] = fd[c]
        BY <1>1, <2>1, <3>1 DEF Stale
      <4>2. owner[fd[c]] = c /\ fd[c] \in Fds
        BY <1>1, <1>2, <3>1, <4>1 DEF Owns, Stale
      <4>3. QED
        BY <2>2, <2>3, <4>1, <4>2
    <3>2. ASSUME NEW f \in Fds PROVE owner'[f] # cur'
      BY <1>1, <1>2, <2>3, <2>5
    <3>3. QED
      BY <3>1, <3>2 DEF Owns
  <2>7. NoLeakedFd'
    BY <1>1, <2>3 DEF NoLeakedFd
  <2>8. owner' \in [Fds -> Ids \cup {Nobody}]
    BY <1>2, <2>1
  <2>9. TypeOK'
    BY <1>1, <2>1, <2>4, <2>8 DEF TypeOK
  <2>10. Numbering' /\ NoUseAfterFree' /\ SweptIsClosed'
    BY <1>1, <2>1 DEF Numbering, NoUseAfterFree, SweptIsClosed
  <2>11. Sweeping' /\ Disconnected' /\ Serving'
    BY <1>1, <1>2, <2>1 DEF Sweeping, Disconnected, Serving
  <2>12. QED
    BY <2>4, <2>6, <2>7, <2>9, <2>10, <2>11
<1>5. QED
  BY <1>3, <1>4

(* fd_ = -1.                                                               *)
LEMMA ClearFdKeeps ==
  ASSUME ConnInv, ClearFd
  PROVE  ConnInv'
<1> USE DEF ConnInv
<1>1. /\ spc = "clear" /\ spc' = "finish" /\ fd' = [fd EXCEPT ![cur] = NoFd]
      /\ UNCHANGED <<next_connection_id, connections, alive, state, in_callback, owner,
                     held, writing, vector, todo, cur, foreignClose>>
  BY DEF ClearFd, serveVars
<1>2. /\ cur \in Ids /\ cur # Nobody /\ cur \in vector /\ cur \notin todo
      /\ fd \in [Ids -> Fds \cup {NoFd}] /\ owner \in [Fds -> Ids \cup {Nobody}]
      /\ alive \subseteq Ids
  BY <1>1 DEF Sweeping, TypeOK
<1>3. fd'[cur] = NoFd /\ \A c \in Ids : c # cur => fd'[c] = fd[c]
  BY <1>1, <1>2
<1>4. TypeOK'
  BY <1>1, <1>2 DEF TypeOK
<1>5. Numbering' /\ Disconnected'
  BY <1>1, <1>2, <1>3 DEF Numbering, Disconnected
<1>6. Owns'
  BY <1>1, <1>3 DEF Owns, Stale
<1>7. NoLeakedFd'
  BY <1>1, <1>2, <1>3 DEF NoLeakedFd, Owns
<1>8. SweptIsClosed'
  BY <1>1, <1>3 DEF SweptIsClosed, TypeOK
<1>9. NoUseAfterFree' /\ ClosesOnlyItsOwn' /\ Serving'
  BY <1>1 DEF NoUseAfterFree, ClosesOnlyItsOwn, Serving
<1>10. Sweeping'
  BY <1>1, <1>2, <1>3 DEF Sweeping
<1>11. QED
  BY <1>4, <1>5, <1>6, <1>7, <1>8, <1>9, <1>10

(* DISCONNECTED, with the descriptor gone.                                 *)
LEMMA CloseFinishKeeps ==
  ASSUME ConnInv, CloseFinish
  PROVE  ConnInv'
<1> USE DEF ConnInv
<1>1. /\ spc = "finish" /\ spc' = "next" /\ cur' = Nobody
      /\ state' = [state EXCEPT ![cur] = "DISCONNECTED"]
      /\ in_callback' = [in_callback EXCEPT ![cur] = FALSE]
      /\ connections' \subseteq connections
      /\ UNCHANGED <<next_connection_id, alive, fd, owner, held, writing, vector, todo,
                     foreignClose>>
  BY DEF CloseFinish, serveVars
<1>2. cur \in Ids /\ cur # Nobody /\ cur \in vector /\ cur \notin todo /\ fd[cur] = NoFd
  BY <1>1 DEF Sweeping, TypeOK
<1>3. Numbering' /\ Owns' /\ NoLeakedFd' /\ ClosesOnlyItsOwn'
  BY <1>1, SameOwners
<1>4. TypeOK'
  BY <1>1, <1>2 DEF TypeOK, States
<1>5. NoUseAfterFree' /\ SweptIsClosed'
  BY <1>1, <1>2 DEF NoUseAfterFree, SweptIsClosed
<1>6. Sweeping' /\ Serving'
  BY <1>1 DEF Sweeping, Serving
<1>7. Disconnected'
  BY <1>1, <1>2 DEF Disconnected, TypeOK
<1>8. QED
  BY <1>3, <1>4, <1>5, <1>6, <1>7

(* The vector goes out of scope, when nothing is stale.                    *)
LEMMA SweepEndKeeps ==
  ASSUME ConnInv, SweepEnd
  PROVE  ConnInv'
<1> USE DEF ConnInv
<1> DEFINE refs == Referenced(connections, {}, held)
<1>1. /\ spc = "next" /\ spc' = "idle" /\ vector' = {} /\ todo = {} /\ Destroy(refs)
      /\ UNCHANGED <<next_connection_id, connections, state, in_callback, held, writing,
                     todo, cur>>
  BY DEF SweepEnd, serveVars
<1>2. refs = connections \cup ({held} \ {Nobody})
  BY DEF Referenced
<1> HIDE DEF refs
<1>3. /\ alive' = alive \cap refs
      /\ fd' \in [Ids -> Fds \cup {NoFd}] /\ owner' \in [Fds -> Ids \cup {Nobody}]
      /\ foreignClose' \in BOOLEAN
      /\ \A c \in Ids : fd'[c] = fd[c] \/ fd'[c] = NoFd
      /\ Numbering' /\ Owns' /\ NoLeakedFd' /\ ClosesOnlyItsOwn'
  BY <1>1, DestroyKeeps
<1>4. cur' = Nobody
  BY <1>1 DEF Sweeping
<1>5. TypeOK'
  BY <1>1, <1>3 DEF TypeOK
<1>6. NoUseAfterFree'
  BY <1>1, <1>2, <1>3, <1>4 DEF NoUseAfterFree
<1>7. SweptIsClosed' /\ Sweeping' /\ Disconnected' /\ Serving'
  BY <1>1, <1>3, <1>4 DEF SweptIsClosed, Sweeping, Disconnected, Serving, TypeOK
<1>8. QED
  BY <1>3, <1>5, <1>6, <1>7

-------------------------------------------------------------------------------
(* Every step, and every stuttering step, keeps the invariant.             *)
LEMMA StepInv == ConnInv /\ [Next]_vars => ConnInv'
<1> SUFFICES ASSUME ConnInv, [Next]_vars PROVE ConnInv'
  OBVIOUS
<1>1. ASSUME NEW f \in Fds, next_connection_id <= MaxConns, Create(f) PROVE ConnInv'
  BY <1>1, CreateKeeps
<1>2. ASSUME NEW c \in connections, Get(c) PROVE ConnInv'
  BY <1>2, GetKeeps
<1>3. ASSUME NEW c \in connections, Remove(c) PROVE ConnInv'
  BY <1>3, RemoveKeeps
<1>4. CASE Release
  BY <1>4, ReleaseKeeps
<1>5. CASE (\E new \in States : TransitionCheck(new)) \/ TransitionStore
             \/ CallbackStarts \/ CallbackCompletes
  BY <1>5, ServeKeeps
<1>6. ASSUME NEW late \in SUBSET connections, CollectLate(late) PROVE ConnInv'
  BY <1>6, CollectLateKeeps
<1>7. CASE CollectAll
  BY <1>7, CollectAllKeeps
<1>8. ASSUME NEW c \in todo, CloseBegin(c) PROVE ConnInv'
  BY <1>8, CloseBeginKeeps
<1>9. CASE CloseFd \/ ClearFd
  BY <1>9, CloseFdKeeps, ClearFdKeeps
<1>10. CASE CloseFinish \/ SweepEnd
  BY <1>10, CloseFinishKeeps, SweepEndKeeps
<1>11. CASE UNCHANGED vars
  <2>1. UNCHANGED <<next_connection_id, connections, alive, state, fd, in_callback, owner,
                    held, writing, spc, vector, todo, cur, foreignClose>>
    BY <1>11 DEF vars, objVars, serveVars, sweepVars
  <2>2. TypeOK' /\ NoUseAfterFree' /\ ClosesOnlyItsOwn' /\ NoLeakedFd' /\ SweptIsClosed'
    BY <2>1 DEF ConnInv, TypeOK, NoUseAfterFree, ClosesOnlyItsOwn, NoLeakedFd, SweptIsClosed
  <2>3. Numbering' /\ Owns' /\ Sweeping' /\ Disconnected' /\ Serving'
    BY <2>1 DEF ConnInv, Numbering, Owns, Stale, Sweeping, Disconnected, Serving
  <2>4. QED
    BY <2>2, <2>3 DEF ConnInv
<1>12. QED
  BY <1>1, <1>2, <1>3, <1>4, <1>5, <1>6, <1>7, <1>8, <1>9, <1>10, <1>11 DEF Next, SweepStep

(* The inductive invariant holds in every reachable state.                 *)
THEOREM ConnectionInvariant == Spec => []ConnInv
  BY InitInv, StepInv, PTL DEF Spec

(* Type correctness of the connection manager.                             *)
THEOREM ConnectionTypes == Spec => []TypeOK
<1>1. ConnInv => TypeOK
  BY DEF ConnInv
<1>2. QED
  BY <1>1, ConnectionInvariant, PTL

(* Whatever remove_connection(), close_all(), check_timeouts() and the     *)
(* serving thread do in any order, an object is destroyed only when no     *)
(* table, vector or shared_ptr refers to it.                               *)
THEOREM ConnectionsOutliveUsers == Spec => []NoUseAfterFree
<1>1. ConnInv => NoUseAfterFree
  BY DEF ConnInv
<1>2. QED
  BY <1>1, ConnectionInvariant, PTL

(* close_fd() and ~Connection() never close a number that is another       *)
(* connection's by now, though close() and fd_ = -1 are two steps and the  *)
(* kernel may hand the number out between them.                            *)
THEOREM OwnDescriptorClosedOnce == Spec => []ClosesOnlyItsOwn
<1>1. ConnInv => ClosesOnlyItsOwn
  BY DEF ConnInv
<1>2. QED
  BY <1>1, ConnectionInvariant, PTL

(* Every descriptor accept() returned is in the fd_ of a living connection *)
(* until it is closed, so the destructor closes it at the latest.          *)
THEOREM DescriptorsNotLeaked == Spec => []NoLeakedFd
<1>1. ConnInv => NoLeakedFd
  BY DEF ConnInv
<1>2. QED
  BY <1>1, ConnectionInvariant, PTL

(* What close_all() or a timeout sweep has passed has no descriptor, also  *)
(* when the serving thread moved its state meanwhile.                      *)
THEOREM SweepCloses == Spec => []SweptIsClosed
<1>1. ConnInv => SweptIsClosed
  BY DEF ConnInv
<1>2. QED
  BY <1>1, ConnectionInvariant, PTL

(* A connection never gets a second descriptor, and its number is never    *)
(* given to another object: fd_ of an object that lives only ever becomes  *)
(* -1, and an object that is gone does not come back.                      *)
DescriptorSetOnce ==
  \A c \in Ids : c < next_connection_id =>
    /\ fd'[c] = fd[c] \/ fd'[c] = NoFd
    /\ c \in alive' => c \in alive

THEOREM OneDescriptorEach == Spec => [][DescriptorSetOnce]_vars
<1>1. ASSUME ConnInv, [Next]_vars PROVE [DescriptorSetOnce]_vars
  <2> SUFFICES ASSUME Next PROVE DescriptorSetOnce
    BY <1>1
  <2> USE DEF DescriptorSetOnce
  <2>1. CASE \E f \in Fds : Create(f)
    <3>1. /\ \E f \in Fds : fd' = [fd EXCEPT ![next_connection_id] = f]
          /\ alive' = alive \cup {next_connection_id}
      BY <2>1 DEF Create
    <3>2. fd \in [Ids -> Fds \cup {NoFd}] /\ next_connection_id \in Nat
      BY <1>1 DEF ConnInv, TypeOK
    <3>3. \A c \in Ids : c < next_connection_id => c # next_connection_id
      BY <3>2 DEF Ids
    <3>4. QED
      BY <3>1, <3>2, <3>3
  <2>2. CASE \E refs : Destroy(refs)
    BY <2>2 DEF Destroy
  <2>3. CASE UNCHANGED <<fd, alive>>
    BY <2>3
  <2>4. CASE ClearFd
    <3>1. fd' = [fd EXCEPT ![cur] = NoFd] /\ alive' = alive
      BY <2>4 DEF ClearFd
    <3>2. QED
      BY <1>1, <3>1 DEF ConnInv, TypeOK
  <2>5. \/ \E f \in Fds : Create(f)
        \/ \E refs : Destroy(refs)
        \/ UNCHANGED <<fd, alive>>
        \/ ClearFd
    <3>1. CASE Release \/ CollectAll \/ SweepEnd \/ \E c \in connections : Remove(c)
      BY <3>1 DEF Release, CollectAll, SweepEnd, Remove
    <3>2. CASE \E f \in Fds : next_connection_id <= MaxConns /\ Create(f)
      BY <3>2
    <3>3. CASE \/ \E c \in connections : Get(c)
               \/ \E new \in States : TransitionCheck(new)
               \/ TransitionStore \/ CallbackStarts \/ CallbackCompletes
               \/ \E late \in SUBSET connections : CollectLate(late)
               \/ \E c \in todo : CloseBegin(c)
               \/ CloseFd \/ CloseFinish
      BY <3>3 DEF Get, TransitionCheck, TransitionStore, CallbackStarts, CallbackCompletes,
                  CollectLate, CloseBegin, CloseFd, CloseFinish, objVars
    <3>4. QED
      BY <3>1, <3>2, <3>3 DEF Next, SweepStep
  <2>6. QED
    BY <2>1, <2>2, <2>3, <2>4, <2>5
<1>2. QED
  BY <1>1, ConnectionInvariant, PTL DEF Spec

===============================================================================
