---------------------------- MODULE IoThreadProofs ----------------------------
(***************************************************************************)
(* The I/O thread gives back its descriptors and speaks only of sockets    *)
(* that are registered, for any number of callers, sockets, descriptors,   *)
(* starts and events per kevent().                                         *)
(*                                                                         *)
(* Where the thread is says which pipe ends are open, and the members that *)
(* name them are the only ones that do (Pipe).  Around that time members,  *)
(* filters and the kqueue are empty (Bare), and a thread is only started   *)
(* when there is none (Joined).  A table entry stands for a socket that is *)
(* added and open under that number (Tables): no two numbers are the same  *)
(* socket (Identities), so remove_fd() of one takes nothing from another,  *)
(* and the thread closes nothing but its pipe.  Events are kept from one   *)
(* kevent() to the next at no time (Batches).                              *)
(***************************************************************************)
EXTENDS IoThread, FiniteSetTheorems, SequenceTheorems, WellFoundedInduction, TLAPS

Both == {"watch", "top", "register", "wait", "handle", "closeRead"}
WriteEnd == Both \cup {"closeWrite"}

Pipe ==
  /\ io \in Both => wakeup_read_fd \in Fds /\ file[wakeup_read_fd] = PipeRead
  /\ io \in WriteEnd => wakeup_fd \in Fds /\ file[wakeup_fd] = PipeWrite
  /\ \A fd \in Fds : file[fd] = PipeRead => io \in Both /\ fd = wakeup_read_fd
  /\ \A fd \in Fds : file[fd] = PipeWrite => io \in WriteEnd /\ fd = wakeup_fd

Outside == {"none", "setup", "degraded", "done"}

Bare ==
  /\ io \in Outside \cup {"pipe"} => wakeup_fd = NoFd /\ wakeup_read_fd = NoFd
  /\ io \in Outside \cup {"pipe", "watch"} => watched = {}
  /\ io \in Outside => ~kq
  /\ io \in {"closeWrite", "clearWrite"} => wakeup_read_fd = NoFd

Joined == ctl = "idle" /\ ~running => io = "none"

Identities ==
  /\ sockets \in 0 .. MaxSockets
  /\ \A fd \in Fds : file[fd] \in Sockets => file[fd] <= sockets
  /\ \A fd, fe \in Fds : file[fd] \in Sockets /\ file[fd] = file[fe] => fd = fe

Tables ==
  /\ owned \subseteq Sockets
  /\ \A fd \in listeners : file[fd] \in owned
  /\ \A fd \in DOMAIN conns : file[fd] \in owned /\ conns[fd] = file[fd]

Batches ==
  /\ batch \in Seq(Fds \X {"read", "write"})
  /\ io # "handle" => batch = <<>>
  /\ io = "handle" => batch # <<>>

IoInv == TypeOK /\ Pipe /\ Bare /\ Joined /\ Identities /\ Tables /\ Batches

-------------------------------------------------------------------------------
(* The numbers that stand for something are apart.                         *)
LEMMA FileNumbers ==
  /\ MaxSockets \in Nat /\ PipeRead = MaxSockets + 1 /\ PipeWrite = MaxSockets + 2
  /\ NoFile \notin Sockets /\ PipeRead \notin Sockets /\ PipeWrite \notin Sockets
  /\ NoFile # PipeRead /\ NoFile # PipeWrite /\ PipeRead # PipeWrite
  /\ Sockets \subseteq 0 .. PipeWrite /\ {NoFile, PipeRead, PipeWrite} \subseteq 0 .. PipeWrite
  /\ NoFd \notin Fds
  BY IoAssumption DEF NoFile, PipeRead, PipeWrite, Sockets, NoFd

(* The lowest number of a set is one of its numbers.                       *)
LEMMA LowestIsMember ==
  ASSUME NEW S \in SUBSET Nat, S # {}
  PROVE  Min(S) \in S
<1> DEFINE Less == {ss \in Nat \X Nat : ss[1] < ss[2]}
<1>1. IsWellFoundedOn(Less, Nat)
  BY NatLessThanWellFounded DEF OpToRel
<1> HIDE DEF Less
<1>2. PICK x \in S : \A y \in S : ~(<<y, x>> \in Less)
  BY <1>1, WFMin
<1>3. ASSUME NEW y \in S PROVE x <= y
  <2>1. x \in Nat /\ y \in Nat
    OBVIOUS
  <2>2. y < x => <<y, x>> \in Less
    BY <2>1 DEF Less
  <2>3. ~(y < x)
    BY <1>2, <2>2
  <2>4. QED
    BY <2>1, <2>3
<1>4. QED
  BY <1>3, Zenon DEF Min

LEMMA FreeFdsFinite == FreeFds \in SUBSET Nat /\ FreeFds \subseteq Fds /\ IsFiniteSet(FreeFds)
<1>1. FreeFds \subseteq Fds
  BY DEF FreeFds
<1>2. QED
  BY <1>1, IoAssumption, FS_Subset

(* Nothing is running and nothing is open.                                 *)
LEMMA IoInit == Init => IoInv
<1> SUFFICES ASSUME Init PROVE IoInv
  OBVIOUS
<1> USE DEF Init
<1>1. <<>> \in Seq(Fds \X {"read", "write"}) /\ Len(<<>>) = 0
  BY EmptySeq
<1>2. DOMAIN conns = {} /\ Range(conns) = {}
  <2>1. DOMAIN conns = {}
    BY DEF Init
  <2>2. QED
    BY <2>1 DEF Range
<1>3. file \in [Fds -> 0 .. PipeWrite] /\ \A fd \in Fds : file[fd] = NoFile
  BY FileNumbers
<1>4. TypeOK
  <2>1. Len(batch) <= MaxBatch
    BY <1>1, IoAssumption
  <2>2. running \in BOOLEAN /\ kq \in BOOLEAN
    BY Zenon
  <2>3. QED
    BY <1>2, <1>3, <2>1, <2>2 DEF TypeOK
<1>5. Pipe
  BY <1>3, FileNumbers DEF Pipe, Both, WriteEnd
<1>6. Bare /\ Joined
  BY DEF Bare, Joined, Outside
<1>7. Identities
  BY <1>3, FileNumbers DEF Identities
<1>8. Tables /\ Batches
  BY <1>1, <1>2 DEF Tables, Batches
<1>9. QED
  BY <1>4, <1>5, <1>6, <1>7, <1>8 DEF IoInv

-------------------------------------------------------------------------------
(* What a step leaves alone stays as it was.                               *)
LEMMA SameSockets ==
  ASSUME IoInv, UNCHANGED <<listeners, conns, owned, file, sockets>>
  PROVE  Identities' /\ Tables'
<1>1. Identities'
  BY DEF IoInv, Identities
<1>2. Tables'
  BY DEF IoInv, Tables
<1>3. QED
  BY <1>1, <1>2

LEMMA SameThread ==
  ASSUME IoInv, UNCHANGED <<io, batch, wakeup_fd, wakeup_read_fd, kq, file, watched>>
  PROVE  Pipe' /\ Bare' /\ Batches'
  BY DEF IoInv, Pipe, Bare, Batches

(* close() of numbers that are not in the tables.                          *)
LEMMA CloseKeeps ==
  ASSUME IoInv, NEW fds \in SUBSET Fds, CloseFiles(fds),
         \A fd \in fds : file[fd] \notin owned,
         UNCHANGED <<listeners, conns, owned, sockets>>
  PROVE  /\ file' \in [Fds -> 0 .. PipeWrite] /\ watched' \subseteq watched
         /\ \A fd \in Fds : file'[fd] = IF fd \in fds THEN NoFile ELSE file[fd]
         /\ Identities' /\ Tables'
<1>1. file \in [Fds -> 0 .. PipeWrite] /\ listeners \subseteq Fds /\ DOMAIN conns \subseteq Fds
  BY DEF IoInv, TypeOK
<1>2. /\ file' = [fd \in Fds |-> IF fd \in fds THEN NoFile ELSE file[fd]]
      /\ watched' \subseteq watched
  BY DEF CloseFiles
<1>3. file' \in [Fds -> 0 .. PipeWrite]
  BY <1>1, <1>2, FileNumbers
<1>4. \A fd \in Fds : file'[fd] = IF fd \in fds THEN NoFile ELSE file[fd]
  BY <1>2
<1>5. Identities'
  BY <1>4, FileNumbers DEF IoInv, Identities
<1>6. Tables'
  BY <1>1, <1>4 DEF IoInv, Tables
<1>7. QED
  BY <1>2, <1>3, <1>4, <1>5, <1>6

-------------------------------------------------------------------------------
(* The kernel.                                                             *)
LEMMA OpenSocketKeeps == IoInv /\ OpenSocket => IoInv'
<1> SUFFICES ASSUME IoInv, OpenSocket PROVE IoInv'
  OBVIOUS
<1>1. file \in [Fds -> 0 .. PipeWrite] /\ listeners \subseteq Fds /\ DOMAIN conns \subseteq Fds
  BY DEF IoInv, TypeOK
<1>2. PICK new \in Fds : new = Min(FreeFds) /\ file[new] = NoFile
  <2>1. FreeFds # {}
    BY DEF OpenSocket
  <2>2. Min(FreeFds) \in FreeFds
    BY <2>1, FreeFdsFinite, LowestIsMember
  <2>3. QED
    BY <2>2 DEF FreeFds
<1>3. sockets \in Nat /\ sockets + 1 \in Sockets /\ sockets + 1 \in 0 .. MaxSockets
  BY FileNumbers DEF OpenSocket, IoInv, Identities, Sockets
<1>4. file' = [file EXCEPT ![new] = sockets + 1] /\ sockets' = sockets + 1
  BY <1>2 DEF OpenSocket
<1>5. /\ UNCHANGED <<running, wakeup_fd, wakeup_read_fd, kq, listeners, conns, fd_mutex>>
      /\ UNCHANGED <<io, batch, ctl, owned, watched>>
  BY DEF OpenSocket, memberVars, ctlVars, callVars
<1>6. \A fd \in Fds : file'[fd] = IF fd = new THEN sockets + 1 ELSE file[fd]
  BY <1>1, <1>4
<1>7. file' \in [Fds -> 0 .. PipeWrite]
  BY <1>1, <1>3, <1>4, FileNumbers
<1>8. TypeOK'
  BY <1>5, <1>7 DEF IoInv, TypeOK
<1>9. Pipe'
  BY <1>2, <1>3, <1>5, <1>6, FileNumbers DEF IoInv, Pipe
<1>10. Bare' /\ Joined' /\ Batches'
  BY <1>5 DEF IoInv, Bare, Joined, Batches
<1>11. Identities'
  <2>1. \A fd \in Fds : file[fd] \in Sockets => file[fd] <= sockets /\ file[fd] \in Nat
    BY DEF IoInv, Identities, Sockets
  <2>2. \A fd \in Fds : file'[fd] \in Sockets => file'[fd] <= sockets'
    BY <1>3, <1>4, <1>6, <2>1
  <2>3. \A fd \in Fds : file[fd] \in Sockets => file[fd] # sockets + 1
    BY <1>3, <2>1
  <2>4. \A fd, fe \in Fds : file'[fd] \in Sockets /\ file'[fd] = file'[fe] => fd = fe
    BY <1>3, <1>6, <2>3 DEF IoInv, Identities
  <2>5. QED
    BY <1>3, <1>4, <2>2, <2>4 DEF Identities
<1>12. Tables'
  <2>1. \A fd \in listeners \cup DOMAIN conns : fd # new /\ fd \in Fds
    BY <1>1, <1>2, FileNumbers DEF IoInv, Tables
  <2>2. QED
    BY <1>5, <1>6, <2>1 DEF IoInv, Tables
<1>13. QED
  BY <1>8, <1>9, <1>10, <1>11, <1>12 DEF IoInv

LEMMA CloseSocketKeeps == IoInv /\ CloseSocket => IoInv'
<1> SUFFICES ASSUME IoInv, CloseSocket PROVE IoInv'
  OBVIOUS
<1>1. PICK fd \in Fds : file[fd] \in Sockets \ owned /\ CloseFiles({fd})
  BY DEF CloseSocket
<1>2. /\ UNCHANGED <<running, wakeup_fd, wakeup_read_fd, kq, listeners, conns, fd_mutex>>
      /\ UNCHANGED <<io, batch, ctl, owned, sockets>>
  BY DEF CloseSocket, memberVars, ctlVars, callVars
<1>3. /\ file' \in [Fds -> 0 .. PipeWrite] /\ watched' \subseteq watched
      /\ \A fe \in Fds : file'[fe] = IF fe \in {fd} THEN NoFile ELSE file[fe]
      /\ Identities' /\ Tables'
  BY <1>1, <1>2, CloseKeeps
<1>4. TypeOK'
  BY <1>2, <1>3 DEF IoInv, TypeOK
<1>5. Pipe'
  BY <1>1, <1>2, <1>3, FileNumbers DEF IoInv, Pipe
<1>6. Bare' /\ Joined' /\ Batches'
  BY <1>2, <1>3 DEF IoInv, Bare, Joined, Batches
<1>7. QED
  BY <1>3, <1>4, <1>5, <1>6 DEF IoInv

-------------------------------------------------------------------------------
(* start() and stop().                                                     *)
LEMMA CtlKeeps == IoInv /\ Ctl => IoInv'
<1> SUFFICES ASSUME IoInv, Ctl PROVE IoInv'
  OBVIOUS
<1>1. CASE Start
  <2>1. /\ UNCHANGED <<wakeup_fd, wakeup_read_fd, kq, listeners, conns, fd_mutex, batch>>
        /\ UNCHANGED <<owned, file, watched, sockets>>
        /\ ctl = "idle" /\ ~running /\ running' = TRUE /\ io' = "setup"
    BY <1>1 DEF Start, callVars, kernelVars
  <2>2. io = "none"
    BY <2>1 DEF IoInv, Joined
  <2>3. Pipe' /\ Bare' /\ Batches'
    BY <2>1, <2>2 DEF IoInv, Pipe, Bare, Batches, Both, WriteEnd, Outside
  <2>4. TypeOK' /\ Joined'
    BY <2>1 DEF IoInv, TypeOK, Joined
  <2>5. QED
    BY <2>1, <2>3, <2>4, SameSockets DEF IoInv
<1>2. CASE Stop \/ StopReadsWakeFd \/ StopWakes
  <2>1. /\ UNCHANGED <<wakeup_fd, wakeup_read_fd, kq, listeners, conns, fd_mutex, batch>>
        /\ UNCHANGED <<io, owned, file, watched, sockets>>
        /\ running' \in {running, FALSE} /\ ctl' # "idle"
    BY <1>2 DEF Stop, StopReadsWakeFd, StopWakes, memberVars, callVars, kernelVars
  <2>2. TypeOK' /\ Joined'
    BY <2>1 DEF IoInv, TypeOK, Joined
  <2>3. QED
    BY <2>1, <2>2, SameSockets, SameThread DEF IoInv
<1>3. CASE StopJoins
  <2>1. /\ UNCHANGED <<running, wakeup_fd, wakeup_read_fd, kq, listeners, conns, fd_mutex, batch>>
        /\ UNCHANGED <<owned, file, watched, sockets>>
        /\ io = "done" /\ io' = "none"
    BY <1>3 DEF StopJoins, memberVars, callVars, kernelVars
  <2>2. Pipe' /\ Bare' /\ Batches'
    BY <2>1 DEF IoInv, Pipe, Bare, Batches, Both, WriteEnd, Outside
  <2>3. TypeOK' /\ Joined'
    BY <2>1 DEF IoInv, TypeOK, Joined
  <2>4. QED
    BY <2>1, <2>2, <2>3, SameSockets DEF IoInv
<1>4. QED
  BY <1>1, <1>2, <1>3 DEF Ctl

-------------------------------------------------------------------------------
(* The callers.                                                            *)
LEMMA LockedFrame ==
  ASSUME NEW c \in Callers, IoInv, Locked(c),
         listeners' \subseteq Fds, DOMAIN conns' \subseteq Fds, Range(conns') \subseteq Sockets
  PROVE  /\ TypeOK' /\ Pipe' /\ Bare' /\ Joined' /\ Batches'
         /\ UNCHANGED <<file, sockets>>
<1>1. /\ UNCHANGED <<running, wakeup_fd, wakeup_read_fd, kq, io, batch, ctl>>
      /\ UNCHANGED <<file, watched, sockets>> /\ fd_mutex' = c
  BY DEF Locked, ctlVars, kernelVars
<1>2. TypeOK' /\ Joined'
  BY <1>1 DEF IoInv, TypeOK, Joined
<1>3. QED
  BY <1>1, <1>2, SameThread

LEMMA AddKeeps ==
  ASSUME NEW c \in Callers, IoInv, AddListenFd(c) \/ AddConnFd(c)
  PROVE  IoInv'
<1>1. listeners \subseteq Fds /\ DOMAIN conns \subseteq Fds /\ Range(conns) \subseteq Sockets
  BY DEF IoInv, TypeOK
<1>2. PICK fd \in Fds :
        /\ file[fd] \in Sockets /\ file[fd] \notin owned /\ owned' = owned \cup {file[fd]}
        /\ \/ listeners' = listeners \cup {fd} /\ conns' = conns
           \/ /\ conns' = [f \in DOMAIN conns \cup {fd} |-> IF f = fd THEN file[fd] ELSE conns[f]]
              /\ listeners' = listeners
  BY DEF AddListenFd, AddConnFd, Addable
<1>3. Locked(c)
  BY DEF AddListenFd, AddConnFd
<1>4. listeners' \subseteq Fds /\ DOMAIN conns' \subseteq Fds
  BY <1>1, <1>2
<1>5. /\ \A f \in listeners' : f \in listeners \/ f = fd
      /\ \A f \in DOMAIN conns' : \/ f \in DOMAIN conns /\ conns'[f] = conns[f]
                                  \/ f = fd /\ conns'[f] = file[fd]
  BY <1>2
<1>6. Range(conns') \subseteq Sockets
  BY <1>1, <1>2, <1>5 DEF Range
<1>7. TypeOK' /\ Pipe' /\ Bare' /\ Joined' /\ Batches' /\ UNCHANGED <<file, sockets>>
  BY <1>3, <1>4, <1>6, LockedFrame
<1>8. Identities'
  BY <1>7 DEF IoInv, Identities
<1>9. Tables'
  BY <1>2, <1>5, <1>7 DEF IoInv, Tables
<1>10. QED
  BY <1>7, <1>8, <1>9 DEF IoInv

LEMMA RemoveFdKeeps ==
  ASSUME NEW c \in Callers, IoInv, RemoveFd(c)
  PROVE  IoInv'
<1>1. listeners \subseteq Fds /\ DOMAIN conns \subseteq Fds /\ Range(conns) \subseteq Sockets
  BY DEF IoInv, TypeOK
<1>2. PICK fd \in Fds :
        /\ file[fd] \in owned
        /\ listeners' = listeners \ {fd}
        /\ conns' = Restrict(conns, DOMAIN conns \ {fd})
        /\ owned' = owned \ {file[fd]}
  BY DEF RemoveFd
<1>3. Locked(c)
  BY DEF RemoveFd
<1>4. /\ DOMAIN conns' = DOMAIN conns \ {fd}
      /\ \A f \in DOMAIN conns' : conns'[f] = conns[f]
  BY <1>2 DEF Restrict
<1>5. Range(conns') \subseteq Sockets
  BY <1>1, <1>4 DEF Range
<1>6. listeners' \subseteq Fds /\ DOMAIN conns' \subseteq Fds
  BY <1>1, <1>2, <1>4
<1>7. TypeOK' /\ Pipe' /\ Bare' /\ Joined' /\ Batches' /\ UNCHANGED <<file, sockets>>
  BY <1>3, <1>5, <1>6, LockedFrame
<1>8. Identities'
  BY <1>7 DEF IoInv, Identities
<1>9. Tables'
  <2>1. \A f \in Fds : file[f] \in owned /\ f # fd => file[f] \in owned \ {file[fd]}
    BY <1>2 DEF IoInv, Identities, Tables
  <2>2. QED
    BY <1>1, <1>2, <1>4, <1>7, <2>1 DEF IoInv, Tables
<1>10. QED
  BY <1>7, <1>8, <1>9 DEF IoInv

LEMMA CallerWakesKeeps ==
  ASSUME NEW c \in Callers, IoInv, CallerWakes(c)
  PROVE  IoInv'
<1>1. /\ UNCHANGED <<running, wakeup_fd, wakeup_read_fd, kq, listeners, conns, io, batch, ctl>>
      /\ UNCHANGED <<owned, file, watched, sockets>> /\ fd_mutex' = NoOne
  BY DEF CallerWakes, ctlVars
<1>2. TypeOK' /\ Joined'
  BY <1>1 DEF IoInv, TypeOK, Joined
<1>3. QED
  BY <1>1, <1>2, SameSockets, SameThread DEF IoInv

-------------------------------------------------------------------------------
(* The thread itself.  Its steps leave the tables, the mutex and the other *)
(* threads alone.                                                          *)
LEMMA IoFrame ==
  ASSUME IoInv, IoUnchanged, io # "none",
         kq' \in BOOLEAN, {wakeup_fd', wakeup_read_fd'} \subseteq Fds \cup {NoFd},
         io' \in {"pipe", "watch", "failed", "degraded", "top", "register",
                  "wait", "handle", "closeRead", "closeWrite", "clearWrite", "done"},
         Len(batch') <= MaxBatch, file' \in [Fds -> 0 .. PipeWrite],
         watched' \subseteq Fds \X {"read", "write"}
  PROVE  /\ TypeOK' /\ Joined'
         /\ UNCHANGED <<listeners, conns, owned, sockets>>
<1>1. UNCHANGED <<running, listeners, conns, fd_mutex, ctl, owned, sockets>>
  BY DEF IoUnchanged, ctlVars, callVars
<1>2. TypeOK'
  BY <1>1 DEF IoInv, TypeOK
<1>3. Joined'
  BY <1>1 DEF IoInv, Joined
<1>4. QED
  BY <1>1, <1>2, <1>3

LEMMA IoTypes ==
  ASSUME IoInv
  PROVE  /\ kq \in BOOLEAN /\ {wakeup_fd, wakeup_read_fd} \subseteq Fds \cup {NoFd}
         /\ Len(batch) <= MaxBatch /\ file \in [Fds -> 0 .. PipeWrite]
         /\ watched \subseteq Fds \X {"read", "write"}
         /\ batch \in Seq(Fds \X {"read", "write"})
  BY DEF IoInv, TypeOK, Batches

LEMMA SetupKqKeeps == IoInv /\ SetupKq => IoInv'
<1> SUFFICES ASSUME IoInv, SetupKq PROVE IoInv'
  OBVIOUS
<1>1. /\ UNCHANGED <<wakeup_fd, wakeup_read_fd, batch, file, watched>> /\ IoUnchanged
      /\ io = "setup" /\ kq' \in BOOLEAN /\ io' \in {"pipe", "degraded"}
      /\ io' = "degraded" => kq' = kq
  BY IoTypes, Zenon DEF SetupKq
<1>2. TypeOK' /\ Joined' /\ UNCHANGED <<listeners, conns, owned, sockets>>
  BY <1>1, IoTypes, IoFrame
<1>3. Pipe' /\ Bare' /\ Batches'
  BY <1>1 DEF IoInv, Pipe, Bare, Batches, Both, WriteEnd, Outside
<1>4. QED
  BY <1>1, <1>2, <1>3, SameSockets DEF IoInv

(* pipe() takes the two lowest free numbers, which are in no table.        *)
LEMMA SetupPipeKeeps == IoInv /\ SetupPipe => IoInv'
<1> SUFFICES ASSUME IoInv, SetupPipe PROVE IoInv'
  OBVIOUS
<1>1. io = "pipe" /\ UNCHANGED <<batch, watched>> /\ IoUnchanged
  BY DEF SetupPipe
<1>2. CASE /\ kq' = FALSE /\ io' = "degraded"
           /\ UNCHANGED <<file, wakeup_fd, wakeup_read_fd, signalled>>
  <2>1. kq' \in BOOLEAN
    BY <1>2, Zenon
  <2>2. TypeOK' /\ Joined' /\ UNCHANGED <<listeners, conns, owned, sockets>>
    BY <1>1, <1>2, <2>1, IoTypes, IoFrame
  <2>3. Pipe' /\ Bare' /\ Batches'
    BY <1>1, <1>2 DEF IoInv, Pipe, Bare, Batches, Both, WriteEnd, Outside
  <2>4. QED
    BY <1>2, <2>2, <2>3, SameSockets DEF IoInv
<1>3. CASE /\ Cardinality(FreeFds) > 1
           /\ wakeup_read_fd' = Min(FreeFds)
           /\ wakeup_fd' = Min(FreeFds \ {wakeup_read_fd'})
           /\ file' = [file EXCEPT ![wakeup_read_fd'] = PipeRead, ![wakeup_fd'] = PipeWrite]
           /\ signalled' = FALSE
           /\ io' = "watch"
           /\ UNCHANGED kq
  <2>1. FreeFds # {} /\ \A r : FreeFds # {r}
    BY <1>3, FreeFdsFinite, FS_EmptySet, FS_Singleton
  <2>2. PICK r \in Fds : r = wakeup_read_fd' /\ r \in FreeFds
    BY <1>3, <2>1, FreeFdsFinite, LowestIsMember
  <2>3. FreeFds \ {r} \in SUBSET Nat /\ FreeFds \ {r} # {}
    BY <2>1, <2>2, FreeFdsFinite
  <2>4. PICK w \in Fds : w = wakeup_fd' /\ w \in FreeFds /\ w # r
    <3>1. Min(FreeFds \ {r}) \in FreeFds \ {r}
      BY <2>3, LowestIsMember
    <3>2. wakeup_fd' = Min(FreeFds \ {r})
      BY <1>3, <2>2
    <3>3. QED
      BY <3>1, <3>2, FreeFdsFinite
  <2>5. file[r] = NoFile /\ file[w] = NoFile
    BY <2>2, <2>4 DEF FreeFds
  <2>6. file' = [file EXCEPT ![r] = PipeRead, ![w] = PipeWrite]
    BY <1>3, <2>2, <2>4
  <2>7. \A fd \in Fds : file'[fd] = IF fd = w THEN PipeWrite ELSE IF fd = r THEN PipeRead
                                    ELSE file[fd]
    BY <2>6, IoTypes
  <2>8. file' \in [Fds -> 0 .. PipeWrite]
    BY <2>6, IoTypes, FileNumbers
  <2>9. TypeOK' /\ Joined' /\ UNCHANGED <<listeners, conns, owned, sockets>>
    BY <1>1, <1>3, <2>2, <2>4, <2>8, IoTypes, IoFrame
  <2>10. Pipe'
    <3>1. \A fd \in Fds : file[fd] # PipeRead /\ file[fd] # PipeWrite
      BY <1>1 DEF IoInv, Pipe, Both, WriteEnd
    <3>2. file'[r] = PipeRead /\ file'[w] = PipeWrite /\ PipeRead # PipeWrite
      BY <2>4, <2>7, FileNumbers
    <3>3. \A fd \in Fds : /\ file'[fd] = PipeRead => fd = r
                          /\ file'[fd] = PipeWrite => fd = w
      BY <2>7, <3>1, <3>2
    <3>4. io' = "watch" /\ wakeup_read_fd' = r /\ wakeup_fd' = w
      BY <1>3, <2>2, <2>4
    <3>5. QED
      BY <3>2, <3>3, <3>4 DEF Pipe, Both, WriteEnd
  <2>11. Bare' /\ Batches'
    BY <1>1, <1>3 DEF IoInv, Bare, Batches, Outside
  <2>12. Identities'
    BY <2>7, <2>9, FileNumbers DEF IoInv, Identities
  <2>13. Tables'
    <3>1. \A fd \in listeners \cup DOMAIN conns : fd \in Fds /\ fd # r /\ fd # w
      BY <2>5, FileNumbers DEF IoInv, Tables, TypeOK
    <3>2. QED
      BY <2>7, <2>9, <3>1 DEF IoInv, Tables
  <2>14. QED
    BY <2>9, <2>10, <2>11, <2>12, <2>13 DEF IoInv
<1>4. QED
  BY <1>2, <1>3 DEF SetupPipe

LEMMA SetupWatchKeeps == IoInv /\ SetupWatch => IoInv'
<1> SUFFICES ASSUME IoInv, SetupWatch PROVE IoInv'
  OBVIOUS
<1>1. /\ UNCHANGED <<wakeup_fd, wakeup_read_fd, kq, batch, file>> /\ IoUnchanged
      /\ io = "watch" /\ io' = "top"
      /\ watched' = watched \cup {<<wakeup_read_fd, "read">>}
  BY DEF SetupWatch
<1>2. wakeup_read_fd \in Fds
  BY <1>1 DEF IoInv, Pipe, Both
<1>3. watched' \subseteq Fds \X {"read", "write"}
  BY <1>1, <1>2, IoTypes
<1>4. TypeOK' /\ Joined' /\ UNCHANGED <<listeners, conns, owned, sockets>>
  BY <1>1, <1>3, IoTypes, IoFrame
<1>5. Pipe' /\ Bare' /\ Batches'
  BY <1>1 DEF IoInv, Pipe, Bare, Batches, Both, WriteEnd, Outside
<1>6. QED
  BY <1>1, <1>4, <1>5, SameSockets DEF IoInv

(* The pipe's ends are no sockets, so no table has them.                   *)
LEMMA PipeIsNotOwned ==
  ASSUME IoInv
  PROVE  /\ io \in Both => wakeup_read_fd \in Fds /\ file[wakeup_read_fd] \notin owned
         /\ io \in WriteEnd => wakeup_fd \in Fds /\ file[wakeup_fd] \notin owned
  BY FileNumbers DEF IoInv, Pipe, Tables

LEMMA WatchFailsKeeps == IoInv /\ (WatchFails \/ WatchFailed) => IoInv'
<1> SUFFICES ASSUME IoInv, WatchFails \/ WatchFailed PROVE IoInv'
  OBVIOUS
<1>1. CASE WatchFails
  <2>1. /\ UNCHANGED <<wakeup_fd, wakeup_read_fd, kq, batch>> /\ IoUnchanged
        /\ io = "watch" /\ io' = "failed" /\ CloseFiles({wakeup_read_fd, wakeup_fd})
    BY <1>1 DEF WatchFails
  <2>2. UNCHANGED <<listeners, conns, owned, sockets>>
    BY <2>1 DEF IoUnchanged, callVars
  <2>3. PICK r \in Fds, w \in Fds :
          r = wakeup_read_fd /\ w = wakeup_fd /\ file[r] \notin owned /\ file[w] \notin owned
    BY <2>1, PipeIsNotOwned DEF Both, WriteEnd
  <2>4. /\ file' \in [Fds -> 0 .. PipeWrite] /\ watched' \subseteq watched
        /\ \A fd \in Fds : file'[fd] = IF fd \in {r, w} THEN NoFile ELSE file[fd]
        /\ Identities' /\ Tables'
    BY <2>1, <2>2, <2>3, CloseKeeps
  <2>5. TypeOK' /\ Joined'
    BY <2>1, <2>4, IoTypes, IoFrame
  <2>6. Pipe'
    BY <2>1, <2>3, <2>4, FileNumbers DEF IoInv, Pipe, Both, WriteEnd
  <2>7. Bare' /\ Batches'
    BY <2>1 DEF IoInv, Bare, Batches, Outside
  <2>8. QED
    BY <2>4, <2>5, <2>6, <2>7 DEF IoInv
<1>2. CASE WatchFailed
  <2>1. /\ UNCHANGED <<batch, file>> /\ IoUnchanged /\ io = "failed" /\ io' = "degraded"
        /\ wakeup_read_fd' = NoFd /\ wakeup_fd' = NoFd /\ kq' = FALSE /\ watched' = {}
    BY <1>2 DEF WatchFailed
  <2>2. kq' \in BOOLEAN
    BY <2>1, Zenon
  <2>3. TypeOK' /\ Joined' /\ UNCHANGED <<listeners, conns, owned, sockets>>
    BY <2>1, <2>2, IoTypes, IoFrame
  <2>4. Pipe' /\ Bare' /\ Batches'
    BY <2>1 DEF IoInv, Pipe, Bare, Batches, Both, WriteEnd, Outside
  <2>5. QED
    BY <2>1, <2>3, <2>4, SameSockets DEF IoInv
<1>3. QED
  BY <1>1, <1>2

(* Steps between two waits that neither close nor fetch anything.          *)
LEMMA PassKeeps ==
  IoInv /\ (SleepUntilStopped \/ LoopTop \/ Register \/ WaitEnds) => IoInv'
<1> SUFFICES ASSUME IoInv, SleepUntilStopped \/ LoopTop \/ Register \/ WaitEnds PROVE IoInv'
  OBVIOUS
<1>1. /\ UNCHANGED <<wakeup_fd, wakeup_read_fd, kq, batch, file>> /\ IoUnchanged
      /\ \/ io = "degraded" /\ io' = "done" /\ watched' = watched
         \/ io = "top" /\ io' \in {"register", "closeRead"} /\ watched' = watched
         \/ io = "register" /\ io' = "wait"
         \/ io = "wait" /\ io' = "top" /\ watched' = watched
  BY DEF SleepUntilStopped, LoopTop, Register, WaitEnds
<1>2. watched' \subseteq Fds \X {"read", "write"}
  <2>1. CASE Register
    <3>1. listeners \subseteq Fds /\ DOMAIN conns \subseteq Fds
      BY DEF IoInv, TypeOK
    <3>2. QED
      BY <2>1, <3>1, IoTypes DEF Register
  <2>2. CASE watched' = watched
    BY <2>2, IoTypes
  <2>3. QED
    BY <2>1, <2>2 DEF SleepUntilStopped, LoopTop, Register, WaitEnds
<1>3. TypeOK' /\ Joined' /\ UNCHANGED <<listeners, conns, owned, sockets>>
  BY <1>1, <1>2, IoTypes, IoFrame
<1>4. Pipe' /\ Bare' /\ Batches'
  BY <1>1 DEF IoInv, Pipe, Bare, Batches, Both, WriteEnd, Outside
<1>5. QED
  BY <1>1, <1>3, <1>4, SameSockets DEF IoInv

LEMMA WaitReportsKeeps == IoInv /\ WaitReports => IoInv'
<1> SUFFICES ASSUME IoInv, WaitReports PROVE IoInv'
  OBVIOUS
<1>1. /\ UNCHANGED <<wakeup_fd, wakeup_read_fd, kq, file, watched>> /\ IoUnchanged
      /\ io = "wait" /\ io' = "handle"
  BY DEF WaitReports
<1>2. PICK k \in 1 .. MaxBatch : batch' \in [1 .. k -> Reports]
  BY DEF WaitReports
<1>3. k \in Nat /\ k > 0 /\ k <= MaxBatch
  BY IoAssumption
<1>4. Reports \subseteq Fds \X {"read", "write"}
  BY IoTypes DEF Reports
<1>5. PICK events \in [1 .. k -> Fds \X {"read", "write"}] : events = batch'
  BY <1>2, <1>4
<1>6. events \in Seq(Fds \X {"read", "write"}) /\ Len(events) = k
  BY <1>3
<1>7. events # <<>>
  BY <1>3, <1>6
<1>8. TypeOK' /\ Joined' /\ UNCHANGED <<listeners, conns, owned, sockets>>
  BY <1>1, <1>3, <1>5, <1>6, IoTypes, IoFrame
<1>9. Pipe' /\ Bare'
  BY <1>1 DEF IoInv, Pipe, Bare, Both, WriteEnd, Outside
<1>10. Batches'
  BY <1>1, <1>5, <1>6, <1>7 DEF Batches
<1>11. QED
  BY <1>1, <1>8, <1>9, <1>10, SameSockets DEF IoInv

LEMMA HandleKeeps == IoInv /\ (DrainPipe \/ HandleEvent) => IoInv'
<1> SUFFICES ASSUME IoInv, DrainPipe \/ HandleEvent PROVE IoInv'
  OBVIOUS
<1>1. /\ UNCHANGED <<wakeup_fd, wakeup_read_fd, kq, file, watched>> /\ IoUnchanged
      /\ io = "handle" /\ AfterEvent
  BY DEF DrainPipe, HandleEvent
<1>2. batch \in Seq(Fds \X {"read", "write"}) /\ batch # <<>>
  BY <1>1 DEF IoInv, Batches
<1>3. /\ batch' \in Seq(Fds \X {"read", "write"}) /\ Len(batch') = Len(batch) - 1
      /\ Len(batch) \in Nat /\ Len(batch) > 0
  BY <1>1, <1>2 DEF AfterEvent
<1>4. io' = IF Len(batch) = 1 THEN "top" ELSE "handle"
  BY <1>1 DEF AfterEvent
<1>5. io' = "top" => batch' = <<>>
  BY <1>3, <1>4, SMTT(40)
<1>6. io' = "handle" => batch' # <<>>
  BY <1>3, <1>4
<1>7. Len(batch') <= MaxBatch
  BY <1>3, IoTypes, IoAssumption
<1>8. TypeOK' /\ Joined' /\ UNCHANGED <<listeners, conns, owned, sockets>>
  BY <1>1, <1>4, <1>7, IoTypes, IoFrame
<1>9. Pipe' /\ Bare'
  BY <1>1, <1>4 DEF IoInv, Pipe, Bare, Both, WriteEnd, Outside
<1>10. Batches'
  BY <1>3, <1>4, <1>5, <1>6 DEF Batches
<1>11. QED
  BY <1>1, <1>8, <1>9, <1>10, SameSockets DEF IoInv

LEMMA CleanupKeeps == IoInv /\ Cleanup => IoInv'
<1> SUFFICES ASSUME IoInv, Cleanup PROVE IoInv'
  OBVIOUS
<1>1. CASE CloseRead
  <2>1. /\ UNCHANGED <<wakeup_fd, kq, batch>> /\ IoUnchanged
        /\ io = "closeRead" /\ io' = "closeWrite"
        /\ CloseFiles({wakeup_read_fd}) /\ wakeup_read_fd' = NoFd
    BY <1>1 DEF CloseRead
  <2>2. UNCHANGED <<listeners, conns, owned, sockets>>
    BY <2>1 DEF IoUnchanged, callVars
  <2>3. PICK r \in Fds : r = wakeup_read_fd /\ file[r] \notin owned
    BY <2>1, PipeIsNotOwned DEF Both
  <2>4. /\ file' \in [Fds -> 0 .. PipeWrite] /\ watched' \subseteq watched
        /\ \A fd \in Fds : file'[fd] = IF fd \in {r} THEN NoFile ELSE file[fd]
        /\ Identities' /\ Tables'
    BY <2>1, <2>2, <2>3, CloseKeeps
  <2>5. TypeOK' /\ Joined'
    BY <2>1, <2>4, IoTypes, IoFrame
  <2>6. Pipe'
    BY <2>1, <2>3, <2>4, FileNumbers DEF IoInv, Pipe, Both, WriteEnd
  <2>7. Bare' /\ Batches'
    BY <2>1 DEF IoInv, Bare, Batches, Outside
  <2>8. QED
    BY <2>4, <2>5, <2>6, <2>7 DEF IoInv
<1>2. CASE CloseWrite
  <2>1. /\ UNCHANGED <<wakeup_fd, wakeup_read_fd, kq, batch>> /\ IoUnchanged
        /\ io = "closeWrite" /\ io' = "clearWrite" /\ CloseFiles({wakeup_fd})
    BY <1>2 DEF CloseWrite
  <2>2. UNCHANGED <<listeners, conns, owned, sockets>>
    BY <2>1 DEF IoUnchanged, callVars
  <2>3. PICK w \in Fds : w = wakeup_fd /\ file[w] \notin owned
    BY <2>1, PipeIsNotOwned DEF WriteEnd
  <2>4. /\ file' \in [Fds -> 0 .. PipeWrite] /\ watched' \subseteq watched
        /\ \A fd \in Fds : file'[fd] = IF fd \in {w} THEN NoFile ELSE file[fd]
        /\ Identities' /\ Tables'
    BY <2>1, <2>2, <2>3, CloseKeeps
  <2>5. TypeOK' /\ Joined'
    BY <2>1, <2>4, IoTypes, IoFrame
  <2>6. Pipe'
    BY <2>1, <2>3, <2>4, FileNumbers DEF IoInv, Pipe, Both, WriteEnd
  <2>7. Bare' /\ Batches'
    BY <2>1 DEF IoInv, Bare, Batches, Outside
  <2>8. QED
    BY <2>4, <2>5, <2>6, <2>7 DEF IoInv
<1>3. CASE CloseKq
  <2>1. /\ UNCHANGED <<wakeup_read_fd, batch, file>> /\ IoUnchanged
        /\ io = "clearWrite" /\ io' = "done"
        /\ wakeup_fd' = NoFd /\ kq' = FALSE /\ watched' = {}
    BY <1>3 DEF CloseKq
  <2>2. kq' \in BOOLEAN
    BY <2>1, Zenon
  <2>3. TypeOK' /\ Joined' /\ UNCHANGED <<listeners, conns, owned, sockets>>
    BY <2>1, <2>2, IoTypes, IoFrame
  <2>4. Pipe' /\ Bare' /\ Batches'
    BY <2>1 DEF IoInv, Pipe, Bare, Batches, Both, WriteEnd, Outside
  <2>5. QED
    BY <2>1, <2>3, <2>4, SameSockets DEF IoInv
<1>4. QED
  BY <1>1, <1>2, <1>3 DEF Cleanup

LEMMA IoStep == IoInv /\ [Next]_vars => IoInv'
<1> SUFFICES ASSUME IoInv, [Next]_vars PROVE IoInv'
  OBVIOUS
<1>1. CASE Kernel
  BY <1>1, OpenSocketKeeps, CloseSocketKeeps DEF Kernel
<1>2. CASE Ctl
  BY <1>2, CtlKeeps
<1>3. CASE Io
  BY <1>3, SetupKqKeeps, SetupPipeKeeps, SetupWatchKeeps, WatchFailsKeeps, PassKeeps,
     WaitReportsKeeps, HandleKeeps, CleanupKeeps DEF Io, Setup, Loop
<1>4. CASE \E c \in Callers : Caller(c)
  BY <1>4, AddKeeps, RemoveFdKeeps, CallerWakesKeeps DEF Caller
<1>5. CASE UNCHANGED vars
  <2>1. /\ UNCHANGED <<running, wakeup_fd, wakeup_read_fd, kq, listeners, conns, fd_mutex>>
        /\ UNCHANGED <<io, batch, ctl, owned, file, watched, sockets>>
    BY <1>5 DEF vars, memberVars, ctlVars, callVars, kernelVars
  <2>2. TypeOK' /\ Joined'
    BY <2>1 DEF IoInv, TypeOK, Joined
  <2>3. QED
    BY <2>1, <2>2, SameSockets, SameThread DEF IoInv
<1>6. QED
  BY <1>1, <1>2, <1>3, <1>4, <1>5 DEF Next

-------------------------------------------------------------------------------
(* The invariant of the I/O thread, its tables and its kernel objects, for *)
(* every interleaving of start(), stop(), callers and the thread.          *)
THEOREM IoInvariant == Spec => []IoInv
  BY IoInit, IoStep, PTL DEF Spec

(* Members, tables and filters have their types: no number that is not a   *)
(* descriptor is stored, watched or handled.                               *)
THEOREM IoTypeCorrect == Spec => []TypeOK
<1>1. IoInv => TypeOK
  BY DEF IoInv
<1>2. QED
  BY <1>1, IoInvariant, PTL

(* event_loop_mac() gives back both pipe ends and the kqueue on every way  *)
(* out and after every failure of its setup, in every life of the thread.  *)
THEOREM IoDescriptorsReturned == Spec => []DescriptorsReturned
<1>1. ASSUME IoInv, io \in {"done", "none", "degraded"}
      PROVE  /\ \A fd \in Fds : file[fd] \in Sockets \cup {NoFile}
             /\ ~kq /\ watched = {}
             /\ wakeup_fd = NoFd /\ wakeup_read_fd = NoFd
  <2>1. \A fd \in Fds : file[fd] \in Sockets \cup {NoFile}
    <3> SUFFICES ASSUME NEW fd \in Fds PROVE file[fd] \in Sockets \cup {NoFile}
      OBVIOUS
    <3>1. file[fd] \in 0 .. PipeWrite
      BY <1>1, IoTypes
    <3>2. file[fd] # PipeRead /\ file[fd] # PipeWrite
      BY <1>1 DEF IoInv, Pipe, Both, WriteEnd
    <3>3. QED
      BY <3>1, <3>2, FileNumbers DEF Sockets, NoFile
  <2>2. QED
    BY <1>1, <2>1 DEF IoInv, Bare, Outside
<1>2. IoInv => DescriptorsReturned
  BY <1>1 DEF DescriptorsReturned
<1>3. QED
  BY <1>2, IoInvariant, PTL

(* An event that is pushed names an entry of the tables.                   *)
LEMMA EventNamesEntry ==
  ASSUME NEW fd, NEW filter, NEW flags \in {"error", "eof", "none"},
         NEW e, e = EventFor(fd, filter, flags), e # NoEvent
  PROVE  /\ e.fd = fd
         /\ \/ e.type = "ACCEPT" /\ fd \in listeners
            \/ fd \in DOMAIN conns /\ e.conn = conns[fd]
  BY DEF EventFor, Pushed

(* What handling a kernel event pushes names a socket that is in the       *)
(* tables and open under that number at that moment: nothing is pushed for *)
(* a socket after remove_fd(), though its filters stay registered and an   *)
(* event for its number may have been fetched before.                      *)
THEOREM IoNoEventAfterRemove == Spec => NoEventAfterRemove
<1>1. ASSUME IoInv, [Next]_vars, Len(batch') < Len(batch), posted' # NoEvent
      PROVE  /\ file[posted'.fd] \in owned
             /\ posted'.type # "ACCEPT" => posted'.conn = file[posted'.fd]
  <2>1. CASE HandleEvent
    <3>1. PICK flags \in {"error", "eof", "none"} :
            posted' = EventFor(Head(batch)[1], Head(batch)[2], flags)
      BY <2>1 DEF HandleEvent
    <3>2. PICK fd : fd = Head(batch)[1]
      OBVIOUS
    <3>3. /\ posted'.fd = fd
          /\ \/ posted'.type = "ACCEPT" /\ fd \in listeners
             \/ fd \in DOMAIN conns /\ posted'.conn = conns[fd]
      BY <1>1, <3>1, <3>2, EventNamesEntry
    <3>4. QED
      BY <1>1, <3>3 DEF IoInv, Tables
  <2>2. CASE DrainPipe
    BY <1>1, <2>2 DEF DrainPipe
  <2>3. CASE WaitReports
    <3>1. batch = <<>>
      BY <1>1, <2>3 DEF WaitReports, IoInv, Batches
    <3>2. batch' \in Seq(Fds \X {"read", "write"})
      BY <1>1, IoStep DEF IoInv, Batches
    <3>3. Len(batch') \in Nat /\ Len(batch) = 0
      BY <3>1, <3>2, LenProperties
    <3>4. QED
      BY <1>1, <3>3
  <2>4. CASE UNCHANGED batch
    <3>1. Len(batch) \in Nat
      BY <1>1, IoTypes, LenProperties
    <3>2. QED
      BY <1>1, <2>4, <3>1
  <2>5. HandleEvent \/ DrainPipe \/ WaitReports \/ UNCHANGED batch
    <3>1. CASE Kernel \/ Ctl
      BY <3>1 DEF Kernel, Ctl, OpenSocket, CloseSocket, Start, Stop, StopReadsWakeFd,
                  StopWakes, StopJoins
    <3>2. CASE Setup \/ Cleanup
      BY <3>2 DEF Setup, Cleanup, SetupKq, SetupPipe, SetupWatch, WatchFails, WatchFailed,
                  SleepUntilStopped, CloseRead, CloseWrite, CloseKq
    <3>3. CASE Loop
      BY <3>3 DEF Loop, LoopTop, Register, WaitEnds
    <3>4. CASE \E c \in Callers : Caller(c)
      BY <3>4 DEF Caller, AddListenFd, AddConnFd, RemoveFd, CallerWakes, Locked
    <3>5. CASE UNCHANGED vars
      BY <3>5 DEF vars
    <3>6. QED
      BY <1>1, <3>1, <3>2, <3>3, <3>4, <3>5 DEF Next, Io
  <2>6. QED
    BY <2>1, <2>2, <2>3, <2>4, <2>5
<1>2. QED
  BY <1>1, IoInvariant, PTL DEF Spec, NoEventAfterRemove

===============================================================================
