-------------------------------- MODULE Buffer --------------------------------
(***************************************************************************)
(* The byte buffer behind every connection and TLS pump (utils/buffer.hpp, *)
(* utils/source/buffer.cpp): a vector with a read and a write index, which *)
(* compacts and grows when a write does not fit.                           *)
(*                                                                         *)
(* Bytes are numbered in the order in which writers hand them over, so the *)
(* buffer as a stream promises that readers see 1, 2, 3, ...  mem is the   *)
(* memory below write_idx_, including what was read already and unskip()   *)
(* can bring back; what lies above write_idx_ is never read.  A buffer has *)
(* one user at a time, so every call is one step.                          *)
(***************************************************************************)
EXTENDS Naturals, Sequences, FiniteSetsExt

CONSTANTS MIN_CAPACITY, MAX_CAPACITY, DEFAULT_INITIAL_CAPACITY,
          GROWTH_THRESHOLD_DOUBLE, GROWTH_THRESHOLD_15X, GROWTH_LINEAR_INCREMENT,
          MaxLen,        \* bound: the longest length passed to a call
          MaxBytes,      \* bound: bytes written in a behaviour
          RespectLimit   \* writers never let the buffer pass MAX_CAPACITY

ASSUME BufferAssumption ==
  /\ {MIN_CAPACITY, MAX_CAPACITY, DEFAULT_INITIAL_CAPACITY, GROWTH_LINEAR_INCREMENT}
       \subseteq Nat \ {0}
  /\ MIN_CAPACITY <= MAX_CAPACITY /\ DEFAULT_INITIAL_CAPACITY <= MAX_CAPACITY
  /\ {GROWTH_THRESHOLD_DOUBLE, GROWTH_THRESHOLD_15X, MaxLen, MaxBytes} \subseteq Nat
  /\ RespectLimit \in BOOLEAN

VARIABLES
  buf,       \* cap: data_.size(), mem: the bytes below write_idx_, r: read_idx_
  written,   \* history: bytes the buffer has accepted
  read       \* history: the number of the last byte the user has consumed

bufferVars == <<buf, written, read>>

Lengths == 1..MaxLen

BufferInit ==
  /\ \E initial_capacity \in 0..(MAX_CAPACITY + 1) :
       buf = [cap |-> Min({Max({initial_capacity, MIN_CAPACITY}), MAX_CAPACITY}),
              mem |-> <<>>, r |-> 0]
  /\ written = 0
  /\ read = 0

readable_bytes(b) == Len(b.mem) - b.r
writable_bytes(b) == b.cap - Len(b.mem)

-------------------------------------------------------------------------------
(* Making room.                                                            *)

compact(b) == [b EXCEPT !.mem = SubSeq(@, b.r + 1, Len(@)), !.r = 0]

\* What is required is taken for granted once the size has doubled.
GrowthUnchecked(cap, required) ==
  Min({MAX_CAPACITY, IF cap < GROWTH_THRESHOLD_DOUBLE THEN cap * 2
                     ELSE IF cap < GROWTH_THRESHOLD_15X THEN cap + cap \div 2
                     ELSE cap + GROWTH_LINEAR_INCREMENT})

calculate_growth(cap, required) ==
  LET stepped == IF cap < GROWTH_THRESHOLD_DOUBLE THEN cap * 2
                 ELSE IF cap < GROWTH_THRESHOLD_15X THEN cap + cap \div 2
                 ELSE cap + GROWTH_LINEAR_INCREMENT
  IN Min({Max({stepped, required}), MAX_CAPACITY})

\* ensure_writable(len) when resize() finds the memory it asks for.
ensure_writable(b, len) ==
  IF writable_bytes(b) >= len THEN b
  ELSE IF writable_bytes(compact(b)) >= len THEN compact(b)
  ELSE [compact(b) EXCEPT !.cap = calculate_growth(@, readable_bytes(b) + len)]

\* Whether ensure_writable(len) allocates, and so may fail.
Grows(b, len) == writable_bytes(compact(b)) < len

\* commit(len) after the bytes were put behind write_idx_.
commit(b, len) ==
  LET n == Min({len, writable_bytes(b)})
  IN [b EXCEPT !.mem = @ \o [i \in 1..n |-> written + i]]

Acceptable(len) ==
  /\ written + len <= MaxBytes
  /\ RespectLimit => readable_bytes(buf) + len <= MAX_CAPACITY

-------------------------------------------------------------------------------
(* The calls.                                                              *)

\* write(), and every typed write, which is a write() of 1, 2, 4 or 8 bytes.
Write(len) ==
  /\ Acceptable(len)
  /\ buf' = commit(ensure_writable(buf, len), len)
  /\ written' = written + len
  /\ UNCHANGED read

\* reserve(len), bytes put there by recv() or BIO_read(), commit(used).
ReserveCommit(len, used) ==
  /\ Acceptable(len)
  /\ buf' = commit(ensure_writable(buf, len), used)
  /\ written' = written + used
  /\ UNCHANGED read

\* write() or reserve() whose allocation fails: 0 or nullptr is returned.
GrowFails(len) ==
  /\ Acceptable(len) /\ Grows(buf, len)
  /\ buf' = compact(buf)
  /\ UNCHANGED <<written, read>>

\* read() and the typed reads, which take what there is, and skip(len).
Read(len) ==
  LET n == Min({len, readable_bytes(buf)})
  IN /\ n > 0
     /\ buf' = [buf EXCEPT !.r = @ + n]
     /\ read' = read + n
     /\ UNCHANGED written

\* The unsigned index is lowered unchecked, and wraps around.
UnskipUnchecked(len) ==
  /\ buf.r > 0
  /\ buf' = [buf EXCEPT !.r = IF len <= @ THEN @ - len ELSE MAX_CAPACITY + MaxLen + @ - len]
  /\ read' = read - Min({len, buf.r})
  /\ UNCHANGED written

\* What compact() has discarded cannot be brought back, and is not.
Unskip(len) ==
  /\ buf.r > 0
  /\ buf' = [buf EXCEPT !.r = IF len <= @ THEN @ - len ELSE 0]
  /\ read' = read - Min({len, buf.r})
  /\ UNCHANGED written

EnsureWritable(len) ==
  /\ RespectLimit => readable_bytes(buf) + len <= MAX_CAPACITY
  /\ buf' = ensure_writable(buf, len)
  /\ UNCHANGED <<written, read>>

ReserveCapacity(new_capacity) ==
  /\ new_capacity > buf.cap /\ new_capacity <= MAX_CAPACITY
  /\ buf' = [buf EXCEPT !.cap = new_capacity]
  /\ UNCHANGED <<written, read>>

Compact ==
  /\ buf.r > 0
  /\ buf' = compact(buf)
  /\ UNCHANGED <<written, read>>

Cleared(cap) == [cap |-> cap, mem |-> <<>>, r |-> 0]

ShrinkToFit ==
  /\ buf' = IF readable_bytes(buf) = 0 THEN Cleared(DEFAULT_INITIAL_CAPACITY)
            ELSE [compact(buf) EXCEPT !.cap = readable_bytes(buf)]
  /\ UNCHANGED <<written, read>>

\* clear() and reset() give up what was not read.
Clear ==
  /\ buf' = Cleared(buf.cap)
  /\ read' = written
  /\ UNCHANGED written

Reset ==
  /\ buf' = Cleared(DEFAULT_INITIAL_CAPACITY)
  /\ read' = written
  /\ UNCHANGED written

\* The buffer is the source of a move, whose target goes on with the bytes;
\* the vector is left empty and may be written to again.
MoveFrom ==
  /\ buf' = Cleared(0)
  /\ read' = written
  /\ UNCHANGED written

BufferNext ==
  \/ \E len \in Lengths :
       \/ Write(len)
       \/ \E used \in 1..len : ReserveCommit(len, used)
       \/ GrowFails(len)
       \/ Read(len)
       \/ Unskip(len)
       \/ EnsureWritable(len)
  \/ \E new_capacity \in 1..MAX_CAPACITY : ReserveCapacity(new_capacity)
  \/ Compact
  \/ ShrinkToFit
  \/ Clear
  \/ Reset
  \/ MoveFrom

BufferSpec == BufferInit /\ [][BufferNext]_bufferVars

-------------------------------------------------------------------------------
(* Properties.                                                             *)

(* The indices stay in order and in the vector, however small shrinking or *)
(* a move has made it: read_idx_ <= write_idx_ <= size <= MAX_CAPACITY.    *)
WithinCapacity ==
  /\ buf.r <= Len(buf.mem)
  /\ Len(buf.mem) <= buf.cap
  /\ buf.cap <= MAX_CAPACITY

(* The buffer is a stream: across compactions, growth, shrinking, unskip() *)
(* and failed allocations every byte write() reported as taken is still    *)
(* there until it is consumed, in order, and the next byte a reader gets   *)
(* is the one after the last it consumed.                                  *)
NoByteLost ==
  /\ \A i \in 1..Len(buf.mem) : buf.mem[i] = written - Len(buf.mem) + i
  /\ readable_bytes(buf) = written - read

===============================================================================
