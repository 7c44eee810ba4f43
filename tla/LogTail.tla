------------------------------ MODULE LogTail ------------------------------
(***************************************************************************)
(* The ring buffer of harness/logtail.go that keeps the end of a daemon's  *)
(* output for failure messages.  Write and String hold the mutex from      *)
(* their first to their last statement, so each is one action; the chunk   *)
(* boundaries are those of the goroutine that copies the child's pipe.     *)
(*                                                                         *)
(* data is the Go slice: it grows by append on the fast path, and is       *)
(* replaced by a zero-filled slice of the full length when a write first   *)
(* overflows it.                                                           *)
(***************************************************************************)
EXTENDS Integers, Sequences

CONSTANTS
  Bytes,      \* the bytes a child may write
  Zero,       \* what make([]byte, n) fills a slice with
  Requested,  \* the argument of NewLogTail
  MaxChunk    \* bound: the longest slice passed to one Write

ASSUME CapAssumption == Requested \in Int
ASSUME ChunkAssumption == MaxChunk \in Nat

VARIABLES
  data,   \* b.data
  wPos,   \* b.wPos, a zero-based index
  full,   \* b.full
  arg     \* the slice the last call of Write was passed

ring == <<data, wPos, full>>
vars == <<data, wPos, full, arg>>

(* NewLogTail: a non-positive capacity means 8 KiB. *)
Cap == IF Requested <= 0 THEN 8 * 1024 ELSE Requested

Chunks == UNION {[1..n -> Bytes] : n \in 0..MaxChunk}

Init ==
  /\ data = <<>>
  /\ wPos = 0
  /\ full = FALSE
  /\ arg = <<>>

(* copy(dst[off:], src): as much of src as dst has room for after off. *)
CopyAt(dst, off, src) ==
  [i \in 1..Len(dst) |->
     IF off < i /\ i <= off + Len(src) THEN src[i - off] ELSE dst[i]]

(* The slice and the index the slow path works on.  Growing keeps the      *)
(* bytes written so far at the front and leaves full unset.                *)
Grown == IF Len(data) < Cap
           THEN CopyAt([i \in 1..Cap |-> Zero], 0, data)
           ELSE data
GrownPos == IF Len(data) < Cap THEN Len(data) ELSE wPos

(* A slip in WriteFast: a buffer filled to the brim is not marked full.    *)
FastNeverFills(p) ==
  /\ ~full
  /\ Len(data) + Len(p) <= Cap
  /\ data' = data \o p
  /\ UNCHANGED <<wPos, full>>

(* A write that still fits. *)
WriteFast(p) ==
  /\ ~full
  /\ Len(data) + Len(p) <= Cap
  /\ data' = data \o p
  /\ full' = (Len(data) + Len(p) = Cap)
  /\ UNCHANGED wPos

(* A slip in WriteAll: the write index is not reset.                       *)
AllKeepsPos(p) ==
  /\ full \/ Len(data) + Len(p) > Cap
  /\ Len(p) >= Cap
  /\ data' = CopyAt(Grown, 0, SubSeq(p, Len(p) - Cap + 1, Len(p)))
  /\ wPos' = IF GrownPos = Cap THEN 0 ELSE GrownPos
  /\ full' = TRUE

(* A write of at least the whole capacity: its last Cap bytes survive. *)
WriteAll(p) ==
  /\ full \/ Len(data) + Len(p) > Cap
  /\ Len(p) >= Cap
  /\ data' = CopyAt(Grown, 0, SubSeq(p, Len(p) - Cap + 1, Len(p)))
  /\ wPos' = 0
  /\ full' = TRUE

(* A shorter one: up to the end of the slice, then from its start. *)
WriteAround(p) ==
  LET first == IF Len(p) <= Cap - GrownPos THEN Len(p) ELSE Cap - GrownPos
      atEnd == CopyAt(Grown, GrownPos, SubSeq(p, 1, first))
  IN  /\ full \/ Len(data) + Len(p) > Cap
      /\ Len(p) < Cap
      /\ full' = (full \/ GrownPos + first = Cap)
      /\ IF first < Len(p)
           THEN /\ data' = CopyAt(atEnd, 0, SubSeq(p, first + 1, Len(p)))
                /\ wPos' = Len(p) - first
           ELSE /\ data' = atEnd
                /\ wPos' = IF GrownPos + first = Cap THEN 0 ELSE GrownPos + first

(* An empty write returns before it touches anything. *)
Write(p) ==
  /\ arg' = p
  /\ \/ p = <<>> /\ UNCHANGED ring
     \/ p # <<>> /\ (WriteFast(p) \/ WriteAll(p) \/ WriteAround(p))

Next == \E p \in Chunks : Write(p)

Spec == Init /\ [][Next]_vars

(* The slice read from index w round to it again. *)
Unrolled(d, w) == SubSeq(d, w + 1, Len(d)) \o SubSeq(d, 1, w)

(* What String returns: oldest byte first. *)
String == IF ~full THEN data ELSE Unrolled(data, wPos)

-----------------------------------------------------------------------------
(* Types.  No byte of the zero fill survives the write that grew the slice *)
(* (in a model that has Zero outside Bytes).                               *)
TypeOK ==
  /\ data \in Seq(Bytes)
  /\ wPos \in Nat
  /\ full \in BOOLEAN
  /\ arg \in Seq(Bytes)

(* The three fields agree: the slice is at its full length exactly when    *)
(* the ring is marked full, the write index is inside it, and it is not    *)
(* used before.  String reads past the data otherwise.                     *)
RingShape ==
  /\ Len(data) <= Cap
  /\ full <=> Len(data) = Cap
  /\ wPos < Cap
  /\ ~full => wPos = 0

(* The inductive invariant.                                                *)
IInv == TypeOK /\ RingShape

Promise == INSTANCE TailBuffer WITH tail <- String

(* However writes are cut into chunks and wherever they wrap, String is    *)
(* the last Cap bytes written, in order, without a byte of the zero fill:  *)
(* each Write(p) appends the very p it was passed and drops the oldest.    *)
ImplementsTail == Promise!Spec

=============================================================================
