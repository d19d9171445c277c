------------------------------- MODULE Backlog -------------------------------
(***************************************************************************)
(* The replication backlog (replication/backlog.go): a ring buffer of the  *)
(* bytes fed last, addressed by their offset in the whole stream.          *)
(***************************************************************************)
EXTENDS Integers, Sequences

CONSTANTS
  Bytes,      \* what is fed, byte by byte
  size,       \* Backlog.size
  MaxFeed,    \* bound: bytes in one Feed
  MaxStream   \* bound: bytes fed in a run

ASSUME SizeAssumption ==
  size \in Nat \ {0} /\ 0 \in Bytes /\ MaxFeed \in Nat /\ MaxStream \in Nat

VARIABLES
  buf, firstOffset, lastOffset, head,
  stream      \* history: everything ever fed

vars == <<buf, firstOffset, lastOffset, head, stream>>

Init ==
  /\ buf = [p \in 0 .. size - 1 |-> 0]
  /\ firstOffset = 0 /\ lastOffset = 0 /\ head = 0
  /\ stream = << >>

(* The loop of Feed leaves the last byte in a cell that it wrote there.    *)
(* Byte i goes to cell (head + i - 1) % size.                              *)
Cell(i) == (head + i - 1) % size
LastInto(data, p) ==
  CHOOSE i \in 1 .. Len(data) :
    Cell(i) = p /\ \A j \in 1 .. Len(data) : Cell(j) = p => j <= i

Advance(last) == IF last - firstOffset > size THEN last - size ELSE firstOffset

Feed(data) ==
  /\ Len(data) > 0 /\ Len(stream) + Len(data) <= MaxStream
  /\ buf' = [p \in 0 .. size - 1 |->
               IF \E i \in 1 .. Len(data) : Cell(i) = p
               THEN data[LastInto(data, p)] ELSE buf[p]]
  /\ head' = (head + Len(data)) % size
  /\ lastOffset' = lastOffset + Len(data)
  /\ firstOffset' = Advance(lastOffset + Len(data))
  /\ stream' = stream \o data

CanPartialSync(offset) ==
  lastOffset > 0 /\ offset >= firstOffset /\ offset <= lastOffset

\* Mutant: reading starts one cell too early.
ReadFromOffsetEarly(offset) ==
  LET n == lastOffset - offset
      startIdx == (head - n - 1) % size
  IN [i \in 1 .. n |-> buf[(startIdx + i - 1) % size]]

(* Go's % keeps the sign of the dividend; the code adds size when the      *)
(* result is negative, which is what TLA+'s % returns to begin with.       *)
ReadFromOffset(offset) ==
  LET n == lastOffset - offset
      startIdx == (head - n) % size
  IN IF offset < firstOffset \/ offset > lastOffset THEN << >>
     ELSE [i \in 1 .. n |-> buf[(startIdx + i - 1) % size]]

Chunks == UNION {[1 .. n -> Bytes] : n \in 1 .. MaxFeed}
Next == \E data \in Chunks : Feed(data)
Spec == Init /\ [][Next]_vars

-----------------------------------------------------------------------------
(* Every field of Backlog has its type, and head is a cell of the ring. *)
TypeOK ==
  /\ buf \in [0 .. size - 1 -> Bytes]
  /\ firstOffset \in Nat /\ lastOffset \in Nat
  /\ head \in 0 .. size - 1 /\ stream \in Seq(Bytes)

(* A partial resync is granted for exactly the offsets whose continuation  *)
(* is still in the ring, and it then sends exactly the bytes fed since:    *)
(* what a replica with that offset is missing (manager.go:181-185).        *)
PartialSyncExact ==
  \A offset \in 0 .. Len(stream) :
    CanPartialSync(offset) =>
      ReadFromOffset(offset) = SubSeq(stream, offset + 1, Len(stream))

(* The backlog never forgets earlier than it has to: as long as no more    *)
(* than size bytes were fed since, an offset can be resumed.               *)
KeepsAsMuchAsFits ==
  \A offset \in 0 .. Len(stream) :
    Len(stream) > 0 /\ Len(stream) - offset <= size => CanPartialSync(offset)

(* The inductive invariant: the head is the last offset modulo the size,   *)
(* and the cell of an offset in range holds the byte at that offset.       *)
RingInv ==
  /\ TypeOK
  /\ lastOffset = Len(stream) /\ head = lastOffset % size
  /\ firstOffset = IF lastOffset > size THEN lastOffset - size ELSE 0
  /\ \A o \in firstOffset + 1 .. lastOffset : buf[(o - 1) % size] = stream[o]
=============================================================================
