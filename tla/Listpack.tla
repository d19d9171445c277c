------------------------------- MODULE Listpack -------------------------------
(***************************************************************************)
(* datastruct/listpack: the elements of a small collection in one buffer,  *)
(* each behind its length written as a varint, and their number.  A digit  *)
(* of a varint has Base values (128 in the code) and a byte has 2 * Base:  *)
(* a byte of Base or more says that another digit follows.  Elements may   *)
(* hold any bytes, those that look like a length included.                 *)
(***************************************************************************)
EXTENDS Integers, Sequences, SequencesExt

CONSTANTS
  Base,       \* values of a digit of a varint
  Calls,      \* what the containers call
  MaxElements \* no insertion beyond this

VARIABLES
  buf, \* lp.buf
  n,   \* lp.n
  op   \* the last call and its answer

vars == <<buf, n, op>>

RECURSIVE PutUvarint(_)
PutUvarint(v) == IF v < Base THEN <<v>> ELSE <<(v % Base) + Base>> \o PutUvarint(v \div Base)

\* The number at the front of b and its length, 0 when the number is cut off.
Uvarint(b) ==
  LET From[i \in 1 .. Len(b) + 1] ==
        IF i > Len(b) THEN [val |-> 0, k |-> 0]
        ELSE IF b[i] < Base THEN [val |-> b[i], k |-> i]
        ELSE [val |-> b[i] - Base + Base * From[i + 1].val, k |-> From[i + 1].k]
  IN From[1]

RECURSIVE uvarintLen(_)
uvarintLen(v) == IF v < Base THEN 1 ELSE 1 + uvarintLen(v \div Base)

\* Where the payload of every element begins, and its length.
offsets ==
  LET At[i \in Nat] ==
        IF i >= Len(buf) THEN <<>>
        ELSE LET h == Uvarint(SubSeq(buf, i + 1, Len(buf)))
             IN IF h.k <= 0 THEN <<>>
                ELSE <<[start |-> i + h.k, len |-> h.val]>> \o At[i + h.k + h.val]
  IN At[0]

Payload(o)   == SubSeq(buf, o.start + 1, o.start + o.len)
HdrStart(o)  == o.start - uvarintLen(o.len)
End(o)       == o.start + o.len
Packed(val)  == PutUvarint(Len(val)) \o val
Before(at)   == SubSeq(buf, 1, at)
Behind(at)    == SubSeq(buf, at + 1, Len(buf))

\* ForEach and All: every element, in order.
All == LET os == offsets IN [i \in DOMAIN os |-> Payload(os[i])]

Init == buf = <<>> /\ n = 0 /\ op = [call |-> [name |-> "none"], error |-> FALSE]

Answers(c, reply) == op' = [call |-> c, reply |-> reply]
Fails(c)          == op' = [call |-> c, error |-> TRUE] /\ UNCHANGED <<buf, n>>

LpAppend(c) ==
  /\ c.name = "rpush" /\ n < MaxElements
  /\ buf' = buf \o Packed(c.val)
  /\ n' = n + 1
  /\ Answers(c, n')

Get(c) ==
  /\ c.name = "lindex"
  /\ IF c.i < 0 \/ c.i >= n \/ c.i >= Len(offsets) THEN Fails(c)
     ELSE Answers(c, Payload(offsets[c.i + 1])) /\ UNCHANGED <<buf, n>>

Find(c) ==
  LET all == All
      at  == SelectInSeq([i \in DOMAIN all |-> i > c.start /\ (i - 1 - c.start) % c.stride = 0
                                               /\ all[i] = c.val],
                         LAMBDA found : found)
  IN /\ c.name = "find"
     /\ IF at = 0 THEN Fails(c) ELSE Answers(c, at - 1) /\ UNCHANGED <<buf, n>>

LpReplaceAt(c) ==
  /\ c.name = "lset"
  /\ IF c.i < 0 \/ c.i >= n \/ c.i >= Len(offsets) THEN Fails(c)
     ELSE LET o == offsets[c.i + 1]
          IN /\ buf' = Before(HdrStart(o)) \o Packed(c.val) \o Behind(End(o))
             /\ Answers(c, TRUE)
             /\ UNCHANGED n

DeleteRange(c) ==
  /\ c.name = "cut"
  /\ IF c.i < 0 \/ c.n <= 0 \/ c.i + c.n > n \/ c.i + c.n > Len(offsets) THEN Fails(c)
     ELSE LET first == offsets[c.i + 1]  last == offsets[c.i + c.n]
          IN /\ buf' = Before(HdrStart(first)) \o Behind(End(last))
             /\ n' = n - c.n
             /\ Answers(c, n')

LpInsertAt(c) ==
  /\ c.name = "insert" /\ n < MaxElements
  /\ IF c.i < 0 \/ c.i > n THEN Fails(c)
     ELSE LET at == IF c.i = n THEN Len(buf) ELSE HdrStart(offsets[c.i + 1])
          IN /\ buf' = Before(at) \o Packed(c.val) \o Behind(at)
             /\ n' = n + 1
             /\ Answers(c, n')

Next == \E c \in Calls : \/ LpAppend(c) \/ Get(c) \/ Find(c)
                         \/ LpReplaceAt(c) \/ DeleteRange(c) \/ LpInsertAt(c)

Spec == Init /\ [][Next]_vars

------------------------------------------------------------------------------

\* The list the buffer encodes.
List == INSTANCE ListSpec WITH list <- All

\* Whatever bytes the elements hold and however long their headers are, edits
\* in the middle of the buffer answer and leave what a plain sequence would.
ImplementsList == List!Spec

\* The buffer decodes to its last byte, and to as many elements as lp.n counts:
\* InsertAt indexes the offsets by a position checked only against lp.n.
BufferDecodes ==
  /\ Len(offsets) = n
  /\ Len(buf) = IF n = 0 THEN 0 ELSE End(offsets[n])
=============================================================================
