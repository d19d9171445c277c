---------------------------- MODULE BitmapCommands ----------------------------
(***************************************************************************)
(* Strings read as bits: commands/bitmap.go over datastruct/bitmap, and as *)
(* registers: commands/hll.go over datastruct/hll.                         *)
(*                                                                         *)
(* The loops of bitmap.go take wide blocks first, then words, then single  *)
(* bytes; BlockBytes and WordBytes stand for their 32 and 8, so that every *)
(* loop runs on short strings.                                             *)
(***************************************************************************)
EXTENDS ZSetCommands, Bitwise

CONSTANTS
  BlockBytes,    \* the stride of the unrolled loops
  WordBytes,     \* the stride of the word loops
  MaxBitOffset,  \* the largest offset SETBIT accepts
  HllRegisters,  \* HLL_REGISTERS
  HllHash        \* element -> [index, count]: MurmurHash64A and the zeros it ends in

\* The eight bits of a byte of a string, and the byte that has these bits.
Code(b) == CASE b = NUL         -> 0
             [] b \in 0..9      -> 48 + b
             [] b = Dash        -> 45
             [] b \in 12..37    -> 85 + b
             [] OTHER           -> b - 1000

ByteOf(code) == CASE code = 0          -> NUL
                  [] code \in 48..57   -> code - 48
                  [] code = 45         -> Dash
                  [] code \in 97..122  -> code - 85
                  [] OTHER             -> 1000 + code

BitOfByte(b, i) == (Code(b) \div 2^(7 - i)) % 2

\* The bit at an offset, counted from the high bit of the first byte.
GetBit(v, offset) ==
  IF offset \div 8 >= Len(v) THEN 0 ELSE BitOfByte(v[offset \div 8 + 1], offset % 8)

WithBit(b, i, val) == ByteOf(Code(b) + (val - BitOfByte(b, i)) * 2^(7 - i))

\* A write past the end pads with zero bytes.
SetBit(v, offset, val) ==
  LET n      == offset \div 8 + 1
      padded == [i \in 1 .. (IF n > Len(v) THEN n ELSE Len(v)) |->
                   IF i > Len(v) THEN NUL ELSE v[i]]
  IN [padded EXCEPT ![n] = WithBit(@, offset % 8, val)]

\* Writing inside the string works on the stored bytes; growing it stores a new
\* object and keeps the deadline.
setbitCommand(s0, c) ==
  LET s   == Get(s0, c.key)
      obj == s.entries[c.key]
      cur == IF obj = Nil THEN <<>> ELSE obj.data
      new == Str(SetBit(cur, c.offset, c.bit))
  IN IF c.offset = NaI \/ c.offset < 0 \/ c.offset > MaxBitOffset \/ c.bit \notin {0, 1}
     THEN Result(s0, Error)
     ELSE IF WrongType(obj, "string") THEN Result(s, Error)
     ELSE Result(IF obj = Nil THEN Set(s, c.key, new) ELSE SetKeepTTL(s, c.key, new),
                 Integer(GetBit(cur, c.offset)))

getbitCommand(s, c) ==
  IF c.offset = NaI \/ c.offset < 0 THEN Result(s, Error)
  ELSE Read(s, c.key, "string", Integer(0), LAMBDA obj : Integer(GetBit(obj.data, c.offset)))

\* A byte range with negative ends counted from the end of the string.
ClampStart(start, n) == IF start >= 0 THEN start ELSE IF n + start < 0 THEN 0 ELSE n + start
ClampEnd(end, n) == LET e == ClampStart(end, n) IN IF e >= n THEN n - 1 ELSE e

OnesCount(b) == Cardinality({i \in 0..7 : BitOfByte(b, i) = 1})

\* Where a loop that advances by stride while it fits in n bytes leaves i, if it
\* stops early at the first stride for which Stop holds.
AdvanceBy(i, stride, n, Stop(_)) ==
  LET starts == {j \in i .. n : (j - i) % stride = 0}
      ends   == {j \in starts : j + stride > n \/ Stop(j)}
  IN Min(ends)

\* The sum is taken over blocks, then words, then bytes.
BitCount(v, start, end) ==
  LET n     == Len(v)
      lo    == ClampStart(start, n)
      hi    == ClampEnd(end, n)
      sub   == SubSeq(v, lo + 1, hi + 1)
      len   == Len(sub)
      b     == AdvanceBy(0, BlockBytes, len, LAMBDA j : FALSE)
      w     == AdvanceBy(b, WordBytes, len, LAMBDA j : FALSE)
      Ones(from, to) == FoldLeft(LAMBDA acc, x : acc + OnesCount(x), 0, SubSeq(sub, from + 1, to))
  IN IF n = 0 \/ lo >= n \/ lo > ClampStart(end, n) THEN 0
     ELSE Ones(0, b) + Ones(b, w) + Ones(w, len)

bitcountCommand(s, c) ==
  Read(s, c.key, "string", Integer(0),
       LAMBDA obj : IF NaI \in {c.start, c.end} THEN Error
                    ELSE Integer(BitCount(obj.data, c.start, c.end)))

\* The first bit equal to bitVal: blocks and words without one are skipped, then
\* the bytes are looked at.  Without an end, a string of ones is followed by zeros.
BitPos(v, bitVal, start, end, hasEnd) ==
  LET n       == Len(v)
      lo      == ClampStart(start, n)
      hi      == ClampEnd(end, n)
      sub     == SubSeq(v, lo + 1, hi + 1)
      len     == Len(sub)
      plain   == IF bitVal = 1 THEN 0 ELSE 255
      Skips(j, k) == \A x \in j + 1 .. j + k : Code(sub[x]) = plain
      b       == AdvanceBy(0, BlockBytes, len, LAMBDA j : ~Skips(j, BlockBytes))
      w       == AdvanceBy(b, WordBytes, len, LAMBDA j : ~Skips(j, WordBytes))
      rest    == {x \in w + 1 .. len : Code(sub[x]) # plain}
      First(x) == Min({i \in 0..7 : BitOfByte(x, i) = bitVal})
  IN IF lo >= n THEN (IF bitVal = 0 /\ ~hasEnd THEN n * 8 ELSE -1)
     ELSE IF lo > hi THEN -1
     ELSE IF rest # {} THEN (lo + Min(rest) - 1) * 8 + First(sub[Min(rest)])
     ELSE IF bitVal = 0 /\ ~hasEnd THEN n * 8 ELSE -1

\* A missing key is an empty string here, not an early reply.
bitposCommand(s0, c) ==
  LET s == Get(s0, c.key)  obj == s.entries[c.key]
  IN IF c.bit \notin {0, 1} THEN Result(s0, Error)
     ELSE IF WrongType(obj, "string") \/ NaI \in {c.start, c.end} THEN Result(s, Error)
     ELSE Result(s, Integer(BitPos(IF obj = Nil THEN <<>> ELSE obj.data, c.bit,
                                   c.start, c.end, c.hasEnd)))

\* The result is as long as the longest operand, the others end in zeros.
BitOp(op, srcs) ==
  LET maxLen == Max({Len(srcs[i]) : i \in DOMAIN srcs})
      At(i, j) == IF j > Len(srcs[i]) THEN 0 ELSE Code(srcs[i][j])
      Column(j) == [i \in DOMAIN srcs |-> At(i, j)]
      Fold(f(_, _), j) == FoldLeft(f, Head(Column(j)), Tail(Column(j)))
  IN [j \in 1 .. maxLen |-> ByteOf(
        CASE op = "NOT" -> 255 - At(1, j)
          [] op = "AND" -> Fold(LAMBDA a, b : a & b, j)
          [] op = "OR"  -> Fold(LAMBDA a, b : a | b, j)
          [] op = "XOR" -> Fold(LAMBDA a, b : a ^^ b, j))]

\* The sources are read before the destination is locked.
bitopCommand(s0, c) ==
  LET s   == GetOperands(s0, c.keys, {"string"})
      Src(i) == IF s.entries[c.keys[i]] = Nil THEN <<>> ELSE s.entries[c.keys[i]].data
      out == BitOp(c.op, [i \in DOMAIN c.keys |-> Src(i)])
  IN IF c.op = "NOT" /\ Len(c.keys) # 1 THEN Result(s0, Error)
     ELSE IF BadOperands(s0, c.keys, {"string"}) # {} THEN Result(s, Error)
     ELSE Result(IF out # <<>> THEN Set(s, c.dst, Str(out)) ELSE Del(s, c.dst),
                 Integer(Len(out)))

------------------------------------------------------------------------------
(* HyperLogLog.  A dense value is a header byte and one byte per register;  *)
(* NUL is an empty register.                                                *)

HllHeader == 1000

NewHLL == <<HllHeader>> \o [i \in 1 .. HllRegisters |-> NUL]

\* FromBytes works on a padded copy of a stored value, never on the value.
FromBytes(v) == [i \in 1 .. HllRegisters + 1 |-> IF i <= Len(v) THEN v[i] ELSE NewHLL[i]]

Register(h, r) == Code(h[r + 1])

HllAdd(h, e) ==
  LET x == HllHash[e]
  IN IF x.count > Register(h, x.index) THEN [h EXCEPT ![x.index + 1] = ByteOf(x.count)] ELSE h

HllMerge(h, other) ==
  [i \in DOMAIN h |-> IF i > 1 /\ Code(other[i]) > Code(h[i]) THEN other[i] ELSE h[i]]

\* The estimate is a function of the registers.
HllCount(h) == <<-1>> \o Tail(h)

HllOf(obj) == FromBytes(IF obj = Nil THEN NewHLL ELSE obj.data)

\* PFADD stores through DB.Set, which drops the deadline.
pfaddCommand(s0, c) ==
  LET s   == Get(s0, c.key)
      obj == s.entries[c.key]
      new == FoldLeft(HllAdd, HllOf(obj), c.elements)
      updated == new # HllOf(obj)
  IN IF WrongType(obj, "string") THEN Result(s, Error)
     ELSE Result(IF obj = Nil \/ updated THEN Set(s, c.key, Str(new)) ELSE s,
                 Integer(IF updated THEN 1 ELSE 0))

MergeAll(s, keys) ==
  FoldLeft(LAMBDA h, k : HllMerge(h, HllOf(s.entries[k])), NewHLL, keys)

pfcountCommand(s0, c) ==
  LET s == GetOperands(s0, c.keys, {"string"})
  IN Result(s, IF BadOperands(s0, c.keys, {"string"}) # {} THEN Error
               ELSE IF Len(c.keys) = 1 /\ s.entries[c.keys[1]] = Nil THEN Integer(0)
               ELSE Bulk(HllCount(MergeAll(s, c.keys))))

\* The destination is the first operand.
pfmergeCommand(s0, c) ==
  LET keys == <<c.dst>> \o c.keys
      s    == GetOperands(s0, keys, {"string"})
  IN IF BadOperands(s0, keys, {"string"}) # {} THEN Result(s, Error)
     ELSE Result(Set(s, c.dst, Str(MergeAll(s, keys))), OK)

BitmapWrites == {"setbit", "bitop", "pfadd", "pfmerge"}
=============================================================================
