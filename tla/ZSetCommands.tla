----------------------------- MODULE ZSetCommands -----------------------------
(***************************************************************************)
(* Sorted sets: commands/zset.go, zset_ops.go, zset_setops.go, zset_lex.go,*)
(* zset_encoding.go and ZSCAN.  A sorted set is [type, enc, data], data    *)
(* being the sequence of its elements [m, sc] as elements() lists them; the*)
(* links of a skiplist are the subject of Skiplist.                        *)
(*                                                                         *)
(* A score is an integer or one of the two infinities; NaN is what their   *)
(* sum gives, and NaI an argument ParseFloat refuses.                      *)
(***************************************************************************)
EXTENDS SetCommands

CONSTANTS
  ZsetMaxListpackEntries, \* zset-max-listpack-entries
  ZsetMaxListpackValue    \* zset-max-listpack-value

PosInf == 100000
NegInf == -100000
NaN    == 200000

AddScores(a, b) ==
  IF {a, b} = {PosInf, NegInf} THEN NaN
  ELSE IF {a, b} \cap {PosInf, NegInf} # {} THEN (IF PosInf \in {a, b} THEN PosInf ELSE NegInf)
  ELSE a + b

\* 0 * inf is NaN, which every caller turns into 0.
MulScores(a, b) ==
  IF {a, b} \cap {PosInf, NegInf} = {} THEN a * b
  ELSE IF 0 \in {a, b} THEN 0
  ELSE IF (a > 0) = (b > 0) THEN PosInf ELSE NegInf

\* Strings compare byte by byte, a prefix before its extensions.
LexLess(a, b) ==
  \/ IsStrictPrefix(a, b)
  \/ \E i \in DOMAIN a \cap DOMAIN b : a[i] < b[i] /\ \A j \in 1 .. i - 1 : a[j] = b[j]

\* The order of a sorted set: by score, equal scores by member.
ZLess(x, y) == x.sc < y.sc \/ (x.sc = y.sc /\ LexLess(x.m, y.m))

EmptyZSet == [type |-> "zset", enc |-> "listpack", data |-> <<>>]

zMembers(z) == {z.data[i].m : i \in DOMAIN z.data}
zIndex(z, m) == SelectInSeq(z.data, LAMBDA e : e.m = m)
zScore(z, m) == z.data[zIndex(z, m)].sc

zShouldPromote(z, m) ==
  \/ Len(m) > ZsetMaxListpackValue
  \/ m \notin zMembers(z) /\ Len(z.data) >= ZsetMaxListpackEntries

\* insertOrdered: before the first element that is not smaller.
insertOrdered(v, e) ==
  LET after == {i \in DOMAIN v : ZLess(e, v[i])}
  IN InsertAt(v, IF after = {} THEN Len(v) + 1 ELSE Min(after), e)

zAdd(z0, m, sc) ==
  LET z == IF z0.enc = "listpack" /\ zShouldPromote(z0, m)
           THEN [z0 EXCEPT !.enc = "skiplist"] ELSE z0
      i == zIndex(z, m)
      e == [m |-> m, sc |-> sc]
  IN IF i > 0 /\ z.data[i].sc = sc THEN z
     ELSE [z EXCEPT !.data = insertOrdered(IF i > 0 THEN RemoveAt(@, i) ELSE @, e)]

zRemove(z, m) ==
  [z EXCEPT !.data = IF zIndex(z, m) > 0 THEN RemoveAt(@, zIndex(z, m)) ELSE @]

zRange(z, start, stop, reverse) ==
  LRange(IF reverse THEN Reverse(z.data) ELSE z.data, start, stop)

getOrCreateZSet(s0, k) ==
  LET s == Get(s0, k) IN IF s.entries[k] = Nil THEN Set(s, k, EmptyZSet) ELSE s

\* getZSetForRead: a missing key is an empty view that is never stored.
zView(s, k) == IF s.entries[k] = Nil THEN EmptyZSet ELSE s.entries[k]

ReadZSet(s, k, Answer(_)) == Read(s, k, "zset", Answer(EmptyZSet), Answer)

\* The end of every removal: the key is deleted when nothing is left.
RemoveElements(s, k, items) ==
  LET z == FoldLeft(LAMBDA x, e : zRemove(x, e.m), zView(s, k), items)
  IN IF z.data = <<>> THEN Del(s, k) ELSE [s EXCEPT !.entries[k] = z]

------------------------------------------------------------------------------
(* ZADD: c.pairs is a sequence of <<score, member>>, c.opts a set of flags. *)

\* One pair.  acc.out is the reply of INCR, Null until an element is stored.
ZAddStep(opts, acc, p) ==
  LET exists == p[2] \in zMembers(acc.z)
      cur    == zScore(acc.z, p[2])
      score  == IF "INCR" \in opts /\ exists THEN AddScores(cur, p[1]) ELSE p[1]
      skip   == \/ "NX" \in opts /\ exists
                \/ "XX" \in opts /\ ~exists
      refuse == exists /\ (("GT" \in opts /\ score <= cur) \/ ("LT" \in opts /\ score >= cur))
  IN IF acc.bad \/ skip THEN acc
     ELSE IF score = NaN THEN [acc EXCEPT !.bad = TRUE]
     ELSE IF refuse THEN acc
     ELSE [acc EXCEPT !.z = zAdd(@, p[2], score),
                      !.added = IF exists THEN @ ELSE @ + 1,
                      !.changed = IF exists /\ cur = score THEN @ ELSE @ + 1,
                      !.out = Bulk(score)]

zaddCommand(s0, c) ==
  LET s       == getOrCreateZSet(s0, c.key)
      z       == s.entries[c.key]
      Given(o) == o \in c.opts
      start   == [z |-> z, added |-> 0, changed |-> 0, out |-> Null, bad |-> FALSE]
      end     == FoldLeft(LAMBDA acc, p : ZAddStep(c.opts, acc, p), start, c.pairs)
      put     == [s EXCEPT !.entries[c.key] = end.z]
      created == Get(s0, c.key).entries[c.key] = Nil
  IN IF \/ Given("NX") /\ (Given("XX") \/ Given("GT") \/ Given("LT"))
        \/ Given("GT") /\ Given("LT")
        \/ Given("INCR") /\ Len(c.pairs) # 1
        \/ \E i \in DOMAIN c.pairs : c.pairs[i][1] = NaI
     THEN Result(s0, Error)
     ELSE IF WrongType(z, "zset") THEN Result(s, Error)
     ELSE IF end.bad THEN Result(put, Error)
     ELSE Result(IF created /\ end.z.data = <<>> THEN Del(put, c.key) ELSE put,
                 IF Given("INCR") THEN end.out
                 ELSE Integer(IF Given("CH") THEN end.changed ELSE end.added))

zincrbyCommand(s0, c) ==
  LET s   == getOrCreateZSet(s0, c.key)
      z   == s.entries[c.key]
      new == AddScores(IF c.member \in zMembers(z) THEN zScore(z, c.member) ELSE 0, c.n)
  IN IF c.n = NaI THEN Result(s0, Error)
     ELSE IF WrongType(z, "zset") THEN Result(s, Error)
     ELSE IF new = NaN THEN Result(s, Error)
     ELSE Result([s EXCEPT !.entries[c.key] = zAdd(@, c.member, new)], Bulk(new))

zremCommand(s0, c) ==
  LET s     == Get(s0, c.key)
      items == [i \in DOMAIN c.members |-> [m |-> c.members[i], sc |-> 0]]
      gone  == ToSet(c.members) \cap zMembers(zView(s, c.key))
  IN IF WrongType(s.entries[c.key], "zset") THEN Result(s, Error)
     ELSE Result(RemoveElements(s, c.key, items), Integer(Cardinality(gone)))

\* ZPOPMIN and ZPOPMAX take Range(0, count - 1): with a count of 0 that is
\* Range(0, -1), the whole set.
zpopGeneric(s0, c, reverse) ==
  LET s     == Get(s0, c.key)
      items == zRange(zView(s, c.key), 0, c.n - 1, reverse)
  IN IF c.n = NaI \/ c.n < 0 THEN Result(s0, Error)
     ELSE IF s.entries[c.key] = Nil THEN Result(s, Array(<<>>))
     ELSE IF WrongType(s.entries[c.key], "zset") THEN Result(s, Error)
     ELSE Result(RemoveElements(s, c.key, items), Array(items))

zpopminCommand(s, c) == zpopGeneric(s, c, FALSE)

zpopmaxCommand(s, c) == zpopGeneric(s, c, TRUE)

------------------------------------------------------------------------------
(* Ranges.  A score bound is [n, ex], a lexicographic one [v, ex, min, max];*)
(* n = NaI and bad bounds are refused by the parsers.                       *)

inScoreRange(sc, min, max) ==
  /\ IF min.ex THEN sc > min.n ELSE sc >= min.n
  /\ IF max.ex THEN sc < max.n ELSE sc <= max.n

aboveMin(b, m) == b.min \/ (~b.max /\ (LexLess(b.val, m) \/ (~b.ex /\ m = b.val)))

belowMax(b, m) == b.max \/ (~b.min /\ (LexLess(m, b.val) \/ (~b.ex /\ m = b.val)))

\* LIMIT offset count: a negative offset selects nothing, a negative count all.
Limited(items, offset, count) ==
  LET rest == IF offset < 0 \/ offset >= Len(items) THEN <<>>
              ELSE SubSeq(items, offset + 1, Len(items))
  IN IF count >= 0 /\ count < Len(rest) THEN SubSeq(rest, 1, count) ELSE rest

\* zrangeSelect: by rank, by score or by member, forwards or in reverse.
zSelect(z, c) ==
  LET lo   == IF c.rev THEN c.stop ELSE c.start
      hi   == IF c.rev THEN c.start ELSE c.stop
      Keep(e) == IF c.by = "lex" THEN aboveMin(lo, e.m) /\ belowMax(hi, e.m)
                 ELSE inScoreRange(e.sc, lo, hi)
      kept == SelectSeq(z.data, Keep)
      dir  == IF c.rev THEN Reverse(kept) ELSE kept
  IN IF c.by = "rank" THEN zRange(z, c.start, c.stop, c.rev)
     ELSE Limited(dir, c.offset, c.count)

\* ZRANGE, ZREVRANGE, ZRANGEBYSCORE, ZRANGEBYLEX and their reverses.
zrangeCommand(s, c) ==
  IF c.bad THEN Result(s, Error)
  ELSE ReadZSet(s, c.key, LAMBDA z : Array(zSelect(z, c)))

\* ZCOUNT and ZLEXCOUNT.
zcountCommand(s, c) ==
  IF c.bad THEN Result(s, Error)
  ELSE ReadZSet(s, c.key, LAMBDA z : Integer(Len(zSelect(z, c))))

\* ZREMRANGEBYRANK, ZREMRANGEBYSCORE and ZREMRANGEBYLEX.
zremrangeCommand(s0, c) ==
  LET s == Get(s0, c.key)  items == zSelect(zView(s, c.key), c)
  IN IF c.bad THEN Result(s0, Error)
     ELSE IF WrongType(s.entries[c.key], "zset") THEN Result(s, Error)
     ELSE Result(RemoveElements(s, c.key, items), Integer(Len(items)))

\* The destination is deleted and rebuilt, so it loses its deadline.
StoreElements(s, k, items) ==
  LET s1 == Del(s, k)
      s2 == getOrCreateZSet(s1, k)
  IN IF items = <<>> THEN s1
     ELSE [s2 EXCEPT !.entries[k] = FoldLeft(LAMBDA z, e : zAdd(z, e.m, e.sc), @, items)]

zrangestoreCommand(s0, c) ==
  LET s == Get(s0, c.key)  items == zSelect(zView(s, c.key), c)
  IN IF c.bad THEN Result(s0, Error)
     ELSE IF WrongType(s.entries[c.key], "zset") THEN Result(s, Error)
     ELSE Result(StoreElements(s, c.dst, items), Integer(Len(items)))

zscoreCommand(s, c) ==
  ReadZSet(s, c.key, LAMBDA z : IF c.member \in zMembers(z) THEN Bulk(zScore(z, c.member))
                                ELSE Null)

zmscoreCommand(s, c) ==
  ReadZSet(s, c.key, LAMBDA z : Array([i \in DOMAIN c.members |->
    IF c.members[i] \in zMembers(z) THEN Bulk(zScore(z, c.members[i])) ELSE Null]))

zrankGeneric(s, c) ==
  ReadZSet(s, c.key, LAMBDA z :
    LET i == zIndex(z, c.member)
    IN IF i = 0 THEN Null ELSE Integer(IF c.rev THEN Len(z.data) - i ELSE i - 1))

zcardCommand(s, c) == ReadZSet(s, c.key, LAMBDA z : Integer(Len(z.data)))

zscanCommand(s, c) ==
  IF c.bad THEN Result(s, Error)
  ELSE ReadZSet(s, c.key, LAMBDA z : Array(SelectSeq(z.data, LAMBDA e : e.m \in c.match)))

zrandmemberOutcomes(s0, c) ==
  LET s   == Get(s0, c.key)
      all == ToSet(zView(s, c.key).data)
  IN IF WrongType(s.entries[c.key], "zset") THEN {Result(s, Error)}
     ELSE IF c.single
     THEN IF all = {} THEN {Result(s, Null)} ELSE {Result(s, Bulk(e.m)) : e \in all}
     ELSE IF randCount(c.n).bad THEN {Result(s, Error)}
     ELSE IF all = {} THEN {Result(s, Array({}))}
     ELSE {Result(s, Array(d)) : d \in Draws(all, randCount(c.n))}

------------------------------------------------------------------------------
(* ZUNION, ZINTER, ZDIFF and their STORE forms.  A plain set counts as a    *)
(* sorted set whose scores are all 1.                                       *)

zsetOperand(obj) ==
  IF obj = Nil THEN [m \in {} |-> 0]
  ELSE IF obj.type = "set" THEN [m \in setMembers(obj) |-> 1]
  ELSE [m \in zMembers(obj) |-> zScore(obj, m)]

aggregate(mode, a, b) ==
  CASE mode = "MIN" -> IF a < b THEN a ELSE b
    [] mode = "MAX" -> IF a > b THEN a ELSE b
    [] mode = "SUM" -> IF AddScores(a, b) = NaN THEN 0 ELSE AddScores(a, b)

\* The score of m over the operands that hold it, from the first to the last.
Combined(ops, weights, mode, m) ==
  LET holders == SelectSeq([i \in DOMAIN ops |-> i], LAMBDA i : m \in DOMAIN ops[i])
      W(i)    == MulScores(ops[i][m], weights[i])
  IN FoldLeft(LAMBDA acc, i : aggregate(mode, acc, W(i)), W(Head(holders)), Tail(holders))

\* AGGREGATE COUNT with ZDIFF keeps the members counted once, but never when
\* the count equals the number of operands.
zsetCombine(ops, op, weights, mode) ==
  LET all      == UNION {DOMAIN ops[i] : i \in DOMAIN ops}
      Holds(m) == Cardinality({i \in DOMAIN ops : m \in DOMAIN ops[i]})
      members  == CASE op = "union" -> all
                    [] op = "inter" -> {m \in all : Holds(m) = Len(ops)}
                    [] op = "diff"  -> {m \in DOMAIN ops[1] : Holds(m) = 1
                                          /\ (mode = "COUNT" => Len(ops) # 1)}
      Sc(m)    == IF op = "diff" THEN ops[1][m]
                  ELSE IF mode = "COUNT" THEN Holds(m)
                  ELSE Combined(ops, weights, mode, m)
  IN SetToSortSeq({[m |-> m, sc |-> Sc(m)] : m \in members}, ZLess)

ZOperandTypes == {"set", "zset"}

zCombineFrom(s, c) == zsetCombine([i \in DOMAIN c.keys |-> zsetOperand(s.entries[c.keys[i]])],
                                  c.op, c.weights, c.mode)

zsetReadGeneric(s0, c) ==
  LET s == GetOperands(s0, c.keys, ZOperandTypes)
  IN Result(s, IF BadOperands(s, c.keys, ZOperandTypes) # {} THEN Error ELSE Array(zCombineFrom(s, c)))

\* ZINTERCARD stops at its limit.
zintercardCommand(s0, c) ==
  LET s == GetOperands(s0, c.keys, ZOperandTypes)  n == Len(zCombineFrom(s, c))
  IN Result(s, IF BadOperands(s, c.keys, ZOperandTypes) # {} THEN Error
               ELSE Integer(IF c.limit > 0 /\ n > c.limit THEN c.limit ELSE n))

zsetStoreGeneric(s0, c) ==
  LET s == GetOperands(s0, c.keys, ZOperandTypes)  items == zCombineFrom(s, c)
  IN IF BadOperands(s, c.keys, ZOperandTypes) # {} THEN Result(s, Error)
     ELSE Result(StoreElements(s, c.dst, items), Integer(Len(items)))

ZSetWrites == {"zadd", "zincrby", "zrem", "zpopmin", "zpopmax", "zremrangebyrank",
               "zremrangebyscore", "zremrangebylex", "zrangestore", "zunionstore",
               "zinterstore", "zdiffstore"}
=============================================================================
