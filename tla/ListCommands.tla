----------------------------- MODULE ListCommands -----------------------------
(***************************************************************************)
(* Lists: commands/list.go, list_ops.go and list_encoding.go.  A list is   *)
(* [type, enc, data] with data the sequence of its elements; how a         *)
(* quicklist spreads them over nodes is the subject of Quicklist.          *)
(***************************************************************************)
EXTENDS HashCommands

CONSTANTS
  ListMaxListpackSize,  \* list-max-listpack-size: entries, or a budget if negative
  ListBudget,           \* listpackSizeLimits of that negative setting, in bytes
  ListMaxListpackValue  \* listMaxListpackValue

EmptyList == [type |-> "list", enc |-> "listpack", data |-> <<>>]

\* The bytes of a listpack: one of header and the payload of every element.
ListpackBytes(v) == FoldLeft(LAMBDA n, e : n + Len(e) + 1, 0, v)

listWouldExceed(v, added) ==
  IF ListMaxListpackSize >= 0 THEN Len(v) >= ListMaxListpackSize
  ELSE ListpackBytes(v) + added > ListBudget

growWouldPromote(l, val) ==
  /\ l.enc = "listpack"
  /\ Len(val) > ListMaxListpackValue \/ listWouldExceed(l.data, Len(val))

listPromote(l) == [l EXCEPT !.enc = "quicklist"]

LPush(l0, val) == LET l == IF growWouldPromote(l0, val) THEN listPromote(l0) ELSE l0
                  IN [l EXCEPT !.data = <<val>> \o @]

RPush(l0, val) == LET l == IF growWouldPromote(l0, val) THEN listPromote(l0) ELSE l0
                  IN [l EXCEPT !.data = Append(@, val)]

PushAt(end, l, val) == IF end = "LEFT" THEN LPush(l, val) ELSE RPush(l, val)

\* A negative index counts from the end.
FromEnd(i, n) == IF i < 0 THEN i + n ELSE i

LRange(v, start, stop) ==
  LET n  == Len(v)
      lo == IF FromEnd(start, n) < 0 THEN 0 ELSE FromEnd(start, n)
      hi == IF FromEnd(stop, n) >= n THEN n - 1 ELSE FromEnd(stop, n)
  IN IF lo > hi \/ lo >= n THEN <<>> ELSE SubSeq(v, lo + 1, hi + 1)

\* replaceAll estimates two bytes of header per element where growth counts one.
replaceAll(l, items) ==
  LET oversized == \E i \in DOMAIN items : Len(items[i]) > ListMaxListpackValue
      tooBig == IF ListMaxListpackSize >= 0 THEN Len(items) > ListMaxListpackSize
                ELSE ListpackBytes(items) + Len(items) > ListBudget
  IN [l EXCEPT !.data = items,
               !.enc = IF @ = "quicklist" \/ oversized \/ tooBig THEN "quicklist" ELSE @]

getOrCreateList(s0, k) ==
  LET s == Get(s0, k) IN IF s.entries[k] = Nil THEN Set(s, k, EmptyList) ELSE s

\* Get of the list was a hit, so getOrCreateList finds it again.
storeList(s, k, items) ==
  IF items = <<>> THEN Del(s, k) ELSE [s EXCEPT !.entries[k] = replaceAll(@, items)]

------------------------------------------------------------------------------

pushGeneric(s0, c, end) ==
  LET s == getOrCreateList(s0, c.key)  l == s.entries[c.key]
  IN IF WrongType(l, "list") THEN Result(s, Error)
     ELSE Result([s EXCEPT !.entries[c.key] = FoldLeft(LAMBDA x, val : PushAt(end, x, val), l, c.vals)],
                 Integer(Len(l.data) + Len(c.vals)))

lpushCommand(s, c) == pushGeneric(s, c, "LEFT")

rpushCommand(s, c) == pushGeneric(s, c, "RIGHT")

\* LPUSHX and RPUSHX never create the key.
pushxGeneric(s0, c, end) ==
  LET s == Get(s0, c.key)  l == s.entries[c.key]
  IN IF l = Nil THEN Result(s, Integer(0)) ELSE pushGeneric(s0, c, end)

lpushxCommand(s, c) == pushxGeneric(s, c, "LEFT")

rpushxCommand(s, c) == pushxGeneric(s, c, "RIGHT")

\* The element at one end, and the list without it.
Popped(l, side) == IF side = "LEFT" THEN Head(l.data) ELSE Last(l.data)
PopRest(l, side) == [l EXCEPT !.data = IF side = "LEFT" THEN Tail(@) ELSE Front(@)]

\* The state after the pop: an emptied list is deleted.
AfterPop(s, k, side) ==
  LET rest == PopRest(s.entries[k], side)
  IN IF rest.data = <<>> THEN Del(s, k) ELSE [s EXCEPT !.entries[k] = rest]

popGeneric(s0, c, side) ==
  LET s == Get(s0, c.key)  l == s.entries[c.key]
  IN IF l = Nil THEN Result(s, Null)
     ELSE IF WrongType(l, "list") THEN Result(s, Error)
     ELSE Result(AfterPop(s, c.key, side), Bulk(Popped(l, side)))

lpopCommand(s, c) == popGeneric(s, c, "LEFT")

rpopCommand(s, c) == popGeneric(s, c, "RIGHT")

lrangeCommand(s, c) ==
  IF NaI \in {c.start, c.stop} THEN Result(s, Error)
  ELSE Read(s, c.key, "list", Array(<<>>), LAMBDA l : Array(LRange(l.data, c.start, c.stop)))

llenCommand(s, c) == Read(s, c.key, "list", Integer(0), LAMBDA l : Integer(Len(l.data)))

lindexCommand(s, c) ==
  IF c.i = NaI THEN Result(s, Error)
  ELSE Read(s, c.key, "list", Null,
            LAMBDA l : LET i == FromEnd(c.i, Len(l.data)) + 1
                       IN IF i \in DOMAIN l.data THEN Bulk(l.data[i]) ELSE Null)

\* A long element promotes the list before the index is checked.
lsetCommand(s0, c) ==
  LET s   == Get(s0, c.key)
      l   == s.entries[c.key]
      i   == FromEnd(c.i, Len(l.data)) + 1
      new == IF l.enc = "listpack" /\ Len(c.val) > ListMaxListpackValue
             THEN listPromote(l) ELSE l
  IN IF c.i = NaI THEN Result(s0, Error)
     ELSE IF l = Nil \/ WrongType(l, "list") THEN Result(s, Error)
     ELSE IF i \notin DOMAIN l.data THEN Result([s EXCEPT !.entries[c.key] = new], Error)
     ELSE Result([s EXCEPT !.entries[c.key] = [new EXCEPT !.data[i] = c.val]], OK)

linsertCommand(s0, c) ==
  LET s   == Get(s0, c.key)
      l   == s.entries[c.key]
      i   == SelectInSeq(l.data, LAMBDA e : e = c.pivot)
      out == InsertAt(l.data, IF c.where = "AFTER" THEN i + 1 ELSE i, c.val)
  IN IF c.where \notin {"BEFORE", "AFTER"} THEN Result(s0, Error)
     ELSE IF l = Nil THEN Result(s, Integer(0))
     ELSE IF WrongType(l, "list") THEN Result(s, Error)
     ELSE IF i = 0 THEN Result(s, Integer(-1))
     ELSE Result(storeList(s, c.key, out), Integer(Len(out)))

ltrimCommand(s0, c) ==
  LET s == Get(s0, c.key)  l == s.entries[c.key]
  IN IF NaI \in {c.start, c.stop} THEN Result(s0, Error)
     ELSE IF l = Nil THEN Result(s, OK)
     ELSE IF WrongType(l, "list") THEN Result(s, Error)
     ELSE Result(storeList(s, c.key, LRange(l.data, c.start, c.stop)), OK)

\* -count in an int64.
Negated(n) == IF n = MinInt THEN MinInt ELSE -n

\* count > 0 removes from the head, count < 0 from the tail, 0 every match.
LRemIndices(v, count, val) ==
  LET hits  == {i \in DOMAIN v : v[i] = val}
      Before(i) == Cardinality({j \in hits : j < i})
      After(i)  == Cardinality({j \in hits : j > i})
  IN IF count = 0 THEN hits
     ELSE IF count > 0 THEN {i \in hits : Before(i) < count}
     ELSE {i \in hits : After(i) < Negated(count)}

lremCommand(s0, c) ==
  LET s    == Get(s0, c.key)
      l    == s.entries[c.key]
      gone == LRemIndices(l.data, c.count, c.val)
      out  == [i \in 1 .. Len(l.data) |-> i]
  IN IF c.count = NaI THEN Result(s0, Error)
     ELSE IF l = Nil THEN Result(s, Integer(0))
     ELSE IF WrongType(l, "list") THEN Result(s, Error)
     ELSE IF gone = {} THEN Result(s, Integer(0))
     ELSE LET kept == SelectSeq(out, LAMBDA i : i \notin gone)
          IN Result(storeList(s, c.key, [i \in DOMAIN kept |-> l.data[kept[i]]]),
                    Integer(Cardinality(gone)))

\* The positions LPOS reports, in the order it meets them: rank skips matches,
\* a negative rank walks from the tail, maxlen bounds the comparisons.
LPosFound(v, val, rank, count, maxlen) ==
  LET n     == Len(v)
      walk  == [j \in 1 .. n |-> IF rank > 0 THEN j ELSE n + 1 - j]
      seen  == IF maxlen > 0 /\ maxlen < n THEN SubSeq(walk, 1, maxlen) ELSE walk
      hits  == SelectSeq(seen, LAMBDA i : v[i] = val)
      skip  == (IF rank > 0 THEN rank ELSE -rank) - 1
      rest  == IF skip >= Len(hits) THEN <<>> ELSE SubSeq(hits, skip + 1, Len(hits))
  IN IF count > 0 /\ count < Len(rest) THEN SubSeq(rest, 1, count) ELSE rest

\* c.count < 0: COUNT was not given, and one position or nil is the answer.
lposCommand(s, c) ==
  IF c.rank = 0 \/ c.maxlen < 0 THEN Result(s, Error)
  ELSE Read(s, c.key, "list", IF c.count >= 0 THEN Array(<<>>) ELSE Null,
            LAMBDA l : LET found == LPosFound(l.data, c.val, c.rank, c.count, c.maxlen)
                       IN IF c.count >= 0 THEN Array(found)
                          ELSE IF found = <<>> THEN Null ELSE Integer(found[1] - 1))

\* Mutant: the destination is read before the source is popped.
lmoveReadsEarly(s0, c, from, to) ==
  LET s1  == Get(s0, c.key)
      src == s1.entries[c.key]
      s2  == Get(s1, c.dst)
      val == Popped(src, from)
      dst == getOrCreateList(s2, c.dst).entries[c.dst]
      s3  == getOrCreateList(AfterPop(s2, c.key, from), c.dst)
  IN IF {from, to} \ {"LEFT", "RIGHT"} # {} THEN Result(s0, Error)
     ELSE IF src = Nil THEN Result(s1, Null)
     ELSE IF WrongType(src, "list") THEN Result(s1, Error)
     ELSE IF WrongType(s2.entries[c.dst], "list") THEN Result(s2, Error)
     ELSE Result([s3 EXCEPT !.entries[c.dst] =
                    PushAt(to, dst, val)],
                 Bulk(val))

\* The source may be deleted before the destination is created, which for a
\* rotation of a one-element list is the same key.
lmoveGeneric(s0, c, from, to) ==
  LET s1  == Get(s0, c.key)
      src == s1.entries[c.key]
      s2  == Get(s1, c.dst)
      val == Popped(src, from)
      s3  == getOrCreateList(AfterPop(s2, c.key, from), c.dst)
      dst == s3.entries[c.dst]
  IN IF {from, to} \ {"LEFT", "RIGHT"} # {} THEN Result(s0, Error)
     ELSE IF src = Nil THEN Result(s1, Null)
     ELSE IF WrongType(src, "list") THEN Result(s1, Error)
     ELSE IF WrongType(s2.entries[c.dst], "list") THEN Result(s2, Error)
     ELSE Result([s3 EXCEPT !.entries[c.dst] =
                    PushAt(to, dst, val)],
                 Bulk(val))

lmoveCommand(s, c) == lmoveGeneric(s, c, c.from, c.to)

rpoplpushCommand(s, c) == lmoveGeneric(s, c, "RIGHT", "LEFT")

ListWrites == {"lpush", "rpush", "lpop", "rpop", "lset", "linsert", "ltrim", "lrem",
               "lmove", "rpoplpush", "lpushx", "rpushx"}
=============================================================================
