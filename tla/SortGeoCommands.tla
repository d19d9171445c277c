---------------------------- MODULE SortGeoCommands ----------------------------
(***************************************************************************)
(* SORT (commands/sort.go), and GEOADD, which keeps positions as the       *)
(* scores of a sorted set (commands/geo.go).                               *)
(*                                                                         *)
(* A BY or GET pattern is a record: kind "self" is "#", "const" has no '*',*)
(* "key" maps an element to the key it resolves to, "field" to a key and a *)
(* field.  A position is the integer geo.Encode gives it, NaI a pair of    *)
(* coordinates it refuses.                                                 *)
(***************************************************************************)
EXTENDS BitmapCommands

SelfPattern  == [kind |-> "self"]
ConstPattern == [kind |-> "const"]

\* The value of a pattern for one element, or Null.
lookupPattern(s, p, e) ==
  LET obj == s.entries[p.key[e]]
  IN CASE p.kind = "self"  -> Bulk(e)
       [] p.kind = "const" -> Null
       [] p.kind = "key"   -> IF obj.type = "string" THEN Bulk(obj.data) ELSE Null
       [] p.kind = "field" -> IF obj.type = "hash" /\ p.field[e] \in hashFields(obj)
                              THEN Bulk(hashGet(obj, p.field[e])) ELSE Null

\* The orders in which the source may list its elements.
sortSourceElements(obj) ==
  CASE obj = Nil          -> {<<>>}
    [] obj.type = "list"  -> {obj.data}
    [] obj.type = "set"   -> Orders(obj)
    [] obj.type = "zset"  -> {[i \in DOMAIN obj.data |-> obj.data[i].m]}

\* A stable sort of the elements: the one permutation that respects Less and
\* keeps the order of the others.
StableSort(elements, Less(_, _)) ==
  LET idx == SetToSortSeq(DOMAIN elements,
               LAMBDA i, j : \/ Less(elements[i], elements[j])
                             \/ ~Less(elements[j], elements[i]) /\ i < j)
  IN [i \in DOMAIN idx |-> elements[idx[i]]]

\* Elements are ordered by the number or the text their BY pattern gives; equal
\* numbers are ordered by the element itself, equal texts keep their order.
Weight(w, missing, Of(_)) == IF w = Null THEN missing ELSE Of(w.data)
NumLess(m, n, a, b) == IF m = n THEN LexLess(a, b) ELSE m < n
Sorted(s, c, elements) ==
  LET Text(e) == Weight(lookupPattern(s, c.by, e), <<>>, LAMBDA d : d)
      Num(e)  == Weight(lookupPattern(s, c.by, e), 0, Number)
      sign    == IF c.desc THEN -1 ELSE 1
      ByText(a, b) == LexLess(Text(IF c.desc THEN b ELSE a), Text(IF c.desc THEN a ELSE b))
      ByNum(a, b)  == NumLess(sign * Num(a), sign * Num(b), a, b)
  IN IF c.by.kind = "const" THEN elements
     ELSE IF c.alpha THEN StableSort(elements, ByText) ELSE StableSort(elements, ByNum)

\* Some weight is not a number, and the order is by number.
BadWeight(s, c, elements) ==
  /\ c.by.kind # "const" /\ ~c.alpha
  /\ \E i \in DOMAIN elements : LET w == lookupPattern(s, c.by, elements[i])
                                IN w # Null /\ ~IsInt(w.data)

\* The elements whose weight is looked up: the comparison by text needs two of
\* them, the conversion to numbers stops at the first that fails.
Weighed(s, c, elements) ==
  IF c.alpha /\ Len(elements) < 2 THEN <<>>
  ELSE LET bad == {i \in DOMAIN elements : BadWeight(s, c, <<elements[i]>>)}
       IN IF bad = {} THEN elements ELSE SubSeq(elements, 1, Min(bad))

\* The keys a pattern resolves to are looked up, and reclaimed when expired.
PatternKeys(p, elements) ==
  IF p.kind \in {"key", "field"} THEN [i \in DOMAIN elements |-> p.key[elements[i]]] ELSE <<>>

\* The replies: the elements, or for each what the GET patterns give.
sortReplies(s, c, kept) ==
  IF c.gets = <<>> THEN [i \in DOMAIN kept |-> Bulk(kept[i])]
  ELSE FlattenSeq([i \in DOMAIN kept |->
                     [j \in DOMAIN c.gets |-> lookupPattern(s, c.gets[j], kept[i])]])

\* Answered, or stored as a quicklist whatever its size.
sortDeliver(s, c, out) ==
  LET items == [i \in DOMAIN out |-> IF out[i] = Null THEN <<>> ELSE out[i].data]
  IN IF c.store = <<>> THEN Result(s, Array(out))
     ELSE IF out = <<>> THEN Result(Del(s, c.store[1]), Integer(0))
     ELSE Result(Set(s, c.store[1], [type |-> "list", enc |-> "quicklist", data |-> items]),
                 Integer(Len(out)))

sortGet(s0, c, kept) ==
  LET s == FoldLeft(LAMBDA acc, p : GetAll(acc, PatternKeys(p, kept)), s0, c.gets)
  IN sortDeliver(s, c, sortReplies(s, c, kept))

\* all has every key of the BY pattern looked up, s those up to a bad weight.
sortOrdered(all, s, c, order) ==
  IF BadWeight(all, c, order) THEN Result(s, Error)
  ELSE sortGet(s, c, Limited(Sorted(s, c, order), IF c.offset < 0 THEN 0 ELSE c.offset, c.count))

sortWeighed(s, all, c, order) ==
  sortOrdered(all, GetAll(s, PatternKeys(c.by, Weighed(all, c, order))), c, order)

\* SORT and SORT_RO share the handler, so STORE writes under either name.
sortFrom(s, c) ==
  IF s.entries[c.key].type \in {"string", "hash", "stream"} THEN {Result(s, Error)}
  ELSE {sortWeighed(s, GetAll(s, PatternKeys(c.by, order)), c, order) :
          order \in sortSourceElements(s.entries[c.key])}

sortOutcomes(s0, c) == sortFrom(Get(s0, c.key), c)

------------------------------------------------------------------------------

\* GEOADD creates the key before it reads the coordinates, and adds one element
\* after the other: an invalid position leaves the ones before it added.
\* c.points is a sequence of <<position, member>>.
geoaddCommand(s0, c) ==
  LET s == getOrCreateZSet(s0, c.key)
      z == s.entries[c.key]
      Step(acc, p) ==
        LET exists == p[2] \in zMembers(acc.z)
        IN IF acc.bad THEN acc
           ELSE IF p[1] = NaI THEN [acc EXCEPT !.bad = TRUE]
           ELSE IF (exists /\ "NX" \in c.opts) \/ (~exists /\ "XX" \in c.opts) THEN acc
           ELSE [acc EXCEPT !.z = zAdd(@, p[2], p[1]),
                            !.added = IF exists THEN @ ELSE @ + 1,
                            !.changed = IF exists /\ zScore(acc.z, p[2]) = p[1] THEN @ ELSE @ + 1]
      end == FoldLeft(Step, [z |-> z, added |-> 0, changed |-> 0, bad |-> FALSE], c.points)
  IN IF WrongType(z, "zset") THEN Result(s, Error)
     ELSE Result([s EXCEPT !.entries[c.key] = end.z],
                 IF end.bad THEN Error
                 ELSE Integer(IF "CH" \in c.opts THEN end.changed ELSE end.added))

SortGeoWrites == {"sort", "geoadd"}
=============================================================================
