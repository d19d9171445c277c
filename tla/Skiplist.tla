------------------------------- MODULE Skiplist -------------------------------
(***************************************************************************)
(* datastruct/skiplist: a sorted set as a map from member to score and a   *)
(* skiplist.  A node has a tower of levels; on each it knows the next node *)
(* of that level and how many ranks ahead it is (its span).  A call holds  *)
(* the lock of the set, so it is one step.  Members are numbers in the     *)
(* order of their bytes, a node is named by its member, and the header and *)
(* "no node" by the two names below; the header's own member is the empty  *)
(* string, which is EmptyMember when a client may use it.                  *)
(***************************************************************************)
EXTENDS Integers, FiniteSets, Sequences, SequencesExt

CONSTANTS
  MaxLevel,    \* ZSkiplistMaxLevel
  EmptyMember, \* the number that stands for the empty string
  Calls        \* what the clients call

Header == -1
Nil    == -2

VARIABLES
  dict, \* zs.dict
  sl,   \* zs.sl: level, length, tail and the nodes, the header among them
  op    \* the last call and its answer

vars == <<dict, sl, op>>

newZSkiplistNode(level, score) ==
  [score |-> score, backward |-> Nil,
   tower |-> [i \in 1 .. level |-> [forward |-> Nil, span |-> 0]]]

newZSkiplist == [level |-> 1, length |-> 0, tail |-> Nil,
                 nodes |-> Header :> newZSkiplistNode(MaxLevel, 0)]

MemberOf(x)      == IF x = Header THEN EmptyMember ELSE x
Forward(l, x, i) == l.nodes[x].tower[i].forward
Span(l, x, i)    == l.nodes[x].tower[i].span

\* Node x stands before <<score, member>>; with orAt, or is it.
Before(l, x, score, member, orAt) ==
  \/ l.nodes[x].score < score
  \/ l.nodes[x].score = score /\ (x < member \/ (orAt /\ x = member))

\* Where the search leaves each level, from the highest down: the last node of
\* the level before the target, and its rank.
Path(l, score, member, orAt) ==
  LET Along[x \in DOMAIN l.nodes, rank \in Nat, i \in 1 .. l.level] ==
        IF Forward(l, x, i) # Nil /\ Before(l, Forward(l, x, i), score, member, orAt)
        THEN Along[Forward(l, x, i), rank + Span(l, x, i), i]
        ELSE [node |-> x, rank |-> rank]
      Down[i \in 1 .. l.level] ==
        IF i = l.level THEN Along[Header, 0, i]
        ELSE LET above == Down[i + 1] IN Along[above.node, above.rank, i]
  IN [i \in 1 .. l.level |-> Down[i]]

\* Mutant: the levels above the new tower keep their spans.
SkippedForgets(lv) == lv

\* A level above the new tower has one more node to skip.
Skipped(lv) == [lv EXCEPT !.span = @ + 1]

insert(l, score, member, level) ==
  LET path     == Path(l, score, member, FALSE)
      prev(i)  == IF i <= l.level THEN path[i].node ELSE Header
      ahead(i) == path[1].rank - (IF i <= l.level THEN path[i].rank ELSE 0)
      span(i)  == IF i <= l.level THEN Span(l, prev(i), i) ELSE l.length
      tower    == [i \in 1 .. level |->
                     [forward |-> Forward(l, prev(i), i), span |-> span(i) - ahead(i)]]
      new      == [score |-> score, tower |-> tower,
                   backward |-> IF prev(1) = Header THEN Nil ELSE prev(1)]
      top      == Max({level, l.level})
      Relink(p) == [i \in DOMAIN l.nodes[p].tower |->
        IF i > top \/ prev(i) # p THEN l.nodes[p].tower[i]
        ELSE IF i <= level THEN [forward |-> member, span |-> ahead(i) + 1]
        ELSE Skipped(l.nodes[p].tower[i])]
  IN [level |-> top, length |-> l.length + 1,
      tail  |-> IF tower[1].forward = Nil THEN member ELSE l.tail,
      nodes |-> (member :> new) @@
        [p \in DOMAIN l.nodes |-> [l.nodes[p] EXCEPT
           !.tower = Relink(p), !.backward = IF p = tower[1].forward THEN member ELSE @]]]

deleteNode(l, x, path) ==
  LET gone == l.nodes[x]
      next == gone.tower[1].forward
      Relink(p) == [i \in DOMAIN l.nodes[p].tower |->
        IF i > l.level \/ path[i].node # p THEN l.nodes[p].tower[i]
        ELSE IF Forward(l, p, i) = x
             THEN [forward |-> gone.tower[i].forward,
                   span    |-> Span(l, p, i) + gone.tower[i].span - 1]
             ELSE [l.nodes[p].tower[i] EXCEPT !.span = @ - 1]]
      inUse == {i \in 1 .. l.level : Relink(Header)[i].forward # Nil}
  IN [level |-> IF inUse = {} THEN 1 ELSE Max(inUse), length |-> l.length - 1,
      tail  |-> IF next = Nil THEN gone.backward ELSE l.tail,
      nodes |-> [p \in DOMAIN l.nodes \ {x} |-> [l.nodes[p] EXCEPT
        !.tower = Relink(p), !.backward = IF p = next THEN gone.backward ELSE @]]]

\* delete: the list without the member, or as it was when the search misses it.
delete(l, score, member) ==
  LET path == Path(l, score, member, FALSE)
      x    == Forward(l, path[1].node, 1)
  IN IF x # Nil /\ x = member /\ l.nodes[x].score = score THEN deleteNode(l, x, path) ELSE l

\* 1-based; 0 when the search does not meet the member.
getRank(l, score, member) ==
  LET path == Path(l, score, member, TRUE)
      hits == {i \in 1 .. l.level : MemberOf(path[i].node) = member}
  IN IF hits = {} THEN 0 ELSE path[Max(hits)].rank

\* Mutant: the walk stops one node early.
getElementByRankEarly(l, rank) ==
  LET Go[x \in DOMAIN l.nodes, traversed \in Nat, i \in 0 .. l.level] ==
        IF i = 0 THEN x
        ELSE IF Forward(l, x, i) # Nil /\ traversed + Span(l, x, i) < rank
             THEN Go[Forward(l, x, i), traversed + Span(l, x, i), i]
        ELSE Go[x, traversed, i - 1]
      found == Go[Header, 0, l.level]
  IN IF found = Header THEN Nil ELSE found

getElementByRank(l, rank) ==
  LET Go[x \in DOMAIN l.nodes, traversed \in Nat, i \in 0 .. l.level] ==
        IF i = 0 THEN Nil
        ELSE IF Forward(l, x, i) # Nil /\ traversed + Span(l, x, i) <= rank
             THEN Go[Forward(l, x, i), traversed + Span(l, x, i), i]
        ELSE IF traversed = rank THEN x ELSE Go[x, traversed, i - 1]
  IN Go[Header, 0, l.level]

------------------------------------------------------------------------------

Answers(c, reply) == op' = [call |-> c, reply |-> reply]
Fails(c)          == op' = [call |-> c, error |-> TRUE]

Init == dict = <<>> /\ sl = newZSkiplist /\ op = [call |-> [name |-> "none"], error |-> FALSE]

\* randomLevel may give the new node any level.
ZAdd(c) ==
  /\ c.name = "add"
  /\ \/ /\ c.member \notin DOMAIN dict
        /\ \E level \in 1 .. MaxLevel : sl' = insert(sl, c.score, c.member, level)
        /\ dict' = (c.member :> c.score) @@ dict
        /\ Answers(c, "added")
     \/ /\ c.member \in DOMAIN dict /\ dict[c.member] # c.score
        /\ \E level \in 1 .. MaxLevel :
             sl' = insert(delete(sl, dict[c.member], c.member), c.score, c.member, level)
        /\ dict' = [dict EXCEPT ![c.member] = c.score]
        /\ Answers(c, "updated")
     \/ /\ c.member \in DOMAIN dict /\ dict[c.member] = c.score
        /\ Answers(c, "same")
        /\ UNCHANGED <<dict, sl>>

ZRemove(c) ==
  /\ c.name = "remove"
  /\ Answers(c, c.member \in DOMAIN dict)
  /\ IF c.member \in DOMAIN dict
     THEN /\ dict' = [m \in DOMAIN dict \ {c.member} |-> dict[m]]
          /\ sl' = delete(sl, dict[c.member], c.member)
     ELSE UNCHANGED <<dict, sl>>

ZScore(c) ==
  /\ c.name = "score"
  /\ IF c.member \in DOMAIN dict THEN Answers(c, dict[c.member]) ELSE Fails(c)
  /\ UNCHANGED <<dict, sl>>

ZRank(c) ==
  /\ c.name = "rank"
  /\ LET rank == IF c.member \in DOMAIN dict THEN getRank(sl, dict[c.member], c.member) ELSE 0
     IN IF rank = 0 THEN Fails(c)
        ELSE Answers(c, IF c.reverse THEN sl.length - rank ELSE rank - 1)
  /\ UNCHANGED <<dict, sl>>

\* The nodes from x on, at most n of them, forward or backward.
Collect(x, n, reverse) ==
  LET Go[p \in DOMAIN sl.nodes \cup {Nil}, k \in 0 .. n] ==
        IF p = Nil \/ k = 0 THEN <<>>
        ELSE <<<<p, sl.nodes[p].score>>>> \o
             Go[IF reverse THEN sl.nodes[p].backward ELSE Forward(sl, p, 1), k - 1]
  IN Go[x, n]

ZRange(c) ==
  LET start == IF c.start < 0 THEN Max({0, sl.length + c.start}) ELSE c.start
      last  == IF c.stop < 0 THEN sl.length + c.stop ELSE c.stop
      stop  == Min({last, sl.length - 1})
      first == getElementByRank(sl, IF c.reverse THEN sl.length - start ELSE start + 1)
  IN /\ c.name = "range"
     /\ Answers(c, IF start >= sl.length \/ start > last THEN <<>>
                   ELSE Collect(first, stop - start + 1, c.reverse))
     /\ UNCHANGED <<dict, sl>>

Next == \E c \in Calls : ZAdd(c) \/ ZRemove(c) \/ ZScore(c) \/ ZRank(c) \/ ZRange(c)

Spec == Init /\ [][Next]_vars

------------------------------------------------------------------------------

Sorted == INSTANCE ZSetSpec WITH scores <- dict

\* Whatever the random levels were, and whatever was inserted, moved and
\* deleted before, ranks and ranges in both directions are those of the members
\* sorted by score and name.
ImplementsZSet == Sorted!Spec

\* The towers agree with the order: on every level in use, a node's forward is
\* the next node that tall, and its span the distance in ranks; backward pointers
\* and tail mirror level 1; no level above sl.level is in use; the nodes are the
\* members of the map.
TowersAgree ==
  LET pos(x)  == IF x = Header THEN 0 ELSE Sorted!RankOf(x) + 1
      tall(i) == {x \in DOMAIN dict : i \in DOMAIN sl.nodes[x].tower}
      after(x, i) == {y \in tall(i) : pos(y) > pos(x)}
      first(S) == CHOOSE y \in S : \A z \in S : pos(y) <= pos(z)
  IN /\ DOMAIN sl.nodes = DOMAIN dict \cup {Header}
     /\ sl.length = Cardinality(DOMAIN dict)
     /\ \A x \in DOMAIN dict : sl.nodes[x].score = dict[x]
     /\ \A i \in 1 .. MaxLevel : i > sl.level => tall(i) = {}
     /\ \A x \in DOMAIN sl.nodes : \A i \in DOMAIN sl.nodes[x].tower : i <= sl.level =>
          IF after(x, i) = {} THEN Forward(sl, x, i) = Nil
          ELSE LET y == first(after(x, i))
               IN Forward(sl, x, i) = y /\ Span(sl, x, i) = pos(y) - pos(x)
     /\ \A x \in DOMAIN dict : sl.nodes[x].backward =
          (IF pos(x) = 1 THEN Nil ELSE CHOOSE y \in DOMAIN dict : pos(y) = pos(x) - 1)
     /\ sl.tail = (IF dict = <<>> THEN Nil ELSE CHOOSE y \in DOMAIN dict : pos(y) = sl.length)
=============================================================================
