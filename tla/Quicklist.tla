------------------------------- MODULE Quicklist -------------------------------
(***************************************************************************)
(* datastruct/quicklist: a list in nodes of at most NodeCapacity elements, *)
(* with the number of elements kept beside them.  Every method holds the   *)
(* lock of the list, so a call is one step.  The nodes are a sequence: the *)
(* code reaches them only through head, tail, next and prev.               *)
(***************************************************************************)
EXTENDS Integers, Sequences, FiniteSetsExt

CONSTANTS
  NodeCapacity, \* DefaultNodeCapacity
  Calls,        \* what the clients call
  MaxElements   \* no push beyond this

VARIABLES
  nodes, \* the elements of each node, head first
  count, \* ql.count
  op     \* the last call and its answer

vars == <<nodes, count, op>>

\* These are SequencesExt's Last, Front and FlattenSeq, written out so that the
\* provers do not carry the rest of that module along.
Last(s)  == s[Len(s)]
Front(s) == SubSeq(s, 1, Len(s) - 1)
Elements(ns) ==
  LET upTo[j \in 1 .. Len(ns)] == IF j = 1 THEN ns[j] ELSE upTo[j - 1] \o ns[j]
  IN IF Len(ns) = 0 THEN <<>> ELSE upTo[Len(ns)]

Init == nodes = <<>> /\ count = 0 /\ op = [call |-> [name |-> "none"], error |-> FALSE]

Answers(c, reply) == op' = [call |-> c, reply |-> reply]
Fails(c)          == op' = [call |-> c, error |-> TRUE] /\ UNCHANGED <<nodes, count>>

LPush(c) ==
  /\ c.name = "lpush" /\ count < MaxElements
  /\ nodes' = IF nodes = <<>> \/ Len(Head(nodes)) >= NodeCapacity THEN <<<<c.val>>>> \o nodes
              ELSE [nodes EXCEPT ![1] = <<c.val>> \o Head(nodes)]
  /\ count' = IF nodes = <<>> THEN 1 ELSE count + 1
  /\ Answers(c, count')

RPush(c) ==
  /\ c.name = "rpush" /\ count < MaxElements
  /\ nodes' = IF nodes = <<>> \/ Len(Last(nodes)) >= NodeCapacity THEN Append(nodes, <<c.val>>)
              ELSE [nodes EXCEPT ![Len(nodes)] = Append(Last(nodes), c.val)]
  /\ count' = IF nodes = <<>> THEN 1 ELSE count + 1
  /\ Answers(c, count')

LPop(c) ==
  /\ c.name = "lpop"
  /\ IF count = 0 \/ nodes = <<>> THEN Fails(c)
     ELSE LET rest == Tail(Head(nodes))
          IN /\ nodes' = IF rest = <<>> THEN Tail(nodes) ELSE [nodes EXCEPT ![1] = rest]
             /\ count' = count - 1
             /\ Answers(c, Head(Head(nodes)))

RPop(c) ==
  /\ c.name = "rpop"
  /\ IF count = 0 \/ nodes = <<>> THEN Fails(c)
     ELSE LET rest == Front(Last(nodes))
          IN /\ nodes' = IF rest = <<>> THEN Front(nodes) ELSE [nodes EXCEPT ![Len(nodes)] = rest]
             /\ count' = count - 1
             /\ Answers(c, Last(Last(nodes)))

normalizeIndex(i) == IF i < 0 THEN count + i ELSE i

\* The index of the first element of every node, counted along the walk, and
\* behind the last node.
Starts(ns) ==
  LET start[j \in 1 .. Len(ns) + 1] == IF j = 1 THEN 0 ELSE start[j - 1] + Len(ns[j - 1])
  IN start
NodeStart(j) == Starts(nodes)[j]

\* The walk of LRange: from each node that the range touches, its share of it.
LRange(c) ==
  LET start == Max({0, normalizeIndex(c.start)})
      stop  == Min({count - 1, normalizeIndex(c.stop)})
      Share(j) == LET n == Len(nodes[j])  end == NodeStart(j) + n - 1
                      s == IF start > NodeStart(j) THEN start - NodeStart(j) ELSE 0
                      e == IF stop < end THEN stop - NodeStart(j) ELSE n - 1
                  IN IF end < start \/ NodeStart(j) > stop THEN <<>>
                     ELSE SubSeq(nodes[j], s + 1, e + 1)
  IN /\ c.name = "lrange"
     /\ Answers(c, IF count = 0 \/ start > stop \/ start >= count THEN <<>>
                   ELSE Elements([j \in DOMAIN nodes |-> Share(j)]))
     /\ UNCHANGED <<nodes, count>>

\* LIndex and LSet walk to the first node that ends behind the index.
NodeOf(idx) == CHOOSE j \in DOMAIN nodes :
                 NodeStart(j) <= idx /\ idx < NodeStart(j) + Len(nodes[j])

LIndex(c) ==
  LET idx == normalizeIndex(c.i)
  IN /\ c.name = "lindex"
     /\ IF count = 0 \/ idx < 0 \/ idx >= count THEN Fails(c)
        ELSE /\ Answers(c, nodes[NodeOf(idx)][idx - NodeStart(NodeOf(idx)) + 1])
             /\ UNCHANGED <<nodes, count>>

LSet(c) ==
  LET idx == normalizeIndex(c.i)
  IN /\ c.name = "lset"
     /\ IF count = 0 \/ idx < 0 \/ idx >= count THEN Fails(c)
        ELSE /\ nodes' = [nodes EXCEPT ![NodeOf(idx)][idx - NodeStart(NodeOf(idx)) + 1] = c.val]
             /\ Answers(c, TRUE)
             /\ UNCHANGED count

Next == \E c \in Calls : \/ LPush(c) \/ RPush(c) \/ LPop(c) \/ RPop(c)
                         \/ LRange(c) \/ LIndex(c) \/ LSet(c)

Spec == Init /\ [][Next]_vars

------------------------------------------------------------------------------

\* The list the nodes hold.
List == INSTANCE ListSpec WITH list <- Elements(nodes)

\* Whatever was pushed and popped at both ends, and however the elements lie in
\* the nodes, every call answers and leaves what a plain sequence would.
ImplementsList == List!Spec

\* count is the number of elements and no node is empty: LPop reads items[0] of
\* the head, RPop the last of the tail, without looking whether there is one.
NodesFilled ==
  /\ count = Len(Elements(nodes))
  /\ \A j \in DOMAIN nodes : Len(nodes[j]) \in 1 .. NodeCapacity
=============================================================================
