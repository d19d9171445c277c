------------------------------- MODULE ListSpec -------------------------------
(***************************************************************************)
(* What a list value promises: a sequence, changed at its ends or at an    *)
(* index, and read by index or by range.  Indices count from 0; where the  *)
(* caller counts from the end, they are negative.  Quicklist and Listpack  *)
(* implement this.                                                         *)
(***************************************************************************)
EXTENDS Integers, Sequences, FiniteSetsExt

VARIABLES
  list, \* the elements
  op    \* the last call: [call, reply], or [call, error] when it found nothing

vars == <<list, op>>

Answers(c, reply) == op' = [call |-> c, reply |-> reply]
Fails(c)          == op' = [call |-> c, error |-> TRUE] /\ UNCHANGED list

\* An index of the caller as a position of the list, 0 when it is outside.
Position(i) == LET p == IF i < 0 THEN Len(list) + i + 1 ELSE i + 1
               IN IF p \in 1 .. Len(list) THEN p ELSE 0

\* The elements from start to stop, both included, what lies outside cut off.
Slice(start, stop) ==
  LET from == IF start < 0 THEN Len(list) + start ELSE start
      to   == IF stop < 0 THEN Len(list) + stop ELSE stop
      inside == {i \in DOMAIN list : from + 1 <= i /\ i <= to + 1}
  IN [i \in 1 .. (IF inside = {} THEN 0 ELSE Max(inside) - Min(inside) + 1) |->
        list[Min(inside) + i - 1]]

Init == list = <<>> /\ op = [call |-> [name |-> "none"], error |-> FALSE]

Push(c) == /\ list' = IF c.name = "lpush" THEN <<c.val>> \o list ELSE Append(list, c.val)
           /\ Answers(c, Len(list'))

Pop(c) == /\ list # <<>>
          /\ list' = IF c.name = "lpop" THEN Tail(list) ELSE SubSeq(list, 1, Len(list) - 1)
          /\ Answers(c, IF c.name = "lpop" THEN Head(list) ELSE list[Len(list)])

Index(c) == /\ Position(c.i) # 0
            /\ Answers(c, list[Position(c.i)])
            /\ UNCHANGED list

Part(c) == Answers(c, Slice(c.start, c.stop)) /\ UNCHANGED list

Set(c) == /\ Position(c.i) # 0
          /\ list' = [list EXCEPT ![Position(c.i)] = c.val]
          /\ Answers(c, TRUE)

Insert(c) == /\ c.i \in 0 .. Len(list)
             /\ list' = SubSeq(list, 1, c.i) \o <<c.val>> \o SubSeq(list, c.i + 1, Len(list))
             /\ Answers(c, Len(list'))

Cut(c) == /\ c.i >= 0 /\ c.n > 0 /\ c.i + c.n <= Len(list)
          /\ list' = SubSeq(list, 1, c.i) \o SubSeq(list, c.i + c.n + 1, Len(list))
          /\ Answers(c, Len(list'))

\* The first of every stride-th element that equals val.
Find(c) == LET at == {i \in DOMAIN list : i > c.start /\ (i - 1 - c.start) % c.stride = 0
                                          /\ list[i] = c.val}
           IN /\ at # {}
              /\ Answers(c, Min(at) - 1)
              /\ UNCHANGED list

Missing(c) ==
  CASE c.name \in {"lpop", "rpop"}   -> list = <<>>
    [] c.name \in {"lindex", "lset"} -> Position(c.i) = 0
    [] c.name = "insert"             -> c.i \notin 0 .. Len(list)
    [] c.name = "cut"                -> c.i < 0 \/ c.n <= 0 \/ c.i + c.n > Len(list)
    [] c.name = "find"               -> \A i \in DOMAIN list : list[i] = c.val =>
                                          i <= c.start \/ (i - 1 - c.start) % c.stride # 0

Call(c) ==
  \/ c.name \in {"lpush", "rpush"} /\ Push(c)
  \/ c.name \in {"lpop", "rpop"} /\ Pop(c)
  \/ c.name = "lindex" /\ Index(c)
  \/ c.name = "lrange" /\ Part(c)
  \/ c.name = "lset" /\ Set(c)
  \/ c.name = "insert" /\ Insert(c)
  \/ c.name = "cut" /\ Cut(c)
  \/ c.name = "find" /\ Find(c)
  \/ c.name \in {"lpop", "rpop", "lindex", "lset", "insert", "cut", "find"} /\ Missing(c) /\ Fails(c)

Next == Call(op'.call)

Spec == Init /\ [][Next]_vars
=============================================================================
