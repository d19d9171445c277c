------------------------------- MODULE ZSetSpec -------------------------------
(***************************************************************************)
(* What a sorted set promises: members with scores, ordered by score and   *)
(* then by member, read by member, by rank and by range of ranks.          *)
(* Members are numbers in the order of their bytes.                        *)
(***************************************************************************)
EXTENDS Integers, FiniteSets, Sequences, SequencesExt

VARIABLES
  scores, \* the score of every member
  op      \* the last call: [call, reply], or [call, error] when it found nothing

vars == <<scores, op>>

Members == DOMAIN scores

Precedes(a, b) == scores[a] < scores[b] \/ (scores[a] = scores[b] /\ a < b)

\* How many members stand before m.
RankOf(m) == Cardinality({a \in Members : Precedes(a, m)})

Ordered == [r \in 1 .. Cardinality(Members) |-> CHOOSE m \in Members : RankOf(m) = r - 1]

Answers(c, reply) == op' = [call |-> c, reply |-> reply]

Init == scores = <<>> /\ op = [call |-> [name |-> "none"], error |-> FALSE]

ZAdd(c) == /\ scores' = (c.member :> c.score) @@ scores
          /\ Answers(c, IF c.member \notin Members THEN "added"
                        ELSE IF scores[c.member] # c.score THEN "updated" ELSE "same")

ZRemove(c) == /\ scores' = [m \in Members \ {c.member} |-> scores[m]]
             /\ Answers(c, c.member \in Members)

ZScore(c) == /\ c.member \in Members
            /\ Answers(c, scores[c.member])
            /\ UNCHANGED scores

ZRank(c) == /\ c.member \in Members
           /\ Answers(c, IF c.reverse THEN Cardinality(Members) - 1 - RankOf(c.member)
                         ELSE RankOf(c.member))
           /\ UNCHANGED scores

Absent(c) == /\ c.member \notin Members
             /\ op' = [call |-> c, error |-> TRUE]
             /\ UNCHANGED scores

Part(c) ==
  LET n    == Cardinality(Members)
      from == IF c.start < 0 THEN Max({0, n + c.start}) ELSE c.start
      to   == Min({n - 1, IF c.stop < 0 THEN n + c.stop ELSE c.stop})
      seq  == IF c.reverse THEN Reverse(Ordered) ELSE Ordered
  IN /\ Answers(c, [i \in 1 .. Max({0, to - from + 1}) |->
                      <<seq[from + i], scores[seq[from + i]]>>])
     /\ UNCHANGED scores

Call(c) ==
  \/ c.name = "add" /\ ZAdd(c)
  \/ c.name = "remove" /\ ZRemove(c)
  \/ c.name = "score" /\ (ZScore(c) \/ Absent(c))
  \/ c.name = "rank" /\ (ZRank(c) \/ Absent(c))
  \/ c.name = "range" /\ Part(c)

Next == Call(op'.call)

Spec == Init /\ [][Next]_vars
=============================================================================
