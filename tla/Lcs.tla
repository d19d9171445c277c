--------------------------------- MODULE Lcs ---------------------------------
(***************************************************************************)
(* LCS (commands/lcs.go): the table of lengths, and the walk back through  *)
(* it that gives the subsequence and the ranges it occupies in both        *)
(* values.  The state is the pair of values and what the walk returned.    *)
(***************************************************************************)
EXTENDS Integers, Sequences, SequencesExt, FiniteSets

CONSTANTS
  Alphabet,
  MaxLength   \* bound on the length of the values

VARIABLES a, b, result

vars == <<a, b, result>>

\* table[i][j]: the length for the first i bytes of x and the first j of y.
Table(x, y) ==
  LET at[i \in 0..Len(x), j \in 0..Len(y)] ==
        IF i = 0 \/ j = 0 THEN 0
        ELSE IF x[i] = y[j] THEN at[i - 1, j - 1] + 1
        ELSE IF at[i - 1, j] >= at[i, j - 1] THEN at[i - 1, j] ELSE at[i, j - 1]
  IN [i \in 0..Len(x), j \in 0..Len(y) |-> at[i, j]]

StepsUp(at, i, j) == at[i - 1, j] > at[i, j - 1]

\* The end of a run of equal bytes.
Close(w) ==
  IF w.run = 0 THEN w
  ELSE [w EXCEPT !.matches = Append(@, [aStart |-> w.i, aEnd |-> w.i + w.run - 1,
                                        bStart |-> w.j, bEnd |-> w.j + w.run - 1]),
                 !.run = 0]

\* The walk back from the ends of both values; w.i and w.j bytes are left.
Walk(x, y, at) ==
  LET RECURSIVE From(_)
      From(w) ==
        IF w.i = 0 \/ w.j = 0 THEN w
        ELSE IF x[w.i] = y[w.j]
        THEN From([w EXCEPT !.bytes = Append(@, x[w.i]), !.run = @ + 1, !.i = @ - 1, !.j = @ - 1])
        ELSE LET c == Close(w)
             IN From(IF StepsUp(at, w.i, w.j) THEN [c EXCEPT !.i = @ - 1] ELSE [c EXCEPT !.j = @ - 1])
  IN From([i |-> Len(x), j |-> Len(y), run |-> 0, bytes |-> <<>>, matches |-> <<>>])

lcs(x, y) ==
  LET at == Table(x, y)
      w  == Walk(x, y, at)
  IN [len |-> at[Len(x), Len(y)], bytes |-> Reverse(w.bytes), matches |-> Close(w).matches]

Init == a = <<>> /\ b = <<>> /\ result = lcs(<<>>, <<>>)

\* The values grow; LCS runs on every pair.
GrowA(c) == /\ Len(a) < MaxLength /\ b = <<>>
            /\ a' = Append(a, c) /\ b' = b /\ result' = lcs(a', b)
GrowB(c) == /\ Len(b) < MaxLength
            /\ b' = Append(b, c) /\ a' = a /\ result' = lcs(a, b')

Next == \E c \in Alphabet : GrowA(c) \/ GrowB(c)
Spec == Init /\ [][Next]_vars

------------------------------------------------------------------------------

Subsequences(s) == {[n \in 1..Cardinality(D) |-> s[SetToSortSeq(D, <)[n]]] : D \in SUBSET DOMAIN s}
Common(x, y) == Subsequences(x) \cap Subsequences(y)

\* LCS answers a common subsequence, none is longer, and LEN is its length.
LongestCommon ==
  /\ result.bytes \in Common(a, b)
  /\ Len(result.bytes) = result.len
  /\ \A s \in Common(a, b) : Len(s) <= result.len

\* IDX answers ranges of equal bytes, the last one first, that do not overlap in
\* either value and together make up the subsequence.
RangesSpellIt ==
  LET m == result.matches
      Part(r) == SubSeq(a, r.aStart + 1, r.aEnd + 1)
  IN /\ \A n \in DOMAIN m : Part(m[n]) = SubSeq(b, m[n].bStart + 1, m[n].bEnd + 1)
     /\ \A n \in DOMAIN m : n > 1 => m[n].aEnd < m[n - 1].aStart /\ m[n].bEnd < m[n - 1].bStart
     /\ FlattenSeq([n \in DOMAIN m |-> Part(m[Len(m) + 1 - n])]) = result.bytes
=============================================================================
