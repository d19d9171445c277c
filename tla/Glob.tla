-------------------------------- MODULE Glob --------------------------------
(***************************************************************************)
(* Glob patterns (glob/glob.go), which KEYS, SCAN and PSUBSCRIBE match     *)
(* names with.  A pattern is a sequence of bytes; here it is written out   *)
(* from a sequence of tokens, and what those tokens stand for is the       *)
(* reference that the matcher is compared with.                            *)
(***************************************************************************)
EXTENDS Integers, Sequences, SequencesExt, FiniteSets

CONSTANTS
  Tokens,      \* what patterns are made of: subset of DOMAIN Text
  Alphabet,    \* the bytes of the names
  MaxTokens, MaxLength,
  maxNesting   \* how deep stars may nest

VARIABLES
  tokens,   \* the pattern under test
  verdicts  \* Match of that pattern and every name

vars == <<tokens, verdicts>>

\* The bytes that every token is written with.
Text ==
  [star |-> <<"*">>, any |-> <<"?">>, a |-> <<"a">>, b |-> <<"b">>,
   escaped |-> <<"\\", "*">>, class |-> <<"[", "a", "c", "]">>,
   range |-> <<"[", "c", "-", "a", "]">>, not |-> <<"[", "^", "a", "]">>,
   quoted |-> <<"[", "\\", "]", "]">>]

\* The names a token stands for: one byte of a set.
Ord   == [c \in {"a", "b", "c"} |-> CASE c = "a" -> 1 [] c = "b" -> 2 [] c = "c" -> 3]
Means(t) == CASE t = "any" -> Alphabet [] t \in {"a", "b"} -> {t} [] t = "escaped" -> {"*"}
              [] t = "class" -> {"a", "c"} [] t = "range" -> {"a", "b", "c"}
              [] t = "not" -> Alphabet \ {"a"} [] t = "quoted" -> {"]"}

\* Mutant: a range that is written downwards is empty.
BetweenUpwards(lo, c, hi) == c \in DOMAIN Ord /\ Ord[lo] <= Ord[c] /\ Ord[c] <= Ord[hi]

Between(lo, c, hi) ==
  c \in DOMAIN Ord /\ LET x == Ord[lo] y == Ord[hi]
                      IN (x <= Ord[c] /\ Ord[c] <= y) \/ (y <= Ord[c] /\ Ord[c] <= x)

\* matchOne of the class that starts at j: whether it matches c, and the place
\* behind it.
matchOne(p, j, c) ==
  LET neg  == j < Len(p) /\ p[j + 1] = "^"
      from == IF neg THEN j + 2 ELSE j + 1
      walk[k \in from..(Len(p) + 1)] ==
        IF k > Len(p) THEN [matched |-> FALSE, width |-> k - j]
        ELSE IF p[k] = "]" THEN [matched |-> FALSE, width |-> k + 1 - j]
        ELSE LET escape == p[k] = "\\" /\ k + 1 <= Len(p)
                 range  == k + 2 <= Len(p) /\ p[k + 1] = "-" /\ p[k + 2] # "]"
                 hit    == CASE escape -> p[k + 1] = c
                             [] ~escape /\ range -> Between(p[k], c, p[k + 2])
                             [] OTHER -> p[k] = c
                 rest   == walk[CASE escape -> k + 2 [] ~escape /\ range -> k + 3
                                  [] OTHER -> k + 1]
             IN [rest EXCEPT !.matched = @ \/ hit]
      one == walk[from]
  IN [one EXCEPT !.matched = IF neg THEN ~@ ELSE @]

\* matchImpl from pattern byte j and name byte i on, with skipLongerMatches as
\* it is when the call returns.  A star that tried the rest of the name sets it:
\* nothing longer helps the stars around it either.
matchImpl(p, s) ==
  LET answer(b) == [ok |-> b, skip |-> FALSE]
      OnlyStars(j) == \A k \in j..Len(p) : p[k] = "*"
      go[j \in 1..(Len(p) + 1), i \in 1..(Len(s) + 1), nesting \in 0..(Len(p) + 1)] ==
        IF nesting > maxNesting THEN answer(FALSE)
        ELSE IF i > Len(s) THEN answer(OnlyStars(j))
        ELSE IF j > Len(p) THEN answer(FALSE)
        ELSE CASE p[j] = "*" ->
                    IF j < Len(p) /\ p[j + 1] = "*" THEN go[j + 1, i, nesting]
                    ELSE IF j = Len(p) THEN answer(TRUE)
                    ELSE LET try[k \in i..(Len(s) + 1)] ==
                               IF k > Len(s) THEN [ok |-> FALSE, skip |-> TRUE]
                               ELSE LET r == go[j + 1, k, nesting + 1]
                                    IN IF r.ok \/ r.skip THEN r ELSE try[k + 1]
                         IN try[i]
               [] p[j] = "?" -> go[j + 1, i + 1, nesting]
               [] p[j] = "[" -> LET one == matchOne(p, j, s[i])
                                IN IF one.matched THEN go[j + one.width, i + 1, nesting]
                                   ELSE answer(FALSE)
               [] OTHER -> LET k == IF p[j] = "\\" /\ j < Len(p) THEN j + 1 ELSE j
                           IN IF p[k] = s[i] THEN go[k + 1, i + 1, nesting] ELSE answer(FALSE)
  IN go[1, 1, 0]

Match(p, s) == matchImpl(p, s).ok

Names == BoundedSeq(Alphabet, MaxLength)
Spelled(ts) == FlattenSeq([n \in DOMAIN ts |-> Text[ts[n]]])
Verdicts(ts) == {s \in Names : Match(Spelled(ts), s)}

Init == tokens = <<>> /\ verdicts = Verdicts(<<>>)

\* The pattern grows by a token.
Extend(t) ==
  /\ Len(tokens) < MaxTokens
  /\ tokens' = Append(tokens, t)
  /\ verdicts' = Verdicts(tokens')

Next == \E t \in Tokens : Extend(t)
Spec == Init /\ [][Next]_vars

------------------------------------------------------------------------------

\* The names that the tokens stand for.
Language(ts) ==
  LET L[n \in 0..Len(ts)] ==
        IF n = 0 THEN {<<>>}
        ELSE IF ts[n] = "star" THEN {s \in Names : \E k \in 0..Len(s) : SubSeq(s, 1, k) \in L[n - 1]}
        ELSE {s \in Names : s # <<>> /\ Front(s) \in L[n - 1] /\ Last(s) \in Means(ts[n])}
  IN L[Len(ts)]

\* Stars that nest: a run of stars counts once, and the last one not at all.
Nesting(ts) == Cardinality({n \in DOMAIN ts : ts[n] = "star" /\ n < Len(ts) /\ ts[n + 1] # "star"})

\* Giving up early (skipLongerMatches) loses no match: the matcher accepts the
\* names that the pattern stands for, and, past the limit on nested stars, only
\* some of those.
MatchExact ==
  /\ verdicts \subseteq Language(tokens)
  /\ Nesting(tokens) <= maxNesting => verdicts = Language(tokens)
=============================================================================
