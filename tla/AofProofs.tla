------------------------------ MODULE AofProofs ------------------------------
(***************************************************************************)
(* The append-only file for any number of clients, keys, commands and      *)
(* crashes and any size of the buffer.                                     *)
(***************************************************************************)
EXTENDS Aof, TLAPS, WellFoundedInduction

(* The elements of a sequence. *)
LEMMA SeqShape ==
  ASSUME NEW S, NEW s \in Seq(S)
  PROVE  Len(s) \in Nat /\ DOMAIN s = 1 .. Len(s) /\ s \in [1 .. Len(s) -> S]
BY SMT

(* The order of the naturals, as the library's well-founded relation. *)
Below == {ss \in Nat \X Nat : ss[1] < ss[2]}

(* It is the library's. *)
LEMMA BelowIsLess == OpToRel(<, Nat) = Below
BY Zenon DEF OpToRel, Below

(* What holds at 0 and is passed on from n to n + 1 holds up to any bound. *)
LEMMA UpTo ==
  ASSUME NEW S, NEW n \in Nat, 0 \in S, \A i \in 0 .. n - 1 : i \in S => i + 1 \in S
  PROVE  \A i \in 0 .. n : i \in S
<1> SUFFICES ASSUME NEW j \in 0 .. n, j \notin S
             PROVE  FALSE
  BY Zenon
<1> DEFINE T == {i \in Nat : i \in 0 .. n /\ i \notin S}
<1>1. IsWellFoundedOn(Below, Nat)
  BY ZenonT(60), NatLessThanWellFounded, BelowIsLess
<1>2. T \subseteq Nat /\ j \in T
  BY SMT
<1> HIDE DEF T
<1>3. PICK m \in T : \A t \in T : ~ (<<t, m>> \in Below)
  BY Zenon, <1>1, <1>2, WFMin
<1>4. m \in Nat /\ m \in 0 .. n /\ m \notin S /\ m # 0
  BY Zenon, <1>3 DEF T
<1>5. m - 1 \in 0 .. n - 1 /\ m - 1 + 1 = m /\ m - 1 \in Nat /\ m - 1 < m /\ m - 1 \in 0 .. n
  BY <1>4
<1>6. m - 1 \notin S
  BY Zenon, <1>4, <1>5
<1>7. m - 1 \in T
  BY Zenon, <1>5, <1>6 DEF T
<1>8. <<m - 1, m>> \in Below
  BY Zenon, <1>4, <1>5 DEF Below
<1> QED
  BY Zenon, <1>3, <1>7, <1>8

(* Load applies the commands of the file one after the other: the function *)
(* by which Replay is defined satisfies its recursion.                     *)
LEMMA ReplayedSteps ==
  ASSUME NEW b, NEW l, Len(l) \in Nat
  PROVE  LET after == Replayed(b, l)
         IN /\ after[0] = b
            /\ \A n \in 1 .. Len(l) : after[n] = Apply(after[n - 1], l[n])
<1> DEFINE Fits(m, g) == g = [n \in 0 .. m |-> IF n = 0 THEN b ELSE Apply(g[n - 1], l[n])]
           S == {m \in 0 .. Len(l) : \E g : Fits(m, g)}
<1>1. 0 \in S
  <2> DEFINE g == [n \in 0 .. 0 |-> b]
  <2>1. Fits(0, g)
    OBVIOUS
  <2>2. 0 \in 0 .. Len(l)
    OBVIOUS
  <2> QED
    BY Zenon, <2>1, <2>2
<1>2. ASSUME NEW m \in 0 .. Len(l) - 1, m \in S
      PROVE  m + 1 \in S
  <2>1. PICK g : Fits(m, g)
    BY Zenon, <1>2
  <2> DEFINE h == [n \in 0 .. m + 1 |-> IF n <= m THEN g[n] ELSE Apply(g[m], l[m + 1])]
  <2>2. ASSUME NEW n \in 0 .. m + 1
        PROVE  h[n] = IF n = 0 THEN b ELSE Apply(h[n - 1], l[n])
    <3>1. CASE n = 0
      <4>1. g[0] = b
        BY <2>1
      <4> QED
        BY <3>1, <4>1
    <3>2. CASE n # 0 /\ n <= m
      <4>1. n - 1 \in 0 .. m + 1 /\ n - 1 <= m /\ n \in 0 .. m
        BY <3>2
      <4>2. g[n] = Apply(g[n - 1], l[n])
        BY Zenon, <2>1, <3>2, <4>1
      <4>3. h[n] = g[n] /\ h[n - 1] = g[n - 1]
        BY Zenon, <3>2, <4>1
      <4> QED
        BY Zenon, <3>2, <4>2, <4>3
    <3>3. CASE n = m + 1
      <4>1. n # 0 /\ n - 1 = m /\ n - 1 \in 0 .. m + 1 /\ n - 1 <= m /\ ~(n <= m)
        BY <3>3
      <4>2. h[n] = Apply(g[m], l[m + 1]) /\ h[n - 1] = g[n - 1]
        BY Zenon, <4>1
      <4> QED
        BY Zenon, <3>3, <4>1, <4>2
    <3> QED
      BY <3>1, <3>2, <3>3
  <2>3. Fits(m + 1, h)
    <3> HIDE DEF h
    <3>1. h = [n \in 0 .. m + 1 |-> h[n]]
      BY DEF h
    <3> QED
      BY Zenon, <2>2, <3>1
  <2>4. m + 1 \in 0 .. Len(l)
    OBVIOUS
  <2> QED
    BY Zenon, <2>3, <2>4
<1>3. Len(l) \in S
  <2> HIDE DEF S
  <2>1. \A m \in 0 .. Len(l) : m \in S
    BY Zenon, <1>1, <1>2, UpTo
  <2> QED
    BY <2>1
<1>4. Fits(Len(l), Replayed(b, l))
  BY Zenon, <1>3 DEF Replayed
<1>5. ASSUME NEW n \in 0 .. Len(l)
      PROVE  Replayed(b, l)[n] = IF n = 0 THEN b ELSE Apply(Replayed(b, l)[n - 1], l[n])
  BY Zenon, <1>4
<1>6. 0 \in 0 .. Len(l) /\ \A n \in 1 .. Len(l) : n \in 0 .. Len(l) /\ n # 0
  OBVIOUS
<1> QED
  BY Zenon, <1>5, <1>6

-----------------------------------------------------------------------------
(* Sequences of commands, by the set of their elements. *)

\* The numbers of the commands in s; the report of an expired key has none.
Ids(s) == {e.id : e \in Range(s)} \ {0}

\* No command is in s twice.
Distinct(s) ==
  \A i, j \in 1 .. Len(s) : s[i].id = s[j].id /\ s[i].id # 0 => i = j

(* What an element of a sequence is, and what its position. *)
LEMMA RangeMember ==
  ASSUME NEW S, NEW s \in Seq(S)
  PROVE  /\ Len(s) \in Nat /\ DOMAIN s = 1 .. Len(s) /\ Range(s) \subseteq S
         /\ \A i \in 1 .. Len(s) : s[i] \in Range(s)
         /\ \A x \in Range(s) : \E i \in 1 .. Len(s) : x = s[i]
<1>1. Len(s) \in Nat /\ DOMAIN s = 1 .. Len(s) /\ \A i \in 1 .. Len(s) : s[i] \in S
  BY SeqShape
<1> QED
  BY Zenon, <1>1 DEF Range

(* The elements of an empty sequence, and of one with one element. *)
LEMMA RangeSmall ==
  /\ Range(<< >>) = {} /\ Distinct(<< >>) /\ Ids(<< >>) = {}
  /\ \A e : Range(<<e>>) = {e} /\ Distinct(<<e>>)
<1>1. Range(<< >>) = {} /\ Distinct(<< >>)
  BY DEF Range, Distinct
<1>2. Ids(<< >>) = {}
  BY Zenon, <1>1 DEF Ids
<1>3. ASSUME NEW e
      PROVE  Range(<<e>>) = {e} /\ Distinct(<<e>>)
  BY DEF Range, Distinct
<1> QED
  BY Zenon, <1>1, <1>2, <1>3

(* Appending adds one element. *)
LEMMA RangeAppend ==
  ASSUME NEW S, NEW s \in Seq(S), NEW x \in S
  PROVE  /\ Append(s, x) \in Seq(S) /\ Range(Append(s, x)) = Range(s) \cup {x}
         /\ Len(Append(s, x)) = Len(s) + 1 /\ Append(s, x)[Len(s) + 1] = x
         /\ \A i \in 1 .. Len(s) : Append(s, x)[i] = s[i]
<1> DEFINE t == Append(s, x)
<1>1. /\ t \in Seq(S) /\ Len(s) \in Nat /\ Len(t) = Len(s) + 1 /\ t[Len(s) + 1] = x
      /\ \A i \in 1 .. Len(s) : t[i] = s[i]
  BY SeqShape
<1> HIDE DEF t
<1>2. \A i : i \in 1 .. Len(t) <=> i \in 1 .. Len(s) \/ i = Len(s) + 1
  BY <1>1
<1>3. Range(t) = Range(s) \cup {x}
  <2>1. /\ \A i \in 1 .. Len(t) : t[i] \in Range(t)
        /\ \A y \in Range(t) : \E i \in 1 .. Len(t) : y = t[i]
    BY Zenon, <1>1, RangeMember
  <2>2. /\ \A i \in 1 .. Len(s) : s[i] \in Range(s)
        /\ \A y \in Range(s) : \E i \in 1 .. Len(s) : y = s[i]
    BY Zenon, RangeMember
  <2>3. ASSUME NEW y \in Range(t)
        PROVE  y \in Range(s) \cup {x}
    <3>1. PICK i \in 1 .. Len(t) : y = t[i]
      BY Zenon, <2>1, <2>3
    <3>2. CASE i \in 1 .. Len(s)
      BY Zenon, <1>1, <2>2, <3>1, <3>2
    <3>3. CASE i = Len(s) + 1
      BY Zenon, <1>1, <3>1, <3>3
    <3> QED
      BY Zenon, <1>2, <3>2, <3>3
  <2>4. ASSUME NEW y \in Range(s)
        PROVE  y \in Range(t)
    BY Zenon, <1>1, <1>2, <2>1, <2>2, <2>4
  <2>5. x \in Range(t)
    BY Zenon, <1>1, <1>2, <2>1
  <2> QED
    BY Zenon, <2>3, <2>4, <2>5
<1> QED
  BY Zenon, <1>1, <1>3 DEF t

(* A concatenation has the elements of both. *)
LEMMA RangeConcat ==
  ASSUME NEW S, NEW s \in Seq(S), NEW t \in Seq(S)
  PROVE  /\ s \o t \in Seq(S) /\ Range(s \o t) = Range(s) \cup Range(t)
         /\ Len(s \o t) = Len(s) + Len(t)
         /\ \A i \in 1 .. Len(s) : (s \o t)[i] = s[i]
         /\ \A i \in 1 .. Len(t) : (s \o t)[Len(s) + i] = t[i]
<1> DEFINE u == s \o t
<1>1. /\ u \in Seq(S) /\ Len(s) \in Nat /\ Len(t) \in Nat /\ Len(u) = Len(s) + Len(t)
      /\ \A i \in 1 .. Len(u) : u[i] = IF i <= Len(s) THEN s[i] ELSE t[i - Len(s)]
  BY SeqShape
<1> HIDE DEF u
<1>2. /\ \A i \in 1 .. Len(s) : i \in 1 .. Len(u) /\ u[i] = s[i]
      /\ \A i \in 1 .. Len(t) : Len(s) + i \in 1 .. Len(u) /\ u[Len(s) + i] = t[i]
  <2>1. ASSUME NEW i \in 1 .. Len(s)
        PROVE  i \in 1 .. Len(u) /\ u[i] = s[i]
    BY <1>1
  <2>2. ASSUME NEW i \in 1 .. Len(t)
        PROVE  Len(s) + i \in 1 .. Len(u) /\ u[Len(s) + i] = t[i]
    <3>1. /\ Len(s) + i \in 1 .. Len(u) /\ ~(Len(s) + i <= Len(s))
          /\ Len(s) + i - Len(s) = i
      BY <1>1
    <3> QED
      BY <1>1, <3>1
  <2> QED
    BY Zenon, <2>1, <2>2
<1>3. \A i \in 1 .. Len(u) : i \in 1 .. Len(s) \/ \E j \in 1 .. Len(t) : i = Len(s) + j
  <2> TAKE i \in 1 .. Len(u)
  <2>1. CASE i <= Len(s)
    BY <1>1, <2>1
  <2>2. CASE ~(i <= Len(s))
    <3>1. i - Len(s) \in 1 .. Len(t) /\ i = Len(s) + (i - Len(s))
      BY <1>1, <2>2
    <3> QED
      BY Zenon, <3>1
  <2> QED
    BY Zenon, <2>1, <2>2
<1>4. /\ \A i \in 1 .. Len(u) : u[i] \in Range(u)
      /\ \A y \in Range(u) : \E i \in 1 .. Len(u) : y = u[i]
  BY Zenon, <1>1, RangeMember
<1>5. /\ \A i \in 1 .. Len(s) : s[i] \in Range(s)
      /\ \A y \in Range(s) : \E i \in 1 .. Len(s) : y = s[i]
  BY Zenon, RangeMember
<1>6. /\ \A i \in 1 .. Len(t) : t[i] \in Range(t)
      /\ \A y \in Range(t) : \E i \in 1 .. Len(t) : y = t[i]
  BY Zenon, RangeMember
<1>7. ASSUME NEW y \in Range(u)
      PROVE  y \in Range(s) \cup Range(t)
  <2>1. PICK i \in 1 .. Len(u) : y = u[i]
    BY Zenon, <1>4, <1>7
  <2>2. CASE i \in 1 .. Len(s)
    BY Zenon, <1>2, <1>5, <2>1, <2>2
  <2>3. ASSUME NEW j \in 1 .. Len(t), i = Len(s) + j
        PROVE  y \in Range(t)
    <3>1. y = t[j]
      BY Zenon, <1>2, <2>1, <2>3
    <3> QED
      BY Zenon, <1>6, <3>1
  <2> QED
    BY Zenon, <1>3, <2>2, <2>3
<1>8. ASSUME NEW y \in Range(s)
      PROVE  y \in Range(u)
  BY ZenonT(60), <1>2, <1>4, <1>5, <1>8
<1>9. ASSUME NEW y \in Range(t)
      PROVE  y \in Range(u)
  <2>1. PICK j \in 1 .. Len(t) : y = t[j]
    BY Zenon, <1>6, <1>9
  <2>2. Len(s) + j \in 1 .. Len(u) /\ u[Len(s) + j] = y
    BY Zenon, <1>2, <2>1
  <2> QED
    BY Zenon, <1>4, <2>2
<1>10. Range(u) = Range(s) \cup Range(t)
  BY Zenon, <1>7, <1>8, <1>9
<1> QED
  BY Zenon, <1>1, <1>2, <1>10 DEF u

(* A beginning of a sequence has no other elements. *)
LEMMA RangePrefix ==
  ASSUME NEW S, NEW s \in Seq(S), NEW n \in 0 .. Len(s)
  PROVE  /\ SubSeq(s, 1, n) \in Seq(S) /\ Range(SubSeq(s, 1, n)) \subseteq Range(s)
         /\ Len(SubSeq(s, 1, n)) = n
         /\ \A i \in 1 .. n : SubSeq(s, 1, n)[i] = s[i]
<1> DEFINE t == SubSeq(s, 1, n)
<1>1. Len(s) \in Nat /\ n \in Int /\ \A i \in 1 .. n : i \in 1 .. Len(s) /\ s[i] \in S
  BY SeqShape
<1>2. t \in Seq(S) /\ Len(t) = n /\ \A i \in 1 .. n : t[i] = s[i]
  <2>1. /\ t \in Seq(S) /\ Len(t) = IF 1 <= n THEN n - 1 + 1 ELSE 0
        /\ \A i \in 1 .. n - 1 + 1 : t[i] = s[1 + i - 1]
    BY <1>1
  <2> HIDE DEF t
  <2> QED
    BY <1>1, <2>1
<1> HIDE DEF t
<1>3. \A y \in Range(t) : \E i \in 1 .. n : y = t[i]
  BY Zenon, <1>2, RangeMember
<1>4. \A i \in 1 .. Len(s) : s[i] \in Range(s)
  BY Zenon, RangeMember
<1>5. ASSUME NEW y \in Range(t)
      PROVE  y \in Range(s)
  <2>1. PICK i \in 1 .. n : y = t[i]
    BY Zenon, <1>3, <1>5
  <2> QED
    BY Zenon, <1>1, <1>2, <1>4, <2>1
<1> QED
  BY Zenon, <1>2, <1>5 DEF t

(* Numbers in longer and shorter files. *)
LEMMA IdsAppend ==
  ASSUME NEW s \in Seq(Entries), NEW e \in Entries
  PROVE  /\ Ids(Append(s, e)) = Ids(s) \cup ({e.id} \ {0})
         /\ Distinct(s) /\ e.id \notin Ids(s) => Distinct(Append(s, e))
<1> DEFINE t == Append(s, e)
<1>0. Len(s) \in Nat
  BY Zenon, RangeMember
<1>1. /\ Range(t) = Range(s) \cup {e}
      /\ Len(t) = Len(s) + 1 /\ t[Len(s) + 1] = e
      /\ \A i \in 1 .. Len(s) : t[i] = s[i]
  BY RangeAppend
<1> HIDE DEF t
<1>2. Ids(t) = Ids(s) \cup ({e.id} \ {0})
  BY Zenon, <1>1 DEF Ids
<1>3. ASSUME Distinct(s), e.id \notin Ids(s)
      PROVE  Distinct(t)
  <2>1. \A i \in 1 .. Len(t) : i \in 1 .. Len(s) \/ i = Len(s) + 1
    BY <1>0, <1>1
  <2>2. ASSUME NEW i \in 1 .. Len(s), s[i].id # 0
        PROVE  s[i].id # e.id
    <3>1. s[i] \in Range(s)
      BY Zenon, RangeMember
    <3>2. s[i].id \in Ids(s)
      BY Zenon, <2>2, <3>1 DEF Ids
    <3> QED
      BY Zenon, <1>3, <3>2
  <2> SUFFICES ASSUME NEW i \in 1 .. Len(t), NEW j \in 1 .. Len(t),
                      t[i].id = t[j].id, t[i].id # 0
               PROVE  i = j
    BY Zenon DEF Distinct
  <2>3. CASE i \in 1 .. Len(s) /\ j \in 1 .. Len(s)
    <3>1. s[i].id = s[j].id /\ s[i].id # 0
      BY Zenon, <1>1, <2>3
    <3> QED
      BY Zenon, <1>3, <2>3, <3>1 DEF Distinct
  <2>4. CASE i \in 1 .. Len(s) /\ j = Len(s) + 1
    <3>1. t[i] = s[i] /\ t[j] = e
      BY Zenon, <1>1, <2>4
    <3> QED
      BY Zenon, <2>2, <2>4, <3>1
  <2>5. CASE j \in 1 .. Len(s) /\ i = Len(s) + 1
    <3>1. t[j] = s[j] /\ t[i] = e
      BY Zenon, <1>1, <2>5
    <3> QED
      BY Zenon, <2>2, <2>5, <3>1
  <2> QED
    BY Zenon, <2>1, <2>3, <2>4, <2>5
<1> QED
  BY Zenon, <1>2, <1>3 DEF t

(* The same of two files put together. *)
LEMMA IdsConcat ==
  ASSUME NEW s \in Seq(Entries), NEW t \in Seq(Entries)
  PROVE  /\ Ids(s \o t) = Ids(s) \cup Ids(t)
         /\ Distinct(s) /\ Distinct(t) /\ Ids(s) \cap Ids(t) = {} => Distinct(s \o t)
<1> DEFINE u == s \o t
<1>0. Len(s) \in Nat /\ Len(t) \in Nat
  BY Zenon, RangeMember
<1>1. /\ Range(u) = Range(s) \cup Range(t)
      /\ Len(u) = Len(s) + Len(t)
      /\ \A i \in 1 .. Len(s) : u[i] = s[i]
      /\ \A i \in 1 .. Len(t) : u[Len(s) + i] = t[i]
  BY RangeConcat
<1> HIDE DEF u
<1>2. Ids(u) = Ids(s) \cup Ids(t)
  BY Zenon, <1>1 DEF Ids
<1>3. ASSUME Distinct(s), Distinct(t), Ids(s) \cap Ids(t) = {}
      PROVE  Distinct(u)
  <2>1. ASSUME NEW i \in 1 .. Len(u), i \notin 1 .. Len(s)
        PROVE  i - Len(s) \in 1 .. Len(t) /\ u[i] = t[i - Len(s)]
    <3>1. i - Len(s) \in 1 .. Len(t) /\ Len(s) + (i - Len(s)) = i
      BY <1>0, <1>1, <2>1
    <3> QED
      BY Zenon, <1>1, <3>1
  <2>2. ASSUME NEW i \in 1 .. Len(s), NEW j \in 1 .. Len(t), s[i].id # 0
        PROVE  s[i].id # t[j].id
    <3>1. s[i] \in Range(s) /\ t[j] \in Range(t)
      BY Zenon, RangeMember
    <3>2. s[i].id \in Ids(s) /\ (t[j].id # 0 => t[j].id \in Ids(t))
      BY Zenon, <2>2, <3>1 DEF Ids
    <3> QED
      BY Zenon, <1>3, <2>2, <3>2
  <2> SUFFICES ASSUME NEW i \in 1 .. Len(u), NEW j \in 1 .. Len(u),
                      u[i].id = u[j].id, u[i].id # 0
               PROVE  i = j
    BY Zenon DEF Distinct
  <2>3. CASE i \in 1 .. Len(s) /\ j \in 1 .. Len(s)
    <3>1. s[i].id = s[j].id /\ s[i].id # 0
      BY Zenon, <1>1, <2>3
    <3> QED
      BY Zenon, <1>3, <2>3, <3>1 DEF Distinct
  <2>4. CASE i \in 1 .. Len(s) /\ j \notin 1 .. Len(s)
    BY ZenonT(60), <1>1, <2>1, <2>2, <2>4
  <2>5. CASE i \notin 1 .. Len(s) /\ j \in 1 .. Len(s)
    BY ZenonT(60), <1>1, <2>1, <2>2, <2>5
  <2>6. CASE i \notin 1 .. Len(s) /\ j \notin 1 .. Len(s)
    <3>1. /\ i - Len(s) \in 1 .. Len(t) /\ j - Len(s) \in 1 .. Len(t)
          /\ u[i] = t[i - Len(s)] /\ u[j] = t[j - Len(s)]
      BY Zenon, <2>1, <2>6
    <3>2. t[i - Len(s)].id = t[j - Len(s)].id /\ t[i - Len(s)].id # 0
      BY Zenon, <3>1
    <3>3. i - Len(s) = j - Len(s)
      BY Zenon, <1>3, <3>1, <3>2 DEF Distinct
    <3> QED
      BY <1>0, <1>1, <3>3
  <2> QED
    BY Zenon, <2>3, <2>4, <2>5, <2>6
<1> QED
  BY Zenon, <1>2, <1>3 DEF u

(* And of the beginning of one. *)
LEMMA IdsPrefix ==
  ASSUME NEW s \in Seq(Entries), NEW n \in 0 .. Len(s)
  PROVE  /\ Ids(SubSeq(s, 1, n)) \subseteq Ids(s)
         /\ Distinct(s) => Distinct(SubSeq(s, 1, n))
<1> DEFINE t == SubSeq(s, 1, n)
<1>1. /\ Range(t) \subseteq Range(s) /\ Len(t) = n /\ \A i \in 1 .. n : t[i] = s[i]
  BY Zenon, RangePrefix
<1> HIDE DEF t
<1>2. Ids(t) \subseteq Ids(s)
  BY Zenon, <1>1 DEF Ids
<1>3. \A i \in 1 .. n : i \in 1 .. Len(s)
  BY SeqShape
<1>4. ASSUME Distinct(s)
      PROVE  Distinct(t)
  BY Zenon, <1>1, <1>3, <1>4 DEF Distinct
<1> QED
  BY Zenon, <1>2, <1>4 DEF t

-----------------------------------------------------------------------------
(* Keyspaces, and what replaying a file makes of them. *)

\* No key has a number twice.
Once(d) == \A k \in Keys : IsInjective(d[k])

(* A new number keeps a value free of repetitions. *)
LEMMA InjectiveAppend ==
  ASSUME NEW S, NEW s \in Seq(S), NEW x \in S, IsInjective(s), x \notin Range(s)
  PROVE  IsInjective(Append(s, x))
<1> DEFINE t == Append(s, x)
<1>0. /\ Len(s) \in Nat /\ DOMAIN s = 1 .. Len(s)
      /\ \A i \in 1 .. Len(s) : s[i] \in Range(s)
  BY Zenon, RangeMember
<1>1. /\ t \in Seq(S) /\ Len(t) = Len(s) + 1 /\ t[Len(s) + 1] = x
      /\ \A i \in 1 .. Len(s) : t[i] = s[i]
  BY RangeAppend
<1>2. DOMAIN t = 1 .. Len(t)
  BY Zenon, <1>1, RangeMember
<1> HIDE DEF t
<1>3. \A i \in DOMAIN t : i \in 1 .. Len(s) \/ i = Len(s) + 1
  BY <1>0, <1>1, <1>2
<1> SUFFICES ASSUME NEW i \in DOMAIN t, NEW j \in DOMAIN t, t[i] = t[j]
             PROVE  i = j
  BY Zenon DEF IsInjective, t
<1>4. CASE i \in 1 .. Len(s) /\ j \in 1 .. Len(s)
  BY Zenon, <1>0, <1>1, <1>4 DEF IsInjective
<1>5. CASE i \in 1 .. Len(s) /\ j = Len(s) + 1
  BY Zenon, <1>0, <1>1, <1>5
<1>6. CASE j \in 1 .. Len(s) /\ i = Len(s) + 1
  BY Zenon, <1>0, <1>1, <1>6
<1> QED
  BY Zenon, <1>3, <1>4, <1>5, <1>6

(* What one command does. *)
LEMMA ApplyStep ==
  ASSUME NEW d \in Values, NEW e \in Entries
  PROVE  /\ Apply(d, e) \in Values
         /\ \A k \in Keys : k # e.key => Apply(d, e)[k] = d[k]
         /\ e.key \in Keys /\ e.id = 0 => Apply(d, e)[e.key] = << >>
         /\ e.key \in Keys /\ e.id # 0 =>
              Range(Apply(d, e)[e.key]) = Range(d[e.key]) \cup {e.id}
         /\ Once(d) /\ (e.key \in Keys => e.id \notin Range(d[e.key])) => Once(Apply(d, e))
<1>1. CASE e.key \notin Keys
  <2>1. Apply(d, e) = d
    BY Zenon, <1>1 DEF Values, Apply
  <2> QED
    BY Zenon, <1>1, <2>1
<1>2. CASE e.key \in Keys /\ e.id = 0
  <2>1. /\ \A k \in Keys : k # e.key => Apply(d, e)[k] = d[k]
        /\ Apply(d, e)[e.key] = << >>
    BY Zenon, <1>2 DEF Values, Apply
  <2>2. Apply(d, e) \in Values
    <3>1. << >> \in Seq(1 .. MaxCmds)
      BY SMT
    <3> QED
      BY Zenon, <1>2, <3>1 DEF Values, Apply
  <2>3. IsInjective(<< >>)
    BY DEF IsInjective
  <2> QED
    BY Zenon, <1>2, <2>1, <2>2, <2>3 DEF Once
<1>3. CASE e.key \in Keys /\ e.id # 0
  <2> DEFINE S == 1 .. MaxCmds
  <2>1. d[e.key] \in Seq(S) /\ e.id \in S
    BY <1>3, AofAssumption DEF Values, Entries
  <2>2. /\ \A k \in Keys : k # e.key => Apply(d, e)[k] = d[k]
        /\ Apply(d, e) = [d EXCEPT ![e.key] = Append(d[e.key], e.id)]
        /\ Apply(d, e)[e.key] = Append(d[e.key], e.id)
    BY Zenon, <1>3 DEF Values, Apply
  <2> HIDE DEF S
  <2>3. /\ Append(d[e.key], e.id) \in Seq(S)
        /\ Range(Append(d[e.key], e.id)) = Range(d[e.key]) \cup {e.id}
    BY <2>1, RangeAppend
  <2>4. Apply(d, e) \in Values
    BY Zenon, <1>3, <2>2, <2>3 DEF Values, S
  <2>5. ASSUME Once(d), e.id \notin Range(d[e.key])
        PROVE  Once(Apply(d, e))
    <3>1. IsInjective(d[e.key])
      BY Zenon, <1>3, <2>5 DEF Once
    <3>2. IsInjective(Append(d[e.key], e.id))
      BY <2>1, <2>5, <3>1, InjectiveAppend
    <3> QED
      BY Zenon, <2>2, <2>5, <3>2 DEF Once
  <2> QED
    BY Zenon, <1>3, <2>2, <2>3, <2>4, <2>5
<1> QED
  BY Zenon, <1>1, <1>2, <1>3

\* d has only what was in b or is in the first n commands of l.
Within(b, l, n, d) ==
  \A k \in Keys : \A x \in Range(d[k]) :
    x \in Range(b[k]) \/ \E j \in 1 .. n : l[j].key = k /\ l[j].id = x

(* Replaying any number of commands of a file adds nothing of its own. *)
LEMMA ReplayedWithin ==
  ASSUME NEW b \in Values, NEW l \in Seq(Entries), NEW n \in 0 .. Len(l)
  PROVE  Replayed(b, l)[n] \in Values /\ Within(b, l, n, Replayed(b, l)[n])
<1> DEFINE R == Replayed(b, l)
           S == {i \in 0 .. Len(l) : R[i] \in Values /\ Within(b, l, i, R[i])}
<1>0. Len(l) \in Nat /\ \A i \in 1 .. Len(l) : l[i] \in Entries
  BY SeqShape
<1>1. R[0] = b /\ \A i \in 1 .. Len(l) : R[i] = Apply(R[i - 1], l[i])
  BY <1>0, ReplayedSteps
<1> HIDE DEF R
<1>2. 0 \in S
  <2>1. 0 \in 0 .. Len(l)
    BY <1>0
  <2> QED
    BY Zenon, <1>1, <2>1 DEF Within
<1>3. ASSUME NEW i \in 0 .. Len(l) - 1, i \in S
      PROVE  i + 1 \in S
  <2>1. /\ i + 1 \in 1 .. Len(l) /\ i + 1 \in 0 .. Len(l) /\ i + 1 - 1 = i
        /\ i + 1 \in 1 .. i + 1 /\ \A j \in 1 .. i : j \in 1 .. i + 1
    BY <1>0
  <2>2. /\ R[i] \in Values /\ Within(b, l, i, R[i])
        /\ l[i + 1] \in Entries
    <3>1. l[i + 1] \in Entries
      BY Zenon, <1>0, <2>1
    <3> QED
      BY Zenon, <1>3, <3>1
  <2> DEFINE d == R[i]
             e == l[i + 1]
             f == R[i + 1]
  <2>3. d \in Values /\ e \in Entries
    BY Zenon, <2>2
  <2>4. f = Apply(d, e)
    BY <1>1, <2>1
  <2> HIDE DEF d, e, f
  <2>5. /\ f \in Values
        /\ \A k \in Keys : \A x \in Range(f[k]) :
             x \in Range(d[k]) \/ (e.key = k /\ e.id = x)
    <3>1. /\ f \in Values
          /\ \A k \in Keys : k # e.key => f[k] = d[k]
          /\ e.key \in Keys /\ e.id = 0 => f[e.key] = << >>
          /\ e.key \in Keys /\ e.id # 0 => Range(f[e.key]) = Range(d[e.key]) \cup {e.id}
      BY Zenon, <2>3, <2>4, ApplyStep
    <3> SUFFICES ASSUME NEW k \in Keys, NEW x \in Range(f[k])
                 PROVE  x \in Range(d[k]) \/ (e.key = k /\ e.id = x)
      BY Zenon, <3>1
    <3>2. Range(<< >>) = {}
      BY Zenon, RangeSmall
    <3> QED
      BY Zenon, <3>1, <3>2
  <2>6. Within(b, l, i + 1, R[i + 1])
    <3> SUFFICES ASSUME NEW k \in Keys, NEW x \in Range(f[k])
                 PROVE  x \in Range(b[k]) \/ \E j \in 1 .. i + 1 : l[j].key = k /\ l[j].id = x
      BY Zenon DEF Within, f
    <3>1. CASE x \in Range(d[k])
      <4>1. x \in Range(b[k]) \/ \E j \in 1 .. i : l[j].key = k /\ l[j].id = x
        BY ZenonT(60), <2>2, <3>1 DEF Within, d
      <4> QED
        BY Zenon, <2>1, <4>1
    <3>2. CASE e.key = k /\ e.id = x
      BY Zenon, <2>1, <3>2 DEF e
    <3> QED
      BY Zenon, <2>5, <3>1, <3>2
  <2> QED
    BY Zenon, <2>1, <2>5, <2>6 DEF f
<1>4. n \in S
  <2> HIDE DEF S
  <2> QED
    BY Zenon, <1>0, <1>2, <1>3, UpTo
<1> QED
  BY Zenon, <1>4 DEF R

(* A file that has no number twice, and none of the keyspace it starts     *)
(* from, leaves every key without repetitions.                             *)
LEMMA ReplayedOnce ==
  ASSUME NEW b \in Values, NEW l \in Seq(Entries), NEW n \in 0 .. Len(l),
         Once(b), Distinct(l), \A x \in Ids(l) : ~Holds(b, x)
  PROVE  Once(Replayed(b, l)[n])
<1> DEFINE R == Replayed(b, l)
           S == {i \in 0 .. Len(l) : Once(R[i])}
<1>0. Len(l) \in Nat /\ \A i \in 1 .. Len(l) : l[i] \in Entries
  BY SeqShape
<1>1. R[0] = b /\ \A i \in 1 .. Len(l) : R[i] = Apply(R[i - 1], l[i])
  BY <1>0, ReplayedSteps
<1>2. \A i \in 0 .. Len(l) : R[i] \in Values /\ Within(b, l, i, R[i])
  BY Zenon, ReplayedWithin
<1> HIDE DEF R
<1>3. 0 \in S
  <2>1. 0 \in 0 .. Len(l)
    BY <1>0
  <2> QED
    BY Zenon, <1>1, <2>1
<1>4. ASSUME NEW i \in 0 .. Len(l) - 1, i \in S
      PROVE  i + 1 \in S
  <2>1. /\ i \in 0 .. Len(l) /\ i + 1 \in 1 .. Len(l) /\ i + 1 \in 0 .. Len(l)
        /\ \A j \in 1 .. i : j \in 1 .. Len(l) /\ j # i + 1
    BY <1>0
  <2> DEFINE d == R[i]
             e == l[i + 1]
             f == R[i + 1]
  <2>2. d \in Values /\ e \in Entries /\ Within(b, l, i, d) /\ Once(d)
    BY Zenon, <1>0, <1>2, <1>4, <2>1
  <2>3. f = Apply(d, e)
    BY <1>1, <2>1
  <2>4. e.id # 0 => e.id \in Ids(l)
    <3>1. e \in Range(l)
      BY Zenon, <2>1, RangeMember
    <3> QED
      BY Zenon, <3>1 DEF Ids
  <2>5. \A j \in 1 .. i : e.id # 0 => l[j].id # e.id
    BY Zenon, <2>1 DEF Distinct
  <2> HIDE DEF d, e, f
  <2>6. ASSUME e.key \in Keys, e.id \in Range(d[e.key])
        PROVE  FALSE
    <3>1. e.id # 0
      <4>1. d[e.key] \in Seq(1 .. MaxCmds)
        BY Zenon, <2>2, <2>6 DEF Values
      <4>2. e.id \in 1 .. MaxCmds
        BY Zenon, <2>6, <4>1, RangeMember
      <4> QED
        BY <4>2, AofAssumption
    <3>2. \/ e.id \in Range(b[e.key])
          \/ \E j \in 1 .. i : l[j].key = e.key /\ l[j].id = e.id
      BY ZenonT(40), <2>2, <2>6 DEF Within
    <3> QED
      BY Zenon, <2>4, <2>5, <2>6, <3>1, <3>2 DEF Holds
  <2>7. Once(f)
    <3>1. Once(d) /\ (e.key \in Keys => e.id \notin Range(d[e.key])) => Once(Apply(d, e))
      BY Zenon, <2>2, ApplyStep
    <3> QED
      BY Zenon, <2>2, <2>3, <2>6, <3>1
  <2> QED
    BY Zenon, <2>1, <2>7 DEF f
<1>5. n \in S
  <2> HIDE DEF S
  <2> QED
    BY Zenon, <1>0, <1>3, <1>4, UpTo
<1> QED
  BY Zenon, <1>5 DEF R

(* A key that no command of the file deletes keeps what it had and gets    *)
(* what the file has for it.                                               *)
LEMMA ReplayedKeeps ==
  ASSUME NEW b \in Values, NEW l \in Seq(Entries), NEW n \in 0 .. Len(l), NEW k \in Keys,
         \A j \in 1 .. Len(l) : l[j].key = k => l[j].id # 0
  PROVE  /\ Range(b[k]) \subseteq Range(Replayed(b, l)[n][k])
         /\ \A j \in 1 .. n : l[j].key = k => l[j].id \in Range(Replayed(b, l)[n][k])
<1> DEFINE R == Replayed(b, l)
           Kept(i) == /\ Range(b[k]) \subseteq Range(R[i][k])
                      /\ \A j \in 1 .. i : l[j].key = k => l[j].id \in Range(R[i][k])
           S == {i \in 0 .. Len(l) : Kept(i)}
<1>0. Len(l) \in Nat /\ \A i \in 1 .. Len(l) : l[i] \in Entries
  BY SeqShape
<1>1. R[0] = b /\ \A i \in 1 .. Len(l) : R[i] = Apply(R[i - 1], l[i])
  BY <1>0, ReplayedSteps
<1>2. \A i \in 0 .. Len(l) : R[i] \in Values
  BY Zenon, ReplayedWithin
<1> HIDE DEF R
<1>3. 0 \in S
  <2>1. 0 \in 0 .. Len(l) /\ \A j \in 1 .. 0 : FALSE
    BY <1>0
  <2> QED
    BY Zenon, <1>1, <2>1
<1>4. ASSUME NEW i \in 0 .. Len(l) - 1, i \in S
      PROVE  i + 1 \in S
  <2>1. /\ i \in 0 .. Len(l) /\ i + 1 \in 1 .. Len(l) /\ i + 1 \in 0 .. Len(l)
        /\ \A j \in 1 .. i + 1 : j \in 1 .. i \/ j = i + 1
    BY <1>0
  <2> DEFINE d == R[i]
             e == l[i + 1]
             f == R[i + 1]
  <2>2. d \in Values /\ e \in Entries /\ Kept(i) /\ (e.key = k => e.id # 0)
    BY Zenon, <1>0, <1>2, <1>4, <2>1
  <2>3. f = Apply(d, e)
    BY <1>1, <2>1
  <2>4. Range(f[k]) = IF e.key = k THEN Range(d[k]) \cup {e.id} ELSE Range(d[k])
    <3> HIDE DEF d, e, f
    <3>1. /\ \A kk \in Keys : kk # e.key => f[kk] = d[kk]
          /\ e.key \in Keys /\ e.id # 0 => Range(f[e.key]) = Range(d[e.key]) \cup {e.id}
      BY Zenon, <2>2, <2>3, ApplyStep
    <3>2. CASE e.key = k
      BY Zenon, <2>2, <3>1, <3>2
    <3>3. CASE e.key # k
      BY Zenon, <3>1, <3>3
    <3> QED
      BY Zenon, <3>2, <3>3
  <2>5. Range(d[k]) \subseteq Range(f[k]) /\ (e.key = k => e.id \in Range(f[k]))
    BY <2>4
  <2>6. Kept(i + 1)
    <3>1. Range(b[k]) \subseteq Range(R[i + 1][k])
      BY Zenon, <2>2, <2>5
    <3>2. ASSUME NEW j \in 1 .. i + 1, l[j].key = k
          PROVE  l[j].id \in Range(R[i + 1][k])
      BY Zenon, <2>1, <2>2, <2>5, <3>2
    <3> QED
      BY Zenon, <3>1, <3>2
  <2> QED
    BY Zenon, <2>1, <2>6
<1>5. n \in S
  <2> HIDE DEF S
  <2> QED
    BY Zenon, <1>0, <1>3, <1>4, UpTo
<1> QED
  BY Zenon, <1>5 DEF R

(* Load reads no more than there is, and all of it if nothing was torn. *)
LEMMA ReadableCount ==
  ASSUME NEW l \in Seq(Entries)
  PROVE  /\ Readable(l) \in 0 .. Len(l)
         /\ (\A j \in 1 .. Len(l) : l[j].key # None) => Readable(l) = Len(l)
<1> DEFINE Whole(n) == \A i \in 1 .. n : l[i] # Torn
           Ends(n) == n = Len(l) \/ l[n + 1] = Torn
           S == {n \in 0 .. Len(l) : Whole(n)}
<1>1. Len(l) \in Nat
  BY SeqShape
<1>2. \E n \in 0 .. Len(l) : Ends(n) /\ Whole(n)
  <2> SUFFICES ASSUME \A n \in 0 .. Len(l) : ~(Ends(n) /\ Whole(n))
               PROVE  FALSE
    BY Zenon
  <2>1. 0 \in S
    BY <1>1
  <2>2. \A n \in 0 .. Len(l) - 1 : n \in S => n + 1 \in S
    BY <1>1
  <2> HIDE DEF S
  <2>3. \A n \in 0 .. Len(l) : n \in S
    BY Zenon, <1>1, <2>1, <2>2, UpTo
  <2>4. Len(l) \in 0 .. Len(l)
    BY <1>1
  <2> QED
    BY Zenon, <2>3, <2>4 DEF S
<1>3. Readable(l) \in 0 .. Len(l) /\ Ends(Readable(l))
  BY Zenon, <1>2 DEF Readable
<1>4. ASSUME \A j \in 1 .. Len(l) : l[j].key # None
      PROVE  Readable(l) = Len(l)
  <2>1. \A j \in 1 .. Len(l) : l[j] # Torn
    BY <1>4 DEF Torn, Nothing
  <2>2. Readable(l) # Len(l) => Readable(l) + 1 \in 1 .. Len(l)
    BY <1>1, <1>3
  <2> QED
    BY Zenon, <1>3, <2>1, <2>2
<1> QED
  BY Zenon, <1>3, <1>4

(* What a restart makes of a file. *)
LEMMA ReplayTypes ==
  ASSUME NEW b \in Values, NEW l \in Seq(Entries)
  PROVE  /\ Replay(b, l) \in Values
         /\ \A k \in Keys : \A x \in Range(Replay(b, l)[k]) :
              x \in Range(b[k]) \/ (x \in Ids(l) /\ \E e \in Range(l) : e.key = k /\ e.id = x)
<1> DEFINE n == Readable(l)
           R == Replayed(b, l)
<1>1. n \in 0 .. Len(l)
  BY Zenon, ReadableCount
<1>2. Len(l) \in Nat /\ \A j \in 1 .. Len(l) : l[j] \in Range(l)
  BY Zenon, RangeMember
<1>3. \A j \in 1 .. n : j \in 1 .. Len(l)
  BY <1>1, <1>2
<1> HIDE DEF n, R
<1>4. R[n] \in Values /\ Within(b, l, n, R[n])
  BY Zenon, <1>1, ReplayedWithin DEF R
<1>5. ASSUME NEW k \in Keys, NEW x \in Range(R[n][k]), x \notin Range(b[k])
      PROVE  x \in Ids(l) /\ \E e \in Range(l) : e.key = k /\ e.id = x
  <2>1. PICK j \in 1 .. n : l[j].key = k /\ l[j].id = x
    BY ZenonT(60), <1>4, <1>5 DEF Within
  <2>2. x # 0
    <3>1. R[n][k] \in Seq(1 .. MaxCmds)
      BY Zenon, <1>4 DEF Values
    <3>2. x \in 1 .. MaxCmds
      BY Zenon, <1>5, <3>1, RangeMember
    <3> QED
      BY <3>2, AofAssumption
  <2> QED
    BY Zenon, <1>2, <1>3, <2>1, <2>2 DEF Ids
<1> QED
  BY ZenonT(40), <1>4, <1>5 DEF Replay, R, n

(* Nothing is applied twice, when no command is in the file twice. *)
LEMMA ReplayOnce ==
  ASSUME NEW b \in Values, NEW l \in Seq(Entries),
         Once(b), Distinct(l), \A x \in Ids(l) : ~Holds(b, x)
  PROVE  Once(Replay(b, l))
<1>1. Readable(l) \in 0 .. Len(l)
  BY Zenon, ReadableCount
<1> QED
  BY Zenon, <1>1, ReplayedOnce DEF Replay

-----------------------------------------------------------------------------
(* First invariant: the types, and that whatever the server holds of a     *)
(* command, in memory or in a file, is what was issued under its number.   *)

KnownIn(d, cs) ==
  \A k \in Keys : \A i \in Range(d[k]) : i \in DOMAIN cs /\ cs[i].key = k
KnownLog(l, cs) ==
  \A e \in Range(l) : e.id # 0 => e.id \in DOMAIN cs /\ cs[e.id] = e

MemOK == db \in Values /\ KnownIn(db, cmds)
FileOK ==
  /\ base \in Values /\ log \in Seq(Entries) /\ synced \in 0 .. Len(log) /\ buf \in Seq(Entries)
  /\ KnownIn(base, cmds) /\ KnownLog(log, cmds) /\ KnownLog(buf, cmds)
RewriteOK ==
  /\ temp \in [base : Values, log : Seq(Entries)] /\ rewriteBuf \in Seq(Entries)
  /\ KnownIn(temp.base, cmds) /\ KnownLog(temp.log, cmds) /\ KnownLog(rewriteBuf, cmds)
  /\ \A e \in Range(temp.log) \cup Range(rewriteBuf) : e.key \in Keys
ClientsOK ==
  /\ DOMAIN pc = Clients /\ batch \in [Clients -> Seq(Keys)] /\ cur \in [Clients -> Entries]
  /\ gone \in Seq(Keys) /\ cmds \in Seq(Entries) /\ Len(cmds) <= MaxCmds
  /\ \A c \in Clients : pc[c] # "idle" =>
       cur[c].id \in DOMAIN cmds /\ cmds[cur[c].id] = cur[c] /\ cur[c].key \in Keys

Traced == MemOK /\ FileOK /\ RewriteOK /\ ClientsOK

(* Numbers start at 1. *)
LEMMA NoZero ==
  ASSUME NEW d \in Values, NEW cs \in Seq(Entries)
  PROVE  0 \notin DOMAIN cs /\ \A k \in Keys : 0 \notin Range(d[k])
<1>1. 0 \notin DOMAIN cs
  <2>1. DOMAIN cs = 1 .. Len(cs) /\ Len(cs) \in Nat
    BY Zenon, RangeMember
  <2> QED
    BY <2>1
<1>2. ASSUME NEW k \in Keys, 0 \in Range(d[k])
      PROVE  FALSE
  <2>1. d[k] \in Seq(1 .. MaxCmds)
    BY Zenon DEF Values
  <2>2. 0 \in 1 .. MaxCmds
    BY Zenon, <1>2, <2>1, RangeMember
  <2> QED
    BY <2>2, AofAssumption
<1> QED
  BY Zenon, <1>1, <1>2

(* What was issued stays what it was. *)
LEMMA CmdsGrow ==
  ASSUME NEW cs \in Seq(Entries), NEW e \in Entries
  PROVE  /\ Append(cs, e) \in Seq(Entries) /\ Len(Append(cs, e)) = Len(cs) + 1
         /\ DOMAIN Append(cs, e) = DOMAIN cs \cup {Len(cs) + 1}
         /\ Len(cs) + 1 \notin DOMAIN cs /\ Append(cs, e)[Len(cs) + 1] = e
         /\ \A i \in DOMAIN cs : Append(cs, e)[i] = cs[i]
<1>1. Len(cs) \in Nat /\ DOMAIN cs = 1 .. Len(cs)
  BY Zenon, RangeMember
<1> DEFINE t == Append(cs, e)
<1>2. /\ t \in Seq(Entries) /\ Len(t) = Len(cs) + 1 /\ t[Len(cs) + 1] = e
      /\ \A i \in 1 .. Len(cs) : t[i] = cs[i]
  BY RangeAppend
<1> HIDE DEF t
<1>3. DOMAIN t = 1 .. Len(cs) + 1
  BY Zenon, <1>2, RangeMember
<1>4. 1 .. Len(cs) + 1 = (1 .. Len(cs)) \cup {Len(cs) + 1} /\ Len(cs) + 1 \notin 1 .. Len(cs)
  BY <1>1
<1> QED
  BY Zenon, <1>1, <1>2, <1>3, <1>4 DEF t

(* What is known stays known when a command is issued. *)
LEMMA KnownGrows ==
  ASSUME NEW cs \in Seq(Entries), NEW e \in Entries, NEW d, NEW l
  PROVE  /\ KnownIn(d, cs) => KnownIn(d, Append(cs, e))
         /\ KnownLog(l, cs) => KnownLog(l, Append(cs, e))
<1>1. \A i \in DOMAIN cs : i \in DOMAIN Append(cs, e) /\ Append(cs, e)[i] = cs[i]
  <2>1. /\ DOMAIN Append(cs, e) = DOMAIN cs \cup {Len(cs) + 1}
        /\ \A i \in DOMAIN cs : Append(cs, e)[i] = cs[i]
    BY Zenon, CmdsGrow
  <2> QED
    BY Zenon, <2>1
<1>2. ASSUME KnownIn(d, cs)
      PROVE  KnownIn(d, Append(cs, e))
  BY Zenon, <1>1, <1>2 DEF KnownIn
<1>3. ASSUME KnownLog(l, cs)
      PROVE  KnownLog(l, Append(cs, e))
  BY Zenon, <1>1, <1>3 DEF KnownLog
<1> QED
  BY Zenon, <1>2, <1>3

(* What flushing makes of the file. *)
LEMMA FlushTypes ==
  ASSUME log \in Seq(Entries), buf \in Seq(Entries), synced \in 0 .. Len(log)
  PROVE  /\ Flushed \in Seq(Entries) /\ Range(Flushed) \subseteq Range(log) \cup Range(buf)
         /\ synced \in 0 .. Len(Flushed) /\ Len(Flushed) \in 0 .. Len(Flushed)
<1> DEFINE u == log \o buf
<1>1. u \in Seq(Entries) /\ Range(u) = Range(log) \cup Range(buf) /\ Len(u) = Len(log) + Len(buf)
  BY RangeConcat
<1>2. Len(log) \in Nat /\ Len(buf) \in Nat
  BY SeqShape
<1> HIDE DEF u
<1>3. synced \in 0 .. Len(u) /\ Len(u) \in 0 .. Len(u) /\ Len(log) \in 0 .. Len(log)
  BY <1>1, <1>2
<1>4. CASE open
  BY Zenon, <1>1, <1>3, <1>4 DEF Flushed, u
<1>5. CASE ~open
  <2>1. Range(log) \subseteq Range(log) \cup Range(buf)
    BY Zenon
  <2> QED
    BY Zenon, <1>3, <1>5, <2>1 DEF Flushed
<1> QED
  BY Zenon, <1>4, <1>5

(* What writing one more command does to the file and the buffer. *)
LEMMA WriteTypes ==
  ASSUME log \in Seq(Entries), buf \in Seq(Entries), synced \in 0 .. Len(log),
         NEW e \in Entries, Write(e)
  PROVE  /\ log' \in Seq(Entries) /\ buf' \in Seq(Entries) /\ synced \in 0 .. Len(log')
         /\ \A x \in Range(log') \cup Range(buf') : x \in Range(log) \cup Range(buf) \/ x = e
<1>0. /\ Flushed \in Seq(Entries) /\ Range(Flushed) \subseteq Range(log) \cup Range(buf)
      /\ synced \in 0 .. Len(Flushed)
  BY Zenon, FlushTypes
<1>1. Len(log) \in Nat /\ Len(Flushed) \in Nat
  BY <1>0, SeqShape
<1>2. /\ << >> \in Seq(Entries) /\ Range(<< >>) = {}
      /\ <<e>> \in Seq(Entries) /\ Range(<<e>>) = {e}
  <2>1. << >> \in Seq(Entries) /\ <<e>> \in Seq(Entries)
    BY SMT
  <2> QED
    BY Zenon, <2>1, RangeSmall
<1> DEFINE t == Append(Flushed, e)
           v == Append(buf, e)
<1>3. t \in Seq(Entries) /\ Range(t) = Range(Flushed) \cup {e} /\ Len(t) = Len(Flushed) + 1
  BY <1>0, RangeAppend
<1>4. v \in Seq(Entries) /\ Range(v) = Range(buf) \cup {e}
  BY RangeAppend
<1> HIDE DEF t, v
<1>5. synced \in 0 .. Len(t)
  BY <1>0, <1>1, <1>3
<1>6. CASE Big(e) \/ Len(buf) = BufSize
  <2>1. log' = t \/ log' = Flushed
    BY Zenon, <1>6 DEF Write, t
  <2>2. buf' = << >> \/ buf' = <<e>>
    BY Zenon, <1>6 DEF Write
  <2>3. log' \in Seq(Entries) /\ buf' \in Seq(Entries) /\ synced \in 0 .. Len(log')
    BY Zenon, <1>0, <1>2, <1>3, <1>5, <2>1, <2>2
  <2>4. \A x \in Range(log') : x \in Range(log) \cup Range(buf) \/ x = e
    BY Zenon, <1>0, <1>3, <2>1
  <2>5. \A x \in Range(buf') : x = e
    BY Zenon, <1>2, <2>2
  <2> QED
    BY Zenon, <2>3, <2>4, <2>5
<1>7. CASE ~(Big(e) \/ Len(buf) = BufSize)
  <2>1. log' = log /\ buf' = v
    BY Zenon, <1>7 DEF Write, v
  <2> QED
    BY Zenon, <1>4, <2>1
<1> QED
  BY Zenon, <1>6, <1>7

\* A step that flushes, one that writes, one that notes, one that only moves a client.
Flushes == log' = Flushed /\ buf' = << >> /\ base' = base /\ synced' \in {synced, Len(Flushed)}
Writes(e) == Write(e) /\ base' = base /\ synced' = synced
Moves(c) ==
  /\ c \in Clients /\ pc[c] # "idle" /\ \E l : pc' = [pc EXCEPT ![c] = l]
  /\ UNCHANGED <<batch, cur, gone, cmds>>

(* A flush keeps the types of the file. *)
LEMMA FlushesOK ==
  ASSUME FileOK, Flushes, UNCHANGED cmds
  PROVE  FileOK'
<1>0. base \in Values /\ log \in Seq(Entries) /\ synced \in 0 .. Len(log) /\ buf \in Seq(Entries)
  BY Zenon DEF FileOK
<1>1. /\ Flushed \in Seq(Entries) /\ Range(Flushed) \subseteq Range(log) \cup Range(buf)
      /\ synced \in 0 .. Len(Flushed) /\ Len(Flushed) \in 0 .. Len(Flushed)
  BY Zenon, <1>0, FlushTypes
<1>2. /\ base' \in Values /\ log' \in Seq(Entries) /\ synced' \in 0 .. Len(log')
      /\ KnownIn(base, cmds)'
  BY Zenon, <1>0, <1>1 DEF Flushes, FileOK
<1>3. KnownLog(log, cmds)'
  BY Zenon, <1>1 DEF Flushes, FileOK, KnownLog
<1>4. << >> \in Seq(Entries)
  BY SMT
<1>5. KnownLog(buf, cmds)'
  BY Zenon, RangeSmall DEF Flushes, KnownLog
<1> QED
  BY Zenon, <1>2, <1>3, <1>4, <1>5 DEF Flushes, FileOK

(* Writing a command that is known keeps them. *)
LEMMA WritesOK ==
  ASSUME FileOK, NEW e \in Entries, Writes(e), UNCHANGED cmds,
         e.id # 0 => e.id \in DOMAIN cmds /\ cmds[e.id] = e
  PROVE  FileOK'
<1>0. base \in Values /\ log \in Seq(Entries) /\ synced \in 0 .. Len(log) /\ buf \in Seq(Entries)
  BY Zenon DEF FileOK
<1>1. /\ log' \in Seq(Entries) /\ buf' \in Seq(Entries) /\ synced \in 0 .. Len(log')
      /\ \A x \in Range(log') \cup Range(buf') : x \in Range(log) \cup Range(buf) \/ x = e
  BY Zenon, <1>0, WriteTypes DEF Writes
<1>2. KnownIn(base, cmds)'
  BY Zenon DEF Writes, FileOK
<1>3. \A x \in Range(log) \cup Range(buf) \cup {e} : x.id # 0 => x.id \in DOMAIN cmds /\ cmds[x.id] = x
  BY Zenon DEF FileOK, KnownLog
<1>4. KnownLog(log, cmds)'
  BY Zenon, <1>1, <1>3 DEF KnownLog
<1>5. KnownLog(buf, cmds)'
  BY Zenon, <1>1, <1>3 DEF KnownLog
<1> QED
  BY Zenon, <1>0, <1>1, <1>2, <1>4, <1>5 DEF Writes, FileOK

(* Noting a command that is known keeps those of the rewrite. *)
LEMMA NotesOK ==
  ASSUME RewriteOK, NEW e \in Entries, Note(e), temp' = temp, UNCHANGED cmds, e.key \in Keys,
         e.id # 0 => e.id \in DOMAIN cmds /\ cmds[e.id] = e
  PROVE  RewriteOK'
<1>1. CASE rewriteBuf' = rewriteBuf
  BY Zenon, <1>1 DEF RewriteOK
<1>2. CASE rewriteBuf' = Append(rewriteBuf, e)
  <2>0. rewriteBuf \in Seq(Entries)
    BY Zenon DEF RewriteOK
  <2>1. rewriteBuf' \in Seq(Entries) /\ Range(rewriteBuf') = Range(rewriteBuf) \cup {e}
    BY <1>2, <2>0, RangeAppend
  <2>2. KnownLog(rewriteBuf, cmds)'
    BY Zenon, <2>1 DEF RewriteOK, KnownLog
  <2>3. \A x \in Range(rewriteBuf') : x.key \in Keys
    BY Zenon, <2>1 DEF RewriteOK
  <2> QED
    BY Zenon, <2>1, <2>2, <2>3 DEF RewriteOK
<1> QED
  BY Zenon, <1>1, <1>2 DEF Note

(* A client that moves on with its command keeps its own. *)
LEMMA MovesOK ==
  ASSUME ClientsOK, NEW c, Moves(c)
  PROVE  ClientsOK'
<1>1. PICK l : pc' = [pc EXCEPT ![c] = l]
  BY Zenon DEF Moves
<1>2. DOMAIN pc' = Clients /\ \A d \in Clients : d # c => pc'[d] = pc[d]
  BY Zenon, <1>1 DEF ClientsOK
<1>3. ASSUME NEW d \in Clients, pc'[d] # "idle"
      PROVE  pc[d] # "idle"
  BY Zenon, <1>2, <1>3 DEF Moves
<1> QED
  BY Zenon, <1>2, <1>3 DEF ClientsOK, Moves

(* A new command gets a number nothing has. *)
LEMMA IssuesOK ==
  ASSUME ClientsOK, NEW c \in Clients, NEW k \in Keys, NEW tx, tx \in 0 .. MaxCmds \/ tx = Len(cmds) + 1,
         Issue(c, k, tx), Goto(c, "apply"), batch' \in [Clients -> Seq(Keys)], gone' = gone
  PROVE  /\ ClientsOK'
         /\ MemOK /\ UNCHANGED db => MemOK'
         /\ FileOK /\ UNCHANGED <<base, log, synced, buf>> => FileOK'
         /\ RewriteOK /\ UNCHANGED <<rewriteBuf, temp>> => RewriteOK'
<1> DEFINE e == [key |-> k, id |-> Len(cmds) + 1, by |-> c, tx |-> tx]
<1>1. cmds \in Seq(Entries) /\ Len(cmds) \in Nat
  <2>1. cmds \in Seq(Entries)
    BY Zenon DEF ClientsOK
  <2> QED
    BY Zenon, <2>1, RangeMember
<1>2. /\ Len(cmds) + 1 <= MaxCmds /\ cmds' = Append(cmds, e)
      /\ cur' = [cur EXCEPT ![c] = e]
      /\ Len(cmds) + 1 \in 0 .. MaxCmds
  BY <1>1, AofAssumption DEF Issue
<1>3. e \in Entries /\ e.id = Len(cmds) + 1 /\ e.key = k
  BY <1>2 DEF Entries
<1> HIDE DEF e
<1>4. /\ cmds' \in Seq(Entries) /\ Len(cmds') = Len(cmds) + 1
      /\ DOMAIN cmds' = DOMAIN cmds \cup {Len(cmds) + 1} /\ cmds'[Len(cmds) + 1] = e
      /\ \A i \in DOMAIN cmds : cmds'[i] = cmds[i]
  <2>1. /\ Append(cmds, e) \in Seq(Entries) /\ Len(Append(cmds, e)) = Len(cmds) + 1
        /\ DOMAIN Append(cmds, e) = DOMAIN cmds \cup {Len(cmds) + 1}
        /\ Append(cmds, e)[Len(cmds) + 1] = e
        /\ \A i \in DOMAIN cmds : Append(cmds, e)[i] = cmds[i]
    BY Zenon, <1>1, <1>3, CmdsGrow
  <2> QED
    BY Zenon, <1>2, <2>1
<1>5. ClientsOK'
  <2>1. /\ DOMAIN pc' = Clients /\ cur' \in [Clients -> Entries]
        /\ cur'[c] = e /\ \A d \in Clients : d # c => pc'[d] = pc[d] /\ cur'[d] = cur[d]
    BY Zenon, <1>2, <1>3 DEF ClientsOK, Goto
  <2>2. ASSUME NEW d \in Clients, pc'[d] # "idle"
        PROVE  cur'[d].id \in DOMAIN cmds' /\ cmds'[cur'[d].id] = cur'[d] /\ cur'[d].key \in Keys
    <3>1. CASE d = c
      BY Zenon, <1>3, <1>4, <2>1, <3>1
    <3>2. CASE d # c
      <4>1. cur[d].id \in DOMAIN cmds /\ cmds[cur[d].id] = cur[d] /\ cur[d].key \in Keys
        BY Zenon, <2>1, <2>2, <3>2 DEF ClientsOK
      <4> QED
        BY Zenon, <1>4, <2>1, <3>2, <4>1
    <3> QED
      BY Zenon, <3>1, <3>2
  <2>3. Len(cmds') <= MaxCmds
    BY <1>2, <1>4
  <2> QED
    BY Zenon, <1>4, <2>1, <2>2, <2>3 DEF ClientsOK
<1>6. \A d, l : /\ KnownIn(d, cmds) => KnownIn(d, cmds')
                /\ KnownLog(l, cmds) => KnownLog(l, cmds')
  BY Zenon, <1>1, <1>2, <1>3, KnownGrows
<1>7. ASSUME MemOK, UNCHANGED db
      PROVE  MemOK'
  BY Zenon, <1>6, <1>7 DEF MemOK
<1>8. ASSUME FileOK, UNCHANGED <<base, log, synced, buf>>
      PROVE  FileOK'
  BY Zenon, <1>6, <1>8 DEF FileOK
<1>9. ASSUME RewriteOK, UNCHANGED <<rewriteBuf, temp>>
      PROVE  RewriteOK'
  BY Zenon, <1>6, <1>9 DEF RewriteOK
<1> QED
  BY Zenon, <1>5, <1>7, <1>8, <1>9

(* So does applying the command to the keyspace. *)
LEMMA AppliesOK ==
  ASSUME MemOK, NEW e \in Entries, e.id \in DOMAIN cmds, cmds[e.id] = e, UNCHANGED cmds,
         db' = Apply(db, e)
  PROVE  MemOK'
<1>1. db \in Values
  BY Zenon DEF MemOK
<1>2. /\ db' \in Values
      /\ \A k \in Keys : k # e.key => db'[k] = db[k]
      /\ e.key \in Keys /\ e.id = 0 => db'[e.key] = << >>
      /\ e.key \in Keys /\ e.id # 0 => Range(db'[e.key]) = Range(db[e.key]) \cup {e.id}
  BY Zenon, <1>1, ApplyStep
<1>3. ASSUME NEW k \in Keys, NEW i \in Range(db'[k])
      PROVE  i \in Range(db[k]) \/ (i = e.id /\ e.key = k)
  <2>1. Range(<< >>) = {}
    BY Zenon, RangeSmall
  <2> QED
    BY Zenon, <1>2, <1>3, <2>1
<1>4. KnownIn(db, cmds)'
  BY ZenonT(60), <1>3 DEF MemOK, KnownIn
<1> QED
  BY Zenon, <1>2, <1>4 DEF MemOK

(* The empty keyspace and the empty file. *)
LEMMA EmptyOK ==
  /\ NoKeys \in Values /\ << >> \in Seq(Entries) /\ << >> \in Seq(Keys)
  /\ [base |-> NoKeys, log |-> << >>] \in [base : Values, log : Seq(Entries)]
  /\ Nothing \in Entries /\ Torn \in Entries
  /\ \A cs : KnownIn(NoKeys, cs) /\ KnownLog(<< >>, cs)
  /\ Once(NoKeys) /\ \A i : ~Holds(NoKeys, i)
<1>1. \A S : << >> \in Seq(S)
  BY SMT
<1>2. NoKeys \in Values
  BY Zenon, <1>1 DEF NoKeys, Values
<1>3. Nothing \in Entries /\ Torn \in Entries
  BY AofAssumption DEF Nothing, Torn, Entries
<1>4. \A k \in Keys : Range(NoKeys[k]) = {}
  BY Zenon, RangeSmall DEF NoKeys
<1>5. \A cs : KnownIn(NoKeys, cs)
  BY Zenon, <1>4 DEF KnownIn
<1>6. \A cs : KnownLog(<< >>, cs)
  BY Zenon, RangeSmall DEF KnownLog
<1>7. Once(NoKeys)
  <2>1. IsInjective(<< >>)
    BY DEF IsInjective
  <2> QED
    BY Zenon, <2>1 DEF Once, NoKeys
<1>8. \A i : ~Holds(NoKeys, i)
  BY Zenon, <1>4 DEF Holds
<1> QED
  BY Zenon, <1>1, <1>2, <1>3, <1>5, <1>6, <1>7, <1>8

(* A restart with a known file. *)
LEMMA RestartOK ==
  ASSUME Traced, NEW l \in Seq(Entries), Restart(l), KnownLog(l, cmds)
  PROVE  Traced'
<1>0. base \in Values /\ KnownIn(base, cmds) /\ cmds \in Seq(Entries) /\ Len(cmds) <= MaxCmds
  BY Zenon DEF Traced, FileOK, ClientsOK
<1>1. base' = base /\ cmds' = cmds /\ db' = Replay(base, l)
  BY Zenon DEF Restart
<1>2. MemOK'
  <2> DEFINE R == Replay(base, l)
  <2>1. /\ R \in Values
        /\ \A k \in Keys : \A x \in Range(R[k]) :
             x \in Range(base[k]) \/ (x \in Ids(l) /\ \E e \in Range(l) : e.key = k /\ e.id = x)
    BY ZenonT(60), <1>0, ReplayTypes
  <2> HIDE DEF R
  <2>2. ASSUME NEW k \in Keys, NEW x \in Range(R[k])
        PROVE  x \in DOMAIN cmds /\ cmds[x].key = k
    <3>1. CASE x \in Range(base[k])
      BY Zenon, <1>0, <3>1 DEF KnownIn
    <3>2. CASE x \notin Range(base[k])
      <4>1. x # 0
        <5>1. \A kk \in Keys : 0 \notin Range(R[kk])
          BY Zenon, <1>0, <2>1, NoZero
        <5> QED
          BY Zenon, <2>2, <5>1
      <4>2. PICK e \in Range(l) : e.key = k /\ e.id = x
        BY ZenonT(60), <2>1, <2>2, <3>2
      <4> QED
        BY Zenon, <4>1, <4>2 DEF KnownLog
    <3> QED
      BY Zenon, <3>1, <3>2
  <2> QED
    BY Zenon, <1>1, <2>1, <2>2 DEF MemOK, KnownIn, R
<1>3. FileOK'
  <2>1. Len(l) \in 0 .. Len(l)
    BY SeqShape
  <2>2. log' = l /\ synced' = Len(l) /\ buf' = << >>
    BY Zenon DEF Restart
  <2> QED
    BY Zenon, <1>0, <1>1, <2>1, <2>2, EmptyOK DEF FileOK
<1>4. RewriteOK'
  <2>1. rewriteBuf' = << >> /\ temp' = [base |-> NoKeys, log |-> << >>]
    BY Zenon DEF Restart
  <2>2. temp'.base = NoKeys /\ temp'.log = << >>
    BY <2>1
  <2>3. KnownIn(temp'.base, cmds') /\ KnownLog(temp'.log, cmds') /\ KnownLog(rewriteBuf', cmds')
    BY Zenon, <2>1, <2>2, EmptyOK
  <2>4. temp' \in [base : Values, log : Seq(Entries)] /\ rewriteBuf' \in Seq(Entries)
    BY Zenon, <2>1, EmptyOK
  <2> QED
    BY Zenon, <2>1, <2>2, <2>3, <2>4, RangeSmall DEF RewriteOK
<1>5. ClientsOK'
  <2>1. /\ pc' = [c \in Clients |-> "idle"] /\ batch' = [c \in Clients |-> << >>]
        /\ cur' = [c \in Clients |-> Nothing] /\ gone' = << >>
    BY Zenon DEF Restart
  <2> QED
    BY Zenon, <1>0, <1>1, <2>1, EmptyOK DEF ClientsOK
<1> QED
  BY Zenon, <1>2, <1>3, <1>4, <1>5 DEF Traced

(* What a crash leaves of the file: a prefix, its last command perhaps     *)
(* torn.                                                                   *)
LEMMA CrashLeaves ==
  ASSUME FileOK, Crash
  PROVE  \E l \in Seq(Entries) :
           /\ Restart(l) /\ KnownLog(l, cmds) /\ Ids(l) \subseteq Ids(log)
           /\ Distinct(log) => Distinct(l)
<1>0. log \in Seq(Entries) /\ synced \in 0 .. Len(log) /\ KnownLog(log, cmds) /\ Len(log) \in Nat
  BY Zenon, RangeMember DEF FileOK
<1>1. PICK n \in synced .. Len(log) :
        Restart(SubSeq(log, 1, n)) \/ Restart(Append(SubSeq(log, 1, n), Torn))
  BY Zenon DEF Crash
<1>2. n \in 0 .. Len(log)
  BY <1>0, <1>1
<1> DEFINE s == SubSeq(log, 1, n)
           t == Append(s, Torn)
<1>3. /\ s \in Seq(Entries) /\ Range(s) \subseteq Range(log) /\ Ids(s) \subseteq Ids(log)
      /\ Distinct(log) => Distinct(s)
  <2>1. s \in Seq(Entries) /\ Range(s) \subseteq Range(log)
    BY Zenon, <1>0, <1>2, RangePrefix
  <2> QED
    BY Zenon, <1>0, <1>2, <2>1, IdsPrefix
<1> HIDE DEF s
<1>4. Torn \in Entries /\ Torn.id = 0
  <2>1. Torn.id = 0
    BY DEF Torn, Nothing
  <2> QED
    BY Zenon, <2>1, EmptyOK
<1>5. t \in Seq(Entries) /\ Range(t) = Range(s) \cup {Torn}
  BY <1>3, <1>4, RangeAppend
<1>6. Ids(t) = Ids(s) \cup ({Torn.id} \ {0}) /\ (Distinct(s) /\ Torn.id \notin Ids(s) => Distinct(t))
  BY Zenon, <1>3, <1>4, IdsAppend
<1>7. Ids(t) \subseteq Ids(s) /\ (Distinct(s) => Distinct(t))
  <2>1. 0 \notin Ids(s)
    BY Zenon DEF Ids
  <2> QED
    BY Zenon, <1>4, <1>6, <2>1
<1> HIDE DEF t
<1>8. KnownLog(s, cmds) /\ KnownLog(t, cmds)
  BY Zenon, <1>0, <1>3, <1>4, <1>5 DEF KnownLog
<1>9. Restart(s) \/ Restart(t)
  BY Zenon, <1>1 DEF s, t
<1> QED
  BY Zenon, <1>3, <1>5, <1>7, <1>8, <1>9

(* The steps of a client. *)
LEMMA TracedClient ==
  ASSUME Traced, NEW c \in Clients,
         \/ \E k \in Keys : BeginOp(c, k)
         \/ \E j, k \in Keys : BeginTx(c, <<j, k>>)
         \/ ClientStep(c)
  PROVE  Traced'
<1>0. MemOK /\ FileOK /\ RewriteOK /\ ClientsOK /\ cur[c] \in Entries /\ batch[c] \in Seq(Keys)
  BY Zenon DEF Traced, ClientsOK
<1>1. ASSUME NEW k \in Keys, BeginOp(c, k)
      PROVE  Traced'
  <2>1. /\ Issue(c, k, 0) /\ Goto(c, "apply") /\ batch' = batch /\ gone' = gone
        /\ UNCHANGED <<db, base, log, synced, buf, rewriteBuf, temp>>
    BY <1>1 DEF BeginOp, file, rewrite
  <2>2. 0 \in 0 .. MaxCmds
    BY AofAssumption
  <2>3. batch' \in [Clients -> Seq(Keys)]
    BY Zenon, <1>0, <2>1 DEF ClientsOK
  <2> QED
    BY Zenon, <1>0, <2>1, <2>2, <2>3, IssuesOK DEF Traced
<1>2. ASSUME NEW j \in Keys, NEW k \in Keys, BeginTx(c, <<j, k>>)
      PROVE  Traced'
  <2>0. Head(<<j, k>>) = j /\ Tail(<<j, k>>) = <<k>> /\ <<k>> \in Seq(Keys)
    BY SMT
  <2>1. /\ Issue(c, j, Len(cmds) + 1) /\ Goto(c, "apply") /\ gone' = gone
        /\ batch' = [batch EXCEPT ![c] = <<k>>]
        /\ UNCHANGED <<db, base, log, synced, buf, rewriteBuf, temp>>
    BY <1>2, <2>0 DEF BeginTx, file, rewrite
  <2>2. batch' \in [Clients -> Seq(Keys)]
    BY Zenon, <1>0, <2>0, <2>1 DEF ClientsOK
  <2> QED
    BY Zenon, <1>0, <2>1, <2>2, IssuesOK DEF Traced
<1>3. ASSUME pc[c] # "idle"
      PROVE  cur[c].id \in DOMAIN cmds /\ cmds[cur[c].id] = cur[c] /\ cur[c].key \in Keys
  BY Zenon, <1>0, <1>3 DEF ClientsOK
<1>4. CASE Handle(c)
  <2>1. /\ Moves(c) /\ db' = Apply(db, cur[c])
        /\ UNCHANGED <<base, log, synced, buf, rewriteBuf, temp, cmds>>
    BY ZenonT(60), <1>4 DEF Handle, Moves, Goto, file, rewrite, history
  <2>2. MemOK'
    BY Zenon, <1>0, <1>3, <2>1, AppliesOK DEF Moves
  <2>3. FileOK' /\ RewriteOK'
    BY Zenon, <1>0, <2>1 DEF FileOK, RewriteOK
  <2> QED
    BY Zenon, <1>0, <2>1, <2>2, <2>3, MovesOK DEF Traced
<1>5. CASE Feed(c)
  <2>1. Moves(c) /\ Writes(cur[c]) /\ UNCHANGED <<db, rewriteBuf, temp, cmds>>
    BY ZenonT(60), <1>5 DEF Feed, Moves, Writes, Goto, rewrite, history
  <2>2. MemOK' /\ RewriteOK'
    BY Zenon, <1>0, <2>1 DEF MemOK, RewriteOK
  <2>3. FileOK'
    BY Zenon, <1>0, <1>3, <2>1, WritesOK DEF Moves
  <2> QED
    BY Zenon, <1>0, <2>1, <2>2, <2>3, MovesOK DEF Traced
<1>6. CASE FeedNote(c)
  <2>1. /\ Moves(c) /\ Note(cur[c])
        /\ UNCHANGED <<db, base, log, synced, buf, temp, cmds>>
    BY ZenonT(60), <1>6 DEF FeedNote, Moves, Goto, file, history
  <2>2. MemOK' /\ FileOK'
    BY Zenon, <1>0, <2>1 DEF MemOK, FileOK
  <2>3. RewriteOK'
    BY Zenon, <1>0, <1>3, <2>1, NotesOK DEF Moves
  <2> QED
    BY Zenon, <1>0, <2>1, <2>2, <2>3, MovesOK DEF Traced
<1>7. CASE FeedFlush(c) \/ FeedSync(c)
  <2>1. Moves(c) /\ Flushes /\ UNCHANGED <<db, rewriteBuf, temp, cmds>>
    BY <1>7 DEF FeedFlush, FeedSync, Moves, Flushes, Goto, rewrite, history
  <2>2. MemOK' /\ RewriteOK'
    BY Zenon, <1>0, <2>1 DEF MemOK, RewriteOK
  <2>3. FileOK'
    BY Zenon, <1>0, <2>1, FlushesOK
  <2> QED
    BY Zenon, <1>0, <2>1, <2>2, <2>3, MovesOK DEF Traced
<1>8. CASE Reply(c) /\ batch[c] # << >>
  <2>0. Head(batch[c]) \in Keys /\ Tail(batch[c]) \in Seq(Keys)
    BY SMTT(30), <1>0, <1>8
  <2>1. /\ Issue(c, Head(batch[c]), cur[c].tx) /\ Goto(c, "apply") /\ gone' = gone
        /\ batch' = [batch EXCEPT ![c] = Tail(batch[c])]
        /\ UNCHANGED <<db, base, log, synced, buf, rewriteBuf, temp>>
    BY <1>8 DEF Reply, file, rewrite
  <2>2. batch' \in [Clients -> Seq(Keys)]
    BY Zenon, <1>0, <2>0, <2>1 DEF ClientsOK
  <2>3. cur[c].tx \in 0 .. MaxCmds
    BY <1>0 DEF Entries
  <2> QED
    BY Zenon, <1>0, <2>0, <2>1, <2>2, <2>3, IssuesOK DEF Traced
<1>9. CASE Reply(c) /\ batch[c] = << >>
  <2>1. /\ pc' = [pc EXCEPT ![c] = "idle"] /\ cur' = [cur EXCEPT ![c] = Nothing]
        /\ UNCHANGED <<db, base, log, synced, buf, rewriteBuf, temp, batch, gone, cmds>>
    BY <1>9 DEF Reply, Goto, file, rewrite
  <2>2. MemOK' /\ FileOK' /\ RewriteOK'
    BY Zenon, <1>0, <2>1 DEF MemOK, FileOK, RewriteOK
  <2>3. /\ DOMAIN pc' = Clients /\ cur' \in [Clients -> Entries] /\ pc'[c] = "idle"
        /\ \A d \in Clients : d # c => pc'[d] = pc[d] /\ cur'[d] = cur[d]
    BY Zenon, <1>0, <2>1, EmptyOK DEF ClientsOK
  <2>4. ClientsOK'
    BY Zenon, <1>0, <2>1, <2>3 DEF ClientsOK
  <2> QED
    BY Zenon, <2>2, <2>4 DEF Traced
<1> QED
  BY Zenon, <1>1, <1>2, <1>4, <1>5, <1>6, <1>7, <1>8, <1>9 DEF ClientStep

\* The report of an expired key.
Report(k) == [Nothing EXCEPT !.key = k]

(* The report of an expired key. *)
LEMMA ReportIs ==
  ASSUME NEW k \in Keys
  PROVE  Report(k) \in Entries /\ Report(k).key = k /\ Report(k).id = 0
BY AofAssumption DEF Report, Nothing, Entries

(* The steps of the tickers, of expiry and of Server.Close. *)
LEMMA TracedBackground ==
  ASSUME Traced, Background \/ Close \/ \E k \in Keys : Expire(k)
  PROVE  Traced'
<1>0. MemOK /\ FileOK /\ RewriteOK /\ ClientsOK /\ gone \in Seq(Keys)
  BY Zenon DEF Traced, ClientsOK
<1>1. CASE FlusherTick \/ SyncTick \/ Close
  <2>1. Flushes /\ UNCHANGED <<db, rewriteBuf, temp, pc, batch, cur, gone, cmds>>
    BY <1>1 DEF FlusherTick, SyncTick, Close, Flushes, client, rewrite, history
  <2>2. MemOK' /\ RewriteOK' /\ ClientsOK'
    BY Zenon, <1>0, <2>1 DEF MemOK, RewriteOK, ClientsOK
  <2>3. FileOK'
    BY Zenon, <1>0, <2>1, FlushesOK
  <2> QED
    BY Zenon, <2>2, <2>3 DEF Traced
<1>2. CASE notifyExpired
  <2> DEFINE e == Report(Head(gone))
  <2>0. Head(gone) \in Keys
    BY <1>0, <1>2 DEF notifyExpired
  <2>1. e \in Entries /\ e.key \in Keys /\ e.id = 0
    BY Zenon, <2>0, ReportIs
  <2>2. /\ Writes(e) /\ (Note(e) \/ rewriteBuf' = rewriteBuf) /\ gone' = << >>
        /\ UNCHANGED <<db, temp, pc, batch, cur, cmds>>
    BY Zenon, <1>2 DEF notifyExpired, Report, Writes, client, history
  <2> HIDE DEF e
  <2>3. MemOK' /\ ClientsOK'
    BY Zenon, <1>0, <2>2, EmptyOK DEF MemOK, ClientsOK
  <2>4. FileOK'
    BY Zenon, <1>0, <2>1, <2>2, WritesOK
  <2>5. RewriteOK'
    <3>1. CASE Note(e)
      BY Zenon, <1>0, <2>1, <2>2, <3>1, NotesOK
    <3>2. CASE rewriteBuf' = rewriteBuf
      BY Zenon, <1>0, <2>2, <3>2 DEF RewriteOK
    <3> QED
      BY Zenon, <2>2, <3>1, <3>2
  <2> QED
    BY Zenon, <2>3, <2>4, <2>5 DEF Traced
<1>3. ASSUME NEW k \in Keys, Expire(k)
      PROVE  Traced'
  <2>1. /\ db' = [db EXCEPT ![k] = << >>] /\ gone' = <<k>>
        /\ UNCHANGED <<base, log, synced, buf, rewriteBuf, temp, pc, batch, cur, cmds>>
    BY <1>3 DEF Expire, client, file, rewrite, history
  <2>2. <<k>> \in Seq(Keys) /\ << >> \in Seq(1 .. MaxCmds)
    BY SMT
  <2>3. FileOK' /\ RewriteOK' /\ ClientsOK'
    BY Zenon, <1>0, <2>1, <2>2 DEF FileOK, RewriteOK, ClientsOK
  <2>4. db' \in Values /\ \A j \in Keys : db'[j] = db[j] \/ db'[j] = << >>
    BY Zenon, <1>0, <2>1, <2>2 DEF MemOK, Values
  <2>5. KnownIn(db, cmds)'
    <3>1. Range(<< >>) = {}
      BY Zenon, RangeSmall
    <3>2. \A j \in Keys : \A i \in Range(db'[j]) : i \in Range(db[j])
      BY Zenon, <2>4, <3>1
    <3> QED
      BY Zenon, <1>0, <2>1, <3>2 DEF MemOK, KnownIn
  <2> QED
    BY Zenon, <2>3, <2>4, <2>5 DEF Traced, MemOK
<1> QED
  BY Zenon, <1>1, <1>2, <1>3 DEF Background

(* What copying a shard does to the temporary file. *)
LEMMA SnapshotIs ==
  ASSUME temp \in [base : Values, log : Seq(Entries)], db \in Values,
         NEW k \in Keys, SnapshotShard(k)
  PROVE  /\ temp' \in [base : Values, log : Seq(Entries)] /\ temp'.log = temp.log
         /\ temp'.base[k] = db[k] /\ \A j \in Keys : j # k => temp'.base[j] = temp.base[j]
<1> DEFINE b == temp.base
           d == [b EXCEPT ![k] = db[k]]
<1>1. b \in Values
  BY SMT
<1>2. temp' = [temp EXCEPT !.base = d]
  BY DEF SnapshotShard
<1> HIDE DEF b
<1>3. d \in Values /\ d[k] = db[k] /\ \A j \in Keys : j # k => d[j] = b[j]
  BY Zenon, <1>1 DEF Values
<1> HIDE DEF d
<1>4. temp' \in [base : Values, log : Seq(Entries)] /\ temp'.log = temp.log /\ temp'.base = d
  BY <1>2, <1>3
<1> QED
  BY Zenon, <1>3, <1>4 DEF b

(* The steps of Rewrite. *)
LEMMA TracedRewrite ==
  ASSUME Traced, RewriteLock \/ RewriteStep
  PROVE  Traced'
<1>0. /\ MemOK /\ FileOK /\ RewriteOK /\ ClientsOK
      /\ temp \in [base : Values, log : Seq(Entries)] /\ temp.base \in Values /\ temp.log \in Seq(Entries)
  <2>1. MemOK /\ FileOK /\ RewriteOK /\ ClientsOK
    BY Zenon DEF Traced
  <2>2. temp \in [base : Values, log : Seq(Entries)]
    BY Zenon, <2>1 DEF RewriteOK
  <2> QED
    BY <2>1, <2>2
<1>1. ASSUME UNCHANGED <<db, pc, batch, cur, gone, cmds>>
      PROVE  MemOK' /\ ClientsOK'
  BY Zenon, <1>0, <1>1 DEF MemOK, ClientsOK
<1>2. CASE RewriteLock \/ RewriteUnlock
  <2>1. /\ rewriteBuf' = << >> \/ rewriteBuf' = rewriteBuf
        /\ UNCHANGED <<db, base, log, synced, buf, temp, pc, batch, cur, gone, cmds>>
    BY <1>2 DEF RewriteLock, RewriteUnlock, client, file, history
  <2>2. FileOK'
    BY Zenon, <1>0, <2>1 DEF FileOK
  <2>3. RewriteOK'
    <3>1. CASE rewriteBuf' = << >>
      <4>1. Range(rewriteBuf') = {} /\ KnownLog(rewriteBuf', cmds') /\ rewriteBuf' \in Seq(Entries)
        BY Zenon, <3>1, EmptyOK, RangeSmall
      <4> QED
        BY Zenon, <1>0, <2>1, <4>1 DEF RewriteOK
    <3>2. CASE rewriteBuf' = rewriteBuf
      BY Zenon, <1>0, <2>1, <3>2 DEF RewriteOK
    <3> QED
      BY Zenon, <2>1, <3>1, <3>2
  <2> QED
    BY Zenon, <1>1, <2>1, <2>2, <2>3 DEF Traced
<1>3. ASSUME NEW k \in Keys, SnapshotShard(k)
      PROVE  Traced'
  <2>1. UNCHANGED <<db, base, log, synced, buf, rewriteBuf, pc, batch, cur, gone, cmds>>
    BY <1>3 DEF SnapshotShard, client, file, history
  <2>3. /\ temp' \in [base : Values, log : Seq(Entries)] /\ temp'.log = temp.log
        /\ temp'.base[k] = db[k] /\ \A j \in Keys : j # k => temp'.base[j] = temp.base[j]
    BY Zenon, <1>0, <1>3, SnapshotIs DEF MemOK
  <2>4. \A j \in Keys : temp'.base[j] = temp.base[j] \/ temp'.base[j] = db[j]
    BY Zenon, <2>3
  <2>5. KnownIn(temp.base, cmds)'
    <3>1. \A j \in Keys : \A i \in Range(temp'.base[j]) : i \in Range(temp.base[j]) \/ i \in Range(db[j])
      BY Zenon, <2>4
    <3> QED
      BY Zenon, <1>0, <2>1, <3>1 DEF MemOK, RewriteOK, KnownIn
  <2>6. FileOK' /\ RewriteOK'
    BY Zenon, <1>0, <2>1, <2>3, <2>5 DEF FileOK, RewriteOK
  <2> QED
    BY Zenon, <1>1, <2>1, <2>6 DEF Traced
<1>4. CASE Drain
  <2>1. /\ temp' = [temp EXCEPT !.log = rewriteBuf] /\ rewriteBuf' = << >>
        /\ UNCHANGED <<db, base, log, synced, buf, pc, batch, cur, gone, cmds>>
    BY <1>4 DEF Drain, client, file, history
  <2>2. temp' \in [base : Values, log : Seq(Entries)] /\ temp'.base = temp.base /\ temp'.log = rewriteBuf
    <3>1. rewriteBuf \in Seq(Entries)
      BY Zenon, <1>0 DEF RewriteOK
    <3> QED
      BY <1>0, <2>1, <3>1
  <2>3. Range(rewriteBuf') = {} /\ KnownLog(rewriteBuf', cmds') /\ rewriteBuf' \in Seq(Entries)
    BY Zenon, <2>1, EmptyOK, RangeSmall
  <2>4. FileOK' /\ RewriteOK'
    BY Zenon, <1>0, <2>1, <2>2, <2>3 DEF FileOK, RewriteOK
  <2> QED
    BY Zenon, <1>1, <2>1, <2>4 DEF Traced
<1>5. CASE CloseOld
  <2>1. Flushes /\ UNCHANGED <<db, rewriteBuf, temp, pc, batch, cur, gone, cmds>>
    BY <1>5 DEF CloseOld, Flushes, client, history
  <2>2. RewriteOK'
    BY Zenon, <1>0, <2>1 DEF RewriteOK
  <2> QED
    BY Zenon, <1>0, <1>1, <2>1, <2>2, FlushesOK DEF Traced
<1>6. CASE Rename
  <2>1. /\ base' = temp.base /\ log' = temp.log /\ synced' = Len(temp.log)
        /\ UNCHANGED <<db, buf, rewriteBuf, temp, pc, batch, cur, gone, cmds>>
    BY <1>6 DEF Rename, client, history
  <2>2. Len(temp.log) \in 0 .. Len(temp.log)
    BY <1>0, SeqShape
  <2>3. FileOK' /\ RewriteOK'
    BY Zenon, <1>0, <2>1, <2>2 DEF FileOK, RewriteOK
  <2> QED
    BY Zenon, <1>1, <2>1, <2>3 DEF Traced
<1>7. CASE RewriteFails \/ Swap
  <2>1. /\ temp' = [base |-> NoKeys, log |-> << >>]
        /\ rewriteBuf' = << >> \/ rewriteBuf' = rewriteBuf
        /\ buf' = << >> \/ buf' = buf
        /\ UNCHANGED <<db, base, log, synced, pc, batch, cur, gone, cmds>>
    BY <1>7 DEF RewriteFails, Swap, client, file, history
  <2>2. temp'.base = NoKeys /\ temp'.log = << >>
    BY <2>1
  <2>3. /\ temp' \in [base : Values, log : Seq(Entries)] /\ Range(temp'.log) = {}
        /\ KnownIn(temp'.base, cmds') /\ KnownLog(temp'.log, cmds')
    BY Zenon, <2>1, <2>2, EmptyOK, RangeSmall
  <2>4. /\ rewriteBuf' \in Seq(Entries) /\ KnownLog(rewriteBuf', cmds')
        /\ \A e \in Range(rewriteBuf') : e.key \in Keys
    BY Zenon, <1>0, <2>1, EmptyOK, RangeSmall DEF RewriteOK
  <2>5. buf' \in Seq(Entries) /\ KnownLog(buf', cmds')
    BY Zenon, <1>0, <2>1, EmptyOK DEF FileOK
  <2>6. FileOK' /\ RewriteOK'
    BY Zenon, <1>0, <2>1, <2>3, <2>4, <2>5 DEF FileOK, RewriteOK
  <2> QED
    BY Zenon, <1>1, <2>1, <2>6 DEF Traced
<1> QED
  BY Zenon, <1>2, <1>3, <1>4, <1>5, <1>6, <1>7 DEF RewriteStep

(* The empty server. *)
LEMMA TracedInit == Init => Traced
<1> SUFFICES ASSUME Init
             PROVE  Traced
  BY Zenon
<1>1. MemOK
  BY Zenon, EmptyOK DEF Init, MemOK
<1>2. FileOK
  <2>1. 0 \in 0 .. Len(<< >>)
    BY SMT
  <2> QED
    BY Zenon, <2>1, EmptyOK DEF Init, FileOK
<1>3. RewriteOK
  <2>1. temp.base = NoKeys /\ temp.log = << >>
    BY DEF Init
  <2>2. /\ temp \in [base : Values, log : Seq(Entries)] /\ rewriteBuf \in Seq(Entries)
        /\ Range(temp.log) = {} /\ Range(rewriteBuf) = {}
    BY Zenon, <2>1, EmptyOK, RangeSmall DEF Init
  <2>3. KnownIn(temp.base, cmds) /\ KnownLog(temp.log, cmds) /\ KnownLog(rewriteBuf, cmds)
    BY Zenon, <2>1, EmptyOK DEF Init
  <2> QED
    BY Zenon, <2>2, <2>3 DEF RewriteOK
<1>4. ClientsOK
  <2>1. Len(<< >>) <= MaxCmds
    BY AofAssumption
  <2> QED
    BY Zenon, <2>1, EmptyOK DEF Init, ClientsOK
<1> QED
  BY Zenon, <1>1, <1>2, <1>3, <1>4 DEF Traced

(* What Next is made of. *)
LEMMA NextCases ==
  ASSUME Next
  PROVE  \/ \E c \in Clients : \/ \E k \in Keys : BeginOp(c, k)
                               \/ \E j, k \in Keys : BeginTx(c, <<j, k>>)
                               \/ ClientStep(c)
         \/ Background \/ Close \/ \E k \in Keys : Expire(k)
         \/ RewriteLock \/ RewriteStep
         \/ Crash
BY Zenon DEF Next

(* Every step keeps the first invariant. *)
LEMMA TracedStep ==
  ASSUME Traced, [Next]_vars
  PROVE  Traced'
<1>1. CASE UNCHANGED vars
  <2>1. UNCHANGED <<db, base, log, synced, buf, rewriteBuf, temp, pc, batch, cur, gone, cmds>>
    BY <1>1 DEF vars, client, file, rewrite, history
  <2> QED
    BY Zenon, <2>1 DEF Traced, MemOK, FileOK, RewriteOK, ClientsOK
<1>2. CASE Crash
  <2>1. FileOK
    BY Zenon DEF Traced
  <2>2. PICK l \in Seq(Entries) : Restart(l) /\ KnownLog(l, cmds)
    BY Zenon, <1>2, <2>1, CrashLeaves
  <2> QED
    BY Zenon, <2>2, RestartOK
<1> QED
  BY Zenon, <1>1, <1>2, NextCases, TracedClient, TracedBackground, TracedRewrite

(* Whatever the server holds of a command is what was issued. *)
THEOREM TracedInvariant == Spec => []Traced
<1>1. Init => Traced
  BY TracedInit
<1>2. Traced /\ [Next]_vars => Traced'
  BY TracedStep
<1> QED
  BY <1>1, <1>2, PTL DEF Spec

-----------------------------------------------------------------------------
(* Second invariant: no command is anywhere twice, and one that is still   *)
(* on its way is nowhere it has not got to.                                *)

\* Replaying l on top of b repeats nothing.
Clean(b, l) == Once(b) /\ Distinct(l) /\ \A x \in Ids(l) : ~Holds(b, x)

\* What is in the file or on its way there.
Pending == Ids(log) \cup IF open THEN Ids(buf) ELSE {}

DiskOnce ==
  /\ Clean(base, log)
  /\ open => Clean(base, buf) /\ Ids(log) \cap Ids(buf) = {}
TempOnce == Clean(temp.base, temp.log) /\ Clean(temp.base, rewriteBuf)
Phases ==
  /\ rw = "snapshot" =>
       writer # None /\ Ids(rewriteBuf) = {} /\ \A c \in Clients : pc[c] = "idle"
  /\ rw \in {"idle", "snapshot", "drain"} => temp.log = << >>
  /\ rw \in {"rename", "swap"} => ~open
Free(c) ==
  /\ pc[c] = "apply" => ~Holds(db, cur[c].id)
  /\ pc[c] \in {"apply", "feed"} => cur[c].id \notin Pending /\ ~Holds(base, cur[c].id)
  /\ pc[c] \in {"apply", "feed", "note"} =>
       cur[c].id \notin Ids(rewriteBuf) /\ cur[c].id \notin Ids(temp.log)
  /\ pc[c] # "idle" => ~Holds(temp.base, cur[c].id)
Apart ==
  \A c, d \in Clients : c # d /\ pc[c] # "idle" /\ pc[d] # "idle" => cur[c].id # cur[d].id

OnceInv ==
  Once(db) /\ DiskOnce /\ TempOnce /\ Phases /\ Apart /\ \A c \in Clients : Free(c)

(* Flushing brings nothing new. *)
LEMMA FlushOnce ==
  ASSUME FileOK, DiskOnce, Flushes
  PROVE  DiskOnce' /\ \A x \in Pending' : x \in Pending
<1>0. log \in Seq(Entries) /\ buf \in Seq(Entries)
  BY Zenon DEF FileOK
<1>1. base' = base /\ log' = Flushed /\ Ids(buf') = {} /\ Distinct(buf') /\ Once(base)
  BY Zenon, RangeSmall DEF Flushes, DiskOnce, Clean
<1>2. Clean(base, Flushed) /\ \A x \in Ids(Flushed) : x \in Pending
  <2>1. CASE open
    <3>1. Distinct(log) /\ Distinct(buf) /\ Ids(log) \cap Ids(buf) = {}
      BY Zenon, <2>1 DEF DiskOnce, Clean
    <3>2. Ids(log \o buf) = Ids(log) \cup Ids(buf) /\ Distinct(log \o buf)
      BY Zenon, <1>0, <3>1, IdsConcat
    <3>3. Flushed = log \o buf
      BY Zenon, <2>1 DEF Flushed
    <3>4. \A x \in Ids(Flushed) : x \in Ids(log) \/ x \in Ids(buf)
      BY Zenon, <3>2, <3>3
    <3>5. \A x \in Ids(Flushed) : ~Holds(base, x)
      BY Zenon, <2>1, <3>4 DEF DiskOnce, Clean
    <3>6. Clean(base, Flushed)
      BY Zenon, <1>1, <3>2, <3>3, <3>5 DEF Clean
    <3> QED
      BY Zenon, <2>1, <3>4, <3>6 DEF Pending
  <2>2. CASE ~open
    BY Zenon, <2>2 DEF Flushed, DiskOnce, Pending
  <2> QED
    BY Zenon, <2>1, <2>2
<1>3. Clean(base', log') /\ \A x \in Ids(log') : x \in Pending
  BY Zenon, <1>1, <1>2
<1>4. Clean(base', buf') /\ Ids(log') \cap Ids(buf') = {}
  BY Zenon, <1>1 DEF Clean
<1>5. DiskOnce'
  BY Zenon, <1>3, <1>4 DEF DiskOnce
<1>6. \A x \in Pending' : x \in Ids(log') \/ x \in Ids(buf')
  BY Zenon DEF Pending
<1> QED
  BY Zenon, <1>1, <1>3, <1>5, <1>6

(* A command that is nowhere yet is written once. *)
LEMMA WriteOnce ==
  ASSUME FileOK, DiskOnce, NEW e \in Entries, Writes(e), UNCHANGED open,
         e.id \notin Pending, ~Holds(base, e.id)
  PROVE  DiskOnce' /\ \A x \in Pending' : x \in Pending \/ (x = e.id /\ x # 0)
<1>0. log \in Seq(Entries) /\ buf \in Seq(Entries) /\ base' = base /\ Once(base) /\ Clean(base, log)
  BY Zenon DEF FileOK, Writes, DiskOnce, Clean
<1>1. Flushed \in Seq(Entries) /\ Clean(base, Flushed) /\ Ids(Flushed) = Pending
  <2>1. CASE open
    <3>1. Distinct(log) /\ Distinct(buf) /\ Ids(log) \cap Ids(buf) = {}
      BY Zenon, <2>1 DEF DiskOnce, Clean
    <3>2. Ids(log \o buf) = Ids(log) \cup Ids(buf) /\ Distinct(log \o buf)
      BY Zenon, <1>0, <3>1, IdsConcat
    <3>3. log \o buf \in Seq(Entries)
      BY <1>0
    <3>4. \A x \in Ids(log \o buf) : ~Holds(base, x)
      BY Zenon, <2>1, <3>2 DEF DiskOnce, Clean
    <3> QED
      BY Zenon, <1>0, <2>1, <3>2, <3>3, <3>4 DEF Flushed, Clean, Pending
  <2>2. CASE ~open
    BY Zenon, <1>0, <2>2 DEF Flushed, Pending
  <2> QED
    BY Zenon, <2>1, <2>2
<1>2. /\ Ids(<< >>) = {} /\ Distinct(<< >>) /\ Clean(base, << >>)
      /\ Ids(<<e>>) = {e.id} \ {0} /\ Distinct(<<e>>) /\ Clean(base, <<e>>)
  <2>1. Ids(<< >>) = {} /\ Distinct(<< >>) /\ Range(<<e>>) = {e} /\ Distinct(<<e>>)
    BY Zenon, RangeSmall
  <2>2. Ids(<<e>>) = {e.id} \ {0}
    BY Zenon, <2>1 DEF Ids
  <2> QED
    BY Zenon, <1>0, <2>1, <2>2 DEF Clean
<1>3. \A s \in Seq(Entries) :
        Clean(base, s) /\ e.id \notin Ids(s) =>
          /\ Clean(base, Append(s, e))
          /\ \A x \in Ids(Append(s, e)) : x \in Ids(s) \/ (x = e.id /\ x # 0)
  <2> SUFFICES ASSUME NEW s \in Seq(Entries), Clean(base, s), e.id \notin Ids(s)
               PROVE  /\ Clean(base, Append(s, e))
                      /\ \A x \in Ids(Append(s, e)) : x \in Ids(s) \/ (x = e.id /\ x # 0)
    BY Zenon
  <2>1. Ids(Append(s, e)) = Ids(s) \cup ({e.id} \ {0}) /\ Distinct(Append(s, e))
    BY Zenon, IdsAppend DEF Clean
  <2>2. \A x \in Ids(Append(s, e)) : x \in Ids(s) \/ (x = e.id /\ x # 0)
    BY Zenon, <2>1
  <2> QED
    BY Zenon, <2>1, <2>2 DEF Clean
<1>4. CASE ~open
  <2>1. log' = log
    BY Zenon, <1>4 DEF Writes, Write, Flushed
  <2> QED
    BY Zenon, <1>0, <1>4, <2>1 DEF DiskOnce, Pending
<1>5. CASE open /\ Big(e)
  <2>1. log' = Append(Flushed, e) /\ buf' = << >>
    BY Zenon, <1>5 DEF Writes, Write
  <2>2. Clean(base, log') /\ \A x \in Ids(log') : x \in Pending \/ (x = e.id /\ x # 0)
    BY Zenon, <1>1, <1>3, <2>1
  <2>3. DiskOnce'
    BY Zenon, <1>0, <1>2, <2>1, <2>2 DEF DiskOnce
  <2> QED
    BY Zenon, <1>2, <2>1, <2>2, <2>3 DEF Pending
<1>6. CASE open /\ ~Big(e) /\ Len(buf) = BufSize
  <2>1. log' = Flushed /\ buf' = <<e>>
    BY Zenon, <1>6 DEF Writes, Write, WriteFails
  <2>2. Ids(log') \cap Ids(buf') = {}
    BY Zenon, <1>1, <1>2, <2>1
  <2>3. DiskOnce'
    BY Zenon, <1>0, <1>1, <1>2, <2>1, <2>2 DEF DiskOnce
  <2>4. \A x \in Pending' : x \in Ids(log') \/ x \in Ids(buf')
    BY Zenon DEF Pending
  <2> QED
    BY Zenon, <1>1, <1>2, <2>1, <2>3, <2>4
<1>7. CASE open /\ ~Big(e) /\ Len(buf) # BufSize
  <2>1. log' = log /\ buf' = Append(buf, e)
    BY Zenon, <1>7 DEF Writes, Write
  <2>2. Clean(base, buf) /\ Ids(log) \cap Ids(buf) = {} /\ e.id \notin Ids(buf) /\ e.id \notin Ids(log)
    BY Zenon, <1>7 DEF DiskOnce, Pending
  <2>3. Clean(base, buf') /\ \A x \in Ids(buf') : x \in Ids(buf) \/ (x = e.id /\ x # 0)
    BY Zenon, <1>0, <1>3, <2>1, <2>2
  <2>4. Ids(log') \cap Ids(buf') = {}
    BY Zenon, <2>1, <2>2, <2>3
  <2>5. DiskOnce'
    BY Zenon, <1>0, <2>1, <2>3, <2>4 DEF DiskOnce
  <2>6. \A x \in Pending' : x \in Ids(log') \/ x \in Ids(buf')
    BY ZenonT(40) DEF Pending
  <2>7. \A x \in Ids(log) \cup Ids(buf) : x \in Pending
    BY Zenon, <1>7 DEF Pending
  <2> QED
    BY Zenon, <2>1, <2>3, <2>5, <2>6, <2>7
<1> QED
  BY Zenon, <1>4, <1>5, <1>6, <1>7

(* Noting a command that is not in the new file yet. *)
LEMMA NoteOnce ==
  ASSUME RewriteOK, TempOnce, NEW e \in Entries, Note(e), temp' = temp,
         e.id \notin Ids(rewriteBuf), ~Holds(temp.base, e.id)
  PROVE  TempOnce' /\ \A x \in Ids(rewriteBuf') : x \in Ids(rewriteBuf) \/ (x = e.id /\ x # 0)
<1>1. CASE rewriteBuf' = rewriteBuf
  BY Zenon, <1>1 DEF TempOnce
<1>2. CASE rewriteBuf' = Append(rewriteBuf, e)
  <2>1. rewriteBuf \in Seq(Entries) /\ Distinct(rewriteBuf)
    BY Zenon DEF RewriteOK, TempOnce, Clean
  <2>2. /\ Ids(Append(rewriteBuf, e)) = Ids(rewriteBuf) \cup ({e.id} \ {0})
        /\ Distinct(Append(rewriteBuf, e))
    BY Zenon, <2>1, IdsAppend
  <2>3. \A x \in Ids(rewriteBuf') : x \in Ids(rewriteBuf) \/ (x = e.id /\ x # 0)
    BY Zenon, <1>2, <2>2
  <2>4. Clean(temp.base, rewriteBuf')
    BY Zenon, <1>2, <2>2, <2>3 DEF TempOnce, Clean
  <2> QED
    BY Zenon, <2>3, <2>4 DEF TempOnce
<1> QED
  BY Zenon, <1>1, <1>2 DEF Note

(* A number not issued yet is nowhere. *)
LEMMA FreshId ==
  ASSUME Traced, NEW n, n \notin DOMAIN cmds
  PROVE  /\ ~Holds(db, n) /\ ~Holds(base, n) /\ ~Holds(temp.base, n)
         /\ n \notin Pending /\ n \notin Ids(rewriteBuf) /\ n \notin Ids(temp.log)
<1>1. \A d : KnownIn(d, cmds) => ~Holds(d, n)
  BY Zenon DEF KnownIn, Holds
<1>2. \A l : KnownLog(l, cmds) => n \notin Ids(l)
  BY Zenon DEF KnownLog, Ids
<1>3. /\ KnownIn(db, cmds) /\ KnownIn(base, cmds) /\ KnownIn(temp.base, cmds)
      /\ KnownLog(log, cmds) /\ KnownLog(buf, cmds)
      /\ KnownLog(rewriteBuf, cmds) /\ KnownLog(temp.log, cmds)
  BY Zenon DEF Traced, MemOK, FileOK, RewriteOK
<1>4. n \notin Pending
  BY Zenon, <1>2, <1>3 DEF Pending
<1> QED
  BY Zenon, <1>1, <1>2, <1>3, <1>4

(* A client stays clear of what gets no number of its own. *)
LEMMA FreeKeeps ==
  ASSUME NEW d, Free(d), pc'[d] = pc[d], cur'[d] = cur[d],
         Holds(db', cur[d].id) => Holds(db, cur[d].id),
         Holds(base', cur[d].id) => Holds(base, cur[d].id),
         Holds(temp'.base, cur[d].id) => Holds(temp.base, cur[d].id),
         cur[d].id \in Pending' => cur[d].id \in Pending,
         cur[d].id \in Ids(rewriteBuf') => cur[d].id \in Ids(rewriteBuf),
         cur[d].id \in Ids(temp'.log) => cur[d].id \in Ids(temp.log)
  PROVE  Free(d)'
<1> DEFINE i == cur[d].id
<1>1. i = cur'[d].id
  BY Zenon
<1> HIDE DEF i
<1>2. pc[d] = "apply" => ~Holds(db', i)
  BY Zenon DEF Free, i
<1>3. pc[d] \in {"apply", "feed"} => i \notin Pending' /\ ~Holds(base', i)
  BY Zenon DEF Free, i
<1>4. pc[d] \in {"apply", "feed", "note"} => i \notin Ids(rewriteBuf') /\ i \notin Ids(temp'.log)
  BY Zenon DEF Free, i
<1>5. pc[d] # "idle" => ~Holds(temp'.base, i)
  BY Zenon DEF Free, i
<1> QED
  BY Zenon, <1>1, <1>2, <1>3, <1>4, <1>5 DEF Free

(* Moving on does not change which commands are under way. *)
LEMMA ApartMoves ==
  ASSUME ClientsOK, Apart, NEW c, Moves(c)
  PROVE  /\ Apart' /\ \A d \in Clients : d # c => pc'[d] = pc[d]
         /\ \A d \in Clients : cur'[d] = cur[d]
<1>1. PICK l : pc' = [pc EXCEPT ![c] = l]
  BY Zenon DEF Moves
<1>2. (\A d \in Clients : d # c => pc'[d] = pc[d]) /\ cur' = cur
  BY Zenon, <1>1 DEF ClientsOK, Moves
<1>3. \A d \in Clients : pc'[d] # "idle" => pc[d] # "idle"
  BY Zenon, <1>2 DEF Moves
<1>4. Apart'
  BY Zenon, <1>2, <1>3 DEF Apart
<1> QED
  BY Zenon, <1>2, <1>4

(* A new command is nowhere yet. *)
LEMMA OnceIssue ==
  ASSUME Traced, OnceInv, NEW c \in Clients, NEW k, NEW tx, Issue(c, k, tx), Goto(c, "apply"),
         rw # "snapshot",
         UNCHANGED <<db, base, log, open, buf, rewriteBuf, rw, temp>>
  PROVE  OnceInv'
<1> DEFINE n == Len(cmds) + 1
<1>1. cmds \in Seq(Entries) /\ ClientsOK
  BY Zenon DEF Traced, ClientsOK
<1>2. n \notin DOMAIN cmds
  <2>1. Len(cmds) \in Nat /\ DOMAIN cmds = 1 .. Len(cmds)
    BY Zenon, <1>1, RangeMember
  <2> QED
    BY <2>1
<1>3. pc'[c] = "apply" /\ cur'[c].id = n
  BY <1>1 DEF ClientsOK, Issue, Goto
<1>4. \A d \in Clients : d # c => pc'[d] = pc[d] /\ cur'[d] = cur[d]
  BY Zenon, <1>1 DEF ClientsOK, Issue, Goto
<1> HIDE DEF n
<1>5. Pending' = Pending
  BY Zenon DEF Pending
<1>6. Once(db)' /\ DiskOnce' /\ TempOnce' /\ Phases'
  <2>1. Once(db)' /\ DiskOnce' /\ TempOnce'
    BY Zenon DEF OnceInv, DiskOnce, TempOnce
  <2> QED
    BY Zenon, <2>1 DEF OnceInv, Phases
<1>7. Apart'
  <2>1. \A d \in Clients : d # c /\ pc'[d] # "idle" => cur'[d].id # n
    BY Zenon, <1>1, <1>2, <1>4 DEF ClientsOK
  <2>2. \A d1, d2 \in Clients :
          d1 # c /\ d2 # c /\ d1 # d2 /\ pc'[d1] # "idle" /\ pc'[d2] # "idle" => cur'[d1].id # cur'[d2].id
    BY ZenonT(40), <1>4 DEF OnceInv, Apart
  <2> QED
    BY Zenon, <1>3, <2>1, <2>2 DEF Apart
<1>8. Free(c)'
  <2>1. /\ ~Holds(db, n) /\ ~Holds(base, n) /\ ~Holds(temp.base, n)
        /\ n \notin Pending /\ n \notin Ids(rewriteBuf) /\ n \notin Ids(temp.log)
    BY Zenon, <1>2, FreshId
  <2> QED
    BY Zenon, <1>3, <1>5, <2>1 DEF Free
<1>9. \A d \in Clients : d # c => Free(d)'
  BY Zenon, <1>4, <1>5 DEF OnceInv, Free
<1> QED
  BY Zenon, <1>6, <1>7, <1>8, <1>9 DEF OnceInv

(* The steps of a client. *)
LEMMA OnceClient ==
  ASSUME Traced, OnceInv, NEW c \in Clients,
         \/ \E k \in Keys : BeginOp(c, k)
         \/ \E j, k \in Keys : BeginTx(c, <<j, k>>)
         \/ ClientStep(c)
  PROVE  OnceInv'
<1>0. /\ MemOK /\ FileOK /\ RewriteOK /\ ClientsOK
      /\ Once(db) /\ DiskOnce /\ TempOnce /\ Phases /\ Apart /\ Free(c)
      /\ cur[c] \in Entries /\ db \in Values
  BY Zenon DEF Traced, OnceInv, ClientsOK, MemOK
<1>1. ASSUME NEW k \in Keys, BeginOp(c, k)
      PROVE  OnceInv'
  <2>1. /\ Issue(c, k, 0) /\ Goto(c, "apply")
        /\ UNCHANGED <<db, base, log, open, buf, rewriteBuf, rw, temp>>
    BY <1>1 DEF BeginOp, file, rewrite
  <2>2. rw # "snapshot"
    BY Zenon, <1>0, <1>1 DEF BeginOp, Phases
  <2> QED
    BY Zenon, <2>1, <2>2, OnceIssue
<1>2. ASSUME NEW j \in Keys, NEW k \in Keys, BeginTx(c, <<j, k>>)
      PROVE  OnceInv'
  <2>1. /\ Issue(c, Head(<<j, k>>), Len(cmds) + 1) /\ Goto(c, "apply")
        /\ UNCHANGED <<db, base, log, open, buf, rewriteBuf, rw, temp>>
    BY <1>2 DEF BeginTx, file, rewrite
  <2>2. rw # "snapshot"
    BY Zenon, <1>0, <1>2 DEF BeginTx, Phases
  <2> QED
    BY Zenon, <2>1, <2>2, OnceIssue
<1>3. ASSUME pc[c] # "idle", UNCHANGED <<rw, temp, open>>
      PROVE  rw # "snapshot" /\ Phases'
  <2>1. rw # "snapshot"
    BY Zenon, <1>0, <1>3 DEF Phases
  <2> QED
    BY Zenon, <1>0, <1>3, <2>1 DEF Phases
<1>4. ASSUME Moves(c), Phases', Once(db)', DiskOnce', TempOnce', Free(c)',
             \A d \in Clients : d # c => Free(d)'
      PROVE  OnceInv'
  <2>1. Apart'
    BY Zenon, <1>0, <1>4, ApartMoves
  <2> QED
    BY Zenon, <1>4, <2>1 DEF OnceInv
<1>5. ASSUME Moves(c), NEW d \in Clients, d # c
      PROVE  /\ Free(d) /\ pc'[d] = pc[d] /\ cur'[d] = cur[d]
             /\ pc[d] # "idle" => cur[d].id # cur[c].id
  <2>1. pc'[d] = pc[d] /\ cur'[d] = cur[d]
    BY Zenon, <1>0, <1>5, ApartMoves
  <2> QED
    BY Zenon, <1>5, <2>1 DEF OnceInv, Apart, Moves
<1>6. CASE Handle(c)
  <2>1. /\ Moves(c) /\ db' = Apply(db, cur[c]) /\ pc'[c] = "feed" /\ cur'[c] = cur[c]
        /\ UNCHANGED <<base, log, open, buf, rewriteBuf, rw, temp>>
    BY ZenonT(60), <1>0, <1>6 DEF Handle, Moves, Goto, file, rewrite, history, ClientsOK
  <2>2. pc[c] = "apply" /\ ~Holds(db, cur[c].id)
    BY Zenon, <1>0, <1>6 DEF Handle, Free
  <2>3. /\ Once(db)'
        /\ \A k \in Keys : k # cur[c].key => db'[k] = db[k]
        /\ cur[c].key \in Keys /\ cur[c].id = 0 => db'[cur[c].key] = << >>
        /\ cur[c].key \in Keys /\ cur[c].id # 0 =>
              Range(db'[cur[c].key]) = Range(db[cur[c].key]) \cup {cur[c].id}
    <3>1. cur[c].key \in Keys => cur[c].id \notin Range(db[cur[c].key])
      BY Zenon, <2>2 DEF Holds
    <3> QED
      BY Zenon, <1>0, <2>1, <3>1, ApplyStep
  <2>4. \A i : i # cur[c].id /\ Holds(db', i) => Holds(db, i)
    <3>1. \A k \in Keys : \A i \in Range(db'[k]) : i \in Range(db[k]) \/ i = cur[c].id
      <4>1. Range(<< >>) = {}
        BY Zenon, RangeSmall
      <4> QED
        BY Zenon, <2>3, <4>1
    <3> QED
      BY Zenon, <3>1 DEF Holds
  <2>5. Pending' = Pending /\ DiskOnce' /\ TempOnce'
    BY Zenon, <1>0, <2>1 DEF Pending, DiskOnce, TempOnce
  <2>6. Free(c)'
    BY Zenon, <1>0, <2>1, <2>2, <2>5 DEF Free
  <2>7. ASSUME NEW d \in Clients, d # c
        PROVE  Free(d)'
    <3>1. CASE pc[d] = "idle"
      BY Zenon, <1>5, <2>1, <2>7, <3>1 DEF Free
    <3>2. CASE pc[d] # "idle"
      <4>1. Holds(db', cur[d].id) => Holds(db, cur[d].id)
        BY Zenon, <1>5, <2>1, <2>4, <2>7, <3>2
      <4> QED
        BY Zenon, <1>5, <2>1, <2>5, <2>7, <4>1, FreeKeeps
    <3> QED
      BY Zenon, <3>1, <3>2
  <2> QED
    BY ZenonT(40), <1>3, <1>4, <2>1, <2>2, <2>3, <2>5, <2>6, <2>7
<1>7. CASE Feed(c)
  <2>1. /\ Moves(c) /\ Writes(cur[c]) /\ pc'[c] \in {"reply", "note"} /\ cur'[c] = cur[c]
        /\ UNCHANGED <<db, open, rewriteBuf, rw, temp>>
    BY ZenonT(60), <1>0, <1>7 DEF Feed, Moves, Writes, Goto, rewrite, history, ClientsOK
  <2>2. pc[c] = "feed" /\ cur[c].id \notin Pending /\ ~Holds(base, cur[c].id) /\ base' = base
    BY Zenon, <1>0, <1>7, <2>1 DEF Feed, Free, Writes
  <2>3. DiskOnce' /\ \A x \in Pending' : x \in Pending \/ x = cur[c].id
    BY Zenon, <1>0, <2>1, <2>2, WriteOnce
  <2>4. TempOnce' /\ Once(db)'
    BY Zenon, <1>0, <2>1 DEF TempOnce
  <2>5. Free(c)'
    BY Zenon, <1>0, <2>1, <2>2 DEF Free
  <2>6. ASSUME NEW d \in Clients, d # c
        PROVE  Free(d)'
    <3>1. CASE pc[d] = "idle"
      BY Zenon, <1>5, <2>1, <2>6, <3>1 DEF Free
    <3>2. CASE pc[d] # "idle"
      <4>1. cur[d].id \in Pending' => cur[d].id \in Pending
        BY Zenon, <1>5, <2>1, <2>3, <2>6, <3>2
      <4> QED
        BY Zenon, <1>5, <2>1, <2>2, <2>6, <4>1, FreeKeeps
    <3> QED
      BY ZenonT(40), <3>1, <3>2
  <2> QED
    BY Zenon, <1>3, <1>4, <2>1, <2>2, <2>3, <2>4, <2>5, <2>6
<1>8. CASE FeedNote(c)
  <2>1. /\ Moves(c) /\ Note(cur[c]) /\ pc'[c] \in {"flush", "reply"} /\ cur'[c] = cur[c]
        /\ UNCHANGED <<db, base, log, open, buf, rw, temp>>
    BY ZenonT(60), <1>0, <1>8 DEF FeedNote, Moves, Goto, file, history, ClientsOK
  <2>2. pc[c] = "note" /\ cur[c].id \notin Ids(rewriteBuf) /\ ~Holds(temp.base, cur[c].id)
    BY Zenon, <1>0, <1>8 DEF FeedNote, Free
  <2>3. TempOnce' /\ \A x \in Ids(rewriteBuf') : x \in Ids(rewriteBuf) \/ x = cur[c].id
    BY Zenon, <1>0, <2>1, <2>2, NoteOnce
  <2>4. Pending' = Pending /\ DiskOnce' /\ Once(db)'
    BY Zenon, <1>0, <2>1 DEF Pending, DiskOnce
  <2>5. Free(c)'
    BY Zenon, <1>0, <2>1, <2>2 DEF Free
  <2>6. ASSUME NEW d \in Clients, d # c
        PROVE  Free(d)'
    <3>1. CASE pc[d] = "idle"
      BY Zenon, <1>5, <2>1, <2>6, <3>1 DEF Free
    <3>2. CASE pc[d] # "idle"
      <4>1. cur[d].id \in Ids(rewriteBuf') => cur[d].id \in Ids(rewriteBuf)
        BY Zenon, <1>5, <2>1, <2>3, <2>6, <3>2
      <4> QED
        BY Zenon, <1>5, <2>1, <2>4, <2>6, <4>1, FreeKeeps
    <3> QED
      BY ZenonT(40), <3>1, <3>2
  <2> QED
    BY Zenon, <1>3, <1>4, <2>1, <2>2, <2>3, <2>4, <2>5, <2>6
<1>9. CASE FeedFlush(c) \/ FeedSync(c)
  <2>1. /\ Moves(c) /\ Flushes /\ pc'[c] \in {"sync", "reply"} /\ cur'[c] = cur[c]
        /\ UNCHANGED <<db, open, rewriteBuf, rw, temp>>
    BY <1>0, <1>9 DEF FeedFlush, FeedSync, Moves, Flushes, Goto, rewrite, history, ClientsOK
  <2>2. pc[c] # "idle" /\ base' = base
    BY Zenon, <2>1 DEF Moves, Flushes
  <2>3. DiskOnce' /\ \A x \in Pending' : x \in Pending
    BY Zenon, <1>0, <2>1, FlushOnce
  <2>4. TempOnce' /\ Once(db)'
    BY Zenon, <1>0, <2>1 DEF TempOnce
  <2>5. Free(c)'
    BY Zenon, <1>0, <2>1, <2>2 DEF Free
  <2>6. ASSUME NEW d \in Clients, d # c
        PROVE  Free(d)'
    BY Zenon, <1>5, <2>1, <2>2, <2>3, <2>6, FreeKeeps
  <2> QED
    BY ZenonT(60), <1>3, <1>4, <2>1, <2>2, <2>3, <2>4, <2>5, <2>6
<1>10. CASE Reply(c) /\ batch[c] # << >>
  <2>1. /\ Issue(c, Head(batch[c]), cur[c].tx) /\ Goto(c, "apply") /\ pc[c] # "idle"
        /\ UNCHANGED <<db, base, log, open, buf, rewriteBuf, rw, temp>>
    BY <1>10 DEF Reply, file, rewrite
  <2> QED
    BY ZenonT(40), <1>3, <2>1, OnceIssue
<1>11. CASE Reply(c) /\ batch[c] = << >>
  <2>1. /\ pc[c] # "idle" /\ pc' = [pc EXCEPT ![c] = "idle"] /\ cur' = [cur EXCEPT ![c] = Nothing]
        /\ UNCHANGED <<db, base, log, open, buf, rewriteBuf, rw, temp>>
    BY <1>11 DEF Reply, Goto, file, rewrite
  <2>2. pc'[c] = "idle" /\ \A d \in Clients : d # c => pc'[d] = pc[d] /\ cur'[d] = cur[d]
    BY Zenon, <1>0, <2>1 DEF ClientsOK
  <2>3. Pending' = Pending /\ Once(db)' /\ DiskOnce' /\ TempOnce'
    BY Zenon, <1>0, <2>1 DEF Pending, DiskOnce, TempOnce
  <2>4. Apart'
    BY ZenonT(60), <1>0, <2>2 DEF Apart
  <2>5. ASSUME NEW d \in Clients
        PROVE  Free(d)'
    <3>1. CASE d = c
      BY Zenon, <2>2, <3>1 DEF Free
    <3>2. CASE d # c
      <4>1. Free(d)
        BY Zenon DEF OnceInv
      <4> QED
        BY Zenon, <2>1, <2>2, <2>3, <3>2, <4>1, FreeKeeps
    <3> QED
      BY Zenon, <3>1, <3>2
  <2> QED
    BY ZenonT(40), <1>3, <2>1, <2>3, <2>4, <2>5 DEF OnceInv
<1> QED
  BY Zenon, <1>1, <1>2, <1>6, <1>7, <1>8, <1>9, <1>10, <1>11 DEF ClientStep

(* The steps of the tickers, of expiry and of Server.Close. *)
LEMMA OnceBackground ==
  ASSUME Traced, OnceInv, Background \/ Close \/ \E k \in Keys : Expire(k)
  PROVE  OnceInv'
<1>0. /\ MemOK /\ FileOK /\ RewriteOK /\ ClientsOK /\ gone \in Seq(Keys)
      /\ Once(db) /\ DiskOnce /\ TempOnce /\ Phases /\ Apart /\ \A d \in Clients : Free(d)
      /\ temp \in [base : Values, log : Seq(Entries)] /\ base \in Values
  BY Zenon DEF Traced, OnceInv, ClientsOK, RewriteOK, FileOK
<1>1. CASE FlusherTick \/ SyncTick \/ Close
  <2>1. /\ Flushes /\ (open' => open)
        /\ UNCHANGED <<db, writer, rewriteBuf, rw, temp, pc, cur>>
    BY <1>1 DEF FlusherTick, SyncTick, Close, Flushes, client, rewrite
  <2>2. DiskOnce' /\ base' = base /\ \A x \in Pending' : x \in Pending
    BY Zenon, <1>0, <2>1, FlushOnce DEF Flushes
  <2>3. Once(db)' /\ TempOnce' /\ Apart'
    BY Zenon, <1>0, <2>1 DEF TempOnce, Apart
  <2>4. Phases'
    BY Zenon, <1>0, <2>1 DEF Phases
  <2>5. ASSUME NEW d \in Clients
        PROVE  Free(d)'
    <3>1. Free(d) /\ pc'[d] = pc[d] /\ cur'[d] = cur[d]
      BY Zenon, <1>0, <2>1
    <3> QED
      BY Zenon, <2>1, <2>2, <3>1, FreeKeeps
  <2> QED
    BY ZenonT(40), <2>2, <2>3, <2>4, <2>5 DEF OnceInv
<1>2. CASE notifyExpired
  <2> DEFINE e == Report(Head(gone))
  <2>0. Head(gone) \in Keys
    BY <1>0, <1>2 DEF notifyExpired
  <2>1. e \in Entries /\ e.id = 0
    BY Zenon, <2>0, ReportIs
  <2>2. /\ Writes(e) /\ (Note(e) \/ rewriteBuf' = rewriteBuf)
        /\ UNCHANGED <<db, writer, open, rw, temp, pc, cur>>
    BY Zenon, <1>2 DEF notifyExpired, Report, Writes, client
  <2> HIDE DEF e
  <2>3. e.id \notin Pending /\ e.id \notin Ids(rewriteBuf)
    <3>1. \A l : 0 \notin Ids(l)
      BY Zenon DEF Ids
    <3> QED
      BY Zenon, <2>1, <3>1 DEF Pending
  <2>4. ~Holds(base, e.id) /\ ~Holds(temp.base, e.id)
    <3>1. temp.base \in Values /\ cmds \in Seq(Entries)
      <4>1. temp.base \in Values
        BY <1>0
      <4> QED
        BY Zenon, <1>0, <4>1 DEF ClientsOK
    <3>2. \A k \in Keys : 0 \notin Range(base[k])
      BY Zenon, <1>0, <3>1, NoZero
    <3>3. \A k \in Keys : 0 \notin Range(temp.base[k])
      BY Zenon, <3>1, NoZero
    <3> QED
      BY Zenon, <2>1, <3>2, <3>3 DEF Holds
  <2>5. DiskOnce' /\ base' = base /\ \A x \in Pending' : x \in Pending
    <3>1. DiskOnce' /\ \A x \in Pending' : x \in Pending \/ (x = e.id /\ x # 0)
      BY Zenon, <1>0, <2>1, <2>2, <2>3, <2>4, WriteOnce
    <3> QED
      BY Zenon, <2>1, <2>2, <3>1 DEF Writes
  <2>6. TempOnce' /\ \A x \in Ids(rewriteBuf') : x \in Ids(rewriteBuf)
    <3>1. CASE Note(e)
      <4>1. TempOnce' /\ \A x \in Ids(rewriteBuf') : x \in Ids(rewriteBuf) \/ (x = e.id /\ x # 0)
        BY Zenon, <1>0, <2>1, <2>2, <2>3, <2>4, <3>1, NoteOnce
      <4> QED
        BY Zenon, <2>1, <4>1
    <3>2. CASE rewriteBuf' = rewriteBuf
      BY Zenon, <1>0, <2>2, <3>2 DEF TempOnce
    <3> QED
      BY Zenon, <2>2, <3>1, <3>2
  <2>7. Once(db)' /\ Apart'
    BY Zenon, <1>0, <2>2 DEF Apart
  <2>8. Phases'
    <3>1. Ids(rewriteBuf) = {} => Ids(rewriteBuf') = {}
      BY Zenon, <2>6
    <3> QED
      BY Zenon, <1>0, <2>2, <3>1 DEF Phases
  <2>9. ASSUME NEW d \in Clients
        PROVE  Free(d)'
    <3>1. Free(d) /\ pc'[d] = pc[d] /\ cur'[d] = cur[d]
      BY Zenon, <1>0, <2>2
    <3> QED
      BY Zenon, <2>2, <2>5, <2>6, <3>1, FreeKeeps
  <2> QED
    BY Zenon, <2>5, <2>6, <2>7, <2>8, <2>9 DEF OnceInv
<1>3. ASSUME NEW k \in Keys, Expire(k)
      PROVE  OnceInv'
  <2>1. /\ db' = [db EXCEPT ![k] = << >>]
        /\ UNCHANGED <<writer, base, log, open, buf, rewriteBuf, rw, temp, pc, cur>>
    BY <1>3 DEF Expire, client, file, rewrite
  <2>2. \A j \in Keys : db'[j] = db[j] \/ db'[j] = << >>
    BY Zenon, <1>0, <2>1 DEF MemOK, Values
  <2>3. Once(db)' /\ \A i : Holds(db', i) => Holds(db, i)
    <3>1. Range(<< >>) = {} /\ IsInjective(<< >>)
      <4>1. IsInjective(<< >>)
        BY DEF IsInjective
      <4> QED
        BY Zenon, <4>1, RangeSmall
    <3>2. Once(db)'
      BY Zenon, <1>0, <2>2, <3>1 DEF Once
    <3> QED
      BY Zenon, <2>2, <3>1, <3>2 DEF Holds
  <2>4. Pending' = Pending /\ DiskOnce' /\ TempOnce' /\ Apart'
    BY Zenon, <1>0, <2>1 DEF Pending, DiskOnce, TempOnce, Apart
  <2>5. Phases'
    BY Zenon, <1>0, <2>1 DEF Phases
  <2>6. ASSUME NEW d \in Clients
        PROVE  Free(d)'
    <3>1. Free(d) /\ pc'[d] = pc[d] /\ cur'[d] = cur[d]
      BY Zenon, <1>0, <2>1
    <3> QED
      BY Zenon, <2>1, <2>3, <2>4, <3>1, FreeKeeps
  <2> QED
    BY Zenon, <2>3, <2>4, <2>5, <2>6 DEF OnceInv
<1> QED
  BY Zenon, <1>1, <1>2, <1>3 DEF Background

(* The steps of Rewrite. *)
LEMMA OnceRewrite ==
  ASSUME Traced, OnceInv, RewriteLock \/ RewriteStep
  PROVE  OnceInv'
<1>0. /\ MemOK /\ FileOK /\ RewriteOK /\ ClientsOK
      /\ Once(db) /\ DiskOnce /\ TempOnce /\ Phases /\ Apart /\ \A d \in Clients : Free(d)
      /\ temp \in [base : Values, log : Seq(Entries)] /\ db \in Values
  BY Zenon DEF Traced, OnceInv, RewriteOK, MemOK
<1>1. ASSUME UNCHANGED <<db, pc, cur>>
      PROVE  Once(db)' /\ Apart'
  BY Zenon, <1>0, <1>1 DEF Apart
<1>2. ASSUME UNCHANGED <<db, pc, cur>>, NEW d \in Clients,
             \A i : Holds(base', i) => Holds(base, i),
             \A i : Holds(temp'.base, i) => Holds(temp.base, i),
             \A x \in Pending' : x \in Pending,
             \A x \in Ids(rewriteBuf') : x \in Ids(rewriteBuf),
             \A x \in Ids(temp'.log) : x \in Ids(temp.log)
      PROVE  Free(d)'
  <2>1. Free(d) /\ pc'[d] = pc[d] /\ cur'[d] = cur[d]
    BY Zenon, <1>0, <1>2
  <2> QED
    BY Zenon, <1>2, <2>1, FreeKeeps
<1>3. Ids(<< >>) = {} /\ Distinct(<< >>)
  BY Zenon, RangeSmall
<1>4. CASE RewriteLock
  <2>1. /\ rw = "idle" /\ rw' = "snapshot" /\ rewriteBuf' = << >> /\ writer' = "rewrite"
        /\ \A c \in Clients : pc[c] = "idle"
        /\ UNCHANGED <<db, base, log, open, buf, temp, pc, cur>>
    BY <1>4 DEF RewriteLock, client, file
  <2>2. Pending' = Pending /\ DiskOnce' /\ TempOnce'
    BY Zenon, <1>0, <1>3, <2>1 DEF Pending, DiskOnce, TempOnce, Clean
  <2>3. Phases'
    <3>1. "rewrite" # None /\ "snapshot" \notin {"rename", "swap"}
      BY AofAssumption
    <3> QED
      BY Zenon, <1>0, <1>3, <2>1, <3>1 DEF Phases
  <2>4. \A d \in Clients : Free(d)'
    BY Zenon, <1>2, <1>3, <2>1, <2>2
  <2> QED
    BY Zenon, <1>1, <2>1, <2>2, <2>3, <2>4 DEF OnceInv
<1>5. ASSUME NEW k \in Keys, SnapshotShard(k)
      PROVE  OnceInv'
  <2>1. /\ rw = "snapshot"
        /\ UNCHANGED <<db, writer, base, log, open, buf, rewriteBuf, rw, pc, cur>>
    BY <1>5 DEF SnapshotShard, client, file
  <2>2. /\ temp'.log = temp.log
        /\ temp'.base[k] = db[k] /\ \A j \in Keys : j # k => temp'.base[j] = temp.base[j]
    BY Zenon, <1>0, <1>5, SnapshotIs
  <2>3. /\ Ids(rewriteBuf) = {} /\ temp.log = << >> /\ \A c \in Clients : pc[c] = "idle"
    BY Zenon, <1>0, <2>1 DEF Phases
  <2>4. Once(temp'.base)
    <3>1. \A j \in Keys : temp'.base[j] = temp.base[j] \/ temp'.base[j] = db[j]
      BY Zenon, <2>2
    <3> QED
      BY Zenon, <1>0, <3>1 DEF TempOnce, Clean, Once
  <2>5. TempOnce'
    BY Zenon, <1>0, <1>3, <2>1, <2>2, <2>3, <2>4 DEF TempOnce, Clean
  <2>6. DiskOnce'
    BY Zenon, <1>0, <2>1 DEF DiskOnce
  <2>7. Phases'
    BY Zenon, <1>0, <2>1, <2>2 DEF Phases
  <2>8. \A d \in Clients : Free(d)'
    BY Zenon, <2>1, <2>3 DEF Free
  <2> QED
    BY Zenon, <1>1, <2>1, <2>5, <2>6, <2>7, <2>8 DEF OnceInv
<1>6. CASE RewriteUnlock
  <2>1. /\ rw = "snapshot" /\ rw' = "drain"
        /\ UNCHANGED <<db, base, log, open, buf, rewriteBuf, temp, pc, cur>>
    BY <1>6 DEF RewriteUnlock, client, file
  <2>2. Pending' = Pending /\ DiskOnce' /\ TempOnce'
    BY Zenon, <1>0, <2>1 DEF Pending, DiskOnce, TempOnce
  <2>3. Phases'
    BY <1>0, <2>1 DEF Phases
  <2>4. \A d \in Clients : Free(d)'
    BY Zenon, <1>2, <2>1, <2>2
  <2> QED
    BY Zenon, <1>1, <2>1, <2>2, <2>3, <2>4 DEF OnceInv
<1>7. CASE Drain
  <2>1. /\ rw' = "close" /\ rewriteBuf' = << >> /\ temp' = [temp EXCEPT !.log = rewriteBuf]
        /\ UNCHANGED <<db, base, log, open, buf, pc, cur>>
    BY <1>7 DEF Drain, client, file
  <2>2. temp'.base = temp.base /\ temp'.log = rewriteBuf
    BY <1>0, <2>1
  <2>3. DiskOnce' /\ TempOnce' /\ Pending' = Pending
    BY Zenon, <1>0, <1>3, <2>1, <2>2 DEF DiskOnce, TempOnce, Clean, Pending
  <2>4. Phases'
    BY <2>1 DEF Phases
  <2>5. \A d \in Clients : Free(d)'
    BY Zenon, <1>0, <1>3, <2>1, <2>2, <2>3 DEF Free
  <2> QED
    BY Zenon, <1>1, <2>1, <2>3, <2>4, <2>5 DEF OnceInv
<1>8. CASE CloseOld
  <2>1. /\ Flushes /\ rw' = "rename" /\ open' = FALSE
        /\ UNCHANGED <<db, rewriteBuf, temp, pc, cur>>
    BY <1>8 DEF CloseOld, Flushes, client
  <2>2. DiskOnce' /\ base' = base /\ \A x \in Pending' : x \in Pending
    BY Zenon, <1>0, <2>1, FlushOnce DEF Flushes
  <2>3. TempOnce'
    BY Zenon, <1>0, <2>1 DEF TempOnce
  <2>4. Phases'
    BY <2>1 DEF Phases
  <2>5. \A d \in Clients : Free(d)'
    BY Zenon, <1>2, <2>1, <2>2
  <2> QED
    BY Zenon, <1>1, <2>1, <2>2, <2>3, <2>4, <2>5 DEF OnceInv
<1>9. CASE Rename
  <2>1. /\ base' = temp.base /\ log' = temp.log /\ rw = "rename" /\ rw' = "swap"
        /\ UNCHANGED <<db, open, buf, rewriteBuf, temp, pc, cur>>
    BY <1>9 DEF Rename, client
  <2>2. ~open'
    BY Zenon, <1>0, <2>1 DEF Phases
  <2>3. TempOnce' /\ DiskOnce'
    BY Zenon, <1>0, <2>1, <2>2 DEF DiskOnce, TempOnce
  <2>4. Phases'
    BY <2>1, <2>2 DEF Phases
  <2>5. \A x \in Pending' : x \in Ids(temp.log)
    BY Zenon, <2>1, <2>2 DEF Pending
  <2>6. \A d \in Clients : Free(d)'
    BY Zenon, <1>0, <2>1, <2>5 DEF Free
  <2> QED
    BY Zenon, <1>1, <2>1, <2>3, <2>4, <2>6 DEF OnceInv
<1>10. CASE RewriteFails \/ Swap
  <2>1. /\ temp' = [base |-> NoKeys, log |-> << >>] /\ rw' = "idle"
        /\ rewriteBuf' = << >> \/ rewriteBuf' = rewriteBuf
        /\ (buf' = buf /\ open' = open) \/ buf' = << >>
        /\ UNCHANGED <<db, base, log, pc, cur>>
    BY SMTT(30), <1>10 DEF RewriteFails, Swap, client, file
  <2>2. temp'.base = NoKeys /\ temp'.log = << >>
    BY <2>1
  <2>3. Once(temp'.base) /\ Distinct(temp'.log) /\ Ids(temp'.log) = {} /\ \A i : ~Holds(temp'.base, i)
    BY Zenon, <1>3, <2>2, EmptyOK
  <2>4. Distinct(rewriteBuf') /\ \A x \in Ids(rewriteBuf') : x \in Ids(rewriteBuf)
    BY Zenon, <1>0, <1>3, <2>1 DEF TempOnce, Clean
  <2>5. TempOnce'
    BY Zenon, <2>3, <2>4 DEF TempOnce, Clean
  <2>6. DiskOnce' /\ \A x \in Pending' : x \in Pending
    <3>1. CASE buf' = buf /\ open' = open
      BY Zenon, <1>0, <2>1, <3>1 DEF DiskOnce, Pending
    <3>2. CASE buf' = << >>
      <4>1. Clean(base, log) /\ Once(base)
        BY Zenon, <1>0 DEF DiskOnce, Clean
      <4>2. Clean(base, buf') /\ Ids(buf') = {}
        BY Zenon, <1>3, <3>2, <4>1 DEF Clean
      <4> QED
        BY Zenon, <2>1, <4>1, <4>2 DEF DiskOnce, Pending
    <3> QED
      BY Zenon, <2>1, <3>1, <3>2
  <2>8. Phases'
    BY <2>1, <2>2 DEF Phases
  <2>9. \A d \in Clients : Free(d)'
    BY Zenon, <1>2, <2>1, <2>3, <2>4, <2>6
  <2> QED
    BY ZenonT(40), <1>1, <2>1, <2>5, <2>6, <2>8, <2>9 DEF OnceInv
<1> QED
  BY Zenon, <1>4, <1>5, <1>6, <1>7, <1>8, <1>9, <1>10 DEF RewriteStep

(* Restarting with a clean file. *)
LEMMA OnceRestart ==
  ASSUME Traced, OnceInv, NEW l \in Seq(Entries), Restart(l), Distinct(l), Ids(l) \subseteq Ids(log)
  PROVE  OnceInv'
<1>1. /\ db' = Replay(base, l) /\ log' = l /\ buf' = << >> /\ rewriteBuf' = << >> /\ rw' = "idle"
      /\ temp' = [base |-> NoKeys, log |-> << >>] /\ pc' = [c \in Clients |-> "idle"]
      /\ base' = base
  BY Zenon DEF Restart
<1>2. base \in Values /\ Once(base) /\ \A x \in Ids(l) : ~Holds(base, x)
  BY Zenon DEF Traced, FileOK, OnceInv, DiskOnce, Clean
<1>3. Once(db)'
  BY Zenon, <1>1, <1>2, ReplayOnce
<1>4. Ids(<< >>) = {} /\ Distinct(<< >>)
  BY Zenon, RangeSmall
<1>5. DiskOnce'
  BY Zenon, <1>1, <1>2, <1>4 DEF DiskOnce, Clean
<1>6. temp'.base = NoKeys /\ temp'.log = << >>
  BY <1>1
<1>7. TempOnce'
  BY Zenon, <1>1, <1>4, <1>6, EmptyOK DEF TempOnce, Clean
<1>8. Phases'
  BY SMTT(30), <1>1, <1>6 DEF Phases
<1>9. \A c \in Clients : pc'[c] = "idle"
  BY Zenon, <1>1
<1>10. Apart' /\ \A c \in Clients : Free(c)'
  BY Zenon, <1>9 DEF Apart, Free
<1> QED
  BY Zenon, <1>3, <1>5, <1>7, <1>8, <1>10 DEF OnceInv

(* The empty server. *)
LEMMA OnceInit == Init => OnceInv
<1> SUFFICES ASSUME Init
             PROVE  OnceInv
  BY ZenonT(40)
<1>1. temp.base = NoKeys /\ temp.log = << >> /\ rw = "idle" /\ db = NoKeys /\ base = NoKeys
  BY DEF Init
<1>2. Ids(<< >>) = {} /\ Distinct(<< >>)
  BY Zenon, RangeSmall
<1>3. Clean(NoKeys, << >>)
  BY Zenon, <1>2, EmptyOK DEF Clean
<1>4. Once(db) /\ DiskOnce /\ TempOnce
  BY Zenon, <1>1, <1>2, <1>3, EmptyOK DEF Init, DiskOnce, TempOnce
<1>5. Phases
  BY <1>1 DEF Phases
<1>6. \A c \in Clients : pc[c] = "idle"
  BY Zenon DEF Init
<1>7. Apart /\ \A c \in Clients : Free(c)
  BY Zenon, <1>6 DEF Apart, Free
<1> QED
  BY Zenon, <1>4, <1>5, <1>7 DEF OnceInv

(* Every step keeps the second invariant. *)
LEMMA OnceStep ==
  ASSUME Traced, OnceInv, [Next]_vars
  PROVE  OnceInv'
<1>1. CASE UNCHANGED vars
  <2>1. UNCHANGED <<db, writer, base, log, open, buf, rewriteBuf, rw, temp, pc, cur>>
    BY <1>1 DEF vars, client, file, rewrite
  <2>2. Once(db)' /\ DiskOnce' /\ TempOnce' /\ Phases' /\ Apart' /\ Pending' = Pending
    BY Zenon, <2>1 DEF OnceInv, DiskOnce, TempOnce, Phases, Apart, Pending
  <2>3. \A c \in Clients : Free(c)'
    BY Zenon, <2>1, <2>2 DEF OnceInv, Free
  <2> QED
    BY Zenon, <2>2, <2>3 DEF OnceInv
<1>2. CASE Crash
  <2>1. FileOK /\ Distinct(log)
    BY Zenon DEF Traced, OnceInv, DiskOnce, Clean
  <2>2. PICK l \in Seq(Entries) : Restart(l) /\ Ids(l) \subseteq Ids(log) /\ Distinct(l)
    BY Zenon, <1>2, <2>1, CrashLeaves
  <2> QED
    BY Zenon, <2>2, OnceRestart
<1> QED
  BY Zenon, <1>1, <1>2, NextCases, OnceClient, OnceBackground, OnceRewrite

(* The second invariant holds in every reachable state. *)
LEMMA OnceInvariant == Spec => []OnceInv
<1>1. Init => OnceInv
  BY SMTT(30), OnceInit
<1>2. Traced /\ OnceInv /\ [Next]_vars => OnceInv'
  BY OnceStep
<1> QED
  BY <1>1, <1>2, TracedInvariant, PTL DEF Spec

(* Replaying the file never applies a command twice, whatever rewrites,    *)
(* I/O errors, expiries, crashes and shutdowns have happened: a write is   *)
(* in the snapshot or in rewriteBuf, never in both (aof.go:186-195).       *)
THEOREM FileRepeatsNothing == Spec => []NeverTwice
<1>1. ASSUME Traced, OnceInv
      PROVE  NeverTwice
  <2>1. /\ base \in Values /\ log \in Seq(Entries)
        /\ Once(base) /\ Distinct(log) /\ \A x \in Ids(log) : ~Holds(base, x)
    BY Zenon, <1>1 DEF Traced, FileOK, OnceInv, DiskOnce, Clean
  <2>2. Once(Replay(base, log))
    BY Zenon, <2>1, ReplayOnce
  <2> QED
    BY Zenon, <2>2 DEF NeverTwice, Restored, Once
<1>2. Traced /\ OnceInv => NeverTwice
  BY Zenon, <1>1
<1> QED
  BY <1>2, TracedInvariant, OnceInvariant, PTL

-----------------------------------------------------------------------------
(* Third invariant: between the snapshot and rewriteBuf no command of the  *)
(* keyspace is left out, but for those a client is still about to note.    *)

\* EXEC runs alone.
ExecAlone ==
  \A c \in Clients : pc[c] # "idle" /\ cur[c].tx # 0 =>
    writer = c /\ \A d \in Clients : d # c => pc[d] = "idle"
Unanswered ==
  acked \subseteq DOMAIN cmds /\ \A c \in Clients : pc[c] # "idle" => cur[c].id \notin acked

\* The command is about to be written or noted.
Noting(i) == \E c \in Clients : pc[c] \in {"feed", "note"} /\ cur[c].id = i

Covered ==
  /\ rw \in {"snapshot", "drain"} => isRewriting
  /\ rw = "snapshot" =>
       \A k \in Keys : k \notin snapTodo => Range(db[k]) \subseteq Range(temp.base[k])
  /\ rw = "drain" /\ open =>
       \A k \in Keys : \A i \in Range(db[k]) :
         i \in Range(temp.base[k]) \/ i \in Ids(rewriteBuf) \/ Noting(i)
  /\ rw \in {"close", "rename", "swap"} =>
       \A i \in kept : Holds(temp.base, i) \/ i \in Ids(temp.log)

KeepInv == ExecAlone /\ Unanswered /\ Covered

(* Moving on leaves EXEC alone. *)
LEMMA AloneMoves ==
  ASSUME ClientsOK, ExecAlone, Unanswered, NEW c, Moves(c), UNCHANGED <<writer, acked>>
  PROVE  ExecAlone' /\ Unanswered'
<1>1. PICK l : pc' = [pc EXCEPT ![c] = l]
  BY Zenon DEF Moves
<1>2. (\A d \in Clients : d # c => pc'[d] = pc[d]) /\ cur' = cur /\ cmds' = cmds
  BY Zenon, <1>1 DEF ClientsOK, Moves
<1>3. c \in Clients /\ pc[c] # "idle" /\ \A d \in Clients : pc'[d] # "idle" => pc[d] # "idle"
  BY Zenon, <1>2 DEF Moves
<1>4. Unanswered'
  BY Zenon, <1>2, <1>3 DEF Unanswered
<1>5. ExecAlone'
  BY Zenon, <1>2, <1>3 DEF ExecAlone
<1> QED
  BY Zenon, <1>4, <1>5

(* A command is issued while no EXEC of another client runs. *)
LEMMA AloneIssue ==
  ASSUME ClientsOK, ExecAlone, Unanswered, NEW c \in Clients, NEW k, NEW tx,
         Issue(c, k, tx), Goto(c, "apply"), UNCHANGED acked,
         tx # 0 => writer' = c /\ \A d \in Clients : d # c => pc[d] = "idle",
         \A d \in Clients : d # c /\ pc[d] # "idle" => cur[d].tx = 0
  PROVE  ExecAlone' /\ Unanswered'
<1> DEFINE e == [key |-> k, id |-> Len(cmds) + 1, by |-> c, tx |-> tx]
<1>1. /\ cmds \in Seq(Entries) /\ cmds' = Append(cmds, e) /\ e.tx = tx /\ e.id = Len(cmds) + 1
      /\ cur' = [cur EXCEPT ![c] = e]
  BY Zenon DEF ClientsOK, Issue
<1> HIDE DEF e
<1>2. /\ pc'[c] = "apply" /\ cur'[c] = e
      /\ \A d \in Clients : d # c => pc'[d] = pc[d] /\ cur'[d] = cur[d]
  BY Zenon, <1>1 DEF ClientsOK, Goto
<1>3. Len(cmds) \in Nat /\ DOMAIN cmds = 1 .. Len(cmds)
  BY Zenon, <1>1, RangeMember
<1>4. Len(cmds) + 1 \notin DOMAIN cmds /\ \A i \in DOMAIN cmds : i \in DOMAIN cmds'
  BY <1>1, <1>3
<1>5. Unanswered'
  <2>1. acked' \subseteq DOMAIN cmds' /\ e.id \notin acked'
    BY Zenon, <1>1, <1>4 DEF Unanswered
  <2> QED
    BY Zenon, <1>2, <2>1 DEF Unanswered
<1>6. ExecAlone'
  <2>1. ASSUME NEW d \in Clients, pc'[d] # "idle", cur'[d].tx # 0
        PROVE  d = c
    BY Zenon, <1>2, <2>1
  <2>2. cur'[c].tx # 0 => writer' = c /\ \A d \in Clients : d # c => pc'[d] = "idle"
    BY Zenon, <1>1, <1>2
  <2> QED
    BY Zenon, <2>1, <2>2 DEF ExecAlone
<1> QED
  BY Zenon, <1>5, <1>6

(* Nothing is left out as long as what enters the keyspace is about to be  *)
(* noted, and what was about to be noted is.                               *)
LEMMA CoverKeeps ==
  ASSUME Covered, UNCHANGED <<rw, isRewriting, temp, kept>>, open' => open,
         rw = "snapshot" =>
           snapTodo' = snapTodo /\ \A k \in Keys : Range(db'[k]) \subseteq Range(db[k]),
         rw = "drain" /\ open =>
           \A k \in Keys : \A i \in Range(db'[k]) : i \in Range(db[k]) \/ Noting(i)',
         rw = "drain" /\ open =>
           \A i : /\ i \in Ids(rewriteBuf) => i \in Ids(rewriteBuf')
                  /\ Noting(i) => Noting(i)' \/ i \in Ids(rewriteBuf')
  PROVE  Covered'
<1>1. rw' \in {"snapshot", "drain"} => isRewriting'
  BY Zenon DEF Covered
<1>2. rw' = "snapshot" =>
        \A k \in Keys : k \notin snapTodo' => Range(db'[k]) \subseteq Range(temp'.base[k])
  <2> SUFFICES ASSUME rw = "snapshot", NEW k \in Keys, k \notin snapTodo
               PROVE  Range(db'[k]) \subseteq Range(temp.base[k])
    BY Zenon
  <2>1. Range(db'[k]) \subseteq Range(db[k])
    BY Zenon
  <2>2. Range(db[k]) \subseteq Range(temp.base[k])
    BY Zenon DEF Covered
  <2> QED
    BY Zenon, <2>1, <2>2
<1>3. rw' = "drain" /\ open' =>
        \A k \in Keys : \A i \in Range(db'[k]) :
          i \in Range(temp'.base[k]) \/ i \in Ids(rewriteBuf') \/ Noting(i)'
  <2> SUFFICES ASSUME rw = "drain", open, NEW k \in Keys, NEW i \in Range(db'[k])
               PROVE  i \in Range(temp.base[k]) \/ i \in Ids(rewriteBuf') \/ Noting(i)'
    BY Zenon
  <2>1. i \in Range(db[k]) \/ Noting(i)'
    BY Zenon
  <2>2. i \in Range(db[k]) => i \in Range(temp.base[k]) \/ i \in Ids(rewriteBuf) \/ Noting(i)
    BY Zenon DEF Covered
  <2>3. /\ i \in Ids(rewriteBuf) => i \in Ids(rewriteBuf')
        /\ Noting(i) => Noting(i)' \/ i \in Ids(rewriteBuf')
    BY Zenon
  <2> QED
    BY Zenon, <2>1, <2>2, <2>3
<1>4. rw' \in {"close", "rename", "swap"} =>
        \A i \in kept' : Holds(temp'.base, i) \/ i \in Ids(temp'.log)
  BY Zenon DEF Covered
<1> QED
  BY Zenon, <1>1, <1>2, <1>3, <1>4 DEF Covered

(* The steps of a client. *)
LEMMA KeepClient ==
  ASSUME Traced, OnceInv, KeepInv, NEW c \in Clients,
         \/ \E k \in Keys : BeginOp(c, k)
         \/ \E j, k \in Keys : BeginTx(c, <<j, k>>)
         \/ ClientStep(c)
  PROVE  KeepInv'
<1>0. /\ MemOK /\ RewriteOK /\ ClientsOK /\ Phases /\ Apart
      /\ ExecAlone /\ Unanswered /\ Covered /\ cur[c] \in Entries /\ db \in Values
  BY Zenon DEF Traced, OnceInv, KeepInv, ClientsOK, MemOK
<1>1. ASSUME NEW i, NEW l, pc' = [pc EXCEPT ![c] = l],
             pc[c] \notin {"feed", "note"} \/ l \in {"feed", "note"},
             \A d \in Clients : d # c \/ pc[c] \in {"feed", "note"} => cur'[d] = cur[d],
             Noting(i)
      PROVE  Noting(i)'
  <2>1. PICK d \in Clients : pc[d] \in {"feed", "note"} /\ cur[d].id = i
    BY Zenon, <1>1 DEF Noting
  <2>2. cur'[d].id = i
    BY Zenon, <1>1, <2>1
  <2>3. pc'[d] \in {"feed", "note"}
    <3>1. CASE d = c
      BY Zenon, <1>0, <1>1, <2>1, <3>1 DEF ClientsOK
    <3>2. CASE d # c
      BY Zenon, <1>0, <1>1, <2>1, <3>2 DEF ClientsOK
    <3> QED
      BY Zenon, <3>1, <3>2
  <2> QED
    BY Zenon, <2>2, <2>3 DEF Noting
<1>2. ASSUME UNCHANGED <<rw, isRewriting, temp, kept, open, db, rewriteBuf>>, rw # "snapshot",
             \A i : Noting(i) => Noting(i)'
      PROVE  Covered'
  BY Zenon, <1>0, <1>2, CoverKeeps
<1>3. ASSUME NEW k, NEW tx, Issue(c, k, tx), Goto(c, "apply"), pc[c] \in {"idle", "reply"},
             UNCHANGED <<rw, isRewriting, temp, kept, open, db, rewriteBuf>>, rw # "snapshot"
      PROVE  Covered'
  <2>1. pc[c] \notin {"feed", "note"}
    BY <1>3
  <2>2. \A d \in Clients : d # c => cur'[d] = cur[d]
    BY Zenon, <1>0, <1>3 DEF Issue, ClientsOK
  <2>3. \A i : Noting(i) => Noting(i)'
    BY Zenon, <1>1, <1>3, <2>1, <2>2 DEF Goto
  <2> QED
    BY Zenon, <1>2, <1>3, <2>3
<1>4. ASSUME writer = None, NEW d \in Clients, pc[d] # "idle"
      PROVE  cur[d].tx = 0
  <2>1. d # None
    BY Zenon, AofAssumption
  <2> QED
    BY Zenon, <1>0, <1>4, <2>1 DEF ExecAlone
<1>5. pc[c] # "idle" => \A d \in Clients : d # c /\ pc[d] # "idle" => cur[d].tx = 0
  BY Zenon, <1>0 DEF ExecAlone
<1>6. pc[c] # "idle" => rw # "snapshot"
  BY Zenon, <1>0 DEF Phases
<1>7. ASSUME NEW k \in Keys, BeginOp(c, k)
      PROVE  KeepInv'
  <2>1. /\ Issue(c, k, 0) /\ Goto(c, "apply") /\ writer = None /\ pc[c] \in {"idle", "reply"}
        /\ UNCHANGED <<db, open, rewriteBuf, rw, temp, isRewriting, kept, acked>>
    BY <1>7 DEF BeginOp, file, rewrite
  <2>2. rw # "snapshot"
    BY Zenon, <1>0, <2>1 DEF Phases
  <2>3. ExecAlone' /\ Unanswered'
    BY Zenon, <1>0, <1>4, <2>1, AloneIssue
  <2> QED
    BY Zenon, <1>3, <2>1, <2>2, <2>3 DEF KeepInv
<1>8. ASSUME NEW j \in Keys, NEW k \in Keys, BeginTx(c, <<j, k>>)
      PROVE  KeepInv'
  <2>1. /\ Issue(c, Head(<<j, k>>), Len(cmds) + 1) /\ Goto(c, "apply") /\ writer = None
        /\ writer' = c /\ pc[c] \in {"idle", "reply"} /\ \A d \in Clients : pc[d] = "idle"
        /\ UNCHANGED <<db, open, rewriteBuf, rw, temp, isRewriting, kept, acked>>
    BY <1>8 DEF BeginTx, file, rewrite
  <2>2. rw # "snapshot"
    BY Zenon, <1>0, <2>1 DEF Phases
  <2>3. ExecAlone' /\ Unanswered'
    BY Zenon, <1>0, <2>1, AloneIssue
  <2> QED
    BY ZenonT(40), <1>3, <2>1, <2>2, <2>3 DEF KeepInv
<1>9. CASE Handle(c)
  <2>1. /\ Moves(c) /\ db' = Apply(db, cur[c]) /\ pc' = [pc EXCEPT ![c] = "feed"]
        /\ pc[c] = "apply" /\ cur' = cur
        /\ UNCHANGED <<writer, acked, open, rewriteBuf, rw, temp, isRewriting, kept>>
    BY ZenonT(60), <1>9 DEF Handle, Moves, Goto, file, rewrite, history
  <2>2. pc[c] \notin {"feed", "note"} /\ pc[c] # "idle"
    BY <2>1
  <2>3. \A i : Noting(i) => Noting(i)'
    BY Zenon, <1>1, <2>1, <2>2
  <2>4. \A i : i = cur[c].id => Noting(i)'
    <3>1. pc'[c] = "feed"
      BY Zenon, <1>0, <2>1 DEF ClientsOK
    <3> QED
      BY Zenon, <2>1, <3>1 DEF Noting
  <2>5. /\ \A k \in Keys : k # cur[c].key => db'[k] = db[k]
        /\ cur[c].key \in Keys /\ cur[c].id = 0 => db'[cur[c].key] = << >>
        /\ cur[c].key \in Keys /\ cur[c].id # 0 =>
              Range(db'[cur[c].key]) = Range(db[cur[c].key]) \cup {cur[c].id}
    BY Zenon, <1>0, <2>1, ApplyStep
  <2>6. \A k \in Keys : \A i \in Range(db'[k]) : i \in Range(db[k]) \/ i = cur[c].id
    <3>1. Range(<< >>) = {}
      BY Zenon, RangeSmall
    <3> QED
      BY Zenon, <2>5, <3>1
  <2>7. \A k \in Keys : \A i \in Range(db'[k]) : i \in Range(db[k]) \/ Noting(i)'
    BY Zenon, <2>4, <2>6
  <2>8. Covered'
    BY Zenon, <1>0, <1>6, <2>1, <2>2, <2>3, <2>7, CoverKeeps
  <2> QED
    BY Zenon, <1>0, <2>1, <2>8, AloneMoves DEF KeepInv
<1>10. CASE Feed(c)
  <2>1. /\ Moves(c) /\ pc[c] = "feed" /\ cur' = cur
        /\ pc' = [pc EXCEPT ![c] = IF WriteFails(cur[c]) THEN "reply" ELSE "note"]
        /\ UNCHANGED <<db, writer, acked, open, rewriteBuf, rw, temp, isRewriting, kept>>
    BY ZenonT(60), <1>10 DEF Feed, Moves, Goto, rewrite, history
  <2>2. open => pc' = [pc EXCEPT ![c] = "note"]
    BY Zenon, <2>1 DEF WriteFails
  <2>3. open => \A i : Noting(i) => Noting(i)'
    BY Zenon, <1>1, <2>1, <2>2
  <2>4. rw # "snapshot"
    BY Zenon, <1>6, <2>1 DEF Moves
  <2>5. Covered'
    BY Zenon, <1>0, <2>1, <2>3, <2>4, CoverKeeps
  <2> QED
    BY Zenon, <1>0, <2>1, <2>5, AloneMoves DEF KeepInv
<1>11. CASE FeedNote(c)
  <2>1. /\ Moves(c) /\ Note(cur[c]) /\ cur' = cur /\ \E l : pc' = [pc EXCEPT ![c] = l]
        /\ UNCHANGED <<db, writer, acked, open, rw, temp, isRewriting, kept>>
    BY ZenonT(60), <1>11 DEF FeedNote, Moves, Goto, file, history
  <2>2. rw # "snapshot" /\ pc[c] # "idle"
    BY Zenon, <1>6, <2>1 DEF Moves
  <2>3. cur[c].id # 0 /\ rewriteBuf \in Seq(Entries)
    <3>1. cmds \in Seq(Entries) /\ cur[c].id \in DOMAIN cmds /\ db \in Values /\ rewriteBuf \in Seq(Entries)
      BY Zenon, <1>0, <2>2 DEF ClientsOK, RewriteOK
    <3>2. 0 \notin DOMAIN cmds
      BY Zenon, <3>1, NoZero
    <3> QED
      BY Zenon, <3>1, <3>2
  <2>4. rw = "drain" =>
          /\ cur[c].id \in Ids(rewriteBuf')
          /\ \A i \in Ids(rewriteBuf) : i \in Ids(rewriteBuf')
    <3> SUFFICES ASSUME rw = "drain"
                 PROVE  /\ cur[c].id \in Ids(rewriteBuf')
                        /\ \A i \in Ids(rewriteBuf) : i \in Ids(rewriteBuf')
      BY Zenon
    <3>1. rewriteBuf' = Append(rewriteBuf, cur[c])
      BY Zenon, <1>0, <2>1 DEF Covered, Note
    <3>2. Ids(Append(rewriteBuf, cur[c])) = Ids(rewriteBuf) \cup ({cur[c].id} \ {0})
      BY Zenon, <1>0, <2>3, IdsAppend
    <3> QED
      BY Zenon, <2>3, <3>1, <3>2
  <2>5. ASSUME NEW i, Noting(i)
        PROVE  i = cur[c].id \/ Noting(i)'
    <3>1. PICK d \in Clients : pc[d] \in {"feed", "note"} /\ cur[d].id = i
      BY Zenon, <2>5 DEF Noting
    <3>2. CASE d # c
      <4>1. pc'[d] = pc[d]
        BY Zenon, <1>0, <2>1, <3>2 DEF ClientsOK
      <4> QED
        BY Zenon, <2>1, <3>1, <4>1 DEF Noting
    <3> QED
      BY Zenon, <3>1, <3>2
  <2>6. Covered'
    BY Zenon, <1>0, <2>1, <2>2, <2>4, <2>5, CoverKeeps
  <2> QED
    BY Zenon, <1>0, <2>1, <2>6, AloneMoves DEF KeepInv
<1>12. CASE FeedFlush(c) \/ FeedSync(c)
  <2>1. /\ Moves(c) /\ pc[c] \in {"flush", "sync"} /\ cur' = cur /\ \E l : pc' = [pc EXCEPT ![c] = l]
        /\ UNCHANGED <<db, writer, acked, open, rewriteBuf, rw, temp, isRewriting, kept>>
    BY SMTT(30), <1>12 DEF FeedFlush, FeedSync, Moves, Goto, rewrite, history
  <2>2. pc[c] \notin {"feed", "note"}
    BY <2>1
  <2>3. \A i : Noting(i) => Noting(i)'
    BY Zenon, <1>1, <2>1, <2>2
  <2>4. rw # "snapshot"
    BY Zenon, <1>6, <2>1 DEF Moves
  <2> QED
    BY ZenonT(60), <1>0, <1>2, <2>1, <2>3, <2>4, AloneMoves DEF KeepInv
<1>13. CASE Reply(c) /\ batch[c] # << >>
  <2>1. /\ Issue(c, Head(batch[c]), cur[c].tx) /\ Goto(c, "apply")
        /\ pc[c] \in {"idle", "reply"} /\ pc[c] # "idle"
        /\ UNCHANGED <<db, writer, acked, open, rewriteBuf, rw, temp, isRewriting, kept>>
    BY <1>13 DEF Reply, file, rewrite
  <2>2. cur[c].tx # 0 => writer' = c /\ \A d \in Clients : d # c => pc[d] = "idle"
    BY Zenon, <1>0, <2>1 DEF ExecAlone
  <2>3. ExecAlone' /\ Unanswered'
    BY Zenon, <1>0, <1>5, <2>1, <2>2, AloneIssue
  <2> QED
    BY ZenonT(60), <1>3, <1>6, <2>1, <2>3 DEF KeepInv
<1>14. CASE Reply(c) /\ batch[c] = << >>
  <2>1. /\ pc[c] = "reply" /\ pc' = [pc EXCEPT ![c] = "idle"] /\ cur' = [cur EXCEPT ![c] = Nothing]
        /\ acked' = acked \cup
             {i \in DOMAIN cmds : i = cur[c].id \/ (cur[c].tx # 0 /\ cmds[i].tx = cur[c].tx)}
        /\ UNCHANGED <<db, open, rewriteBuf, rw, temp, isRewriting, kept, cmds>>
    BY ZenonT(40), <1>14 DEF Reply, Goto, file, rewrite
  <2>2. pc'[c] = "idle" /\ \A d \in Clients : d # c => pc'[d] = pc[d] /\ cur'[d] = cur[d]
    BY Zenon, <1>0, <2>1 DEF ClientsOK
  <2>3. pc[c] \notin {"feed", "note"} /\ pc[c] # "idle"
    BY <2>1
  <2>4. \A i : Noting(i) => Noting(i)'
    BY Zenon, <1>1, <2>1, <2>2, <2>3
  <2>5. Covered'
    BY Zenon, <1>2, <1>6, <2>1, <2>3, <2>4
  <2>6. ExecAlone'
    BY Zenon, <1>5, <2>2, <2>3 DEF ExecAlone
  <2>7. ASSUME NEW d \in Clients, pc'[d] # "idle"
        PROVE  cur'[d].id \notin acked'
    <3>1. d # c /\ pc[d] # "idle" /\ cur'[d] = cur[d]
      BY Zenon, <2>2, <2>7
    <3>2. cur[d].id # cur[c].id /\ cur[d].id \notin acked
      BY Zenon, <1>0, <2>3, <3>1 DEF Apart, Unanswered
    <3>3. cur[c].tx = 0
      BY Zenon, <1>0, <2>3, <3>1 DEF ExecAlone
    <3>4. \A i \in acked' : i \in acked \/ i = cur[c].id
      BY Zenon, <2>1, <3>3
    <3> QED
      BY Zenon, <3>1, <3>2, <3>4
  <2>8. acked' \subseteq DOMAIN cmds'
    BY Zenon, <1>0, <2>1 DEF Unanswered
  <2> QED
    BY ZenonT(60), <2>5, <2>6, <2>7, <2>8 DEF KeepInv, Unanswered
<1> QED
  BY Zenon, <1>7, <1>8, <1>9, <1>10, <1>11, <1>12, <1>13, <1>14 DEF ClientStep

(* The steps of the tickers, of expiry and of Server.Close. *)
LEMMA KeepBackground ==
  ASSUME Traced, KeepInv, Background \/ Close \/ \E k \in Keys : Expire(k)
  PROVE  KeepInv'
<1>0. /\ RewriteOK /\ ClientsOK /\ ExecAlone /\ Unanswered /\ Covered
      /\ gone \in Seq(Keys) /\ db \in Values
  BY Zenon DEF Traced, KeepInv, ClientsOK, MemOK
<1>1. ASSUME UNCHANGED <<writer, pc, cur, acked, cmds>>
      PROVE  ExecAlone' /\ Unanswered' /\ \A i : Noting(i) <=> Noting(i)'
  BY Zenon, <1>0, <1>1 DEF ExecAlone, Unanswered, Noting
<1>2. CASE FlusherTick \/ SyncTick \/ Close
  <2>1. /\ open' => open
        /\ UNCHANGED <<db, writer, rewriteBuf, rw, temp, isRewriting, snapTodo, kept, pc, cur, acked, cmds>>
    BY <1>2 DEF FlusherTick, SyncTick, Close, client, rewrite, history
  <2>2. Covered'
    BY Zenon, <1>0, <1>1, <2>1, CoverKeeps
  <2> QED
    BY ZenonT(40), <1>1, <2>1, <2>2 DEF KeepInv
<1>3. CASE notifyExpired
  <2> DEFINE e == Report(Head(gone))
  <2>0. Head(gone) \in Keys
    BY <1>0, <1>3 DEF notifyExpired
  <2>1. e \in Entries /\ rewriteBuf \in Seq(Entries)
    BY Zenon, <1>0, <2>0, ReportIs DEF RewriteOK
  <2>2. /\ Note(e) \/ rewriteBuf' = rewriteBuf
        /\ UNCHANGED <<db, writer, open, rw, temp, isRewriting, snapTodo, kept, pc, cur, acked, cmds>>
    BY Zenon, <1>3 DEF notifyExpired, Report, client, history
  <2> HIDE DEF e
  <2>3. \A i \in Ids(rewriteBuf) : i \in Ids(rewriteBuf')
    <3>1. CASE rewriteBuf' = Append(rewriteBuf, e)
      <4>1. Ids(Append(rewriteBuf, e)) = Ids(rewriteBuf) \cup ({e.id} \ {0})
        BY Zenon, <2>1, IdsAppend
      <4> QED
        BY Zenon, <3>1, <4>1
    <3>2. CASE rewriteBuf' = rewriteBuf
      BY Zenon, <3>2
    <3> QED
      BY Zenon, <2>2, <3>1, <3>2 DEF Note
  <2>4. Covered'
    BY Zenon, <1>0, <1>1, <2>2, <2>3, CoverKeeps
  <2> QED
    BY Zenon, <1>1, <2>2, <2>4 DEF KeepInv
<1>4. ASSUME NEW k \in Keys, Expire(k)
      PROVE  KeepInv'
  <2>1. /\ db' = [db EXCEPT ![k] = << >>]
        /\ UNCHANGED <<writer, open, rewriteBuf, rw, temp, isRewriting, snapTodo, kept, pc, cur, acked, cmds>>
    BY <1>4 DEF Expire, client, file, rewrite, history
  <2>2. \A j \in Keys : db'[j] = db[j] \/ db'[j] = << >>
    BY Zenon, <1>0, <2>1 DEF Values
  <2>3. \A j \in Keys : Range(db'[j]) \subseteq Range(db[j])
    <3>1. Range(<< >>) = {}
      BY Zenon, RangeSmall
    <3> QED
      BY Zenon, <2>2, <3>1
  <2>4. Covered'
    BY Zenon, <1>0, <1>1, <2>1, <2>3, CoverKeeps
  <2> QED
    BY Zenon, <1>1, <2>1, <2>4 DEF KeepInv
<1> QED
  BY ZenonT(40), <1>2, <1>3, <1>4 DEF Background

(* The steps of Rewrite. *)
LEMMA KeepRewrite ==
  ASSUME Traced, OnceInv, KeepInv, RewriteLock \/ RewriteStep
  PROVE  KeepInv'
<1>0. /\ RewriteOK /\ ClientsOK /\ Phases /\ ExecAlone /\ Unanswered /\ Covered
      /\ temp \in [base : Values, log : Seq(Entries)] /\ db \in Values
  BY Zenon DEF Traced, OnceInv, KeepInv, RewriteOK, MemOK
<1>1. ASSUME writer' = writer \/ (\A c \in Clients : pc[c] = "idle"), UNCHANGED <<pc, cur, acked, cmds>>
      PROVE  ExecAlone' /\ Unanswered'
  BY Zenon, <1>0, <1>1 DEF ExecAlone, Unanswered
<1>2. CASE RewriteLock
  <2>1. /\ rw' = "snapshot" /\ isRewriting' = TRUE /\ snapTodo' = Keys
        /\ \A c \in Clients : pc[c] = "idle"
        /\ UNCHANGED <<pc, cur, acked, cmds>>
    BY <1>2 DEF RewriteLock, client, history
  <2>2. Covered'
    <3>1. isRewriting'
      BY <2>1
    <3>2. rw' # "drain" /\ rw' \notin {"close", "rename", "swap"}
      BY <2>1
    <3> QED
      BY Zenon, <2>1, <3>1, <3>2 DEF Covered
  <2> QED
    BY Zenon, <1>1, <2>1, <2>2 DEF KeepInv
<1>3. ASSUME NEW k \in Keys, SnapshotShard(k)
      PROVE  KeepInv'
  <2>1. /\ rw = "snapshot" /\ snapTodo' = snapTodo \ {k}
        /\ UNCHANGED <<db, writer, rw, isRewriting, pc, cur, acked, cmds>>
    BY <1>3 DEF SnapshotShard, client, history
  <2>2. temp'.base[k] = db[k] /\ \A j \in Keys : j # k => temp'.base[j] = temp.base[j]
    BY Zenon, <1>0, <1>3, SnapshotIs
  <2>3. ASSUME NEW j \in Keys, j \notin snapTodo'
        PROVE  Range(db'[j]) \subseteq Range(temp'.base[j])
    <3>1. CASE j = k
      BY Zenon, <2>1, <2>2, <3>1
    <3>2. CASE j # k
      <4>1. Range(db[j]) \subseteq Range(temp.base[j])
        BY Zenon, <1>0, <2>1, <2>3, <3>2 DEF Covered
      <4> QED
        BY Zenon, <2>1, <2>2, <3>2, <4>1
    <3> QED
      BY Zenon, <3>1, <3>2
  <2>4. rw' # "drain" /\ rw' \notin {"close", "rename", "swap"} /\ rw \in {"snapshot", "drain"}
    BY <2>1
  <2>5. isRewriting'
    BY Zenon, <1>0, <2>1, <2>4 DEF Covered
  <2>6. Covered'
    BY Zenon, <2>3, <2>4, <2>5 DEF Covered
  <2> QED
    BY Zenon, <1>1, <2>1, <2>6 DEF KeepInv
<1>4. CASE RewriteUnlock
  <2>1. /\ rw = "snapshot" /\ rw' = "drain" /\ snapTodo = {}
        /\ UNCHANGED <<db, temp, isRewriting, pc, cur, acked, cmds>>
    BY <1>4 DEF RewriteUnlock, client, history
  <2>2. \A c \in Clients : pc[c] = "idle"
    BY Zenon, <1>0, <2>1 DEF Phases
  <2>3. rw' # "snapshot" /\ rw' \notin {"close", "rename", "swap"} /\ rw \in {"snapshot", "drain"}
    BY <2>1
  <2>4. isRewriting' /\ \A k \in Keys : Range(db[k]) \subseteq Range(temp.base[k])
    BY Zenon, <1>0, <2>1, <2>3 DEF Covered
  <2>5. \A k \in Keys : \A i \in Range(db'[k]) : i \in Range(temp'.base[k])
    BY Zenon, <2>1, <2>4
  <2>6. Covered'
    BY Zenon, <2>3, <2>4, <2>5 DEF Covered
  <2> QED
    BY Zenon, <1>1, <2>1, <2>2, <2>6 DEF KeepInv
<1>5. CASE Drain
  <2>1. /\ rw = "drain" /\ rw' = "close" /\ temp' = [temp EXCEPT !.log = rewriteBuf]
        /\ kept' = {i \in acked : open /\ Holds(db, i)}
        /\ UNCHANGED <<writer, pc, cur, acked, cmds>>
    BY <1>5 DEF Drain, client, history
  <2>2. temp'.base = temp.base /\ temp'.log = rewriteBuf
    BY <1>0, <2>1
  <2>3. ASSUME NEW i \in kept'
        PROVE  Holds(temp'.base, i) \/ i \in Ids(temp'.log)
    <3>1. i \in acked /\ open /\ Holds(db, i)
      BY Zenon, <2>1, <2>3
    <3>2. PICK k \in Keys : i \in Range(db[k])
      BY Zenon, <3>1 DEF Holds
    <3>3. ~Noting(i)
      <4>1. ASSUME NEW c \in Clients, pc[c] \in {"feed", "note"}
            PROVE  pc[c] # "idle"
        BY <4>1
      <4> QED
        BY Zenon, <1>0, <3>1, <4>1 DEF Noting, Unanswered
    <3>4. i \in Range(temp.base[k]) \/ i \in Ids(rewriteBuf)
      BY Zenon, <1>0, <2>1, <3>1, <3>2, <3>3 DEF Covered
    <3> QED
      BY Zenon, <2>2, <3>4 DEF Holds
  <2>4. rw' \notin {"snapshot", "drain"} /\ rw' # "snapshot" /\ rw' # "drain"
    BY <2>1
  <2>5. Covered'
    BY Zenon, <2>3, <2>4 DEF Covered
  <2> QED
    BY Zenon, <1>1, <2>1, <2>5 DEF KeepInv
<1>6. CASE CloseOld \/ Rename
  <2>1. /\ rw \in {"close", "rename", "swap"} /\ rw' \in {"rename", "swap"}
        /\ UNCHANGED <<writer, temp, kept, pc, cur, acked, cmds>>
    BY <1>6 DEF CloseOld, Rename, client, history
  <2>2. rw' \notin {"snapshot", "drain"} /\ rw' # "snapshot" /\ rw' # "drain"
    BY <2>1
  <2>3. \A i \in kept' : Holds(temp'.base, i) \/ i \in Ids(temp'.log)
    BY Zenon, <1>0, <2>1 DEF Covered
  <2>4. Covered'
    BY Zenon, <2>2, <2>3 DEF Covered
  <2> QED
    BY Zenon, <1>1, <2>1, <2>4 DEF KeepInv
<1>7. CASE RewriteFails \/ Swap
  <2>1. rw' = "idle" /\ (writer' = writer \/ rw = "snapshot") /\ UNCHANGED <<pc, cur, acked, cmds>>
    BY <1>7 DEF RewriteFails, Swap, client, history
  <2>2. writer' = writer \/ \A c \in Clients : pc[c] = "idle"
    BY Zenon, <1>0, <2>1 DEF Phases
  <2>3. rw' \notin {"snapshot", "drain"} /\ rw' # "snapshot" /\ rw' # "drain"
        /\ rw' \notin {"close", "rename", "swap"}
    BY <2>1
  <2>4. Covered'
    BY Zenon, <2>3 DEF Covered
  <2> QED
    BY Zenon, <1>1, <2>1, <2>2, <2>4 DEF KeepInv
<1> QED
  BY Zenon, <1>2, <1>3, <1>4, <1>5, <1>6, <1>7 DEF RewriteStep

(* The empty server. *)
LEMMA KeepInit == Init => KeepInv
<1> SUFFICES ASSUME Init
             PROVE  KeepInv
  BY ZenonT(40)
<1>1. (\A c \in Clients : pc[c] = "idle") /\ acked = {}
  BY Zenon DEF Init
<1>2. /\ rw \notin {"snapshot", "drain"} /\ rw # "snapshot" /\ rw # "drain"
      /\ rw \notin {"close", "rename", "swap"}
  BY DEF Init
<1>3. ExecAlone /\ Unanswered /\ Covered
  BY Zenon, <1>1, <1>2 DEF ExecAlone, Unanswered, Covered
<1> QED
  BY Zenon, <1>3 DEF KeepInv

(* Every step keeps the third invariant. *)
LEMMA KeepStep ==
  ASSUME Traced, OnceInv, KeepInv, [Next]_vars
  PROVE  KeepInv'
<1>1. CASE UNCHANGED vars
  <2>1. /\ UNCHANGED <<db, writer, open, rewriteBuf, rw, temp, isRewriting, snapTodo, kept, pc, cur>>
        /\ UNCHANGED <<acked, cmds>>
    BY <1>1 DEF vars, client, file, rewrite, history
  <2>2. ExecAlone' /\ Unanswered'
    BY Zenon, <2>1 DEF KeepInv, ExecAlone, Unanswered
  <2>3. \A i : Noting(i) => Noting(i)'
    BY Zenon, <2>1 DEF Noting
  <2>4. Covered'
    BY Zenon, <2>1, <2>3, CoverKeeps DEF KeepInv
  <2> QED
    BY Zenon, <2>2, <2>4 DEF KeepInv
<1>2. CASE Crash
  <2>1. PICK l : Restart(l)
    BY Zenon, <1>2 DEF Crash
  <2>2. (\A c \in Clients : pc'[c] = "idle") /\ acked' = acked /\ cmds' = cmds /\ rw' = "idle"
    BY Zenon, <2>1 DEF Restart
  <2>3. acked' \subseteq DOMAIN cmds'
    BY Zenon, <2>2 DEF KeepInv, Unanswered
  <2>4. /\ rw' \notin {"snapshot", "drain"} /\ rw' # "snapshot" /\ rw' # "drain"
        /\ rw' \notin {"close", "rename", "swap"}
    BY <2>2
  <2>5. ExecAlone' /\ Unanswered' /\ Covered'
    BY Zenon, <2>2, <2>3, <2>4 DEF ExecAlone, Unanswered, Covered
  <2> QED
    BY Zenon, <2>5 DEF KeepInv
<1> QED
  BY Zenon, <1>1, <1>2, NextCases, KeepClient, KeepBackground, KeepRewrite

(* The third invariant holds in every reachable state. *)
LEMMA KeepInvariant == Spec => []KeepInv
<1>1. Init => KeepInv
  BY SMTT(30), KeepInit
<1>2. Traced /\ OnceInv /\ KeepInv /\ [Next]_vars => KeepInv'
  BY SMTT(30), KeepStep
<1> QED
  BY <1>1, <1>2, TracedInvariant, OnceInvariant, PTL DEF Spec

(* Rewrite loses nothing that was answered before it drained its buffer:   *)
(* what the keyspace had then is in the snapshot or in rewriteBuf, hence   *)
(* in the new file, or the report of an expired key follows it there       *)
(* (aof.go:186-229).                                                       *)
THEOREM RewriteLosesNothing == Spec => []RewriteKeeps
<1>1. ASSUME Traced, KeepInv
      PROVE  RewriteKeeps
  <2> SUFFICES ASSUME rw = "swap", NEW i \in kept,
                      ~ \E e \in Range(temp.log) : e.id = 0 /\ e.key = cmds[i].key
               PROVE  Holds(Replay(temp.base, temp.log), i)
    BY Zenon DEF RewriteKeeps
  <2> DEFINE b == temp.base
             l == temp.log
             k == cmds[i].key
  <2>1. /\ b \in Values /\ l \in Seq(Entries)
        /\ KnownIn(b, cmds) /\ KnownLog(l, cmds) /\ \A e \in Range(l) : e.key \in Keys
    <3>1. temp \in [base : Values, log : Seq(Entries)]
      BY Zenon, <1>1 DEF Traced, RewriteOK
    <3>2. b \in Values /\ l \in Seq(Entries)
      BY <3>1
    <3> QED
      BY Zenon, <1>1, <3>2 DEF Traced, RewriteOK
  <2>2. Holds(b, i) \/ i \in Ids(l)
    <3>1. rw \in {"close", "rename", "swap"}
      BY SMT
    <3> QED
      BY Zenon, <1>1, <3>1 DEF KeepInv, Covered
  <2> HIDE DEF b, l, k
  <2>3. /\ Len(l) \in Nat /\ \A j \in 1 .. Len(l) : l[j] \in Range(l)
        /\ \A e \in Range(l) : \E j \in 1 .. Len(l) : e = l[j]
    BY Zenon, <2>1, RangeMember
  <2>4. \A j \in 1 .. Len(l) : l[j].key # None
    <3>1. None \notin Keys
      BY Zenon, AofAssumption
    <3> QED
      BY Zenon, <2>1, <2>3, <3>1
  <2>5. Replay(b, l) = Replayed(b, l)[Len(l)] /\ Len(l) \in 0 .. Len(l)
    <3>1. Readable(l) = Len(l)
      BY Zenon, <2>1, <2>4, ReadableCount
    <3>2. Len(l) \in 0 .. Len(l)
      BY <2>3
    <3> QED
      BY Zenon, <3>1, <3>2 DEF Replay
  <2>6. \A j \in 1 .. Len(l) : l[j].key = k => l[j].id # 0
    BY Zenon, <2>3 DEF k, l
  <2>7. ASSUME k \in Keys
        PROVE  /\ Range(b[k]) \subseteq Range(Replay(b, l)[k])
               /\ \A j \in 1 .. Len(l) : l[j].key = k => l[j].id \in Range(Replay(b, l)[k])
    BY Zenon, <2>1, <2>5, <2>6, <2>7, ReplayedKeeps
  <2>8. CASE Holds(b, i)
    <3>1. PICK kk \in Keys : i \in Range(b[kk])
      BY Zenon, <2>8 DEF Holds
    <3>2. kk = k
      BY Zenon, <2>1, <3>1 DEF KnownIn, k
    <3>3. i \in Range(Replay(b, l)[k])
      BY Zenon, <2>7, <3>1, <3>2
    <3> QED
      BY Zenon, <3>1, <3>2, <3>3 DEF Holds, b, l
  <2>9. CASE i \in Ids(l)
    <3>1. PICK e \in Range(l) : e.id = i /\ i # 0
      BY Zenon, <2>9 DEF Ids
    <3>2. e.key = k /\ k \in Keys
      BY Zenon, <2>1, <3>1 DEF KnownLog, k
    <3>3. i \in Range(Replay(b, l)[k])
      BY Zenon, <2>3, <2>7, <3>1, <3>2
    <3> QED
      BY Zenon, <3>2, <3>3 DEF Holds, b, l
  <2> QED
    BY Zenon, <2>2, <2>8, <2>9
<1>2. Traced /\ KeepInv => RewriteKeeps
  BY ZenonT(40), <1>1
<1> QED
  BY <1>2, TracedInvariant, KeepInvariant, PTL

-----------------------------------------------------------------------------
(* Fourth invariant, of a server that neither rewrites its file nor        *)
(* expires keys, and that meets neither I/O errors nor torn commands:      *)
(* what has been answered under FsyncAlways is on disk, and the file and   *)
(* its buffer have the contents of the keyspace.                           *)

OnDisk(i) == \E j \in 1 .. synced : log[j].id = i
Written == Ids(log) \cup Ids(buf)

Plain ==
  /\ base = NoKeys /\ open /\ rw = "idle" /\ gone = << >>
  /\ \A e \in Range(log) \cup Range(buf) : e.id # 0 /\ e.key \in Keys
Agree ==
  /\ \A k \in Keys : \A i \in Range(db[k]) :
       i \in Written \/ \E c \in Clients : pc[c] = "feed" /\ cur[c].id = i
  /\ \A i \in Written : Holds(db, i)
\* How far the command of c has got, and where the others of its EXEC are.
Fed(c) ==
  /\ pc[c] = "feed" => Holds(db, cur[c].id)
  /\ pc[c] \in {"note", "flush", "sync"} => cur[c].id \in Written
  /\ policy = "always" /\ pc[c] = "reply" => OnDisk(cur[c].id)
  /\ policy = "always" /\ pc[c] # "idle" /\ cur[c].tx # 0 =>
       \A i \in DOMAIN cmds : cmds[i].tx = cur[c].tx /\ i # cur[c].id => OnDisk(i)
Answered ==
  /\ \A i \in DOMAIN cmds : cmds[i].tx <= i
  /\ policy = "always" => \A i \in acked : OnDisk(i)

DurableInv == Plain /\ Agree /\ Answered /\ \A c \in Clients : Fed(c)

(* What is on disk stays there as long as the file only grows. *)
LEMMA DiskStays ==
  ASSUME FileOK, synced' \in Nat, synced <= synced', \A j \in 1 .. Len(log) : log'[j] = log[j]
  PROVE  \A i : OnDisk(i) => OnDisk(i)'
<1>1. synced \in 0 .. Len(log) /\ Len(log) \in Nat
  BY Zenon, RangeMember DEF FileOK
<1>2. \A j \in 1 .. synced : j \in 1 .. Len(log) /\ j \in 1 .. synced'
  BY <1>1
<1> QED
  BY Zenon, <1>2 DEF OnDisk

(* A flush moves what was buffered to the file; a sync puts it on disk. *)
LEMMA FlushDurable ==
  ASSUME FileOK, Flushes, open
  PROVE  /\ \A i : OnDisk(i) => OnDisk(i)'
         /\ Written' = Written
         /\ Range(log') = Range(log) \cup Range(buf) /\ Range(buf') = {}
         /\ synced' = Len(Flushed) => \A i \in Written : OnDisk(i)'
<1>0. log \in Seq(Entries) /\ buf \in Seq(Entries) /\ synced \in 0 .. Len(log)
  BY Zenon DEF FileOK
<1>1. Len(log) \in Nat /\ Len(buf) \in Nat
  BY <1>0, SeqShape
<1>2. log' = log \o buf /\ buf' = << >> /\ Flushed = log \o buf /\ synced' \in {synced, Len(Flushed)}
  BY ZenonT(60) DEF Flushes, Flushed
<1> DEFINE u == log \o buf
<1>3. /\ u \in Seq(Entries) /\ Range(u) = Range(log) \cup Range(buf)
      /\ Len(u) = Len(log) + Len(buf) /\ \A j \in 1 .. Len(log) : u[j] = log[j]
  BY SMTT(30), <1>0, RangeConcat
<1>4. Ids(u) = Ids(log) \cup Ids(buf)
  BY Zenon, <1>0, IdsConcat
<1>5. Range(<< >>) = {} /\ Ids(<< >>) = {}
  BY Zenon, RangeSmall
<1> HIDE DEF u
<1>6. log' = u /\ synced' \in {synced, Len(u)}
  BY Zenon, <1>2 DEF u
<1>7. synced' \in Nat /\ synced <= synced'
  BY SMTT(30), <1>0, <1>1, <1>3, <1>6
<1>8. \A i : OnDisk(i) => OnDisk(i)'
  BY Zenon, <1>3, <1>6, <1>7, DiskStays
<1>9. Written' = Written /\ Range(log') = Range(log) \cup Range(buf) /\ Range(buf') = {}
  BY Zenon, <1>2, <1>3, <1>4, <1>5, <1>6 DEF Written
<1>10. ASSUME synced' = Len(Flushed), NEW i \in Written
       PROVE  OnDisk(i)'
  <2>1. i \in Ids(u) /\ synced' = Len(u)
    BY Zenon, <1>2, <1>4, <1>10 DEF Written, u
  <2>2. PICK e \in Range(u) : e.id = i
    BY Zenon, <2>1 DEF Ids
  <2>3. PICK j \in 1 .. Len(u) : e = u[j]
    BY Zenon, <1>3, <2>2, RangeMember
  <2> QED
    BY Zenon, <1>6, <2>1, <2>2, <2>3 DEF OnDisk
<1> QED
  BY Zenon, <1>8, <1>9, <1>10

(* A command that is written joins the file or its buffer. *)
LEMMA WriteDurable ==
  ASSUME FileOK, NEW e \in Entries, Writes(e), open
  PROVE  /\ \A i : OnDisk(i) => OnDisk(i)'
         /\ \A x : x \in Written' <=> x \in Written \/ (x = e.id /\ x # 0)
<1>0. log \in Seq(Entries) /\ buf \in Seq(Entries) /\ synced \in 0 .. Len(log) /\ synced' = synced
  BY Zenon DEF FileOK, Writes
<1>1. synced' \in Nat /\ synced <= synced' /\ Len(log) \in Nat /\ Len(buf) \in Nat
  BY SMTT(30), <1>0, SeqShape
<1> DEFINE u == log \o buf
           t == Append(u, e)
           v == Append(buf, e)
<1>2. /\ u \in Seq(Entries) /\ Len(u) = Len(log) + Len(buf)
      /\ \A j \in 1 .. Len(log) : u[j] = log[j]
  BY SMTT(30), <1>0, RangeConcat
<1>3. Ids(u) = Ids(log) \cup Ids(buf) /\ Flushed = u
  BY Zenon, <1>0, IdsConcat DEF Flushed
<1> HIDE DEF u
<1>4. /\ \A j \in 1 .. Len(u) : t[j] = u[j]
  BY <1>2, RangeAppend
<1>5. Ids(t) = Ids(u) \cup ({e.id} \ {0})
  BY Zenon, <1>2, IdsAppend
<1>6. Ids(v) = Ids(buf) \cup ({e.id} \ {0})
  BY Zenon, <1>0, IdsAppend
<1>7. Ids(<< >>) = {} /\ Ids(<<e>>) = {e.id} \ {0}
  <2>1. Ids(<< >>) = {} /\ Range(<<e>>) = {e}
    BY Zenon, RangeSmall
  <2> QED
    BY Zenon, <2>1 DEF Ids
<1> HIDE DEF t, v
<1>8. \A j \in 1 .. Len(log) : u[j] = log[j] /\ t[j] = log[j]
  <2>1. \A j \in 1 .. Len(log) : j \in 1 .. Len(u)
    BY SMTT(30), <1>1, <1>2
  <2> QED
    BY Zenon, <1>2, <1>4, <2>1
<1>9. \/ log' = t /\ buf' = << >>
      \/ log' = u /\ buf' = <<e>>
      \/ log' = log /\ buf' = v
  BY Zenon, <1>3 DEF Writes, Write, WriteFails, t, v
<1>10. \A j \in 1 .. Len(log) : log'[j] = log[j]
  BY Zenon, <1>8, <1>9
<1>11. \A i : OnDisk(i) => OnDisk(i)'
  BY Zenon, <1>1, <1>10, DiskStays
<1>12. Written' = Written \cup ({e.id} \ {0})
  BY SMTT(60), <1>3, <1>5, <1>6, <1>7, <1>9 DEF Written
<1> QED
  BY Zenon, <1>11, <1>12

(* Replaying a file from the start gives nothing that is not in it. *)
LEMMA ReplayFromNothing ==
  ASSUME NEW l \in Seq(Entries)
  PROVE  \A k \in Keys : \A x \in Range(Replay(NoKeys, l)[k]) :
           \E e \in Range(l) : e.key = k /\ e.id = x
<1>1. NoKeys \in Values /\ \A k \in Keys : Range(NoKeys[k]) = {}
  BY Zenon, EmptyOK, RangeSmall DEF NoKeys
<1> DEFINE b == NoKeys
<1>2. b \in Values
  BY Zenon, <1>1
<1> HIDE DEF b
<1>3. \A k \in Keys : \A x \in Range(Replay(b, l)[k]) :
        x \in Range(b[k]) \/ (x \in Ids(l) /\ \E e \in Range(l) : e.key = k /\ e.id = x)
  BY ZenonT(60), <1>2, ReplayTypes
<1> QED
  BY Zenon, <1>1, <1>3 DEF b

\* What the commands of l bring to key k.
Brought(l, k) == {i \in Ids(l) : \E e \in Range(l) : e.key = k /\ e.id = i}
PlainLog(l) == \A e \in Range(l) : e.id # 0 /\ e.key \in Keys

(* A file without reports and torn commands, replayed from the start. *)
LEMMA ReplayPlain ==
  ASSUME NEW l \in Seq(Entries), PlainLog(l), NEW k \in Keys
  PROVE  Range(Replay(NoKeys, l)[k]) = Brought(l, k)
<1>0. NoKeys \in Values /\ Range(NoKeys[k]) = {}
  BY Zenon, EmptyOK, RangeSmall DEF NoKeys
<1>1. /\ Len(l) \in Nat /\ \A j \in 1 .. Len(l) : l[j] \in Range(l)
      /\ \A e \in Range(l) : \E j \in 1 .. Len(l) : e = l[j]
  BY Zenon, RangeMember
<1>2. Replay(NoKeys, l) = Replayed(NoKeys, l)[Len(l)] /\ Len(l) \in 0 .. Len(l)
  <2>1. None \notin Keys
    BY Zenon, AofAssumption
  <2>2. \A j \in 1 .. Len(l) : l[j].key # None
    BY Zenon, <1>1, <2>1 DEF PlainLog
  <2>3. Readable(l) = Len(l)
    BY Zenon, <2>2, ReadableCount
  <2>4. Len(l) \in 0 .. Len(l)
    BY <1>1
  <2> QED
    BY Zenon, <2>3, <2>4 DEF Replay
<1>3. \A j \in 1 .. Len(l) : l[j].key = k => l[j].id \in Range(Replay(NoKeys, l)[k])
  <2>1. \A j \in 1 .. Len(l) : l[j].key = k => l[j].id # 0
    BY Zenon, <1>1 DEF PlainLog
  <2> QED
    BY Zenon, <1>0, <1>2, <2>1, ReplayedKeeps
<1>4. \A x \in Range(Replay(NoKeys, l)[k]) : \E e \in Range(l) : e.key = k /\ e.id = x
  BY Zenon, ReplayFromNothing
<1>5. \A e \in Range(l) : e.key = k => e.id \in Range(Replay(NoKeys, l)[k])
  BY Zenon, <1>1, <1>3
<1>6. \A e \in Range(l) : e.id \in Ids(l)
  BY Zenon DEF Ids, PlainLog
<1> QED
  BY Zenon, <1>4, <1>5, <1>6 DEF Brought

(* A client that does not move finds what it left. *)
LEMMA FedKeeps ==
  ASSUME NEW d \in Clients, Fed(d), pc'[d] = pc[d], cur'[d] = cur[d], UNCHANGED <<policy, cmds>>,
         \A i : Holds(db, i) => Holds(db', i),
         \A i \in Written : i \in Written',
         \A i : OnDisk(i) => OnDisk(i)'
  PROVE  Fed(d)'
<1>1. pc'[d] = "feed" => Holds(db', cur'[d].id)
  BY Zenon DEF Fed
<1>2. pc'[d] \in {"note", "flush", "sync"} => cur'[d].id \in Written'
  BY Zenon DEF Fed
<1>3. \A i : i = cur[d].id /\ policy = "always" /\ pc[d] = "reply" => OnDisk(i)'
  BY Zenon DEF Fed
<1>4. ASSUME policy = "always", pc[d] # "idle", cur[d].tx # 0, NEW i \in DOMAIN cmds,
             cmds[i].tx = cur[d].tx, i # cur[d].id
      PROVE  OnDisk(i)'
  BY Zenon, <1>4 DEF Fed
<1> QED
  BY ZenonT(60), <1>1, <1>2, <1>3, <1>4 DEF Fed, OnDisk

(* A command that is issued has not got anywhere yet. *)
LEMMA DurableIssue ==
  ASSUME Traced, DurableInv, NEW c \in Clients, NEW k, NEW tx \in Nat, tx <= Len(cmds) + 1,
         Issue(c, k, tx), Goto(c, "apply"), pc[c] # "feed",
         UNCHANGED <<db, base, log, buf, synced, open, rw, gone, policy, acked>>,
         policy = "always" /\ tx # 0 => \A i \in DOMAIN cmds : cmds[i].tx = tx => OnDisk(i),
         \A d \in Clients : d # c /\ pc[d] # "idle" => cur[d].tx = 0
  PROVE  DurableInv'
<1> DEFINE e == [key |-> k, id |-> Len(cmds) + 1, by |-> c, tx |-> tx]
<1>0. ClientsOK /\ Plain /\ Agree /\ Answered /\ \A d \in Clients : Fed(d)
  BY Zenon DEF Traced, DurableInv
<1>1. /\ cmds \in Seq(Entries) /\ cmds' = Append(cmds, e) /\ e.tx = tx /\ e.id = Len(cmds) + 1
      /\ cur' = [cur EXCEPT ![c] = e]
  BY Zenon, <1>0 DEF ClientsOK, Issue
<1> HIDE DEF e
<1>2. /\ pc'[c] = "apply" /\ cur'[c] = e
      /\ \A d \in Clients : d # c => pc'[d] = pc[d] /\ cur'[d] = cur[d]
  BY Zenon, <1>0, <1>1 DEF ClientsOK, Goto
<1>3. Len(cmds) \in Nat /\ DOMAIN cmds = 1 .. Len(cmds)
  BY ZenonT(60), <1>1, RangeMember
<1>4. /\ DOMAIN cmds' = DOMAIN cmds \cup {Len(cmds) + 1} /\ cmds'[Len(cmds) + 1] = e
      /\ \A i \in DOMAIN cmds : cmds'[i] = cmds[i]
  BY SMTT(30), <1>1, <1>3
<1>5. Written' = Written /\ \A i : OnDisk(i) <=> OnDisk(i)'
  BY Zenon DEF Written, OnDisk
<1>6. Plain'
  BY Zenon, <1>0 DEF Plain
<1>7. Agree'
  <2>1. \A d \in Clients : pc[d] = "feed" => pc'[d] = "feed" /\ cur'[d] = cur[d]
    BY Zenon, <1>2
  <2> QED
    BY ZenonT(60), <1>0, <1>5, <2>1 DEF Agree
<1>8. Answered'
  <2>1. \A i \in DOMAIN cmds' : cmds'[i].tx <= i
    BY Zenon, <1>0, <1>1, <1>4 DEF Answered
  <2> QED
    BY Zenon, <1>0, <1>5, <2>1 DEF Answered
<1>9. ASSUME NEW i \in DOMAIN cmds', policy' = "always", tx # 0, cmds'[i].tx = tx, i # e.id
      PROVE  OnDisk(i)'
  <2>1. i \in DOMAIN cmds /\ cmds[i].tx = tx
    BY Zenon, <1>1, <1>4, <1>9
  <2> QED
    BY Zenon, <1>5, <1>9, <2>1
<1>10. Fed(c)'
  <2>1. pc'[c] # "feed" /\ pc'[c] \notin {"note", "flush", "sync"} /\ pc'[c] # "reply"
    BY <1>2
  <2> QED
    BY ZenonT(60), <1>1, <1>2, <1>9, <2>1 DEF Fed
<1>11. ASSUME NEW d \in Clients, d # c
       PROVE  Fed(d)'
  <2>1. pc'[d] = pc[d] /\ cur'[d] = cur[d] /\ Fed(d) /\ (pc[d] # "idle" => cur[d].tx = 0)
    BY Zenon, <1>0, <1>2, <1>11
  <2>2. \A i : i = cur[d].id /\ policy = "always" /\ pc[d] = "reply" => OnDisk(i)'
    BY Zenon, <1>5, <2>1 DEF Fed
  <2> QED
    BY ZenonT(40), <1>5, <2>1, <2>2 DEF Fed, OnDisk
<1> QED
  BY Zenon, <1>6, <1>7, <1>8, <1>10, <1>11 DEF DurableInv

(* A client moves on, and everything else stays or grows. *)
LEMMA DurableMoves ==
  ASSUME Traced, DurableInv, NEW c \in Clients, Moves(c),
         UNCHANGED <<base, open, rw, policy, acked>>,
         \A e \in Range(log') \cup Range(buf') : e.id # 0 /\ e.key \in Keys,
         \A i : Holds(db, i) => Holds(db', i),
         \A i \in Written : i \in Written',
         \A i : OnDisk(i) => OnDisk(i)',
         \A i \in Written' : Holds(db', i),
         pc[c] = "feed" => cur[c].id \in Written',
         \A k \in Keys : \A i \in Range(db'[k]) :
           i \in Range(db[k]) \/ (pc'[c] = "feed" /\ cur'[c].id = i),
         pc'[c] = "feed" => Holds(db', cur'[c].id),
         pc'[c] \in {"note", "flush", "sync"} => cur'[c].id \in Written',
         policy = "always" /\ pc'[c] = "reply" => \A i : i = cur[c].id => OnDisk(i)'
  PROVE  DurableInv'
<1>0. ClientsOK /\ Plain /\ Agree /\ Answered /\ \A d \in Clients : Fed(d)
  BY Zenon DEF Traced, DurableInv
<1>1. PICK l : pc' = [pc EXCEPT ![c] = l]
  BY Zenon DEF Moves
<1>2. /\ \A d \in Clients : d # c => pc'[d] = pc[d]
      /\ cur' = cur /\ cmds' = cmds /\ gone' = gone /\ pc[c] # "idle"
  BY Zenon, <1>0, <1>1 DEF ClientsOK, Moves
<1>3. Plain'
  BY Zenon, <1>0, <1>2 DEF Plain
<1>4. Answered'
  <2>1. policy' = "always" => \A i \in acked' : OnDisk(i)'
    BY Zenon, <1>0 DEF Answered
  <2> QED
    BY Zenon, <1>0, <1>2, <2>1 DEF Answered
<1>5. Agree'
  <2>1. ASSUME NEW k \in Keys, NEW i \in Range(db[k])
        PROVE  i \in Written' \/ \E d \in Clients : pc'[d] = "feed" /\ cur'[d].id = i
    <3>1. i \in Written \/ \E d \in Clients : pc[d] = "feed" /\ cur[d].id = i
      BY Zenon, <1>0, <2>1 DEF Agree
    <3> QED
      BY Zenon, <1>2, <3>1
  <2>2. \A k \in Keys : \A i \in Range(db'[k]) :
          i \in Written' \/ \E d \in Clients : pc'[d] = "feed" /\ cur'[d].id = i
    BY Zenon, <2>1
  <2> QED
    BY Zenon, <2>2 DEF Agree
<1>6. ASSUME NEW d \in Clients, d # c
      PROVE  Fed(d)'
  <2>1. Fed(d) /\ pc'[d] = pc[d] /\ cur'[d] = cur[d] /\ UNCHANGED <<policy, cmds>>
    BY Zenon, <1>0, <1>2, <1>6
  <2> QED
    BY Zenon, <2>1, FedKeeps
<1>7. Fed(c)'
  <2>1. ASSUME policy = "always", cur[c].tx # 0, NEW i \in DOMAIN cmds,
               cmds[i].tx = cur[c].tx, i # cur[c].id
        PROVE  OnDisk(i)'
    BY Zenon, <1>0, <1>2, <2>1 DEF Fed
  <2>2. policy = "always" /\ pc'[c] = "reply" => OnDisk(cur[c].id)'
    BY Zenon, <1>2 DEF OnDisk
  <2> QED
    BY Zenon, <1>2, <2>1, <2>2 DEF Fed
<1> QED
  BY Zenon, <1>3, <1>4, <1>5, <1>6, <1>7 DEF DurableInv

(* The steps of a client. *)
LEMMA DurableClient ==
  ASSUME Traced, KeepInv, DurableInv, NEW c \in Clients,
         \/ \E k \in Keys : BeginOp(c, k)
         \/ \E j, k \in Keys : BeginTx(c, <<j, k>>)
         \/ ClientStep(c)
  PROVE  DurableInv'
<1>0. /\ MemOK /\ FileOK /\ ClientsOK /\ ExecAlone /\ Plain /\ Agree /\ Answered
      /\ Fed(c) /\ open /\ cur[c] \in Entries /\ db \in Values /\ cmds \in Seq(Entries)
  BY Zenon DEF Traced, KeepInv, DurableInv, Plain, ClientsOK, MemOK
<1>1. Len(cmds) \in Nat /\ DOMAIN cmds = 1 .. Len(cmds)
  BY Zenon, <1>0, RangeMember
<1>2. pc[c] # "idle" =>
        /\ cur[c].id \in DOMAIN cmds /\ cmds[cur[c].id] = cur[c] /\ cur[c].key \in Keys
        /\ cur[c].id # 0
  <2>1. 0 \notin DOMAIN cmds
    BY Zenon, <1>0, NoZero
  <2> QED
    BY Zenon, <1>0, <2>1 DEF ClientsOK
<1>3. \A e \in Range(log) \cup Range(buf) : e.id # 0 /\ e.key \in Keys
  BY Zenon, <1>0 DEF Plain
<1>4. \A i \in Written : Holds(db, i)
  BY Zenon, <1>0 DEF Agree
<1>5. pc[c] # "idle" => \A d \in Clients : d # c /\ pc[d] # "idle" => cur[d].tx = 0
  BY Zenon, <1>0 DEF ExecAlone
<1>6. ASSUME NEW l, pc' = [pc EXCEPT ![c] = l]
      PROVE  pc'[c] = l
  BY Zenon, <1>0, <1>6 DEF ClientsOK
<1>7. ASSUME NEW k \in Keys, BeginOp(c, k)
      PROVE  DurableInv'
  <2>1. /\ Issue(c, k, 0) /\ Goto(c, "apply") /\ writer = None /\ pc[c] # "feed"
        /\ UNCHANGED <<db, base, log, buf, synced, open, rw, gone, policy, acked>>
    BY <1>7 DEF BeginOp, file, rewrite, server
  <2>2. ASSUME NEW d \in Clients, d # c, pc[d] # "idle"
        PROVE  cur[d].tx = 0
    <3>1. d # None
      BY Zenon, AofAssumption
    <3> QED
      BY Zenon, <1>0, <2>1, <2>2, <3>1 DEF ExecAlone
  <2>3. 0 \in Nat /\ 0 <= Len(cmds) + 1
    BY <1>1
  <2> QED
    BY ZenonT(60), <2>1, <2>2, <2>3, DurableIssue
<1>8. ASSUME NEW j \in Keys, NEW k \in Keys, BeginTx(c, <<j, k>>)
      PROVE  DurableInv'
  <2> DEFINE n == Len(cmds) + 1
  <2>1. /\ Issue(c, Head(<<j, k>>), n) /\ Goto(c, "apply") /\ pc[c] # "feed"
        /\ \A d \in Clients : pc[d] = "idle"
        /\ UNCHANGED <<db, base, log, buf, synced, open, rw, gone, policy, acked>>
    BY SMTT(30), <1>8 DEF BeginTx, file, rewrite, server
  <2>2. n \in Nat /\ n <= Len(cmds) + 1
    BY SMTT(30), <1>1
  <2>3. \A i \in DOMAIN cmds : ~(n <= i)
    BY SMTT(30), <1>1
  <2> HIDE DEF n
  <2>4. \A i \in DOMAIN cmds : cmds[i].tx # n
    BY Zenon, <1>0, <2>3 DEF Answered
  <2> QED
    BY ZenonT(60), <2>1, <2>2, <2>4, DurableIssue
<1>9. CASE Handle(c)
  <2>1. /\ Moves(c) /\ db' = Apply(db, cur[c]) /\ pc' = [pc EXCEPT ![c] = "feed"]
        /\ pc[c] # "idle" /\ pc[c] # "feed" /\ cur' = cur
        /\ UNCHANGED <<base, log, buf, synced, open, rw, policy, acked>>
    BY ZenonT(60), <1>9 DEF Handle, Moves, Goto, file, rewrite, server, history
  <2>2. /\ \A k \in Keys : k # cur[c].key => db'[k] = db[k]
        /\ Range(db'[cur[c].key]) = Range(db[cur[c].key]) \cup {cur[c].id}
    BY Zenon, <1>0, <1>2, <2>1, ApplyStep
  <2>3. /\ \A i : Holds(db, i) => Holds(db', i)
        /\ Holds(db', cur[c].id)
        /\ \A k \in Keys : \A i \in Range(db'[k]) : i \in Range(db[k]) \/ i = cur[c].id
    BY Zenon, <1>2, <2>1, <2>2 DEF Holds
  <2>4. Written' = Written /\ \A i : OnDisk(i) => OnDisk(i)'
    BY Zenon, <2>1 DEF Written, OnDisk
  <2>5. pc'[c] = "feed" /\ pc'[c] \notin {"note", "flush", "sync"} /\ pc'[c] # "reply"
    <3>1. pc'[c] = "feed"
      BY Zenon, <1>6, <2>1
    <3> QED
      BY <3>1
  <2> QED
    BY ZenonT(60), <1>3, <1>4, <2>1, <2>3, <2>4, <2>5, DurableMoves
<1>10. CASE Feed(c)
  <2>1. /\ Moves(c) /\ pc[c] = "feed" /\ cur' = cur /\ Writes(cur[c]) /\ pc[c] # "idle"
        /\ pc' = [pc EXCEPT ![c] = IF WriteFails(cur[c]) THEN "reply" ELSE "note"]
        /\ UNCHANGED <<db, base, open, rw, policy, acked>>
    BY ZenonT(60), <1>10 DEF Feed, Writes, Moves, Goto, rewrite, server, history
  <2>2. pc' = [pc EXCEPT ![c] = "note"]
    BY Zenon, <1>0, <2>1 DEF WriteFails
  <2>3. pc'[c] # "feed" /\ pc'[c] # "reply"
    <3>1. pc'[c] = "note"
      BY Zenon, <1>6, <2>2
    <3> QED
      BY <3>1
  <2>4. /\ \A i : OnDisk(i) => OnDisk(i)'
        /\ \A x : x \in Written' <=> x \in Written \/ (x = cur[c].id /\ x # 0)
    BY Zenon, <1>0, <2>1, WriteDurable
  <2>5. \A e \in Range(log') \cup Range(buf') : e \in Range(log) \cup Range(buf) \/ e = cur[c]
    BY Zenon, <1>0, <2>1, WriteTypes DEF Writes, FileOK
  <2>6. \A e \in Range(log') \cup Range(buf') : e.id # 0 /\ e.key \in Keys
    BY Zenon, <1>2, <1>3, <2>1, <2>5
  <2>7. Holds(db, cur[c].id)
    BY Zenon, <1>0, <2>1 DEF Fed
  <2>8. \A i \in Written' : Holds(db', i)
    <3>1. \A i : i \in Written' => i \in Written \/ i = cur[c].id
      BY Zenon, <2>4
    <3>2. \A i : i \in Written \/ i = cur[c].id => Holds(db, i)
      BY Zenon, <1>4, <2>7
    <3>3. db' = db
      BY Zenon, <2>1
    <3> QED
      BY Zenon, <3>1, <3>2, <3>3
  <2>9. cur[c].id \in Written' /\ cur'[c].id \in Written'
    BY Zenon, <1>2, <2>1, <2>4
  <2>10. \A i \in Written : i \in Written'
    BY Zenon, <2>4
  <2> QED
    BY ZenonT(60), <2>1, <2>3, <2>4, <2>6, <2>8, <2>9, <2>10, DurableMoves
<1>11. CASE FeedNote(c)
  <2>1. /\ Moves(c) /\ pc[c] = "note" /\ pc[c] # "feed" /\ cur' = cur
        /\ pc' = [pc EXCEPT ![c] = IF policy = "always" THEN "flush" ELSE "reply"]
        /\ UNCHANGED <<db, base, log, buf, synced, open, rw, policy, acked>>
    BY ZenonT(60), <1>11 DEF FeedNote, Moves, Goto, file, server, history
  <2>2. pc'[c] # "feed" /\ (policy = "always" => pc'[c] # "reply")
    <3>1. pc'[c] = IF policy = "always" THEN "flush" ELSE "reply"
      BY Zenon, <1>6, <2>1
    <3> QED
      BY <3>1
  <2>3. Written' = Written /\ \A i : OnDisk(i) => OnDisk(i)'
    BY Zenon, <2>1 DEF Written, OnDisk
  <2>4. cur'[c].id \in Written'
    BY Zenon, <1>0, <2>1, <2>3 DEF Fed
  <2> QED
    BY ZenonT(60), <1>3, <1>4, <2>1, <2>2, <2>3, <2>4, DurableMoves
<1>12. CASE FeedFlush(c)
  <2>1. /\ Moves(c) /\ pc[c] = "flush" /\ pc[c] # "feed" /\ cur' = cur /\ Flushes
        /\ pc' = [pc EXCEPT ![c] = IF open \/ buf = << >> THEN "sync" ELSE "reply"]
        /\ UNCHANGED <<db, base, open, rw, policy, acked>>
    BY ZenonT(60), <1>12 DEF FeedFlush, Flushes, Moves, Goto, rewrite, server, history
  <2>2. pc'[c] # "feed" /\ pc'[c] # "reply"
    <3>1. pc'[c] = "sync"
      BY Zenon, <1>0, <1>6, <2>1
    <3> QED
      BY <3>1
  <2>3. /\ \A i : OnDisk(i) => OnDisk(i)'
        /\ Written' = Written
        /\ Range(log') = Range(log) \cup Range(buf) /\ Range(buf') = {}
    BY Zenon, <1>0, <2>1, FlushDurable
  <2>4. \A e \in Range(log') \cup Range(buf') : e.id # 0 /\ e.key \in Keys
    BY Zenon, <1>3, <2>3
  <2>5. cur'[c].id \in Written'
    BY Zenon, <1>0, <2>1, <2>3 DEF Fed
  <2> QED
    BY ZenonT(60), <1>4, <2>1, <2>2, <2>3, <2>4, <2>5, DurableMoves
<1>13. CASE FeedSync(c)
  <2>1. /\ Moves(c) /\ pc[c] = "sync" /\ pc[c] # "feed" /\ cur' = cur /\ Flushes
        /\ synced' = Len(Flushed) /\ pc' = [pc EXCEPT ![c] = "reply"]
        /\ UNCHANGED <<db, base, open, rw, policy, acked>>
    BY ZenonT(60), <1>0, <1>13 DEF FeedSync, Flushes, Moves, Goto, rewrite, server, history
  <2>2. pc'[c] # "feed" /\ pc'[c] \notin {"note", "flush", "sync"}
    <3>1. pc'[c] = "reply"
      BY Zenon, <1>6, <2>1
    <3> QED
      BY SMTT(30), <3>1
  <2>3. /\ \A i : OnDisk(i) => OnDisk(i)'
        /\ Written' = Written
        /\ Range(log') = Range(log) \cup Range(buf) /\ Range(buf') = {}
        /\ \A i \in Written : OnDisk(i)'
    BY Zenon, <1>0, <2>1, FlushDurable
  <2>4. \A e \in Range(log') \cup Range(buf') : e.id # 0 /\ e.key \in Keys
    BY Zenon, <1>3, <2>3
  <2>5. \A i : i = cur[c].id => OnDisk(i)'
    BY Zenon, <1>0, <2>1, <2>3 DEF Fed
  <2> QED
    BY ZenonT(60), <1>4, <2>1, <2>2, <2>3, <2>4, <2>5, DurableMoves
<1>14. CASE Reply(c) /\ batch[c] # << >>
  <2> DEFINE tx == cur[c].tx
  <2>1. /\ Issue(c, Head(batch[c]), tx) /\ Goto(c, "apply")
        /\ pc[c] = "reply" /\ pc[c] # "idle" /\ pc[c] # "feed"
        /\ UNCHANGED <<db, base, log, buf, synced, open, rw, gone, policy, acked>>
    BY ZenonT(60), <1>14 DEF Reply, file, rewrite, server
  <2>2. cur[c].id \in DOMAIN cmds /\ tx <= cur[c].id
    BY Zenon, <1>0, <1>2, <2>1 DEF Answered
  <2>3. tx \in 0 .. MaxCmds
    BY ONLY SMTT(30), <1>0 DEF Entries
  <2>4. tx \in Nat /\ tx <= Len(cmds) + 1
    BY SMTT(30), <1>1, <2>2, <2>3
  <2>5. policy = "always" /\ tx # 0 => \A i \in DOMAIN cmds : cmds[i].tx = tx => OnDisk(i)
    BY Zenon, <1>0, <2>1 DEF Fed
  <2> HIDE DEF tx
  <2> QED
    BY ZenonT(60), <1>5, <2>1, <2>4, <2>5, DurableIssue
<1>15. CASE Reply(c) /\ batch[c] = << >>
  <2>1. /\ pc[c] = "reply" /\ pc[c] # "idle" /\ pc[c] # "feed"
        /\ pc' = [pc EXCEPT ![c] = "idle"] /\ cur' = [cur EXCEPT ![c] = Nothing]
        /\ acked' = acked \cup
             {i \in DOMAIN cmds : i = cur[c].id \/ (cur[c].tx # 0 /\ cmds[i].tx = cur[c].tx)}
        /\ UNCHANGED <<db, base, log, buf, synced, open, rw, gone, policy, cmds>>
    BY ZenonT(60), <1>15 DEF Reply, Goto, file, rewrite, server
  <2>2. pc'[c] = "idle" /\ \A d \in Clients : d # c => pc'[d] = pc[d] /\ cur'[d] = cur[d]
    BY Zenon, <1>0, <2>1 DEF ClientsOK
  <2>3. Written' = Written /\ \A i : OnDisk(i) => OnDisk(i)'
    BY Zenon, <2>1 DEF Written, OnDisk
  <2>4. Plain'
    BY Zenon, <1>0, <2>1 DEF Plain
  <2>5. Agree'
    <3>1. \A d \in Clients : pc[d] = "feed" => pc'[d] = "feed" /\ cur'[d] = cur[d]
      BY Zenon, <2>1, <2>2
    <3>2. \A k \in Keys : \A i \in Range(db[k]) :
            i \in Written \/ \E d \in Clients : pc[d] = "feed" /\ cur[d].id = i
      BY Zenon, <1>0 DEF Agree
    <3>3. \A k \in Keys : \A i \in Range(db[k]) :
            i \in Written \/ \E d \in Clients : pc'[d] = "feed" /\ cur'[d].id = i
      BY Zenon, <3>1, <3>2
    <3>4. db' = db
      BY Zenon, <2>1
    <3> QED
      BY Zenon, <1>4, <2>3, <3>3, <3>4 DEF Agree
  <2>6. ASSUME policy = "always", NEW i \in acked'
        PROVE  OnDisk(i)'
    <3>1. \/ i \in acked \/ i = cur[c].id
          \/ i \in DOMAIN cmds /\ cur[c].tx # 0 /\ cmds[i].tx = cur[c].tx /\ i # cur[c].id
      BY Zenon, <2>1, <2>6
    <3>2. OnDisk(i)
      BY Zenon, <1>0, <2>1, <2>6, <3>1 DEF Fed, Answered
    <3> QED
      BY Zenon, <2>3, <3>2
  <2>7. Answered'
    BY Zenon, <1>0, <2>1, <2>6 DEF Answered
  <2>8. ASSUME NEW d \in Clients, d # c
        PROVE  Fed(d)'
    <3>1. Fed(d) /\ pc'[d] = pc[d] /\ cur'[d] = cur[d] /\ UNCHANGED <<policy, cmds>>
      BY Zenon, <2>1, <2>2, <2>8 DEF DurableInv
    <3> QED
      BY Zenon, <2>1, <2>3, <3>1, FedKeeps
  <2>9. Fed(c)'
    <3>1. pc'[c] # "feed" /\ pc'[c] \notin {"note", "flush", "sync"} /\ pc'[c] # "reply"
      BY SMTT(30), <2>2
    <3> QED
      BY ZenonT(60), <2>2, <3>1 DEF Fed
  <2> QED
    BY ZenonT(60), <2>4, <2>5, <2>7, <2>8, <2>9 DEF DurableInv
<1> QED
  BY ZenonT(60), <1>7, <1>8, <1>9, <1>10, <1>11, <1>12, <1>13, <1>14, <1>15 DEF ClientStep

(* The steps of the tickers. *)
LEMMA DurableTick ==
  ASSUME Traced, DurableInv, FlusherTick \/ SyncTick
  PROVE  DurableInv'
<1>0. FileOK /\ Plain /\ Agree /\ Answered /\ open
  BY Zenon DEF Traced, DurableInv, Plain
<1>1. /\ Flushes
      /\ UNCHANGED <<db, base, open, rw, gone, policy, cmds, acked, pc, cur>>
  <2>1. CASE FlusherTick
    BY SMTT(60), <2>1 DEF FlusherTick, Flushes, client, rewrite, server, history
  <2>2. CASE SyncTick
    BY SMTT(30), <1>0, <2>2 DEF SyncTick, Flushes, client, rewrite, server, history
  <2> QED
    BY ZenonT(60), <2>1, <2>2
<1>2. /\ \A i : OnDisk(i) => OnDisk(i)'
      /\ Written' = Written
      /\ Range(log') = Range(log) \cup Range(buf) /\ Range(buf') = {}
  BY Zenon, <1>0, <1>1, FlushDurable
<1>3. \A e \in Range(log') \cup Range(buf') : e \in Range(log) \cup Range(buf)
  BY Zenon, <1>2
<1>4. Plain'
  BY Zenon, <1>0, <1>1, <1>3 DEF Plain
<1>5. Agree'
  BY Zenon, <1>0, <1>1, <1>2 DEF Agree
<1>6. Answered'
  <2>1. policy' = "always" => \A i \in acked' : OnDisk(i)'
    BY Zenon, <1>0, <1>1, <1>2 DEF Answered
  <2> QED
    BY Zenon, <1>0, <1>1, <2>1 DEF Answered
<1>7. ASSUME NEW d \in Clients
      PROVE  Fed(d)'
  <2>1. Fed(d) /\ pc'[d] = pc[d] /\ cur'[d] = cur[d] /\ UNCHANGED <<policy, cmds>>
    BY Zenon, <1>1 DEF DurableInv
  <2> QED
    BY ZenonT(60), <1>1, <1>2, <2>1, FedKeeps
<1> QED
  BY Zenon, <1>4, <1>5, <1>6, <1>7 DEF DurableInv

(* Restarting with a prefix of the file that has all that was synced. *)
LEMMA DurableRestart ==
  ASSUME Traced, DurableInv, NEW n \in synced .. Len(log), Restart(SubSeq(log, 1, n))
  PROVE  DurableInv'
<1> DEFINE l == SubSeq(log, 1, n)
<1>0. /\ FileOK /\ Plain /\ Agree /\ Answered /\ log \in Seq(Entries) /\ synced \in 0 .. Len(log)
      /\ base = NoKeys
  BY Zenon DEF Traced, FileOK, DurableInv, Plain
<1>1. Len(log) \in Nat /\ \A j \in 1 .. Len(log) : log[j] \in Range(log)
  BY Zenon, <1>0, RangeMember
<1>2. n \in Nat /\ n <= Len(log) /\ synced \in Nat /\ synced <= n
  BY SMTT(60), <1>0, <1>1
<1>3. l \in Seq(Entries) /\ Len(l) = n /\ \A j \in 1 .. n : l[j] = log[j]
  BY SMTT(60), <1>0, <1>2
<1>4. /\ db' = Replay(NoKeys, l) /\ log' = l /\ synced' = Len(l) /\ buf' = << >> /\ open'
      /\ rw' = "idle" /\ gone' = << >> /\ base' = NoKeys
      /\ pc' = [c \in Clients |-> "idle"] /\ UNCHANGED <<policy, cmds, acked>>
  BY <1>0 DEF Restart
<1> HIDE DEF l
<1>5. Range(buf') = {} /\ Ids(buf') = {}
  BY Zenon, <1>4, RangeSmall
<1>6. \A e \in Range(l) : e \in Range(log)
  <2>1. \A j \in 1 .. n : j \in 1 .. Len(log)
    BY SMTT(30), <1>1, <1>2
  <2>2. \A e \in Range(l) : \E j \in 1 .. n : e = l[j]
    BY Zenon, <1>3, RangeMember
  <2>3. \A j \in 1 .. n : l[j] \in Range(log)
    BY Zenon, <1>1, <1>3, <2>1
  <2> QED
    BY Zenon, <2>2, <2>3
<1>7. \A e \in Range(l) : e.id # 0 /\ e.key \in Keys
  BY Zenon, <1>0, <1>6 DEF Plain
<1>8. Plain'
  BY Zenon, <1>4, <1>5, <1>7 DEF Plain
<1>9. Written' = Ids(l)
  BY Zenon, <1>4, <1>5 DEF Written
<1>10. ASSUME NEW k \in Keys
       PROVE  Range(db'[k]) = Brought(l, k)
  BY Zenon, <1>3, <1>4, <1>7, ReplayPlain DEF PlainLog
<1>11. Agree'
  <2>1. ASSUME NEW k \in Keys, NEW i \in Range(db'[k])
        PROVE  i \in Ids(l)
    BY Zenon, <1>10, <2>1 DEF Brought
  <2>2. ASSUME NEW i \in Ids(l)
        PROVE  Holds(db', i)
    <3>1. PICK e \in Range(l) : e.id = i
      BY Zenon, <2>2 DEF Ids
    <3>2. e.key \in Keys
      BY Zenon, <1>7
    <3> QED
      BY Zenon, <1>10, <2>2, <3>1, <3>2 DEF Holds, Brought
  <2> QED
    BY Zenon, <1>9, <2>1, <2>2 DEF Agree
<1>12. \A i : OnDisk(i) => OnDisk(i)'
  <2>1. \A j \in 1 .. synced : j \in 1 .. n
    BY <1>2
  <2>2. synced' = n
    BY Zenon, <1>3, <1>4
  <2> QED
    BY ZenonT(40), <1>3, <1>4, <2>1, <2>2 DEF OnDisk
<1>13. Answered'
  <2>1. policy' = "always" => \A i \in acked' : OnDisk(i)'
    BY Zenon, <1>0, <1>4, <1>12 DEF Answered
  <2> QED
    BY Zenon, <1>0, <1>4, <2>1 DEF Answered
<1>14. ASSUME NEW d \in Clients
       PROVE  Fed(d)'
  <2>1. pc'[d] = "idle"
    BY Zenon, <1>4
  <2>2. pc'[d] # "feed" /\ pc'[d] \notin {"note", "flush", "sync"} /\ pc'[d] # "reply"
    BY <2>1
  <2> QED
    BY Zenon, <2>1, <2>2 DEF Fed
<1> QED
  BY ZenonT(40), <1>8, <1>11, <1>13, <1>14 DEF DurableInv

(* The empty server. *)
LEMMA DurableInit == Init => DurableInv
<1> SUFFICES ASSUME Init
             PROVE  DurableInv
  BY ZenonT(40)
<1>0. /\ db = NoKeys /\ base = NoKeys /\ log = << >> /\ buf = << >> /\ open /\ rw = "idle"
      /\ gone = << >> /\ cmds = << >> /\ acked = {} /\ pc = [c \in Clients |-> "idle"]
  BY DEF Init
<1>1. Range(<< >>) = {} /\ Ids(<< >>) = {} /\ DOMAIN << >> = {}
  <2>1. DOMAIN << >> = {}
    BY SMTT(30)
  <2> QED
    BY Zenon, <2>1, RangeSmall
<1>2. Plain
  BY Zenon, <1>0, <1>1 DEF Plain
<1>3. Agree
  <2>1. \A k \in Keys : Range(db[k]) = {}
    BY Zenon, <1>0, <1>1 DEF NoKeys
  <2>2. Written = {}
    BY Zenon, <1>0, <1>1 DEF Written
  <2> QED
    BY Zenon, <2>1, <2>2 DEF Agree
<1>4. Answered
  BY Zenon, <1>0, <1>1 DEF Answered
<1>5. ASSUME NEW d \in Clients
      PROVE  Fed(d)
  <2>1. pc[d] = "idle"
    BY Zenon, <1>0
  <2>2. pc[d] # "feed" /\ pc[d] \notin {"note", "flush", "sync"} /\ pc[d] # "reply"
    BY <2>1
  <2> QED
    BY Zenon, <2>1, <2>2 DEF Fed
<1> QED
  BY ZenonT(40), <1>2, <1>3, <1>4, <1>5 DEF DurableInv

(* Without rewrites, expiry, shutdown and I/O errors there are no other    *)
(* steps.                                                                  *)
LEMMA DurableStep ==
  ASSUME Events \subseteq {"exec"}, Traced, KeepInv, DurableInv, [Next]_vars
  PROVE  DurableInv'
<1>0. rw = "idle" /\ gone = << >> /\ Events \cap {"expire", "rewrite", "close", "ioerror", "torn"} = {}
  <2>1. Events \cap {"expire", "rewrite", "close", "ioerror", "torn"} = {}
    BY SMT
  <2> QED
    BY Zenon, <2>1 DEF DurableInv, Plain
<1>1. CASE UNCHANGED vars
  <2>1. /\ UNCHANGED <<db, base, log, buf, synced, open, rw, gone, policy, cmds, acked>>
        /\ UNCHANGED <<pc, cur>>
    BY <1>1 DEF vars, client, file, rewrite, server, history
  <2>2. Written' = Written /\ \A i : OnDisk(i) => OnDisk(i)'
    BY Zenon, <2>1 DEF Written, OnDisk
  <2>3. Plain' /\ Agree' /\ Answered'
    BY Zenon, <2>1, <2>2 DEF DurableInv, Plain, Agree, Answered
  <2>4. ASSUME NEW d \in Clients
        PROVE  Fed(d)'
    <3>1. Fed(d) /\ pc'[d] = pc[d] /\ cur'[d] = cur[d] /\ UNCHANGED <<policy, cmds>>
      BY Zenon, <2>1 DEF DurableInv
    <3> QED
      BY Zenon, <2>1, <2>2, <3>1, FedKeeps
  <2> QED
    BY ZenonT(40), <2>3, <2>4 DEF DurableInv
<1>2. ASSUME NEW c \in Clients,
             \/ \E k \in Keys : BeginOp(c, k)
             \/ \E j, k \in Keys : BeginTx(c, <<j, k>>)
             \/ ClientStep(c)
      PROVE  DurableInv'
  BY Zenon, <1>2, DurableClient
<1>3. CASE Background
  <2>1. ~notifyExpired
    BY Zenon, <1>0 DEF notifyExpired
  <2> QED
    BY Zenon, <1>3, <2>1, DurableTick DEF Background
<1>4. ~RewriteLock /\ ~Close /\ \A k \in Keys : ~Expire(k)
  BY <1>0 DEF RewriteLock, Close, Expire
<1>5. ~RewriteStep
  BY <1>0 DEF RewriteStep, SnapshotShard, RewriteUnlock, Drain, CloseOld, Rename, RewriteFails, Swap
<1>6. CASE Crash
  <2>1. "torn" \notin Events
    BY <1>0
  <2>2. PICK n \in synced .. Len(log) : Restart(SubSeq(log, 1, n))
    BY Zenon, <1>6, <2>1 DEF Crash
  <2> QED
    BY Zenon, <2>2, DurableRestart
<1> QED
  BY ZenonT(60), <1>1, <1>2, <1>3, <1>4, <1>5, <1>6 DEF Next

(* The fourth invariant holds in every reachable state of such a server. *)
LEMMA DurableInvariant ==
  ASSUME Events \subseteq {"exec"}
  PROVE  Spec => []DurableInv
<1>1. Init => DurableInv
  BY SMTT(30), DurableInit
<1>2. Traced /\ KeepInv /\ DurableInv /\ [Next]_vars => DurableInv'
  BY DurableStep
<1> QED
  BY <1>1, <1>2, TracedInvariant, KeepInvariant, PTL DEF Spec

(* What is answered under FsyncAlways is in the synced part of the file,   *)
(* and hence survives any crash, also one in the middle of an EXEC; "flush *)
(* double buffer and sync immediately" (aof.go:105).  For a server without *)
(* rewrites, expiry and I/O errors.                                        *)
THEOREM AnsweredIsDurable ==
  ASSUME Events \subseteq {"exec"}
  PROVE  Spec => []AckedSurvives
<1>1. ASSUME Traced, DurableInv
      PROVE  AckedSurvives
  <2> DEFINE l == SubSeq(log, 1, synced)
  <2> SUFFICES ASSUME policy = "always", NEW i \in acked
               PROVE  Holds(Replay(base, l), i)
    BY Zenon DEF AckedSurvives
  <2>1. log \in Seq(Entries) /\ synced \in 0 .. Len(log) /\ base = NoKeys
    BY Zenon, <1>1 DEF Traced, FileOK, DurableInv, Plain
  <2>2. Len(log) \in Nat /\ \A j \in 1 .. Len(log) : log[j] \in Range(log)
    BY Zenon, <2>1, RangeMember
  <2>3. l \in Seq(Entries) /\ Len(l) = synced /\ \A j \in 1 .. synced : l[j] = log[j]
    BY SMTT(30), <2>1, <2>2
  <2>4. \A j \in 1 .. synced : j \in 1 .. Len(log)
    BY SMTT(30), <2>1, <2>2
  <2> HIDE DEF l
  <2>5. \A j \in 1 .. synced : l[j] \in Range(l) /\ l[j] \in Range(log)
    BY Zenon, <2>2, <2>3, <2>4, RangeMember
  <2>6. \A e \in Range(l) : e.id # 0 /\ e.key \in Keys
    <3>1. \A e \in Range(l) : \E j \in 1 .. synced : e = l[j]
      BY Zenon, <2>3, RangeMember
    <3>2. \A e \in Range(l) : e \in Range(log)
      BY Zenon, <2>5, <3>1
    <3> QED
      BY Zenon, <1>1, <3>2 DEF DurableInv, Plain
  <2>7. PICK j \in 1 .. synced : log[j].id = i
    BY Zenon, <1>1 DEF DurableInv, Answered, OnDisk
  <2>8. l[j] \in Range(l) /\ l[j].id = i /\ l[j].key \in Keys
    BY Zenon, <2>3, <2>5, <2>6, <2>7
  <2>9. Range(Replay(NoKeys, l)[l[j].key]) = Brought(l, l[j].key)
    BY ZenonT(40), <2>3, <2>6, <2>8, ReplayPlain DEF PlainLog
  <2>10. i \in Brought(l, l[j].key)
    BY Zenon, <2>6, <2>8 DEF Brought, Ids
  <2> QED
    BY Zenon, <2>1, <2>8, <2>9, <2>10 DEF Holds
<1>2. Traced /\ DurableInv => AckedSurvives
  BY Zenon, <1>1
<1> QED
  BY <1>2, TracedInvariant, DurableInvariant, PTL

(* Once nothing is in flight, replaying the file gives the contents of the *)
(* keyspace back: every command that was applied has been appended, and no *)
(* other ("every accepted write is appended", server.go:48).  For a server *)
(* without rewrites, expiry and I/O errors.                                *)
THEOREM FileHasContents ==
  ASSUME Events \subseteq {"exec"}
  PROVE  Spec => []ReplayGivesContents
<1>1. ASSUME Traced, DurableInv
      PROVE  ReplayGivesContents
  <2> SUFFICES ASSUME Quiet, NEW k \in Keys
               PROVE  Range(Restored[k]) = Range(db[k])
    BY Zenon DEF ReplayGivesContents
  <2>1. /\ log \in Seq(Entries) /\ base = NoKeys /\ KnownIn(db, cmds) /\ KnownLog(log, cmds)
        /\ \A e \in Range(log) : e.id # 0 /\ e.key \in Keys
    BY Zenon, <1>1 DEF Traced, MemOK, FileOK, DurableInv, Plain
  <2>2. Range(Restored[k]) = Brought(log, k)
    BY Zenon, <2>1, ReplayPlain DEF Restored, PlainLog
  <2>3. Written = Ids(log) /\ \A c \in Clients : pc[c] # "feed"
    <3>1. Ids(buf) = {}
      BY Zenon, RangeSmall DEF Quiet
    <3>2. \A c \in Clients : pc[c] # "feed"
      BY DEF Quiet
    <3> QED
      BY Zenon, <3>1, <3>2 DEF Written
  <2>4. ASSUME NEW i \in Range(db[k])
        PROVE  i \in Range(Restored[k])
    <3>1. i \in Ids(log) /\ cmds[i].key = k
      BY Zenon, <1>1, <2>1, <2>3, <2>4 DEF DurableInv, Agree, KnownIn
    <3>2. PICK e \in Range(log) : e.id = i
      BY Zenon, <3>1 DEF Ids
    <3>3. e.key = k
      BY Zenon, <2>1, <3>1, <3>2 DEF KnownLog
    <3> QED
      BY Zenon, <2>2, <3>1, <3>2, <3>3 DEF Brought
  <2>5. ASSUME NEW i \in Range(Restored[k])
        PROVE  i \in Range(db[k])
    <3>1. PICK e \in Range(log) : e.key = k /\ e.id = i
      BY Zenon, <2>2, <2>5 DEF Brought
    <3>2. i \in Ids(log) /\ cmds[i].key = k
      BY Zenon, <2>1, <3>1 DEF Ids, KnownLog
    <3>3. PICK j \in Keys : i \in Range(db[j])
      BY Zenon, <1>1, <2>3, <3>2 DEF DurableInv, Agree, Holds
    <3>4. j = k
      BY Zenon, <2>1, <3>2, <3>3 DEF KnownIn
    <3> QED
      BY Zenon, <3>3, <3>4
  <2> QED
    BY Zenon, <2>4, <2>5
<1>2. Traced /\ DurableInv => ReplayGivesContents
  BY ZenonT(40), <1>1
<1> QED
  BY <1>2, TracedInvariant, DurableInvariant, PTL
====
