--------------------------- MODULE QuicklistProofs ---------------------------
(***************************************************************************)
(* The quicklist is a plain sequence to its callers, whatever the capacity *)
(* of a node, the values and the calls.                                    *)
(***************************************************************************)
EXTENDS Quicklist, TLAPS, WellFoundedInduction

(* The elements of a sequence. *)
LEMMA SeqShape ==
  ASSUME NEW S, NEW s \in Seq(S)
  PROVE  Len(s) \in Nat /\ DOMAIN s = 1 .. Len(s) /\ s \in [1 .. Len(s) -> S]
BY SMT

(* A function on an initial segment is a sequence. *)
LEMMA SeqOfFunction ==
  ASSUME NEW S, NEW n \in Nat, NEW f \in [1 .. n -> S]
  PROVE  f \in Seq(S) /\ Len(f) = n
BY SMT

(* Sequences with the same elements are the same. *)
LEMMA SameElements ==
  ASSUME NEW S, NEW s \in Seq(S), NEW t \in Seq(S), Len(s) = Len(t),
         \A i \in 1 .. Len(s) : s[i] = t[i]
  PROVE  s = t
BY SMT

(* The elements of a concatenation. *)
LEMMA ConcatShape ==
  ASSUME NEW S, NEW s \in Seq(S), NEW t \in Seq(S)
  PROVE  /\ s \o t \in Seq(S) /\ Len(s \o t) = Len(s) + Len(t)
         /\ \A i \in 1 .. Len(s) : (s \o t)[i] = s[i]
         /\ \A i \in 1 .. Len(t) : (s \o t)[Len(s) + i] = t[i]
         /\ s \o << >> = s /\ << >> \o s = s
BY SMT

(* Concatenation, kept folded where only its algebra matters. *)
Cat(s, t) == s \o t

(* Concatenation is associative. *)
LEMMA CatAssoc ==
  ASSUME NEW S, NEW s \in Seq(S), NEW t \in Seq(S), NEW u \in Seq(S)
  PROVE  Cat(Cat(s, t), u) = Cat(s, Cat(t, u))
BY SMTT(30) DEF Cat

(* The order of the naturals, as the library's well-founded relation. *)
Below == {ss \in Nat \X Nat : ss[1] < ss[2]}

(* It is the library's. *)
LEMMA BelowIsLess == OpToRel(<, Nat) = Below
BY Zenon DEF OpToRel, Below

(* What holds at 0 and is passed on from n to n + 1 holds up to any bound. *)
LEMMA UpTo ==
  ASSUME NEW S, NEW n \in Nat, 0 \in S, \A i \in 0 .. n - 1 : i \in S => i + 1 \in S
  PROVE  \A i \in 0 .. n : i \in S
<1> SUFFICES ASSUME NEW j \in 0 .. n, j \notin S
             PROVE  FALSE
  BY Zenon
<1> DEFINE T == {i \in Nat : i \in 0 .. n /\ i \notin S}
<1>1. IsWellFoundedOn(Below, Nat)
  BY ZenonT(60), NatLessThanWellFounded, BelowIsLess
<1>2. T \subseteq Nat /\ j \in T
  BY SMT
<1> HIDE DEF T
<1>3. PICK m \in T : \A t \in T : ~ (<<t, m>> \in Below)
  BY Zenon, <1>1, <1>2, WFMin
<1>4. m \in Nat /\ m \in 0 .. n /\ m \notin S /\ m # 0
  BY Zenon, <1>3 DEF T
<1>5. m - 1 \in 0 .. n - 1 /\ m - 1 + 1 = m /\ m - 1 \in Nat /\ m - 1 < m /\ m - 1 \in 0 .. n
  BY <1>4
<1>6. m - 1 \notin S
  BY Zenon, <1>4, <1>5
<1>7. m - 1 \in T
  BY Zenon, <1>5, <1>6 DEF T
<1>8. <<m - 1, m>> \in Below
  BY Zenon, <1>4, <1>5 DEF Below
<1> QED
  BY Zenon, <1>3, <1>7, <1>8

-----------------------------------------------------------------------------
(* The list that the nodes hold. *)

(* The lists of the first nodes, by which Elements is defined. *)
Flattened(ns) ==
  LET upTo[j \in 1 .. Len(ns)] == IF j = 1 THEN ns[j] ELSE upTo[j - 1] \o ns[j]
  IN upTo

(* They satisfy the recursion that defines them. *)
LEMMA FlattenedSteps ==
  ASSUME NEW ns, Len(ns) \in Nat \ {0}
  PROVE  /\ Flattened(ns)[1] = ns[1]
         /\ \A n \in 2 .. Len(ns) : Flattened(ns)[n] = Flattened(ns)[n - 1] \o ns[n]
<1> DEFINE Fits(m, g) == g = [n \in 1 .. m |-> IF n = 1 THEN ns[n] ELSE g[n - 1] \o ns[n]]
           S == {m \in 0 .. Len(ns) : \E g : Fits(m, g)}
<1>1. 0 \in S
  <2> DEFINE g == [n \in 1 .. 0 |-> 0]
  <2>1. Fits(0, g)
    OBVIOUS
  <2>2. 0 \in 0 .. Len(ns)
    OBVIOUS
  <2> QED
    BY Zenon, <2>1, <2>2
<1>2. ASSUME NEW m \in 0 .. Len(ns) - 1, m \in S
      PROVE  m + 1 \in S
  <2>1. PICK g : Fits(m, g)
    BY Zenon, <1>2
  <2> DEFINE h == [n \in 1 .. m + 1 |->
                     IF n <= m THEN g[n] ELSE IF n = 1 THEN ns[n] ELSE g[m] \o ns[m + 1]]
  <2>2. ASSUME NEW n \in 1 .. m + 1
        PROVE  h[n] = IF n = 1 THEN ns[n] ELSE h[n - 1] \o ns[n]
    <3>1. CASE n <= m /\ n = 1
      <4>1. n \in 1 .. m
        BY <3>1
      <4>2. g[n] = ns[n]
        BY Zenon, <2>1, <3>1, <4>1
      <4> QED
        BY Zenon, <3>1, <4>2
    <3>2. CASE n <= m /\ n # 1
      <4>1. n - 1 \in 1 .. m + 1 /\ n - 1 <= m /\ n \in 1 .. m
        BY <3>2
      <4>2. g[n] = g[n - 1] \o ns[n]
        BY Zenon, <2>1, <3>2, <4>1
      <4>3. h[n] = g[n] /\ h[n - 1] = g[n - 1]
        BY Zenon, <3>2, <4>1
      <4> QED
        BY Zenon, <3>2, <4>2, <4>3
    <3>3. CASE n = m + 1
      <4>1. ~(n <= m) /\ n - 1 = m /\ (n # 1 => m \in 1 .. m + 1 /\ m <= m)
        BY <3>3
      <4>2. n # 1 => h[n] = g[m] \o ns[m + 1] /\ h[n - 1] = g[m]
        BY Zenon, <3>3, <4>1
      <4>3. n = 1 => h[n] = ns[n]
        BY Zenon, <4>1
      <4> QED
        BY Zenon, <3>3, <4>2, <4>3
    <3> QED
      BY <3>1, <3>2, <3>3
  <2>3. Fits(m + 1, h)
    <3> HIDE DEF h
    <3>1. h = [n \in 1 .. m + 1 |-> h[n]]
      BY DEF h
    <3> QED
      BY Zenon, <2>2, <3>1
  <2>4. m + 1 \in 0 .. Len(ns)
    OBVIOUS
  <2> QED
    BY Zenon, <2>3, <2>4
<1>3. Len(ns) \in S
  <2> HIDE DEF S
  <2>1. \A m \in 0 .. Len(ns) : m \in S
    BY Zenon, <1>1, <1>2, UpTo
  <2> QED
    BY <2>1
<1>4. Fits(Len(ns), Flattened(ns))
  BY Zenon, <1>3 DEF Flattened
<1>5. ASSUME NEW n \in 1 .. Len(ns)
      PROVE  Flattened(ns)[n] = IF n = 1 THEN ns[n] ELSE Flattened(ns)[n - 1] \o ns[n]
  BY Zenon, <1>4
<1>6. 1 \in 1 .. Len(ns) /\ \A n \in 2 .. Len(ns) : n \in 1 .. Len(ns) /\ n # 1
  OBVIOUS
<1> QED
  BY Zenon, <1>5, <1>6

(* The places where the nodes start satisfy their recursion. *)
LEMMA StartsStep ==
  ASSUME NEW ns, Len(ns) \in Nat
  PROVE  /\ Starts(ns)[1] = 0
         /\ \A n \in 1 .. Len(ns) : Starts(ns)[n + 1] = Starts(ns)[n] + Len(ns[n])
<1> DEFINE Fits(m, g) == g = [n \in 1 .. m + 1 |-> IF n = 1 THEN 0 ELSE g[n - 1] + Len(ns[n - 1])]
           S == {m \in 0 .. Len(ns) : \E g : Fits(m, g)}
<1>1. 0 \in S
  <2> DEFINE g == [n \in 1 .. 0 + 1 |-> 0]
  <2>1. Fits(0, g)
    OBVIOUS
  <2>2. 0 \in 0 .. Len(ns)
    OBVIOUS
  <2> QED
    BY Zenon, <2>1, <2>2
<1>2. ASSUME NEW m \in 0 .. Len(ns) - 1, m \in S
      PROVE  m + 1 \in S
  <2>1. PICK g : Fits(m, g)
    BY Zenon, <1>2
  <2> DEFINE h == [n \in 1 .. (m + 1) + 1 |-> IF n <= m + 1 THEN g[n] ELSE g[m + 1] + Len(ns[m + 1])]
  <2>2. ASSUME NEW n \in 1 .. (m + 1) + 1
        PROVE  h[n] = IF n = 1 THEN 0 ELSE h[n - 1] + Len(ns[n - 1])
    <3>1. CASE n = 1
      <4>1. 1 \in 1 .. m + 1 /\ n <= m + 1
        BY <3>1
      <4>2. g[1] = 0
        BY Zenon, <2>1, <4>1
      <4> QED
        BY Zenon, <3>1, <4>1, <4>2
    <3>2. CASE n # 1 /\ n <= m + 1
      <4>1. n - 1 \in 1 .. (m + 1) + 1 /\ n - 1 <= m + 1 /\ n \in 1 .. m + 1
        BY <3>2
      <4>2. g[n] = g[n - 1] + Len(ns[n - 1])
        BY Zenon, <2>1, <3>2, <4>1
      <4>3. h[n] = g[n] /\ h[n - 1] = g[n - 1]
        BY Zenon, <3>2, <4>1
      <4> QED
        BY Zenon, <3>2, <4>2, <4>3
    <3>3. CASE n = (m + 1) + 1
      <4>1. n # 1 /\ n - 1 = m + 1 /\ n - 1 \in 1 .. (m + 1) + 1 /\ n - 1 <= m + 1 /\ ~(n <= m + 1)
        BY <3>3
      <4>2. h[n] = g[m + 1] + Len(ns[m + 1]) /\ h[n - 1] = g[n - 1]
        BY Zenon, <4>1
      <4> QED
        BY Zenon, <4>1, <4>2
    <3> QED
      BY <3>1, <3>2, <3>3
  <2>3. Fits(m + 1, h)
    <3> HIDE DEF h
    <3>1. h = [n \in 1 .. (m + 1) + 1 |-> h[n]]
      BY DEF h
    <3> QED
      BY Zenon, <2>2, <3>1
  <2>4. m + 1 \in 0 .. Len(ns)
    OBVIOUS
  <2> QED
    BY Zenon, <2>3, <2>4
<1>3. Len(ns) \in S
  <2> HIDE DEF S
  <2>1. \A m \in 0 .. Len(ns) : m \in S
    BY Zenon, <1>1, <1>2, UpTo
  <2> QED
    BY <2>1
<1>4. Fits(Len(ns), Starts(ns))
  BY Zenon, <1>3 DEF Starts
<1>5. ASSUME NEW n \in 1 .. Len(ns) + 1
      PROVE  Starts(ns)[n] = IF n = 1 THEN 0 ELSE Starts(ns)[n - 1] + Len(ns[n - 1])
  BY Zenon, <1>4
<1>6. 1 \in 1 .. Len(ns) + 1
  OBVIOUS
<1>7. ASSUME NEW n \in 1 .. Len(ns)
      PROVE  Starts(ns)[n + 1] = Starts(ns)[n] + Len(ns[n])
  <2>1. PICK k \in 1 .. Len(ns) + 1 : k = n + 1 /\ k # 1 /\ k - 1 = n
    OBVIOUS
  <2>2. Starts(ns)[k] = Starts(ns)[k - 1] + Len(ns[k - 1])
    BY Zenon, <1>5, <2>1
  <2> QED
    BY Zenon, <2>1, <2>2
<1> QED
  BY Zenon, <1>5, <1>6, <1>7

(* Nodes are sequences, and so is the list that they hold. *)
LEMMA FlattenType ==
  ASSUME NEW V, NEW ns \in Seq(Seq(V))
  PROVE  /\ Elements(ns) \in Seq(V)
         /\ \A n \in 1 .. Len(ns) : Flattened(ns)[n] \in Seq(V)
         /\ ns # << >> => Elements(ns) = Flattened(ns)[Len(ns)]
<1>0. Len(ns) \in Nat /\ \A n \in 1 .. Len(ns) : ns[n] \in Seq(V)
  OBVIOUS
<1>1. CASE Len(ns) = 0
  <2>1. ns = << >> /\ << >> \in Seq(V)
    BY <1>1
  <2>2. Elements(ns) = ns
    BY Zenon, <1>1, <2>1 DEF Elements
  <2>3. \A n \in 1 .. Len(ns) : FALSE
    BY <1>1
  <2> QED
    BY Zenon, <2>1, <2>2, <2>3
<1>2. CASE Len(ns) # 0
  <2> DEFINE S == {n \in 0 .. Len(ns) : n = 0 \/ Flattened(ns)[n] \in Seq(V)}
  <2>0. Len(ns) \in Nat \ {0}
    BY <1>0, <1>2
  <2>1. 0 \in S
    BY <1>0
  <2>2. ASSUME NEW n \in 0 .. Len(ns) - 1, n \in S
        PROVE  n + 1 \in S
    <3>1. n + 1 \in 1 .. Len(ns) /\ n + 1 \in 0 .. Len(ns) /\ n + 1 - 1 = n
      BY <1>0
    <3>2. ns[n + 1] \in Seq(V)
      BY <1>0, <3>1
    <3>3. CASE n = 0
      <4>0. 1 \in 1 .. Len(ns)
        BY <2>0
      <4>1. Flattened(ns)[1] \in Seq(V)
        BY Zenon, <1>0, <2>0, <4>0, FlattenedSteps
      <4> QED
        BY <3>1, <3>3, <4>1
    <3>4. CASE n # 0
      <4>1. PICK k \in 2 .. Len(ns) : k = n + 1 /\ k - 1 = n
        BY <3>1, <3>4
      <4>2. Flattened(ns)[k] = Flattened(ns)[k - 1] \o ns[k]
        BY Zenon, <2>0, FlattenedSteps
      <4>3. Flattened(ns)[n + 1] = Flattened(ns)[n] \o ns[n + 1] /\ Flattened(ns)[n] \in Seq(V)
        BY Zenon, <2>2, <3>4, <4>1, <4>2
      <4>4. Flattened(ns)[n] \o ns[n + 1] \in Seq(V)
        BY Zenon, <3>2, <4>3, ConcatShape
      <4> QED
        BY Zenon, <3>1, <4>3, <4>4
    <3> QED
      BY <3>3, <3>4
  <2>3. \A n \in 0 .. Len(ns) : n \in S
    <3> HIDE DEF S
    <3> QED
      BY Zenon, <1>0, <2>1, <2>2, UpTo
  <2>4. \A n \in 1 .. Len(ns) : Flattened(ns)[n] \in Seq(V)
    BY <1>0, <2>3
  <2>5. Elements(ns) = Flattened(ns)[Len(ns)]
    BY Zenon, <1>2 DEF Elements, Flattened
  <2> QED
    BY <2>0, <2>4, <2>5
<1> QED
  BY Zenon, <1>1, <1>2

(* The elements of the last node are the last of the list. *)
LEMMA EndNode ==
  ASSUME NEW V, NEW ns \in Seq(Seq(V)), NEW nd \in Seq(V)
  PROVE  Elements(Append(ns, nd)) = Elements(ns) \o nd
<1> DEFINE ms == Append(ns, nd)
<1>0. /\ Len(ns) \in Nat /\ ms \in Seq(Seq(V)) /\ Len(ms) = Len(ns) + 1 /\ ms # << >>
      /\ ms[Len(ns) + 1] = nd /\ \A n \in 1 .. Len(ns) : ms[n] = ns[n]
  <2>1. ms \in Seq(Seq(V)) /\ Len(ns) \in Nat /\ Len(ms) = Len(ns) + 1
    OBVIOUS
  <2>2. ms[Len(ns) + 1] = nd /\ \A n \in 1 .. Len(ns) : ms[n] = ns[n]
    OBVIOUS
  <2> HIDE DEF ms
  <2>3. ms # << >>
    BY <2>1
  <2> QED
    BY Zenon, <2>1, <2>2, <2>3
<1> HIDE DEF ms
<1>1. Len(ms) \in Nat \ {0} /\ Elements(ms) = Flattened(ms)[Len(ns) + 1]
  BY <1>0, FlattenType
<1>2. CASE Len(ns) = 0
  <2>1. ns = << >> /\ Elements(ns) = ns
    BY <1>2 DEF Elements
  <2>2. Flattened(ms)[1] = nd
    <3>1. Len(ns) + 1 = 1
      BY <1>2
    <3> QED
      BY Zenon, <1>0, <1>1, <3>1, FlattenedSteps
  <2>3. << >> \o nd = nd
    BY Zenon, ConcatShape
  <2> QED
    BY SMTT(30), <1>1, <1>2, <2>1, <2>2, <2>3 DEF ms
<1>3. CASE Len(ns) # 0
  <2> DEFINE S == {n \in 0 .. Len(ns) : n = 0 \/ Flattened(ms)[n] = Flattened(ns)[n]}
  <2>0. Len(ns) \in Nat \ {0} /\ ns # << >>
    BY <1>0, <1>3
  <2>1. 0 \in S
    BY <1>0
  <2>2. ASSUME NEW n \in 0 .. Len(ns) - 1, n \in S
        PROVE  n + 1 \in S
    <3>1. PICK k \in 1 .. Len(ns) : k = n + 1 /\ k - 1 = n /\ k \in 0 .. Len(ns) /\ k \in 1 .. Len(ms)
      BY <1>0
    <3>2. ms[k] = ns[k]
      BY Zenon, <1>0
    <3>3. CASE n = 0
      <4>1. Flattened(ms)[1] = ms[1] /\ Flattened(ns)[1] = ns[1]
        BY Zenon, <1>1, <2>0, FlattenedSteps
      <4>2. k = 1
        BY <3>1, <3>3
      <4> QED
        BY Zenon, <3>1, <3>2, <4>1, <4>2
    <3>4. CASE n # 0
      <4>1. k \in 2 .. Len(ns) /\ k \in 2 .. Len(ms)
        BY <1>0, <3>1, <3>4
      <4>2. Flattened(ms)[n] = Flattened(ns)[n]
        BY Zenon, <2>2, <3>4
      <4>3. /\ Flattened(ms)[k] = Flattened(ms)[k - 1] \o ms[k]
            /\ Flattened(ns)[k] = Flattened(ns)[k - 1] \o ns[k]
        BY Zenon, <1>1, <2>0, <4>1, FlattenedSteps
      <4> QED
        BY Zenon, <3>1, <3>2, <4>2, <4>3
    <3> QED
      BY Zenon, <3>3, <3>4
  <2>3. \A n \in 0 .. Len(ns) : n \in S
    <3> HIDE DEF S
    <3> QED
      BY Zenon, <1>0, <2>1, <2>2, UpTo
  <2>4. Flattened(ms)[Len(ns)] = Flattened(ns)[Len(ns)]
    BY <1>0, <1>3, <2>3
  <2>5. PICK k \in 2 .. Len(ms) : k = Len(ns) + 1 /\ k - 1 = Len(ns)
    BY <1>0, <2>0
  <2>6. Flattened(ms)[k] = Flattened(ms)[k - 1] \o ms[k]
    BY Zenon, <1>1, FlattenedSteps
  <2>7. Elements(ns) = Flattened(ns)[Len(ns)]
    BY Zenon, <2>0, FlattenType
  <2> QED
    BY Zenon, <1>0, <1>1, <2>4, <2>5, <2>6, <2>7 DEF ms
<1> QED
  BY Zenon, <1>2, <1>3

(* The elements of the first node are the first of the list. *)
LEMMA HeadNode ==
  ASSUME NEW V, NEW ns \in Seq(Seq(V)), NEW nd \in Seq(V)
  PROVE  Elements(<<nd>> \o ns) = nd \o Elements(ns)
<1> DEFINE ms == <<nd>> \o ns
<1>0. /\ Len(ns) \in Nat /\ ms \in Seq(Seq(V)) /\ Len(ms) = Len(ns) + 1 /\ ms # << >>
      /\ ms[1] = nd /\ \A n \in 1 .. Len(ns) : ms[n + 1] = ns[n]
  <2>1. <<nd>> \in Seq(Seq(V)) /\ Len(<<nd>>) = 1 /\ <<nd>>[1] = nd
    OBVIOUS
  <2>2. /\ ms \in Seq(Seq(V)) /\ Len(ms) = 1 + Len(ns) /\ \A i \in 1 .. 1 : ms[i] = <<nd>>[i]
        /\ \A i \in 1 .. Len(ns) : ms[1 + i] = ns[i]
    BY <2>1, ConcatShape
  <2> QED
    BY <2>1, <2>2
<1> HIDE DEF ms
<1>1. Len(ms) \in Nat \ {0} /\ Elements(ms) = Flattened(ms)[Len(ns) + 1]
  BY <1>0, FlattenType
<1>2. Flattened(ms)[1] = nd
  BY Zenon, <1>0, <1>1, FlattenedSteps
<1>3. CASE Len(ns) = 0
  <2>1. ns = << >> /\ Elements(ns) = ns
    BY SMTT(30), <1>3 DEF Elements
  <2>2. nd \o << >> = nd
    BY Zenon, ConcatShape
  <2> QED
    BY SMTT(30), <1>1, <1>2, <1>3, <2>1, <2>2 DEF ms
<1>4. CASE Len(ns) # 0
  <2> DEFINE S == {n \in 0 .. Len(ns) : n = 0 \/ Flattened(ms)[n + 1] = nd \o Flattened(ns)[n]}
  <2>0. Len(ns) \in Nat \ {0} /\ ns # << >>
    BY <1>0, <1>4
  <2>1. 0 \in S
    BY <1>0
  <2>2. ASSUME NEW n \in 0 .. Len(ns) - 1, n \in S
        PROVE  n + 1 \in S
    <3>1. PICK k \in 1 .. Len(ns) : k = n + 1 /\ k - 1 = n /\ k \in 0 .. Len(ns)
      BY <1>0
    <3>2. PICK l \in 2 .. Len(ms) : l = k + 1 /\ l - 1 = k /\ l = (n + 1) + 1
      BY <1>0, <3>1
    <3>3. ms[l] = ns[k] /\ ns[k] \in Seq(V)
      BY <1>0, <3>2
    <3>4. Flattened(ms)[l] = Flattened(ms)[l - 1] \o ms[l]
      BY Zenon, <1>1, FlattenedSteps
    <3>5. Flattened(ms)[l] = Flattened(ms)[k] \o ns[k]
      BY Zenon, <3>2, <3>3, <3>4
    <3>6. CASE n = 0
      <4>1. k = 1
        BY <3>1, <3>6
      <4>2. Flattened(ns)[1] = ns[1]
        BY Zenon, <2>0, FlattenedSteps
      <4>3. Flattened(ms)[l] = nd \o Flattened(ns)[k]
        BY Zenon, <1>2, <3>5, <4>1, <4>2
      <4> QED
        BY Zenon, <3>1, <3>2, <4>3
    <3>7. CASE n # 0
      <4>1. k \in 2 .. Len(ns) /\ n \in 1 .. Len(ns)
        BY <3>1, <3>7
      <4>2. Flattened(ns)[k] = Flattened(ns)[k - 1] \o ns[k]
        BY Zenon, <2>0, <4>1, FlattenedSteps
      <4>3. Flattened(ms)[k] = nd \o Flattened(ns)[n]
        BY Zenon, <2>2, <3>1, <3>7
      <4>4. Flattened(ns)[n] \in Seq(V)
        BY Zenon, <4>1, FlattenType
      <4>5. /\ Flattened(ms)[l] = Cat(Cat(nd, Flattened(ns)[n]), ns[k])
            /\ Flattened(ns)[k] = Cat(Flattened(ns)[n], ns[k])
        BY Zenon, <3>1, <3>5, <4>2, <4>3 DEF Cat
      <4>6. Flattened(ms)[l] = Cat(nd, Flattened(ns)[k])
        <5>1. PICK a \in Seq(V), b \in Seq(V) : a = Flattened(ns)[n] /\ b = ns[k]
          BY Zenon, <3>3, <4>4
        <5>2. Cat(Cat(nd, a), b) = Cat(nd, Cat(a, b))
          BY CatAssoc
        <5> QED
          BY Zenon, <4>5, <5>1, <5>2
      <4>7. Flattened(ms)[l] = nd \o Flattened(ns)[k]
        BY Zenon, <4>6 DEF Cat
      <4> QED
        BY ZenonT(40), <3>1, <3>2, <4>7
    <3> QED
      BY Zenon, <3>6, <3>7
  <2>3. \A n \in 0 .. Len(ns) : n \in S
    <3> HIDE DEF S
    <3> QED
      BY Zenon, <1>0, <2>1, <2>2, UpTo
  <2>4. Flattened(ms)[Len(ns) + 1] = nd \o Flattened(ns)[Len(ns)]
    BY SMTT(30), <1>0, <1>4, <2>3
  <2>5. Elements(ns) = Flattened(ns)[Len(ns)]
    BY Zenon, <2>0, FlattenType
  <2> QED
    BY Zenon, <1>1, <2>4, <2>5 DEF ms
<1> QED
  BY Zenon, <1>3, <1>4

-----------------------------------------------------------------------------
(* Where the elements of the nodes lie in the list. *)

(* The places where the nodes start are naturals. *)
LEMMA StartsType ==
  ASSUME NEW V, NEW ns \in Seq(Seq(V))
  PROVE  \A n \in 1 .. Len(ns) + 1 : Starts(ns)[n] \in Nat
<1> DEFINE S == {n \in Nat : Starts(ns)[n + 1] \in Nat}
<1>0. Len(ns) \in Nat /\ \A n \in 1 .. Len(ns) : ns[n] \in Seq(V) /\ Len(ns[n]) \in Nat
  OBVIOUS
<1>1. 0 \in S
  <2>1. 0 + 1 = 1 /\ 0 \in Nat
    OBVIOUS
  <2> QED
    BY <1>0, <2>1, StartsStep
<1>2. ASSUME NEW n \in 0 .. Len(ns) - 1, n \in S
      PROVE  n + 1 \in S
  <2>1. PICK k \in 1 .. Len(ns) : k = n + 1 /\ k \in Nat
    BY <1>0
  <2>2. Starts(ns)[k + 1] = Starts(ns)[k] + Len(ns[k])
    BY Zenon, <1>0, StartsStep
  <2>3. Starts(ns)[k] \in Nat /\ Len(ns[k]) \in Nat
    BY Zenon, <1>0, <1>2, <2>1
  <2>4. Starts(ns)[k + 1] \in Nat
    BY SMTT(30), <2>2, <2>3
  <2> QED
    BY Zenon, <2>1, <2>4
<1>3. \A n \in 0 .. Len(ns) : n \in S
  <2> HIDE DEF S
  <2> QED
    BY Zenon, <1>0, <1>1, <1>2, UpTo
<1> SUFFICES ASSUME NEW n \in 1 .. Len(ns) + 1
             PROVE  Starts(ns)[n] \in Nat
  OBVIOUS
<1>4. PICK k \in 0 .. Len(ns) : n = k + 1
  <2>1. n - 1 \in 0 .. Len(ns) /\ n = (n - 1) + 1
    BY <1>0
  <2> QED
    BY Zenon, <2>1
<1> QED
  BY Zenon, <1>3, <1>4

(* The elements of the first m nodes of ns are the elements of F, each at  *)
(* its place behind the start of its node.                                 *)
Lays(ns, m, F) ==
  /\ Len(F) = Starts(ns)[m + 1]
  /\ \A j \in 1 .. m : \A i \in 1 .. Len(ns[j]) :
       Starts(ns)[j] + i \in 1 .. Len(F) /\ F[Starts(ns)[j] + i] = ns[j][i]
  /\ \A q \in 1 .. Len(F) : \E j \in 1 .. m : \E i \in 1 .. Len(ns[j]) : q = Starts(ns)[j] + i

(* One node more. *)
LEMMA LaysOn ==
  ASSUME NEW V, NEW ns \in Seq(Seq(V)), NEW k \in 1 .. Len(ns), NEW m \in Nat, k = m + 1,
         NEW F \in Seq(V), Lays(ns, m, F)
  PROVE  Lays(ns, k, F \o ns[k])
<1> DEFINE nd == ns[k]
           G == F \o nd
<1>0. /\ nd \in Seq(V) /\ Len(nd) \in Nat /\ Len(F) \in Nat /\ Len(ns) \in Nat
      /\ \A j \in 1 .. k : ns[j] \in Seq(V) /\ Len(ns[j]) \in Nat
  OBVIOUS
<1>1. /\ Len(G) = Len(F) + Len(nd)
      /\ \A i \in 1 .. Len(F) : G[i] = F[i]
      /\ \A i \in 1 .. Len(nd) : G[Len(F) + i] = nd[i]
  <2>1. PICK s \in Seq(V) : s = nd
    BY Zenon, <1>0
  <2>2. /\ Len(F \o s) = Len(F) + Len(s)
        /\ \A i \in 1 .. Len(F) : (F \o s)[i] = F[i]
        /\ \A i \in 1 .. Len(s) : (F \o s)[Len(F) + i] = s[i]
    BY ConcatShape
  <2> QED
    BY Zenon, <2>1, <2>2
<1>2. Len(F) = Starts(ns)[k] /\ Starts(ns)[k + 1] = Starts(ns)[k] + Len(nd)
  <2>1. Starts(ns)[k + 1] = Starts(ns)[k] + Len(ns[k])
    BY Zenon, <1>0, StartsStep
  <2> QED
    BY Zenon, <2>1 DEF Lays
<1>3. \A j \in 1 .. k : Starts(ns)[j] \in Nat
  <2>1. \A j \in 1 .. k : j \in 1 .. Len(ns) + 1
    BY <1>0
  <2> QED
    BY Zenon, <2>1, StartsType
<1> HIDE DEF nd, G
<1>4. Len(G) = Starts(ns)[k + 1]
  BY Zenon, <1>1, <1>2
<1>5. ASSUME NEW j \in 1 .. k, NEW i \in 1 .. Len(ns[j])
      PROVE  Starts(ns)[j] + i \in 1 .. Len(G) /\ G[Starts(ns)[j] + i] = ns[j][i]
  <2>1. CASE j = k
    <3>1. Starts(ns)[j] = Len(F) /\ ns[j] = nd
      BY Zenon, <1>2, <2>1 DEF nd
    <3>2. Len(F) + i \in 1 .. Len(G)
      BY <1>0, <1>1, <3>1
    <3> QED
      BY Zenon, <1>1, <3>1, <3>2
  <2>2. CASE j # k
    <3>1. j \in 1 .. m
      BY <2>2
    <3>2. Starts(ns)[j] + i \in 1 .. Len(F) /\ F[Starts(ns)[j] + i] = ns[j][i]
      BY Zenon, <3>1 DEF Lays
    <3>3. \A x \in 1 .. Len(F) : x \in 1 .. Len(G)
      BY <1>0, <1>1
    <3> QED
      BY Zenon, <1>1, <3>2, <3>3
  <2> QED
    BY Zenon, <2>1, <2>2
<1>6. ASSUME NEW q \in 1 .. Len(G)
      PROVE  \E j \in 1 .. k : \E i \in 1 .. Len(ns[j]) : q = Starts(ns)[j] + i
  <2>1. CASE q \in 1 .. Len(F)
    <3>1. PICK j \in 1 .. m : \E i \in 1 .. Len(ns[j]) : q = Starts(ns)[j] + i
      BY Zenon, <2>1 DEF Lays
    <3>2. j \in 1 .. k
      OBVIOUS
    <3> QED
      BY Zenon, <3>1, <3>2
  <2>2. CASE q \notin 1 .. Len(F)
    <3>1. PICK i \in 1 .. Len(nd) : q = Len(F) + i
      <4>1. q - Len(F) \in 1 .. Len(nd) /\ q = Len(F) + (q - Len(F))
        BY SMTT(30), <1>0, <1>1, <2>2
      <4> QED
        BY Zenon, <4>1
    <3>2. k \in 1 .. k
      OBVIOUS
    <3> QED
      BY Zenon, <1>2, <3>1, <3>2 DEF nd
  <2> QED
    BY Zenon, <2>1, <2>2
<1> QED
  BY Zenon, <1>4, <1>5, <1>6 DEF Lays, G, nd

(* The elements of the nodes, and only they, are the elements of the list. *)
LEMMA Positions ==
  ASSUME NEW V, NEW ns \in Seq(Seq(V))
  PROVE  Lays(ns, Len(ns), Elements(ns))
<1>0. Len(ns) \in Nat /\ \A n \in 1 .. Len(ns) : ns[n] \in Seq(V)
  OBVIOUS
<1>1. Lays(ns, 0, << >>) /\ << >> \in Seq(V)
  <2>1. Len(<< >>) = 0 /\ 0 + 1 = 1 /\ << >> \in Seq(V)
    OBVIOUS
  <2>2. 1 .. 0 = {}
    OBVIOUS
  <2> QED
    BY Zenon, <1>0, <2>1, <2>2, StartsStep DEF Lays
<1>2. CASE Len(ns) = 0
  <2>1. ns = << >> /\ Elements(ns) = ns
    BY <1>2 DEF Elements
  <2> QED
    BY Zenon, <1>1, <1>2, <2>1
<1>3. CASE Len(ns) # 0
  <2> DEFINE S == {n \in 0 .. Len(ns) : n = 0 \/ Lays(ns, n, Flattened(ns)[n])}
  <2>0. Len(ns) \in Nat \ {0} /\ ns # << >>
    BY <1>0, <1>3
  <2>1. 0 \in S
    BY <1>0
  <2>2. ASSUME NEW n \in 0 .. Len(ns) - 1, n \in S
        PROVE  n + 1 \in S
    <3>1. PICK k \in 1 .. Len(ns) : k = n + 1 /\ k - 1 = n /\ k \in 0 .. Len(ns) /\ n \in Nat
      BY <1>0
    <3>2. CASE n = 0
      <4>1. k = 1 /\ ns[k] \in Seq(V)
        BY <1>0, <3>1, <3>2
      <4>2. Flattened(ns)[k] = << >> \o ns[k]
        BY Zenon, <2>0, <4>1, FlattenedSteps, ConcatShape
      <4>3. Lays(ns, k, << >> \o ns[k])
        BY Zenon, <1>1, <3>1, <3>2, LaysOn
      <4> QED
        BY Zenon, <3>1, <4>2, <4>3
    <3>3. CASE n # 0
      <4>1. k \in 2 .. Len(ns) /\ n \in 1 .. Len(ns)
        BY <3>1, <3>3
      <4>2. Flattened(ns)[k] = Flattened(ns)[n] \o ns[k]
        BY Zenon, <2>0, <3>1, <4>1, FlattenedSteps
      <4>3. Flattened(ns)[n] \in Seq(V) /\ Lays(ns, n, Flattened(ns)[n])
        BY Zenon, <2>2, <3>3, <4>1, FlattenType
      <4>4. Lays(ns, k, Flattened(ns)[n] \o ns[k])
        BY Zenon, <3>1, <4>3, LaysOn
      <4> QED
        BY Zenon, <3>1, <4>2, <4>4
    <3> QED
      BY Zenon, <3>2, <3>3
  <2>3. \A n \in 0 .. Len(ns) : n \in S
    <3> HIDE DEF S
    <3> QED
      BY ZenonT(40), <1>0, <2>1, <2>2, UpTo
  <2>4. Lays(ns, Len(ns), Flattened(ns)[Len(ns)])
    <3>1. Len(ns) \in 0 .. Len(ns)
      BY <1>0
    <3> QED
      BY Zenon, <1>3, <2>3, <3>1
  <2> QED
    BY Zenon, <2>0, <2>4, FlattenType
<1> QED
  BY Zenon, <1>2, <1>3

-----------------------------------------------------------------------------
(* What the operations do to the list. *)

(* Nodes as the operations leave them: none is empty, none too full. *)
Filled(ns) == \A j \in 1 .. Len(ns) : Len(ns[j]) \in 1 .. NodeCapacity

(* The first node and the others. *)
LEMMA HeadSplit ==
  ASSUME NEW S, NEW ns \in Seq(S), ns # << >>
  PROVE  /\ Len(ns) \in Nat \ {0} /\ Head(ns) = ns[1] /\ ns[1] \in S
         /\ Tail(ns) \in Seq(S) /\ Len(Tail(ns)) = Len(ns) - 1
         /\ \A i \in 1 .. Len(ns) - 1 : Tail(ns)[i] = ns[i + 1]
         /\ \A x \in S : [ns EXCEPT ![1] = x] = <<x>> \o Tail(ns)
         /\ ns = <<ns[1]>> \o Tail(ns)
<1>1. /\ Len(ns) \in Nat \ {0} /\ Head(ns) = ns[1] /\ ns[1] \in S
      /\ Tail(ns) \in Seq(S) /\ Len(Tail(ns)) = Len(ns) - 1
      /\ \A i \in 1 .. Len(ns) - 1 : Tail(ns)[i] = ns[i + 1]
  OBVIOUS
<1>2. ASSUME NEW x \in S
      PROVE  [ns EXCEPT ![1] = x] = <<x>> \o Tail(ns)
  <2>1. [ns EXCEPT ![1] = x] \in Seq(S) /\ Len([ns EXCEPT ![1] = x]) = Len(ns)
    BY <1>1
  <2>2. <<x>> \o Tail(ns) \in Seq(S) /\ Len(<<x>> \o Tail(ns)) = Len(ns)
    BY <1>1
  <2>3. ASSUME NEW i \in 1 .. Len(ns)
        PROVE  [ns EXCEPT ![1] = x][i] = (<<x>> \o Tail(ns))[i]
    BY <1>1
  <2> QED
    BY Zenon, <2>1, <2>2, <2>3, SameElements
<1>3. ns = [ns EXCEPT ![1] = ns[1]]
  OBVIOUS
<1> QED
  BY Zenon, <1>1, <1>2, <1>3

(* The last node and the others. *)
LEMMA LastSplit ==
  ASSUME NEW S, NEW ns \in Seq(S), ns # << >>
  PROVE  /\ Len(ns) \in Nat \ {0} /\ Last(ns) = ns[Len(ns)] /\ Last(ns) \in S
         /\ Front(ns) \in Seq(S) /\ Len(Front(ns)) = Len(ns) - 1
         /\ \A i \in 1 .. Len(ns) - 1 : Front(ns)[i] = ns[i]
         /\ \A x \in S : [ns EXCEPT ![Len(ns)] = x] = Append(Front(ns), x)
         /\ ns = Append(Front(ns), Last(ns))
<1>1. /\ Len(ns) \in Nat \ {0} /\ Last(ns) = ns[Len(ns)] /\ Last(ns) \in S
      /\ Front(ns) \in Seq(S) /\ Len(Front(ns)) = Len(ns) - 1
      /\ \A i \in 1 .. Len(ns) - 1 : Front(ns)[i] = ns[i]
  <2>1. Len(ns) \in Nat \ {0} /\ Last(ns) = ns[Len(ns)] /\ Last(ns) \in S
    BY DEF Last
  <2>2. PICK n \in Nat : n = Len(ns) - 1 /\ n <= Len(ns)
    <3>1. Len(ns) - 1 \in Nat /\ Len(ns) - 1 <= Len(ns)
      BY <2>1
    <3> QED
      BY Zenon, <3>1
  <2>3. /\ SubSeq(ns, 1, n) \in Seq(S) /\ Len(SubSeq(ns, 1, n)) = n
        /\ \A i \in 1 .. n : SubSeq(ns, 1, n)[i] = ns[i]
    BY <2>2
  <2> QED
    BY Zenon, <2>1, <2>2, <2>3 DEF Front
<1>2. ASSUME NEW x \in S
      PROVE  [ns EXCEPT ![Len(ns)] = x] = Append(Front(ns), x)
  <2>1. [ns EXCEPT ![Len(ns)] = x] \in Seq(S) /\ Len([ns EXCEPT ![Len(ns)] = x]) = Len(ns)
    BY <1>1
  <2>2. Append(Front(ns), x) \in Seq(S) /\ Len(Append(Front(ns), x)) = Len(ns)
    BY <1>1
  <2>3. ASSUME NEW i \in 1 .. Len(ns)
        PROVE  [ns EXCEPT ![Len(ns)] = x][i] = Append(Front(ns), x)[i]
    BY <1>1
  <2> QED
    BY Zenon, <2>1, <2>2, <2>3, SameElements
<1>3. ns = [ns EXCEPT ![Len(ns)] = Last(ns)]
  BY <1>1
<1> QED
  BY Zenon, <1>1, <1>2, <1>3

(* The list, split at the end of the first node. *)
LEMMA HeadFlat ==
  ASSUME NEW V, NEW ns \in Seq(Seq(V)), ns # << >>
  PROVE  /\ Elements(ns) = ns[1] \o Elements(Tail(ns))
         /\ Elements(Tail(ns)) \in Seq(V)
         /\ \A x \in Seq(V) : Elements([ns EXCEPT ![1] = x]) = x \o Elements(Tail(ns))
<1>1. PICK T \in Seq(Seq(V)) : T = Tail(ns)
  BY Zenon, HeadSplit
<1>2. /\ ns[1] \in Seq(V) /\ ns = <<ns[1]>> \o T
      /\ \A x \in Seq(V) : [ns EXCEPT ![1] = x] = <<x>> \o T
  <2>1. /\ ns[1] \in Seq(V) /\ ns = <<ns[1]>> \o Tail(ns)
        /\ \A x \in Seq(V) : [ns EXCEPT ![1] = x] = <<x>> \o Tail(ns)
    BY Zenon, HeadSplit
  <2> QED
    BY Zenon, <1>1, <2>1
<1>3. \A x \in Seq(V) : Elements(<<x>> \o T) = x \o Elements(T)
  BY Zenon, HeadNode
<1>4. Elements(T) \in Seq(V)
  BY Zenon, FlattenType
<1>5. Elements(ns) = ns[1] \o Elements(T)
  <2>1. Elements(<<ns[1]>> \o T) = ns[1] \o Elements(T)
    BY Zenon, <1>2, <1>3
  <2> QED
    BY Zenon, <1>2, <2>1
<1> QED
  BY Zenon, <1>1, <1>2, <1>3, <1>4, <1>5

(* The list, split at the start of the last node. *)
LEMMA LastFlat ==
  ASSUME NEW V, NEW ns \in Seq(Seq(V)), ns # << >>
  PROVE  /\ Elements(ns) = Elements(Front(ns)) \o Last(ns)
         /\ Elements(Front(ns)) \in Seq(V)
         /\ \A x \in Seq(V) : Elements([ns EXCEPT ![Len(ns)] = x]) = Elements(Front(ns)) \o x
<1>1. PICK T \in Seq(Seq(V)) : T = Front(ns)
  BY Zenon, LastSplit
<1>2. /\ Last(ns) \in Seq(V) /\ ns = Append(T, Last(ns))
      /\ \A x \in Seq(V) : [ns EXCEPT ![Len(ns)] = x] = Append(T, x)
  <2>1. /\ Last(ns) \in Seq(V) /\ ns = Append(Front(ns), Last(ns))
        /\ \A x \in Seq(V) : [ns EXCEPT ![Len(ns)] = x] = Append(Front(ns), x)
    BY ZenonT(40), LastSplit
  <2> QED
    BY Zenon, <1>1, <2>1
<1>3. \A x \in Seq(V) : Elements(Append(T, x)) = Elements(T) \o x
  BY Zenon, EndNode
<1>4. Elements(T) \in Seq(V)
  BY ZenonT(40), FlattenType
<1>5. Elements(ns) = Elements(T) \o Last(ns)
  <2>1. Elements(Append(T, Last(ns))) = Elements(T) \o Last(ns)
    BY Zenon, <1>2, <1>3
  <2> QED
    BY Zenon, <1>2, <2>1
<1> QED
  BY Zenon, <1>1, <1>2, <1>3, <1>4, <1>5

(* Taking the first element of a list is taking it from the first node. *)
LEMMA PopFirst ==
  ASSUME NEW V, NEW nd \in Seq(V), NEW T \in Seq(V), nd # << >>
  PROVE  /\ nd \o T # << >> /\ Head(nd \o T) = Head(nd)
         /\ Tail(nd \o T) = Tail(nd) \o T
<1> DEFINE F == nd \o T
           G == Tail(nd) \o T
<1>0. Len(nd) \in Nat \ {0} /\ Len(T) \in Nat
  OBVIOUS
<1>1. /\ F \in Seq(V) /\ Len(F) = Len(nd) + Len(T)
      /\ \A i \in 1 .. Len(nd) : F[i] = nd[i]
      /\ \A i \in 1 .. Len(T) : F[Len(nd) + i] = T[i]
  BY ConcatShape
<1>2. /\ Tail(nd) \in Seq(V) /\ Len(Tail(nd)) = Len(nd) - 1 /\ Head(nd) = nd[1]
      /\ \A i \in 1 .. Len(nd) - 1 : Tail(nd)[i] = nd[i + 1]
  BY Zenon, HeadSplit
<1>3. /\ G \in Seq(V) /\ Len(G) = Len(nd) - 1 + Len(T)
      /\ \A i \in 1 .. Len(nd) - 1 : G[i] = nd[i + 1]
      /\ \A i \in 1 .. Len(T) : G[Len(nd) - 1 + i] = T[i]
  <2>1. PICK s \in Seq(V) : s = Tail(nd)
    BY Zenon, <1>2
  <2>2. /\ s \o T \in Seq(V) /\ Len(s \o T) = Len(s) + Len(T)
        /\ \A i \in 1 .. Len(s) : (s \o T)[i] = s[i]
        /\ \A i \in 1 .. Len(T) : (s \o T)[Len(s) + i] = T[i]
    BY ConcatShape
  <2> QED
    BY Zenon, <1>2, <2>1, <2>2
<1> HIDE DEF F, G
<1>4. F # << >>
  BY <1>0, <1>1
<1>5. /\ Tail(F) \in Seq(V) /\ Len(Tail(F)) = Len(F) - 1 /\ Head(F) = F[1]
      /\ \A i \in 1 .. Len(F) - 1 : Tail(F)[i] = F[i + 1]
  BY Zenon, <1>1, <1>4, HeadSplit
<1>6. Head(F) = Head(nd)
  <2>1. 1 \in 1 .. Len(nd)
    BY <1>0
  <2> QED
    BY Zenon, <1>1, <1>2, <1>5, <2>1
<1>7. ASSUME NEW i \in 1 .. Len(Tail(F))
      PROVE  Tail(F)[i] = G[i]
  <2>1. Tail(F)[i] = F[i + 1]
    BY Zenon, <1>5
  <2>2. CASE i \in 1 .. Len(nd) - 1
    <3>1. i + 1 \in 1 .. Len(nd)
      BY <1>0, <2>2
    <3> QED
      BY Zenon, <1>1, <1>3, <2>1, <2>2, <3>1
  <2>3. CASE i \notin 1 .. Len(nd) - 1
    <3>1. /\ i - Len(nd) + 1 \in 1 .. Len(T) /\ i + 1 = Len(nd) + (i - Len(nd) + 1)
          /\ i = Len(nd) - 1 + (i - Len(nd) + 1)
      BY <1>0, <1>1, <1>5, <2>3
    <3>2. PICK k \in 1 .. Len(T) : i + 1 = Len(nd) + k /\ i = Len(nd) - 1 + k
      BY Zenon, <3>1
    <3> QED
      BY Zenon, <1>1, <1>3, <2>1, <3>2
  <2> QED
    BY Zenon, <2>2, <2>3
<1>8. Len(Tail(F)) = Len(G)
  BY <1>0, <1>1, <1>3, <1>5
<1>9. Tail(F) = G
  BY Zenon, <1>3, <1>5, <1>7, <1>8, SameElements
<1> QED
  BY Zenon, <1>4, <1>6, <1>9 DEF F, G

(* Taking the last element of a list is taking it from the last node. *)
LEMMA PopLast ==
  ASSUME NEW V, NEW nd \in Seq(V), NEW T \in Seq(V), nd # << >>
  PROVE  /\ T \o nd # << >> /\ Last(T \o nd) = Last(nd)
         /\ Front(T \o nd) = T \o Front(nd)
<1> DEFINE F == T \o nd
           G == T \o Front(nd)
<1>0. Len(nd) \in Nat \ {0} /\ Len(T) \in Nat
  OBVIOUS
<1>1. /\ F \in Seq(V) /\ Len(F) = Len(T) + Len(nd)
      /\ \A i \in 1 .. Len(T) : F[i] = T[i]
      /\ \A i \in 1 .. Len(nd) : F[Len(T) + i] = nd[i]
  BY ConcatShape
<1>2. /\ Front(nd) \in Seq(V) /\ Len(Front(nd)) = Len(nd) - 1 /\ Last(nd) = nd[Len(nd)]
      /\ \A i \in 1 .. Len(nd) - 1 : Front(nd)[i] = nd[i]
  BY Zenon, LastSplit
<1>3. /\ G \in Seq(V) /\ Len(G) = Len(T) + (Len(nd) - 1)
      /\ \A i \in 1 .. Len(T) : G[i] = T[i]
      /\ \A i \in 1 .. Len(nd) - 1 : G[Len(T) + i] = nd[i]
  <2>1. PICK s \in Seq(V) : s = Front(nd)
    BY Zenon, <1>2
  <2>2. /\ T \o s \in Seq(V) /\ Len(T \o s) = Len(T) + Len(s)
        /\ \A i \in 1 .. Len(T) : (T \o s)[i] = T[i]
        /\ \A i \in 1 .. Len(s) : (T \o s)[Len(T) + i] = s[i]
    BY ConcatShape
  <2> QED
    BY Zenon, <1>2, <2>1, <2>2
<1> HIDE DEF F, G
<1>4. F # << >>
  BY <1>0, <1>1
<1>5. /\ Front(F) \in Seq(V) /\ Len(Front(F)) = Len(F) - 1 /\ Last(F) = F[Len(F)]
      /\ \A i \in 1 .. Len(F) - 1 : Front(F)[i] = F[i]
  BY Zenon, <1>1, <1>4, LastSplit
<1>6. Last(F) = Last(nd)
  <2>1. Len(nd) \in 1 .. Len(nd)
    BY <1>0
  <2> QED
    BY Zenon, <1>1, <1>2, <1>5, <2>1
<1>7. ASSUME NEW i \in 1 .. Len(Front(F))
      PROVE  Front(F)[i] = G[i]
  <2>1. Front(F)[i] = F[i]
    BY Zenon, <1>5
  <2>2. CASE i \in 1 .. Len(T)
    BY Zenon, <1>1, <1>3, <2>1, <2>2
  <2>3. CASE i \notin 1 .. Len(T)
    <3>1. i - Len(T) \in 1 .. Len(nd) - 1 /\ i - Len(T) \in 1 .. Len(nd) /\ i = Len(T) + (i - Len(T))
      BY <1>0, <1>1, <1>5, <2>3
    <3>2. PICK k \in 1 .. Len(nd) : i = Len(T) + k /\ k \in 1 .. Len(nd) - 1
      BY Zenon, <3>1
    <3> QED
      BY Zenon, <1>1, <1>3, <2>1, <3>2
  <2> QED
    BY Zenon, <2>2, <2>3
<1>8. Len(Front(F)) = Len(G)
  BY <1>0, <1>1, <1>3, <1>5
<1>9. Front(F) = G
  BY Zenon, <1>3, <1>5, <1>7, <1>8, SameElements
<1> QED
  BY Zenon, <1>4, <1>6, <1>9 DEF F, G

(* Nodes of the same lengths start at the same places. *)
LEMMA SameStarts ==
  ASSUME NEW V, NEW ns \in Seq(Seq(V)), NEW ms \in Seq(Seq(V)), Len(ms) = Len(ns),
         \A j \in 1 .. Len(ns) : Len(ms[j]) = Len(ns[j])
  PROVE  \A j \in 1 .. Len(ns) + 1 : Starts(ms)[j] = Starts(ns)[j]
<1> DEFINE S == {n \in Nat : Starts(ms)[n + 1] = Starts(ns)[n + 1]}
<1>0. Len(ns) \in Nat
  OBVIOUS
<1>1. 0 \in S
  <2>1. 0 + 1 = 1 /\ 0 \in Nat
    OBVIOUS
  <2>2. Starts(ms)[1] = 0 /\ Starts(ns)[1] = 0
    BY Zenon, <1>0, StartsStep
  <2> QED
    BY Zenon, <2>1, <2>2
<1>2. ASSUME NEW n \in 0 .. Len(ns) - 1, n \in S
      PROVE  n + 1 \in S
  <2>1. PICK k \in 1 .. Len(ns) : k = n + 1 /\ k \in Nat
    BY <1>0
  <2>2. Starts(ns)[k + 1] = Starts(ns)[k] + Len(ns[k])
    BY Zenon, <1>0, StartsStep
  <2>3. Starts(ms)[k + 1] = Starts(ms)[k] + Len(ms[k])
    BY Zenon, <1>0, StartsStep
  <2> QED
    BY Zenon, <1>2, <2>1, <2>2, <2>3
<1>3. \A n \in 0 .. Len(ns) : n \in S
  <2> HIDE DEF S
  <2> QED
    BY Zenon, <1>0, <1>1, <1>2, UpTo
<1> SUFFICES ASSUME NEW j \in 1 .. Len(ns) + 1
             PROVE  Starts(ms)[j] = Starts(ns)[j]
  OBVIOUS
<1>4. PICK k \in 0 .. Len(ns) : j = k + 1
  <2>1. j - 1 \in 0 .. Len(ns) /\ j = (j - 1) + 1
    BY <1>0
  <2> QED
    BY Zenon, <2>1
<1> QED
  BY Zenon, <1>3, <1>4

(* ms is ns with element i of node j set to v, and so is the list. *)
SetIn(ns, j, i, v) == [ns EXCEPT ![j][i] = v]
WasSet(V, ns, j, i, v, ms) ==
  /\ ms \in Seq(Seq(V)) /\ Len(ms) = Len(ns)
  /\ \A k \in 1 .. Len(ns) : Len(ms[k]) = Len(ns[k])
  /\ Elements(ms) = [Elements(ns) EXCEPT ![Starts(ns)[j] + i] = v]

(* Changing an element of a node changes the element of the list at its    *)
(* place, and nothing else.                                                *)
LEMMA SetFlat ==
  ASSUME NEW V, NEW ns \in Seq(Seq(V)), NEW j \in 1 .. Len(ns), NEW i \in 1 .. Len(ns[j]), NEW v \in V
  PROVE  WasSet(V, ns, j, i, v, SetIn(ns, j, i, v))
<1> DEFINE ms == SetIn(ns, j, i, v)
           nd == [ns[j] EXCEPT ![i] = v]
           F == Elements(ns)
           G == Elements(ms)
<1>0. Len(ns) \in Nat /\ \A k \in 1 .. Len(ns) : ns[k] \in Seq(V) /\ Len(ns[k]) \in Nat
  OBVIOUS
<1>1. nd \in Seq(V) /\ Len(nd) = Len(ns[j]) /\ \A k \in 1 .. Len(ns[j]) : nd[k] = IF k = i THEN v ELSE ns[j][k]
  <2>1. PICK s \in Seq(V) : s = ns[j]
    BY Zenon, <1>0
  <2>2. [s EXCEPT ![i] = v] \in Seq(V) /\ Len([s EXCEPT ![i] = v]) = Len(s)
        /\ \A k \in 1 .. Len(s) : [s EXCEPT ![i] = v][k] = IF k = i THEN v ELSE s[k]
    BY <2>1
  <2> QED
    BY Zenon, <2>1, <2>2
<1> HIDE DEF nd
<1>2. /\ ms \in Seq(Seq(V)) /\ Len(ms) = Len(ns)
      /\ ms[j] = nd /\ \A k \in 1 .. Len(ns) : k # j => ms[k] = ns[k]
  <2>1. ms = [ns EXCEPT ![j] = nd]
    BY Zenon DEF nd, SetIn
  <2> HIDE DEF ms
  <2> QED
    BY <1>0, <1>1, <2>1
<1> HIDE DEF ms
<1>3. \A k \in 1 .. Len(ns) : Len(ms[k]) = Len(ns[k])
  BY Zenon, <1>1, <1>2
<1>4. Lays(ns, Len(ns), F) /\ Lays(ms, Len(ns), G) /\ F \in Seq(V) /\ G \in Seq(V)
  BY Zenon, <1>2, Positions, FlattenType
<1>5. \A k \in 1 .. Len(ns) + 1 : Starts(ms)[k] = Starts(ns)[k]
  BY Zenon, <1>2, <1>3, SameStarts
<1>6. /\ Len(ns) + 1 \in 1 .. Len(ns) + 1
      /\ \A k \in 1 .. Len(ns) : k \in 1 .. Len(ns) + 1
  BY <1>0
<1> HIDE DEF F, G
<1>7. PICK q \in 1 .. Len(F) : q = Starts(ns)[j] + i
  BY Zenon, <1>4 DEF Lays
<1> DEFINE H == [F EXCEPT ![q] = v]
<1>8. H \in Seq(V) /\ Len(H) = Len(F) /\ \A x \in 1 .. Len(F) : H[x] = IF x = q THEN v ELSE F[x]
  BY SMTT(30), <1>4
<1> HIDE DEF H
<1>9. Len(G) = Len(F)
  BY Zenon, <1>4, <1>5, <1>6 DEF Lays
<1>10. ASSUME NEW x \in 1 .. Len(G)
       PROVE  G[x] = H[x]
  <2>1. PICK k \in 1 .. Len(ns) : \E y \in 1 .. Len(ms[k]) : x = Starts(ms)[k] + y
    BY Zenon, <1>4 DEF Lays
  <2>2. PICK y \in 1 .. Len(ms[k]) : x = Starts(ms)[k] + y
    BY Zenon, <2>1
  <2>3. G[x] = ms[k][y]
    BY Zenon, <1>4, <2>2 DEF Lays
  <2>4. x = Starts(ns)[k] + y /\ y \in 1 .. Len(ns[k])
    BY Zenon, <1>3, <1>5, <1>6, <2>2
  <2>5. F[x] = ns[k][y]
    BY Zenon, <1>4, <2>4 DEF Lays
  <2>6. CASE x = q
    <3>1. Starts(ms)[j] + i = x /\ i \in 1 .. Len(ms[j])
      BY Zenon, <1>3, <1>5, <1>6, <1>7, <2>6
    <3>2. G[x] = ms[j][i]
      BY Zenon, <1>4, <3>1 DEF Lays
    <3> QED
      BY Zenon, <1>1, <1>2, <1>8, <1>9, <2>6, <3>2
  <2>7. CASE x # q
    <3>1. k = j => y # i
      BY Zenon, <1>7, <2>4, <2>7
    <3>2. ms[k][y] = ns[k][y]
      BY Zenon, <1>1, <1>2, <2>4, <3>1
    <3> QED
      BY Zenon, <1>8, <1>9, <2>3, <2>5, <2>7, <3>2
  <2> QED
    BY Zenon, <2>6, <2>7
<1>11. G = H
  BY Zenon, <1>4, <1>8, <1>9, <1>10, SameElements
<1>12. Elements(ms) = [Elements(ns) EXCEPT ![Starts(ns)[j] + i] = v]
  BY Zenon, <1>7, <1>11 DEF F, G, H
<1> QED
  BY Zenon, <1>2, <1>3, <1>12 DEF ms, WasSet

(* The walk to an index that the list has ends at a node (LIndex, LSet). *)
LEMMA NodeFound ==
  ASSUME NEW V, NEW ns \in Seq(Seq(V)), NEW x \in Nat, x < Len(Elements(ns))
  PROVE  \E j \in DOMAIN ns : Starts(ns)[j] <= x /\ x < Starts(ns)[j] + Len(ns[j])
<1>0. Len(ns) \in Nat /\ DOMAIN ns = 1 .. Len(ns) /\ \A k \in 1 .. Len(ns) : Len(ns[k]) \in Nat
  OBVIOUS
<1>1. PICK q \in 1 .. Len(Elements(ns)) : q = x + 1
  <2>1. Elements(ns) \in Seq(V)
    BY Zenon, FlattenType
  <2>2. x + 1 \in 1 .. Len(Elements(ns))
    BY <2>1
  <2> QED
    BY Zenon, <2>2
<1>2. PICK j \in 1 .. Len(ns) : \E i \in 1 .. Len(ns[j]) : q = Starts(ns)[j] + i
  BY Zenon, Positions DEF Lays
<1>3. PICK i \in 1 .. Len(ns[j]) : q = Starts(ns)[j] + i
  BY Zenon, <1>2
<1>4. Starts(ns)[j] \in Nat
  <2>1. j \in 1 .. Len(ns) + 1
    BY <1>0
  <2> QED
    BY Zenon, <2>1, StartsType
<1>5. Starts(ns)[j] <= x /\ x < Starts(ns)[j] + Len(ns[j])
  BY SMTT(30), <1>0, <1>1, <1>3, <1>4
<1> QED
  BY Zenon, <1>0, <1>5

-----------------------------------------------------------------------------
(* Ranges. *)

(* The share of a node that starts at s, as LRange computes it. *)
ShareOf(nd, s, start, stop) ==
  LET n == Len(nd)  end == s + n - 1
      a == IF start > s THEN start - s ELSE 0
      e == IF stop < end THEN stop - s ELSE n - 1
  IN IF end < start \/ s > stop THEN <<>> ELSE SubSeq(nd, a + 1, e + 1)

(* The shares of all nodes, and what they are put together. *)
Shares(ns, start, stop) == [j \in DOMAIN ns |-> ShareOf(ns[j], Starts(ns)[j], start, stop)]
Stretch(F, start, stop) == [i \in 1 .. stop - start + 1 |-> F[start + i]]

(* How many elements of the range lie before place s. *)
Before(s, start, stop) ==
  IF s <= start THEN 0 ELSE IF s <= stop + 1 THEN s - start ELSE stop + 1 - start

(* A part of a sequence. *)
LEMMA PartShape ==
  ASSUME NEW V, NEW nd \in Seq(V), NEW a \in Nat, NEW b \in Nat, a <= b, b <= Len(nd)
  PROVE  /\ SubSeq(nd, a + 1, b) \in Seq(V) /\ Len(SubSeq(nd, a + 1, b)) = b - a
         /\ \A i \in 1 .. b - a : SubSeq(nd, a + 1, b)[i] = nd[a + i] /\ a + i \in 1 .. Len(nd)
<1>1. SubSeq(nd, a + 1, b) \in Seq(V)
  OBVIOUS
<1>2. Len(SubSeq(nd, a + 1, b)) = b - a
  OBVIOUS
<1>3. ASSUME NEW i \in 1 .. b - a
      PROVE  SubSeq(nd, a + 1, b)[i] = nd[a + i] /\ a + i \in 1 .. Len(nd)
  OBVIOUS
<1> QED
  BY Zenon, <1>1, <1>2, <1>3

(* The share of a node is the part of the range that lies in it. *)
LEMMA ShareShape ==
  ASSUME NEW V, NEW nd \in Seq(V), NEW s \in Nat, NEW start \in Nat, NEW stop \in Nat, start <= stop
  PROVE  LET sh == ShareOf(nd, s, start, stop)
             c  == Before(s, start, stop)
         IN /\ sh \in Seq(V) /\ c \in Nat
            /\ Len(sh) = Before(s + Len(nd), start, stop) - c
            /\ \A i \in 1 .. Len(sh) : \E k \in 1 .. Len(nd) : sh[i] = nd[k] /\ s + k = start + c + i
<1> DEFINE sh == ShareOf(nd, s, start, stop)
           c  == Before(s, start, stop)
           d  == Before(s + Len(nd), start, stop)
<1>0. Len(nd) \in Nat
  OBVIOUS
<1>1. c \in Nat /\ d \in Nat
  BY <1>0 DEF Before
<1>2. CASE s + Len(nd) - 1 < start \/ s > stop
  <2>1. sh = << >>
    BY Zenon, <1>2 DEF ShareOf
  <2>2. d - c = 0
    BY <1>0, <1>2 DEF Before
  <2>3. << >> \in Seq(V) /\ Len(<< >>) = 0 /\ 1 .. 0 = {}
    OBVIOUS
  <2> HIDE DEF sh, c, d
  <2> QED
    BY Zenon, <1>1, <2>1, <2>2, <2>3 DEF sh, c, d
<1>3. CASE ~(s + Len(nd) - 1 < start \/ s > stop)
  <2> DEFINE a == IF start > s THEN start - s ELSE 0
             b == (IF stop < s + Len(nd) - 1 THEN stop - s ELSE Len(nd) - 1) + 1
  <2>1. sh = SubSeq(nd, a + 1, b)
    BY <1>3 DEF ShareOf
  <2>2. a \in Nat /\ b \in Nat /\ a <= b /\ b <= Len(nd) /\ b - a = d - c /\ s + a = start + c
    <3>1. PICK n \in Nat : n = Len(nd)
      BY Zenon, <1>0
    <3>2. ~(s + n - 1 < start) /\ ~(s > stop)
      BY Zenon, <1>3, <3>1
    <3>3. a = IF start > s THEN start - s ELSE 0
      OBVIOUS
    <3>4. b = IF stop < s + n - 1 THEN stop - s + 1 ELSE n
      BY <3>1
    <3>5. c = IF s <= start THEN 0 ELSE s - start
      BY <3>2 DEF Before
    <3>6. d = IF s + n <= stop + 1 THEN s + n - start ELSE stop + 1 - start
      BY SMTT(30), <3>1, <3>2 DEF Before
    <3> HIDE DEF a, b, c, d
    <3>7. a \in Nat /\ b \in Nat /\ c \in Nat /\ d \in Nat
      BY SMTT(30), <3>2, <3>3, <3>4, <3>5, <3>6
    <3>8. s + a = start + c /\ (start >= s => a = start - s /\ c = 0) /\ (start < s => a = 0 /\ c = s - start)
      BY SMTT(30), <3>3, <3>5, <3>7
    <3>9. start + d = s + b /\ b <= n /\ start <= s + b
      BY SMTT(30), <3>2, <3>4, <3>6, <3>7
    <3>10. a <= b /\ b - a = d - c
      BY <3>7, <3>8, <3>9
    <3> QED
      BY Zenon, <3>1, <3>7, <3>8, <3>9, <3>10
  <2> HIDE DEF a, b, sh, c, d
  <2>3. /\ sh \in Seq(V) /\ Len(sh) = b - a
        /\ \A i \in 1 .. b - a : sh[i] = nd[a + i] /\ a + i \in 1 .. Len(nd)
    <3>1. /\ SubSeq(nd, a + 1, b) \in Seq(V) /\ Len(SubSeq(nd, a + 1, b)) = b - a
          /\ \A i \in 1 .. b - a : SubSeq(nd, a + 1, b)[i] = nd[a + i] /\ a + i \in 1 .. Len(nd)
      BY Zenon, <2>2, PartShape
    <3> QED
      BY Zenon, <2>1, <3>1
  <2>4. ASSUME NEW i \in 1 .. Len(sh)
        PROVE  \E k \in 1 .. Len(nd) : sh[i] = nd[k] /\ s + k = start + c + i
    <3>1. sh[i] = nd[a + i] /\ a + i \in 1 .. Len(nd)
      BY Zenon, <2>3
    <3>2. s + (a + i) = start + c + i
      BY SMTT(30), <1>0, <1>1, <2>2
    <3> QED
      BY Zenon, <3>1, <3>2
  <2> QED
    BY Zenon, <1>1, <2>2, <2>3, <2>4 DEF sh, c, d
<1> QED
  BY Zenon, <1>2, <1>3

(* The shares of the nodes, put together, are the range (LRange). *)
LEMMA RangeFlat ==
  ASSUME NEW V, NEW ns \in Seq(Seq(V)), NEW start \in Nat, NEW stop \in Nat,
         start <= stop, stop < Len(Elements(ns))
  PROVE  Elements(Shares(ns, start, stop)) = Stretch(Elements(ns), start, stop)
<1> DEFINE F == Elements(ns)
           ss == [j \in DOMAIN ns |-> ShareOf(ns[j], Starts(ns)[j], start, stop)]
           G == Elements(ss)
           N == Len(ns)
           C(x) == Before(x, start, stop)
           H == [i \in 1 .. stop - start + 1 |-> F[start + i]]
<1>0. N \in Nat /\ DOMAIN ns = 1 .. N /\ \A j \in 1 .. N : ns[j] \in Seq(V) /\ Len(ns[j]) \in Nat
  OBVIOUS
<1>1. \A j \in 1 .. N + 1 : Starts(ns)[j] \in Nat
  BY Zenon, StartsType
<1>2. \A j \in 1 .. N : j \in 1 .. N + 1 /\ j + 1 \in 1 .. N + 1 /\ N + 1 \in 1 .. N + 1
  BY <1>0
<1> HIDE DEF N, C
<1>3. \A j \in 1 .. N : Starts(ns)[j + 1] = Starts(ns)[j] + Len(ns[j])
  BY Zenon, <1>0, StartsStep DEF N
<1>4. ASSUME NEW j \in 1 .. N
      PROVE  /\ ss[j] \in Seq(V) /\ C(Starts(ns)[j]) \in Nat
             /\ Len(ss[j]) = C(Starts(ns)[j + 1]) - C(Starts(ns)[j])
             /\ \A i \in 1 .. Len(ss[j]) : \E k \in 1 .. Len(ns[j]) :
                  ss[j][i] = ns[j][k] /\ Starts(ns)[j] + k = start + C(Starts(ns)[j]) + i
  <2>1. PICK s \in Nat, nd \in Seq(V) : s = Starts(ns)[j] /\ nd = ns[j]
    BY Zenon, <1>0, <1>1, <1>2
  <2>2. /\ ShareOf(nd, s, start, stop) \in Seq(V) /\ C(s) \in Nat
        /\ Len(ShareOf(nd, s, start, stop)) = C(s + Len(nd)) - C(s)
        /\ \A i \in 1 .. Len(ShareOf(nd, s, start, stop)) : \E k \in 1 .. Len(nd) :
             ShareOf(nd, s, start, stop)[i] = nd[k] /\ s + k = start + C(s) + i
    <3>1. /\ ShareOf(nd, s, start, stop) \in Seq(V) /\ Before(s, start, stop) \in Nat
          /\ Len(ShareOf(nd, s, start, stop)) = Before(s + Len(nd), start, stop) - Before(s, start, stop)
          /\ \A i \in 1 .. Len(ShareOf(nd, s, start, stop)) : \E k \in 1 .. Len(nd) :
               ShareOf(nd, s, start, stop)[i] = nd[k] /\ s + k = start + Before(s, start, stop) + i
      BY SMTT(30), ShareShape
    <3> QED
      BY Zenon, <3>1 DEF C
  <2>3. ss[j] = ShareOf(nd, s, start, stop) /\ Starts(ns)[j + 1] = s + Len(nd)
    BY Zenon, <1>0, <1>3, <2>1
  <2> HIDE DEF ss
  <2> QED
    BY ZenonT(40), <2>1, <2>2, <2>3
<1>5. ss \in Seq(Seq(V)) /\ Len(ss) = N
  <2>1. ss \in [1 .. N -> Seq(V)]
    BY Zenon, <1>0, <1>4
  <2> HIDE DEF ss
  <2> QED
    BY Zenon, <1>0, <2>1, SeqOfFunction
<1> HIDE DEF ss
<1>6. \A j \in 1 .. N + 1 : Starts(ss)[j] = C(Starts(ns)[j])
  <2> DEFINE S == {n \in Nat : Starts(ss)[n + 1] = C(Starts(ns)[n + 1])}
  <2>1. 0 \in S
    <3>1. 0 + 1 = 1 /\ 0 \in Nat
      OBVIOUS
    <3>2. Starts(ss)[1] = 0 /\ Starts(ns)[1] = 0
      BY Zenon, <1>0, <1>5, StartsStep DEF N
    <3>3. C(0) = 0
      BY DEF C, Before
    <3> QED
      BY Zenon, <3>1, <3>2, <3>3
  <2>2. ASSUME NEW n \in 0 .. N - 1, n \in S
        PROVE  n + 1 \in S
    <3>1. PICK k \in 1 .. N : k = n + 1 /\ k \in Nat
      BY <1>0
    <3>2. Starts(ss)[k + 1] = Starts(ss)[k] + Len(ss[k]) /\ Starts(ss)[k] = C(Starts(ns)[k])
      BY Zenon, <1>0, <1>5, <2>2, <3>1, StartsStep
    <3>3. Len(ss[k]) = C(Starts(ns)[k + 1]) - C(Starts(ns)[k]) /\ C(Starts(ns)[k]) \in Nat
      BY Zenon, <1>4
    <3>4. C(Starts(ns)[k + 1]) \in Int
      <4>1. PICK x \in Nat : x = Starts(ns)[k + 1]
        BY Zenon, <1>1, <1>2
      <4>2. C(x) \in Int
        BY DEF C, Before
      <4> QED
        BY Zenon, <4>1, <4>2
    <3>5. Starts(ss)[k + 1] = C(Starts(ns)[k + 1])
      BY SMTT(30), <3>2, <3>3, <3>4
    <3> QED
      BY Zenon, <3>1, <3>5
  <2>3. \A n \in 0 .. N : n \in S
    <3> HIDE DEF S
    <3> QED
      BY Zenon, <1>0, <2>1, <2>2, UpTo
  <2> SUFFICES ASSUME NEW j \in 1 .. N + 1
               PROVE  Starts(ss)[j] = C(Starts(ns)[j])
    OBVIOUS
  <2>4. PICK k \in 0 .. N : j = k + 1
    <3>1. j - 1 \in 0 .. N /\ j = (j - 1) + 1
      BY <1>0
    <3> QED
      BY Zenon, <3>1
  <2> QED
    BY Zenon, <2>3, <2>4
<1>7. Lays(ns, N, F) /\ Lays(ss, N, G) /\ F \in Seq(V) /\ G \in Seq(V)
  BY Zenon, <1>5, Positions, FlattenType DEF N
<1> HIDE DEF F, G
<1>8. Len(G) = stop - start + 1
  <2>1. Len(F) = Starts(ns)[N + 1] /\ Len(G) = Starts(ss)[N + 1] /\ N + 1 \in 1 .. N + 1
    <3>1. N + 1 \in 1 .. N + 1
      BY <1>0
    <3> QED
      BY Zenon, <1>7, <3>1 DEF Lays
  <2>2. PICK x \in Nat : x = Len(F) /\ stop < x
    BY Zenon, <1>1, <2>1 DEF F
  <2>3. C(x) = stop - start + 1
    BY <2>2 DEF C, Before
  <2> QED
    BY Zenon, <1>6, <2>1, <2>2, <2>3
<1>9. ASSUME NEW q \in 1 .. Len(G)
      PROVE  G[q] = F[start + q] /\ start + q \in 1 .. Len(F)
  <2>1. PICK j \in 1 .. N : \E i \in 1 .. Len(ss[j]) : q = Starts(ss)[j] + i
    BY Zenon, <1>7 DEF Lays
  <2>2. PICK i \in 1 .. Len(ss[j]) : q = Starts(ss)[j] + i
    BY Zenon, <2>1
  <2>3. G[q] = ss[j][i]
    BY Zenon, <1>7, <2>2 DEF Lays
  <2>4. PICK k \in 1 .. Len(ns[j]) :
          ss[j][i] = ns[j][k] /\ Starts(ns)[j] + k = start + C(Starts(ns)[j]) + i
    BY Zenon, <1>4
  <2>5. F[Starts(ns)[j] + k] = ns[j][k] /\ Starts(ns)[j] + k \in 1 .. Len(F)
    BY Zenon, <1>7 DEF Lays
  <2>6. Starts(ns)[j] + k = start + q
    <3>1. q = C(Starts(ns)[j]) + i /\ C(Starts(ns)[j]) \in Nat /\ ss[j] \in Seq(V)
      BY Zenon, <1>2, <1>4, <1>6, <2>2
    <3> QED
      BY SMTT(30), <2>4, <3>1
  <2> QED
    BY Zenon, <2>3, <2>4, <2>5, <2>6
<1>10. H \in Seq(V) /\ Len(H) = stop - start + 1
  <2>1. \A i \in 1 .. stop - start + 1 : F[start + i] \in V
    <3> SUFFICES ASSUME NEW i \in 1 .. stop - start + 1
                 PROVE  F[start + i] \in V
      BY Zenon
    <3>1. start + i \in 1 .. Len(F)
      BY Zenon, <1>8, <1>9
    <3> QED
      BY <1>7, <3>1
  <2>2. stop - start + 1 \in Nat
    OBVIOUS
  <2>3. H \in [1 .. stop - start + 1 -> V]
    BY Zenon, <2>1
  <2> HIDE DEF H
  <2> QED
    BY Zenon, <2>2, <2>3, SeqOfFunction
<1>11. \A q \in 1 .. Len(G) : G[q] = H[q]
  BY Zenon, <1>8, <1>9
<1> HIDE DEF H
<1>12. G = H
  BY Zenon, <1>7, <1>8, <1>10, <1>11, SameElements
<1> QED
  BY Zenon, <1>12 DEF G, H, F, ss, Shares, Stretch

(* The greater and the smaller of two integers. *)
LEMMA OfTwo ==
  ASSUME NEW a \in Int, NEW b \in Int
  PROVE  /\ Max({a, b}) = IF a >= b THEN a ELSE b
         /\ Min({a, b}) = IF a <= b THEN a ELSE b
<1>1. ASSUME NEW x \in {a, b}, \A y \in {a, b} : x >= y
      PROVE  x = IF a >= b THEN a ELSE b
  BY <1>1
<1>2. \E x \in {a, b} : \A y \in {a, b} : x >= y
  <2>1. CASE a >= b
    BY <2>1
  <2>2. CASE b >= a
    BY <2>2
  <2> QED
    BY <2>1, <2>2
<1>3. Max({a, b}) = IF a >= b THEN a ELSE b
  <2> DEFINE m == CHOOSE x \in {a, b} : \A y \in {a, b} : x >= y
  <2>1. m \in {a, b} /\ \A y \in {a, b} : m >= y
    BY Zenon, <1>2
  <2> HIDE DEF m
  <2>2. m = IF a >= b THEN a ELSE b
    BY Zenon, <1>1, <2>1
  <2> QED
    BY Zenon, <2>2 DEF Max, m
<1>4. ASSUME NEW x \in {a, b}, \A y \in {a, b} : x =< y
      PROVE  x = IF a <= b THEN a ELSE b
  BY <1>4
<1>5. \E x \in {a, b} : \A y \in {a, b} : x =< y
  <2>1. CASE a <= b
    BY <2>1
  <2>2. CASE b <= a
    BY <2>2
  <2> QED
    BY <2>1, <2>2
<1>6. Min({a, b}) = IF a <= b THEN a ELSE b
  <2> DEFINE m == CHOOSE x \in {a, b} : \A y \in {a, b} : x =< y
  <2>1. m \in {a, b} /\ \A y \in {a, b} : m =< y
    BY Zenon, <1>5
  <2> HIDE DEF m
  <2>2. m = IF a <= b THEN a ELSE b
    BY Zenon, <1>4, <2>1
  <2> QED
    BY Zenon, <2>2 DEF Min, m
<1> QED
  BY Zenon, <1>3, <1>6

(* The greatest and the smallest of an interval. *)
LEMMA OfInterval ==
  ASSUME NEW a \in Int, NEW b \in Int, a <= b, NEW S, S = a .. b
  PROVE  Max(S) = b /\ Min(S) = a
<1>1. \A x \in S : (\A y \in S : x >= y) <=> x = b
  OBVIOUS
<1>2. \A x \in S : (\A y \in S : x =< y) <=> x = a
  OBVIOUS
<1>3. a \in S /\ b \in S
  OBVIOUS
<1>4. Max(S) = b
  <2> DEFINE m == CHOOSE x \in S : \A y \in S : x >= y
  <2>1. m \in S /\ \A y \in S : m >= y
    BY Zenon, <1>1, <1>3
  <2> HIDE DEF m
  <2> QED
    BY Zenon, <1>1, <2>1 DEF Max, m
<1>5. Min(S) = a
  <2> DEFINE m == CHOOSE x \in S : \A y \in S : x =< y
  <2>1. m \in S /\ \A y \in S : m =< y
    BY Zenon, <1>2, <1>3
  <2> HIDE DEF m
  <2> QED
    BY Zenon, <1>2, <2>1 DEF Min, m
<1> QED
  BY Zenon, <1>4, <1>5

(* The bounds of a range as LRange clamps them, and the places between.    *)
Bounds(F, from, to, start, stop, inside) ==
  /\ start = Max({0, from}) /\ stop = Min({Len(F) - 1, to})
  /\ inside = {i \in DOMAIN F : from + 1 <= i /\ i <= to + 1}
Nothing(F, start, stop) == Len(F) = 0 \/ start > stop \/ start >= Len(F)

(* The elements of a list between two places, what lies outside cut off:   *)
(* as ListSpec cuts them, and as LRange clamps its bounds first.           *)
LEMMA SliceShape ==
  ASSUME NEW V, NEW F \in Seq(V), NEW from \in Int, NEW to \in Int,
         NEW start, NEW stop, NEW inside, Bounds(F, from, to, start, stop, inside)
  PROVE  /\ Nothing(F, start, stop) => inside = {}
         /\ ~Nothing(F, start, stop) =>
              /\ inside # {} /\ Max(inside) = stop + 1 /\ Min(inside) = start + 1
              /\ start \in Nat /\ stop \in Nat /\ start <= stop /\ stop < Len(F)
<1>0. Len(F) \in Nat /\ DOMAIN F = 1 .. Len(F) /\ Len(F) - 1 \in Int
  OBVIOUS
<1>1. start \in Nat /\ start >= from /\ (start = 0 \/ start = from)
  <2>1. 0 \in Int
    OBVIOUS
  <2>2. start = IF 0 >= from THEN 0 ELSE from
    BY Zenon, <2>1, OfTwo DEF Bounds
  <2> QED
    BY <2>2
<1>n. PICK n \in Nat : n = Len(F)
  BY Zenon, <1>0
<1>2. stop \in Int /\ stop <= n - 1 /\ stop <= to /\ (stop = n - 1 \/ stop = to)
  <2>1. PICK l \in Int : l = n - 1
    BY Zenon, <1>0, <1>n
  <2>2. stop = IF l <= to THEN l ELSE to
    BY Zenon, <1>n, <2>1, OfTwo DEF Bounds
  <2> QED
    BY <2>1, <2>2
<1>3. inside = (start + 1) .. (stop + 1)
  <2>1. ASSUME NEW x \in inside
        PROVE  x \in (start + 1) .. (stop + 1)
    <3>1. x \in 1 .. n /\ from + 1 <= x /\ x <= to + 1
      BY Zenon, <1>0, <1>n DEF Bounds
    <3> QED
      BY <1>1, <1>2, <3>1
  <2>2. ASSUME NEW x \in (start + 1) .. (stop + 1)
        PROVE  x \in 1 .. n /\ from + 1 <= x /\ x <= to + 1
    BY <1>1, <1>2
  <2> QED
    BY Zenon, <1>0, <1>n, <2>1, <2>2 DEF Bounds
<1>4. CASE Nothing(F, start, stop)
  <2>1. start > stop
    BY SMTT(30), <1>n, <1>1, <1>2, <1>4 DEF Nothing
  <2>2. inside = {}
    BY SMTT(30), <1>1, <1>2, <1>3, <2>1
  <2> QED
    BY Zenon, <1>4, <2>2
<1>5. CASE ~Nothing(F, start, stop)
  <2>1. start \in Nat /\ stop \in Nat /\ start <= stop /\ stop < Len(F)
    BY SMTT(30), <1>n, <1>1, <1>2, <1>5 DEF Nothing
  <2>2. start + 1 \in Int /\ stop + 1 \in Int /\ start + 1 <= stop + 1 /\ start + 1 \in (start + 1) .. (stop + 1)
    BY <2>1
  <2>3. Max(inside) = stop + 1 /\ Min(inside) = start + 1
    BY ZenonT(40), <1>3, <2>2, OfInterval
  <2> QED
    BY Zenon, <1>3, <1>5, <2>1, <2>2, <2>3
<1> QED
  BY Zenon, <1>4, <1>5

-----------------------------------------------------------------------------
(* The calls. *)

(* What the callers push and set. *)
Vals == {c.val : c \in Calls}

(* Indices are integers: the signatures of LIndex, LSet and LRange. *)
IntegerIndices ==
  \A c \in Calls : /\ c.name \in {"lindex", "lset"} => c.i \in Int
                   /\ c.name = "lrange" => c.start \in Int /\ c.stop \in Int

(* The inductive invariant: count is the number of elements, and no node   *)
(* is empty or too full.                                                   *)
ListInv ==
  /\ nodes \in Seq(Seq(Vals))
  /\ count = Len(Elements(nodes))
  /\ Filled(nodes)

(* What the invariant says in one state of nodes. *)
LEMMA ListFacts ==
  ASSUME ListInv
  PROVE  /\ nodes \in Seq(Seq(Vals)) /\ Elements(nodes) \in Seq(Vals) /\ count = Len(Elements(nodes))
         /\ count \in Nat /\ (count = 0 <=> Elements(nodes) = << >>)
         /\ nodes = << >> => Elements(nodes) = << >>
         /\ DOMAIN nodes = 1 .. Len(nodes)
         /\ \A j \in 1 .. Len(nodes) : nodes[j] \in Seq(Vals) /\ nodes[j] # << >>
<1>1. nodes \in Seq(Seq(Vals)) /\ count = Len(Elements(nodes)) /\ Elements(nodes) \in Seq(Vals)
  BY Zenon, FlattenType DEF ListInv
<1>2. count \in Nat /\ (count = 0 <=> Elements(nodes) = << >>)
  BY <1>1
<1>3. nodes = << >> => Elements(nodes) = << >>
  BY DEF Elements
<1>4. DOMAIN nodes = 1 .. Len(nodes)
  BY <1>1
<1>5. ASSUME NEW j \in 1 .. Len(nodes)
      PROVE  nodes[j] \in Seq(Vals) /\ nodes[j] # << >>
  <2>1. nodes[j] \in Seq(Vals)
    BY <1>1
  <2>2. Len(nodes[j]) # 0
    <3>1. Len(nodes[j]) \in 1 .. NodeCapacity
      BY Zenon DEF ListInv, Filled
    <3> QED
      BY <2>1, <3>1
  <2> QED
    BY <2>1, <2>2
<1> QED
  BY Zenon, <1>1, <1>2, <1>3, <1>4, <1>5

(* A push at the left is one on the sequence (LPush). *)
LEMMA LPushImplements ==
  ASSUME NodeCapacity \in Nat \ {0}, ListInv, NEW c \in Calls, LPush(c)
  PROVE  ListInv' /\ List!Next
<1> DEFINE F == Elements(nodes)
<1>0. /\ nodes \in Seq(Seq(Vals)) /\ F \in Seq(Vals) /\ count = Len(F) /\ count \in Nat
      /\ (nodes = << >> => F = << >>) /\ Filled(nodes) /\ Len(nodes) \in Nat /\ (nodes = << >> => count = 0)
  <2>1. Len(nodes) \in Nat
    BY DEF ListInv
  <2> QED
    BY Zenon, <2>1, ListFacts DEF ListInv
<1>1. c.val \in Vals /\ <<c.val>> \in Seq(Vals) /\ Len(<<c.val>>) = 1
  <2>1. c.val \in Vals
    BY Zenon DEF Vals
  <2> QED
    BY <2>1
<1>2. /\ c.name = "lpush" /\ op' = [call |-> c, reply |-> count'] /\ count' = count + 1
  <2>1. c.name = "lpush" /\ op' = [call |-> c, reply |-> count'] /\ count' = IF nodes = << >> THEN 1 ELSE count + 1
    BY Zenon DEF LPush, Answers
  <2>2. nodes = << >> => 1 = count + 1
    BY <1>0
  <2> QED
    BY Zenon, <2>1, <2>2
<1>3. nodes' \in Seq(Seq(Vals)) /\ Elements(nodes') = <<c.val>> \o F /\ Filled(nodes')
  <2>1. CASE nodes = << >> \/ Len(Head(nodes)) >= NodeCapacity
    <3>1. nodes' = <<<<c.val>>>> \o nodes
      BY Zenon, <2>1 DEF LPush
    <3>2. PICK nd \in Seq(Vals) : nd = <<c.val>> /\ Len(nd) = 1
      BY Zenon, <1>1
    <3>3. Elements(<<nd>> \o nodes) = nd \o F
      BY Zenon, <1>0, HeadNode
    <3>4. /\ <<nd>> \o nodes \in Seq(Seq(Vals)) /\ Len(<<nd>> \o nodes) = Len(nodes) + 1
          /\ \A j \in 1 .. Len(nodes) + 1 : (<<nd>> \o nodes)[j] = IF j = 1 THEN nd ELSE nodes[j - 1]
      BY <1>0
    <3>5. Filled(<<nd>> \o nodes)
      <4> SUFFICES ASSUME NEW j \in 1 .. Len(nodes) + 1
                   PROVE  Len((<<nd>> \o nodes)[j]) \in 1 .. NodeCapacity
        BY Zenon, <3>4 DEF Filled
      <4>1. CASE j = 1
        BY SMTT(30), <3>2, <3>4, <4>1
      <4>2. CASE j # 1
        <5>1. j - 1 \in 1 .. Len(nodes)
          BY <1>0, <4>2
        <5> QED
          BY Zenon, <1>0, <3>4, <4>2, <5>1 DEF Filled
      <4> QED
        BY Zenon, <4>1, <4>2
    <3> QED
      BY Zenon, <3>1, <3>2, <3>3, <3>4, <3>5
  <2>2. CASE ~(nodes = << >> \/ Len(Head(nodes)) >= NodeCapacity)
    <3>1. nodes' = [nodes EXCEPT ![1] = <<c.val>> \o Head(nodes)] /\ nodes # << >>
      BY Zenon, <2>2 DEF LPush
    <3>2. Head(nodes) = nodes[1] /\ nodes[1] \in Seq(Vals) /\ Len(nodes) \in Nat \ {0}
      BY Zenon, <1>0, <3>1, HeadSplit
    <3>3. PICK x \in Seq(Vals) : x = <<c.val>> \o nodes[1] /\ Len(x) = 1 + Len(nodes[1])
      <4>1. <<c.val>> \o nodes[1] \in Seq(Vals) /\ Len(<<c.val>> \o nodes[1]) = 1 + Len(nodes[1])
        BY <1>1, <3>2
      <4> QED
        BY Zenon, <4>1
    <3>4. PICK T \in Seq(Vals) : T = Elements(Tail(nodes))
      BY Zenon, <1>0, <3>1, HeadFlat
    <3>5. F = nodes[1] \o T /\ Elements([nodes EXCEPT ![1] = x]) = x \o T
      BY Zenon, <1>0, <3>1, <3>4, HeadFlat
    <3>6. x \o T = <<c.val>> \o F
      <4>1. PICK a \in Seq(Vals), b \in Seq(Vals) : a = <<c.val>> /\ b = nodes[1]
        BY Zenon, <1>1, <3>2
      <4>2. Cat(Cat(a, b), T) = Cat(a, Cat(b, T))
        BY SMTT(30), CatAssoc
      <4> QED
        BY Zenon, <3>3, <3>5, <4>1, <4>2 DEF Cat
    <3>7. /\ nodes' \in Seq(Seq(Vals)) /\ Len(nodes') = Len(nodes)
          /\ \A j \in 1 .. Len(nodes) : nodes'[j] = IF j = 1 THEN x ELSE nodes[j]
      BY SMTT(30), <1>0, <3>1, <3>2, <3>3
    <3>8. Len(x) \in 1 .. NodeCapacity
      BY SMTT(30), <2>2, <3>2, <3>3
    <3>9. Filled(nodes')
      BY Zenon, <1>0, <3>7, <3>8 DEF Filled
    <3> QED
      BY Zenon, <3>1, <3>2, <3>3, <3>5, <3>6, <3>7, <3>9
  <2> QED
    BY Zenon, <2>1, <2>2
<1>4. count' = Len(Elements(nodes'))
  <2>1. Len(<<c.val>> \o F) = 1 + Len(F)
    BY SMTT(30), <1>0, <1>1, ConcatShape
  <2> QED
    BY SMTT(30), <1>0, <1>2, <1>3, <2>1
<1>5. ListInv'
  BY Zenon, <1>3, <1>4 DEF ListInv
<1>6. List!Next
  <2>1. op'.call = c
    BY <1>2
  <2>2. List!Push(c)
    BY ZenonT(40), <1>2, <1>3, <1>4 DEF List!Push, List!Answers
  <2> QED
    BY Zenon, <1>2, <2>1, <2>2 DEF List!Next, List!Call
<1> QED
  BY Zenon, <1>5, <1>6

(* A push at the right is one on the sequence (RPush). *)
LEMMA RPushImplements ==
  ASSUME NodeCapacity \in Nat \ {0}, ListInv, NEW c \in Calls, RPush(c)
  PROVE  ListInv' /\ List!Next
<1> DEFINE F == Elements(nodes)
<1>0. /\ nodes \in Seq(Seq(Vals)) /\ F \in Seq(Vals) /\ count = Len(F) /\ count \in Nat
      /\ (nodes = << >> => F = << >>) /\ Filled(nodes) /\ Len(nodes) \in Nat /\ (nodes = << >> => count = 0)
  <2>1. Len(nodes) \in Nat
    BY SMTT(30) DEF ListInv
  <2> QED
    BY ZenonT(40), <2>1, ListFacts DEF ListInv
<1>1. c.val \in Vals /\ <<c.val>> \in Seq(Vals) /\ Len(<<c.val>>) = 1
  <2>1. c.val \in Vals
    BY ZenonT(40) DEF Vals
  <2> QED
    BY SMTT(30), <2>1
<1>2. /\ c.name = "rpush" /\ op' = [call |-> c, reply |-> count'] /\ count' = count + 1
  <2>1. c.name = "rpush" /\ op' = [call |-> c, reply |-> count'] /\ count' = IF nodes = << >> THEN 1 ELSE count + 1
    BY Zenon DEF RPush, Answers
  <2>2. nodes = << >> => 1 = count + 1
    BY SMTT(30), <1>0
  <2> QED
    BY Zenon, <2>1, <2>2
<1>3. nodes' \in Seq(Seq(Vals)) /\ Elements(nodes') = F \o <<c.val>> /\ Filled(nodes')
  <2>1. CASE nodes = << >> \/ Len(Last(nodes)) >= NodeCapacity
    <3>1. nodes' = Append(nodes, <<c.val>>)
      BY Zenon, <2>1 DEF RPush
    <3>2. PICK nd \in Seq(Vals) : nd = <<c.val>> /\ Len(nd) = 1
      BY ZenonT(40), <1>1
    <3>3. Elements(Append(nodes, nd)) = F \o nd
      BY Zenon, <1>0, EndNode
    <3>4. /\ Append(nodes, nd) \in Seq(Seq(Vals)) /\ Len(Append(nodes, nd)) = Len(nodes) + 1
          /\ \A j \in 1 .. Len(nodes) + 1 : Append(nodes, nd)[j] = IF j = Len(nodes) + 1 THEN nd ELSE nodes[j]
      BY <1>0
    <3>5. Filled(Append(nodes, nd))
      <4> SUFFICES ASSUME NEW j \in 1 .. Len(nodes) + 1
                   PROVE  Len(Append(nodes, nd)[j]) \in 1 .. NodeCapacity
        BY Zenon, <3>4 DEF Filled
      <4>1. CASE j = Len(nodes) + 1
        BY SMTT(30), <3>2, <3>4, <4>1
      <4>2. CASE j # Len(nodes) + 1
        <5>1. j \in 1 .. Len(nodes)
          BY <1>0, <4>2
        <5> QED
          BY Zenon, <1>0, <3>4, <4>2, <5>1 DEF Filled
      <4> QED
        BY Zenon, <4>1, <4>2
    <3> QED
      BY Zenon, <3>1, <3>2, <3>3, <3>4, <3>5
  <2>2. CASE ~(nodes = << >> \/ Len(Last(nodes)) >= NodeCapacity)
    <3>1. nodes' = [nodes EXCEPT ![Len(nodes)] = Append(Last(nodes), c.val)] /\ nodes # << >>
      BY Zenon, <2>2 DEF RPush
    <3>2. Last(nodes) \in Seq(Vals) /\ Len(nodes) \in Nat \ {0}
      BY Zenon, <1>0, <3>1, LastSplit
    <3>3. PICK x \in Seq(Vals) : /\ x = Append(Last(nodes), c.val) /\ x = Last(nodes) \o <<c.val>>
                                 /\ Len(x) = Len(Last(nodes)) + 1
      <4>1. PICK b \in Seq(Vals), v \in Vals : b = Last(nodes) /\ v = c.val
        BY Zenon, <1>1, <3>2
      <4>2. Append(b, v) \in Seq(Vals) /\ Append(b, v) = b \o <<v>> /\ Len(Append(b, v)) = Len(b) + 1
        OBVIOUS
      <4> QED
        BY Zenon, <4>1, <4>2
    <3>4. PICK T \in Seq(Vals) : T = Elements(Front(nodes))
      BY Zenon, <1>0, <3>1, LastFlat
    <3>5. F = T \o Last(nodes) /\ Elements([nodes EXCEPT ![Len(nodes)] = x]) = T \o x
      BY Zenon, <1>0, <3>1, <3>4, LastFlat
    <3>6. T \o x = F \o <<c.val>>
      <4>1. PICK a \in Seq(Vals), b \in Seq(Vals) : a = <<c.val>> /\ b = Last(nodes)
        BY Zenon, <1>1, <3>2
      <4>2. Cat(Cat(T, b), a) = Cat(T, Cat(b, a))
        BY SMTT(30), CatAssoc
      <4> QED
        BY Zenon, <3>3, <3>5, <4>1, <4>2 DEF Cat
    <3>7. /\ nodes' \in Seq(Seq(Vals)) /\ Len(nodes') = Len(nodes)
          /\ \A j \in 1 .. Len(nodes) : nodes'[j] = IF j = Len(nodes) THEN x ELSE nodes[j]
      BY SMTT(30), <1>0, <3>1, <3>2, <3>3
    <3>8. Len(x) \in 1 .. NodeCapacity
      BY SMTT(30), <2>2, <3>2, <3>3
    <3>9. Filled(nodes')
      BY Zenon, <1>0, <3>7, <3>8 DEF Filled
    <3> QED
      BY ZenonT(40), <3>1, <3>2, <3>3, <3>5, <3>6, <3>7, <3>9
  <2> QED
    BY Zenon, <2>1, <2>2
<1>4. F \o <<c.val>> = Append(F, c.val) /\ Len(F \o <<c.val>>) = Len(F) + 1
  BY SMTT(30), <1>0, <1>1
<1>5. count' = Len(Elements(nodes'))
  BY SMTT(30), <1>0, <1>2, <1>3, <1>4
<1>6. ListInv'
  BY Zenon, <1>3, <1>5 DEF ListInv
<1>7. List!Next
  <2>1. op'.call = c
    BY <1>2
  <2>2. List!Push(c)
    <3>1. c.name # "lpush"
      BY <1>2
    <3> QED
      BY Zenon, <1>2, <1>3, <1>4, <1>5, <3>1 DEF List!Push, List!Answers
  <2> QED
    BY Zenon, <1>2, <2>1, <2>2 DEF List!Next, List!Call
<1> QED
  BY ZenonT(40), <1>6, <1>7

(* A call that finds nothing leaves the list as it is. *)
LEMMA FailsImplements ==
  ASSUME ListInv, NEW c \in Calls, Fails(c), List!Missing(c),
         c.name \in {"lpop", "rpop", "lindex", "lset"}
  PROVE  ListInv' /\ List!Next
<1>1. op' = [call |-> c, error |-> TRUE] /\ nodes' = nodes /\ count' = count
  BY Zenon DEF Fails
<1>2. op'.call = c
  BY <1>1
<1>3. ListInv'
  BY Zenon, <1>1 DEF ListInv
<1>4. List!Fails(c)
  BY Zenon, <1>1 DEF List!Fails
<1>5. List!Call(c)
  BY Zenon, <1>4 DEF List!Call
<1> QED
  BY Zenon, <1>2, <1>3, <1>5 DEF List!Next

(* A pop at the left is one from the sequence (LPop). *)
LEMMA LPopImplements ==
  ASSUME NodeCapacity \in Nat \ {0}, ListInv, NEW c \in Calls, LPop(c)
  PROVE  ListInv' /\ List!Next
<1> DEFINE F == Elements(nodes)
<1>0. /\ nodes \in Seq(Seq(Vals)) /\ F \in Seq(Vals) /\ count = Len(F) /\ count \in Nat
      /\ (count = 0 \/ nodes = << >> => F = << >>) /\ Filled(nodes)
  BY Zenon, ListFacts DEF ListInv
<1>1. c.name = "lpop"
  BY Zenon DEF LPop
<1>2. CASE count = 0 \/ nodes = << >>
  <2>1. Fails(c)
    BY Zenon, <1>2 DEF LPop
  <2>2. List!Missing(c)
    BY SMTT(30), <1>0, <1>1, <1>2 DEF List!Missing
  <2> QED
    BY Zenon, <1>1, <2>1, <2>2, FailsImplements
<1>3. CASE ~(count = 0 \/ nodes = << >>)
  <2>1. PICK nd \in Seq(Vals) : nd = Head(nodes) /\ nd = nodes[1] /\ nd # << >>
    <3>1. Head(nodes) = nodes[1] /\ Head(nodes) \in Seq(Vals) /\ 1 \in 1 .. Len(nodes)
      <4>1. Head(nodes) = nodes[1] /\ nodes[1] \in Seq(Vals) /\ Len(nodes) \in Nat \ {0}
        BY Zenon, <1>0, <1>3, HeadSplit
      <4> QED
        BY <4>1
    <3> QED
      BY Zenon, <3>1, ListFacts
  <2>2. /\ nodes' = IF Tail(nd) = << >> THEN Tail(nodes) ELSE [nodes EXCEPT ![1] = Tail(nd)]
        /\ count' = count - 1 /\ op' = [call |-> c, reply |-> Head(nd)]
    BY Zenon, <1>3, <2>1 DEF LPop, Answers
  <2>3. /\ Tail(nd) \in Seq(Vals) /\ Len(Tail(nd)) = Len(nd) - 1 /\ Len(nd) \in Nat \ {0}
    BY Zenon, <2>1, HeadSplit
  <2>4. /\ Len(nodes) \in Nat \ {0} /\ Tail(nodes) \in Seq(Seq(Vals)) /\ Len(Tail(nodes)) = Len(nodes) - 1
        /\ \A j \in 1 .. Len(nodes) - 1 : Tail(nodes)[j] = nodes[j + 1]
    BY Zenon, <1>0, <1>3, HeadSplit
  <2>5. PICK T \in Seq(Vals) : T = Elements(Tail(nodes))
    BY Zenon, <1>0, <1>3, HeadFlat
  <2>6. F = nd \o T /\ Elements([nodes EXCEPT ![1] = Tail(nd)]) = Tail(nd) \o T
    BY Zenon, <1>0, <1>3, <2>1, <2>3, <2>5, HeadFlat
  <2>7. F # << >> /\ Head(F) = Head(nd) /\ Tail(F) = Tail(nd) \o T
    <3>1. nd \o T # << >> /\ Head(nd \o T) = Head(nd) /\ Tail(nd \o T) = Tail(nd) \o T
      BY ZenonT(40), <2>1, PopFirst
    <3> QED
      BY Zenon, <2>6, <3>1
  <2>8. Elements(nodes') = Tail(F)
    <3>1. CASE Tail(nd) = << >>
      <4>1. << >> \o T = T
        BY Zenon, ConcatShape
      <4> QED
        BY Zenon, <2>2, <2>5, <2>7, <3>1, <4>1
    <3>2. CASE Tail(nd) # << >>
      BY Zenon, <2>2, <2>6, <2>7, <3>2
    <3> QED
      BY Zenon, <3>1, <3>2
  <2>9. nodes' \in Seq(Seq(Vals)) /\ Filled(nodes')
    <3>1. CASE Tail(nd) = << >>
      <4>1. nodes' = Tail(nodes)
        BY Zenon, <2>2, <3>1
      <4>2. ASSUME NEW j \in 1 .. Len(nodes) - 1
            PROVE  Len(Tail(nodes)[j]) \in 1 .. NodeCapacity
        <5>1. j \in 1 .. Len(nodes) /\ j + 1 \in 1 .. Len(nodes)
          BY SMTT(30), <2>4
        <5> QED
          BY Zenon, <1>0, <2>4, <5>1 DEF Filled
      <4> QED
        BY Zenon, <2>4, <4>1, <4>2 DEF Filled
    <3>2. CASE Tail(nd) # << >>
      <4>1. PICK x \in Seq(Vals) : x = Tail(nd) /\ x # << >> /\ Len(x) = Len(nd) - 1
        BY Zenon, <2>3, <3>2
      <4>2. /\ nodes' \in Seq(Seq(Vals)) /\ Len(nodes') = Len(nodes)
            /\ \A j \in 1 .. Len(nodes) : nodes'[j] = IF j = 1 THEN x ELSE nodes[j]
        <5>1. nodes' = [nodes EXCEPT ![1] = x]
          BY Zenon, <2>2, <3>2, <4>1
        <5> QED
          BY SMTT(30), <1>0, <2>4, <5>1
      <4>3. Len(x) \in 1 .. NodeCapacity
        <5>1. 1 \in 1 .. Len(nodes)
          BY <2>4
        <5>2. Len(nd) \in 1 .. NodeCapacity
          BY Zenon, <1>0, <2>1, <5>1 DEF Filled
        <5> QED
          BY SMTT(30), <2>3, <4>1, <5>2
      <4> QED
        BY Zenon, <1>0, <4>2, <4>3 DEF Filled
    <3> QED
      BY Zenon, <3>1, <3>2
  <2>10. count' = Len(Elements(nodes'))
    <3>1. Len(Tail(F)) = Len(F) - 1
      BY Zenon, <1>0, <2>7, HeadSplit
    <3> QED
      BY Zenon, <1>0, <2>2, <2>8, <3>1
  <2>11. ListInv'
    BY Zenon, <2>9, <2>10 DEF ListInv
  <2>12. op'.call = c
    BY <2>2
  <2>13. List!Pop(c)
    <3> QED
      BY ZenonT(40), <1>1, <2>2, <2>7, <2>8 DEF List!Pop, List!Answers
  <2> QED
    BY Zenon, <1>1, <2>11, <2>12, <2>13 DEF List!Next, List!Call
<1> QED
  BY Zenon, <1>2, <1>3

(* A pop at the right is one from the sequence (RPop). *)
LEMMA RPopImplements ==
  ASSUME NodeCapacity \in Nat \ {0}, ListInv, NEW c \in Calls, RPop(c)
  PROVE  ListInv' /\ List!Next
<1> DEFINE F == Elements(nodes)
<1>0. /\ nodes \in Seq(Seq(Vals)) /\ F \in Seq(Vals) /\ count = Len(F) /\ count \in Nat
      /\ (count = 0 \/ nodes = << >> => F = << >>) /\ Filled(nodes)
  BY ZenonT(40), ListFacts DEF ListInv
<1>1. c.name = "rpop"
  BY Zenon DEF RPop
<1>2. CASE count = 0 \/ nodes = << >>
  <2>1. Fails(c)
    BY Zenon, <1>2 DEF RPop
  <2>2. List!Missing(c)
    BY <1>0, <1>1, <1>2 DEF List!Missing
  <2> QED
    BY Zenon, <1>1, <2>1, <2>2, FailsImplements
<1>3. CASE ~(count = 0 \/ nodes = << >>)
  <2>1. PICK nd \in Seq(Vals) : nd = Last(nodes) /\ nd = nodes[Len(nodes)] /\ nd # << >>
    <3>1. Last(nodes) = nodes[Len(nodes)] /\ Last(nodes) \in Seq(Vals) /\ Len(nodes) \in 1 .. Len(nodes)
      <4>1. Last(nodes) = nodes[Len(nodes)] /\ Last(nodes) \in Seq(Vals) /\ Len(nodes) \in Nat \ {0}
        BY Zenon, <1>0, <1>3, LastSplit
      <4> QED
        BY <4>1
    <3> QED
      BY Zenon, <3>1, ListFacts
  <2>2. /\ nodes' = IF Front(nd) = << >> THEN Front(nodes) ELSE [nodes EXCEPT ![Len(nodes)] = Front(nd)]
        /\ count' = count - 1 /\ op' = [call |-> c, reply |-> Last(nd)]
    BY Zenon, <1>3, <2>1 DEF RPop, Answers
  <2>3. /\ Front(nd) \in Seq(Vals) /\ Len(Front(nd)) = Len(nd) - 1 /\ Len(nd) \in Nat \ {0}
    BY Zenon, <2>1, LastSplit
  <2>4. /\ Len(nodes) \in Nat \ {0} /\ Front(nodes) \in Seq(Seq(Vals)) /\ Len(Front(nodes)) = Len(nodes) - 1
        /\ \A j \in 1 .. Len(nodes) - 1 : Front(nodes)[j] = nodes[j]
    BY Zenon, <1>0, <1>3, LastSplit
  <2>5. PICK T \in Seq(Vals) : T = Elements(Front(nodes))
    BY Zenon, <1>0, <1>3, LastFlat
  <2>6. F = T \o nd /\ Elements([nodes EXCEPT ![Len(nodes)] = Front(nd)]) = T \o Front(nd)
    BY Zenon, <1>0, <1>3, <2>1, <2>3, <2>5, LastFlat
  <2>7. F # << >> /\ Last(F) = Last(nd) /\ Front(F) = T \o Front(nd)
    BY Zenon, <2>1, <2>6, PopLast
  <2>8. Elements(nodes') = Front(F)
    <3>1. CASE Front(nd) = << >>
      <4>1. T \o << >> = T
        BY Zenon, ConcatShape
      <4> QED
        BY Zenon, <2>2, <2>5, <2>7, <3>1, <4>1
    <3>2. CASE Front(nd) # << >>
      BY Zenon, <2>2, <2>6, <2>7, <3>2
    <3> QED
      BY Zenon, <3>1, <3>2
  <2>9. nodes' \in Seq(Seq(Vals)) /\ Filled(nodes')
    <3>1. CASE Front(nd) = << >>
      <4>1. nodes' = Front(nodes)
        BY Zenon, <2>2, <3>1
      <4>2. ASSUME NEW j \in 1 .. Len(nodes) - 1
            PROVE  Len(Front(nodes)[j]) \in 1 .. NodeCapacity
        <5>1. j \in 1 .. Len(nodes) /\ j + 1 \in 1 .. Len(nodes)
          BY <2>4
        <5> QED
          BY Zenon, <1>0, <2>4, <5>1 DEF Filled
      <4> QED
        BY Zenon, <2>4, <4>1, <4>2 DEF Filled
    <3>2. CASE Front(nd) # << >>
      <4>1. PICK x \in Seq(Vals) : x = Front(nd) /\ x # << >> /\ Len(x) = Len(nd) - 1
        BY Zenon, <2>3, <3>2
      <4>2. /\ nodes' \in Seq(Seq(Vals)) /\ Len(nodes') = Len(nodes)
            /\ \A j \in 1 .. Len(nodes) : nodes'[j] = IF j = Len(nodes) THEN x ELSE nodes[j]
        <5>1. nodes' = [nodes EXCEPT ![Len(nodes)] = x]
          BY Zenon, <2>2, <3>2, <4>1
        <5> QED
          BY SMTT(30), <1>0, <2>4, <5>1
      <4>3. Len(x) \in 1 .. NodeCapacity
        <5>1. Len(nodes) \in 1 .. Len(nodes)
          BY <2>4
        <5>2. Len(nd) \in 1 .. NodeCapacity
          BY Zenon, <1>0, <2>1, <5>1 DEF Filled
        <5> QED
          BY SMTT(30), <2>3, <4>1, <5>2
      <4> QED
        BY Zenon, <1>0, <4>2, <4>3 DEF Filled
    <3> QED
      BY Zenon, <3>1, <3>2
  <2>10. count' = Len(Elements(nodes'))
    <3>1. Len(Front(F)) = Len(F) - 1
      BY Zenon, <1>0, <2>7, LastSplit
    <3> QED
      BY Zenon, <1>0, <2>2, <2>8, <3>1
  <2>11. ListInv'
    BY ZenonT(40), <2>9, <2>10 DEF ListInv
  <2>12. op'.call = c
    BY SMTT(30), <2>2
  <2>13. List!Pop(c)
    <3>0. c.name # "lpop"
      BY <1>1
    <3> QED
      BY Zenon, <1>1, <2>2, <2>7, <2>8, <3>0 DEF List!Pop, List!Answers, Last, Front
  <2> QED
    BY Zenon, <1>1, <2>11, <2>12, <2>13 DEF List!Next, List!Call
<1> QED
  BY ZenonT(40), <1>2, <1>3

(* The places of a slice, as ListSpec selects them. *)
FromEnd(n, x) == IF x < 0 THEN n + x ELSE x
Inside(F, x, y) == {i \in DOMAIN F : FromEnd(Len(F), x) + 1 <= i /\ i <= FromEnd(Len(F), y) + 1}
SliceOf(F, inside) ==
  [i \in 1 .. (IF inside = {} THEN 0 ELSE Max(inside) - Min(inside) + 1) |-> F[Min(inside) + i - 1]]

(* ListSpec's Slice is this one. *)
LEMMA SliceIs ==
  ASSUME NEW x, NEW y
  PROVE  List!Slice(x, y) = SliceOf(Elements(nodes), Inside(Elements(nodes), x, y))
BY Zenon DEF List!Slice, List!Max, List!Min, Max, Min, SliceOf, Inside, FromEnd

(* A range is the range of the sequence (LRange). *)
LEMMA LRangeImplements ==
  ASSUME IntegerIndices, ListInv, NEW c \in Calls, LRange(c)
  PROVE  ListInv' /\ List!Next
<1>0. /\ nodes \in Seq(Seq(Vals)) /\ Elements(nodes) \in Seq(Vals) /\ count = Len(Elements(nodes))
      /\ count \in Nat
  BY Zenon, ListFacts
<1>1. PICK F \in Seq(Vals) : F = Elements(nodes) /\ count = Len(F)
  BY Zenon, <1>0
<1>2. c.name = "lrange" /\ c.start \in Int /\ c.stop \in Int
  BY Zenon DEF LRange, IntegerIndices
<1>3. PICK from \in Int, to \in Int : /\ from = normalizeIndex(c.start) /\ to = normalizeIndex(c.stop)
                                    /\ from = FromEnd(Len(F), c.start) /\ to = FromEnd(Len(F), c.stop)
  <2>1. normalizeIndex(c.start) \in Int /\ normalizeIndex(c.stop) \in Int
    BY SMTT(30), <1>0, <1>2 DEF normalizeIndex
  <2> QED
    BY Zenon, <1>1, <2>1 DEF normalizeIndex, FromEnd
<1>4. PICK start, stop :
        /\ start = Max({0, from}) /\ stop = Min({Len(F) - 1, to})
        /\ op' = [call |-> c, reply |-> IF Nothing(F, start, stop) THEN << >> ELSE Elements(Shares(nodes, start, stop))]
        /\ nodes' = nodes /\ count' = count
  BY Zenon, <1>1, <1>3 DEF LRange, Answers, ShareOf, NodeStart, Shares, Nothing
<1>5. PICK inside : /\ inside = {i \in DOMAIN F : from + 1 <= i /\ i <= to + 1}
                    /\ List!Slice(c.start, c.stop) = SliceOf(F, inside)
  BY Zenon, <1>1, <1>3, SliceIs DEF Inside
<1>6. /\ Nothing(F, start, stop) => inside = {}
      /\ ~Nothing(F, start, stop) => /\ inside # {} /\ Max(inside) = stop + 1 /\ Min(inside) = start + 1
                                     /\ start \in Nat /\ stop \in Nat /\ start <= stop /\ stop < Len(F)
  <2>1. Bounds(F, from, to, start, stop, inside)
    BY Zenon, <1>4, <1>5 DEF Bounds
  <2> QED
    BY Zenon, <2>1, SliceShape
<1>7. ASSUME Nothing(F, start, stop)
      PROVE  op' = [call |-> c, reply |-> List!Slice(c.start, c.stop)]
  <2>1. List!Slice(c.start, c.stop) = [i \in 1 .. 0 |-> F[Min(inside) + i - 1]]
    BY Zenon, <1>5, <1>6, <1>7 DEF SliceOf
  <2>2. List!Slice(c.start, c.stop) = << >>
    BY <2>1
  <2>3. op' = [call |-> c, reply |-> << >>]
    BY Zenon, <1>4, <1>7
  <2> QED
    BY Zenon, <2>2, <2>3
<1>8. ASSUME ~Nothing(F, start, stop)
      PROVE  op' = [call |-> c, reply |-> List!Slice(c.start, c.stop)]
  <2>1. PICK a \in Nat, b \in Nat : a = start /\ b = stop /\ a <= b /\ b < Len(F)
    BY Zenon, <1>6, <1>8
  <2>2. Elements(Shares(nodes, a, b)) = Stretch(F, a, b)
    <3>1. b < Len(Elements(nodes))
      BY Zenon, <1>1, <2>1
    <3>2. Elements(Shares(nodes, a, b)) = Stretch(Elements(nodes), a, b)
      BY Zenon, <1>0, <2>1, <3>1, RangeFlat
    <3> QED
      BY Zenon, <1>1, <3>2
  <2>3. List!Slice(c.start, c.stop) = [i \in 1 .. (b + 1) - (a + 1) + 1 |-> F[a + 1 + i - 1]]
    BY Zenon, <1>5, <1>6, <1>8, <2>1 DEF SliceOf
  <2>4. [i \in 1 .. (b + 1) - (a + 1) + 1 |-> F[a + 1 + i - 1]] = Stretch(F, a, b)
    BY DEF Stretch
  <2>5. List!Slice(c.start, c.stop) = Elements(Shares(nodes, start, stop))
    BY Zenon, <2>1, <2>2, <2>3, <2>4
  <2> QED
    BY Zenon, <1>4, <1>8, <2>5
<1>9. op' = [call |-> c, reply |-> List!Slice(c.start, c.stop)]
  BY Zenon, <1>7, <1>8
<1>10. op'.call = c
  BY <1>9
<1>11. ListInv'
  BY Zenon, <1>4 DEF ListInv
<1>12. List!Part(c)
  BY Zenon, <1>4, <1>9 DEF List!Part, List!Answers
<1> QED
  BY Zenon, <1>2, <1>10, <1>11, <1>12 DEF List!Next, List!Call

(* An index as a place of the sequence, and the node it is found in. *)
LEMMA IndexFacts ==
  ASSUME ListInv, NEW i \in Int
  PROVE  LET x == normalizeIndex(i)
             j == NodeOf(x)
         IN /\ x \in Int
            /\ count = 0 \/ x < 0 \/ x >= count => List!Position(i) = 0
            /\ ~(count = 0 \/ x < 0 \/ x >= count) =>
                 /\ List!Position(i) = x + 1 /\ List!Position(i) # 0
                 /\ j \in 1 .. Len(nodes) /\ x - NodeStart(j) + 1 \in 1 .. Len(nodes[j])
                 /\ Starts(nodes)[j] + (x - NodeStart(j) + 1) = x + 1
<1>0. /\ nodes \in Seq(Seq(Vals)) /\ Elements(nodes) \in Seq(Vals) /\ count = Len(Elements(nodes))
      /\ count \in Nat /\ DOMAIN nodes = 1 .. Len(nodes) /\ \A j \in 1 .. Len(nodes) : nodes[j] \in Seq(Vals)
  BY Zenon, ListFacts
<1>1. PICK x \in Int : x = normalizeIndex(i)
  <2>1. normalizeIndex(i) \in Int
    BY <1>0 DEF normalizeIndex
  <2> QED
    BY Zenon, <2>1
<1>2. /\ count = 0 \/ x < 0 \/ x >= count => List!Position(i) = 0
      /\ ~(count = 0 \/ x < 0 \/ x >= count) => List!Position(i) = x + 1 /\ List!Position(i) # 0
  <2>1. List!Position(i) = LET p == IF i < 0 THEN count + i + 1 ELSE i + 1
                           IN IF p \in 1 .. count THEN p ELSE 0
    BY Zenon, <1>0 DEF List!Position
  <2>2. x = IF i < 0 THEN count + i ELSE i
    BY Zenon, <1>1 DEF normalizeIndex
  <2> QED
    BY <1>0, <2>1, <2>2
<1>3. ASSUME ~(count = 0 \/ x < 0 \/ x >= count)
      PROVE  /\ NodeOf(x) \in 1 .. Len(nodes) /\ x - NodeStart(NodeOf(x)) + 1 \in 1 .. Len(nodes[NodeOf(x)])
             /\ Starts(nodes)[NodeOf(x)] + (x - NodeStart(NodeOf(x)) + 1) = x + 1
  <2>1. x \in Nat /\ x < Len(Elements(nodes))
    BY <1>0, <1>3
  <2>2. \E j \in DOMAIN nodes : Starts(nodes)[j] <= x /\ x < Starts(nodes)[j] + Len(nodes[j])
    BY Zenon, <1>0, <2>1, NodeFound
  <2>3. PICK j \in 1 .. Len(nodes) : j = NodeOf(x) /\ Starts(nodes)[j] <= x /\ x < Starts(nodes)[j] + Len(nodes[j])
    BY Zenon, <1>0, <2>2 DEF NodeOf, NodeStart
  <2>4. PICK s \in Nat : s = Starts(nodes)[j]
    <3>1. j \in 1 .. Len(nodes) + 1
      BY <1>0
    <3> QED
      BY Zenon, <1>0, <3>1, StartsType
  <2>5. PICK n \in Nat : n = Len(nodes[j])
    <3>1. Len(nodes[j]) \in Nat
      BY <1>0
    <3> QED
      BY Zenon, <3>1
  <2>6. s <= x /\ x < s + n
    BY Zenon, <2>3, <2>4, <2>5
  <2>7. x - s + 1 \in 1 .. n /\ s + (x - s + 1) = x + 1
    BY <2>6
  <2> QED
    BY Zenon, <2>3, <2>4, <2>5, <2>7 DEF NodeStart
<1> QED
  BY Zenon, <1>1, <1>2, <1>3

(* An element read by index is the one of the sequence (LIndex). *)
LEMMA LIndexImplements ==
  ASSUME IntegerIndices, ListInv, NEW c \in Calls, LIndex(c)
  PROVE  ListInv' /\ List!Next
<1>1. c.name = "lindex" /\ c.i \in Int
  BY Zenon DEF LIndex, IntegerIndices
<1>2. PICK x, j : x = normalizeIndex(c.i) /\ j = NodeOf(x)
  BY Zenon
<1>3. CASE count = 0 \/ x < 0 \/ x >= count
  <2>1. Fails(c)
    BY Zenon, <1>2, <1>3 DEF LIndex
  <2>2. List!Missing(c)
    <3>1. List!Position(c.i) = 0
      BY Zenon, <1>1, <1>2, <1>3, IndexFacts
    <3> QED
      BY <1>1, <3>1 DEF List!Missing
  <2> QED
    BY Zenon, <1>1, <2>1, <2>2, FailsImplements
<1>4. CASE ~(count = 0 \/ x < 0 \/ x >= count)
  <2>1. /\ op' = [call |-> c, reply |-> nodes[j][x - NodeStart(j) + 1]]
        /\ nodes' = nodes /\ count' = count
    BY Zenon, <1>2, <1>4 DEF LIndex, Answers
  <2>2. /\ List!Position(c.i) = x + 1 /\ List!Position(c.i) # 0
        /\ j \in 1 .. Len(nodes) /\ x - NodeStart(j) + 1 \in 1 .. Len(nodes[j])
        /\ Starts(nodes)[j] + (x - NodeStart(j) + 1) = x + 1
    BY Zenon, <1>1, <1>2, <1>4, IndexFacts
  <2>3. PICK y \in 1 .. Len(nodes[j]) : y = x - NodeStart(j) + 1
    BY Zenon, <2>2
  <2>4. Elements(nodes)[Starts(nodes)[j] + y] = nodes[j][y]
    <3>1. Lays(nodes, Len(nodes), Elements(nodes))
      BY Zenon, Positions DEF ListInv
    <3> QED
      BY Zenon, <2>2, <3>1 DEF Lays
  <2>5. op' = [call |-> c, reply |-> Elements(nodes)[List!Position(c.i)]]
    BY Zenon, <2>1, <2>2, <2>3, <2>4
  <2>6. op'.call = c
    BY <2>1
  <2>7. List!Index(c)
    BY Zenon, <2>1, <2>2, <2>5 DEF List!Index, List!Answers
  <2>8. ListInv'
    BY Zenon, <2>1 DEF ListInv
  <2> QED
    BY Zenon, <1>1, <2>6, <2>7, <2>8 DEF List!Next, List!Call
<1> QED
  BY Zenon, <1>3, <1>4

(* Setting an element by index sets it in the sequence (LSet). *)
LEMMA LSetImplements ==
  ASSUME IntegerIndices, ListInv, NEW c \in Calls, LSet(c)
  PROVE  ListInv' /\ List!Next
<1>1. c.name = "lset" /\ c.i \in Int /\ c.val \in Vals
  BY Zenon DEF LSet, IntegerIndices, Vals
<1>2. PICK x, j : x = normalizeIndex(c.i) /\ j = NodeOf(x)
  BY ZenonT(40)
<1>3. CASE count = 0 \/ x < 0 \/ x >= count
  <2>1. Fails(c)
    BY Zenon, <1>2, <1>3 DEF LSet
  <2>2. List!Missing(c)
    <3>1. List!Position(c.i) = 0
      BY Zenon, <1>1, <1>2, <1>3, IndexFacts
    <3> QED
      BY <1>1, <3>1 DEF List!Missing
  <2> QED
    BY Zenon, <1>1, <2>1, <2>2, FailsImplements
<1>4. CASE ~(count = 0 \/ x < 0 \/ x >= count)
  <2>1. /\ op' = [call |-> c, reply |-> TRUE] /\ count' = count
        /\ nodes' = [nodes EXCEPT ![j][x - NodeStart(j) + 1] = c.val]
    BY Zenon, <1>2, <1>4 DEF LSet, Answers
  <2>2. /\ List!Position(c.i) = x + 1 /\ List!Position(c.i) # 0
        /\ j \in 1 .. Len(nodes) /\ x - NodeStart(j) + 1 \in 1 .. Len(nodes[j])
        /\ Starts(nodes)[j] + (x - NodeStart(j) + 1) = x + 1
    BY Zenon, <1>1, <1>2, <1>4, IndexFacts
  <2>3. PICK y \in 1 .. Len(nodes[j]) : y = x - NodeStart(j) + 1
    BY ZenonT(40), <2>2
  <2>4. nodes' = [nodes EXCEPT ![j][y] = c.val] /\ Starts(nodes)[j] + y = List!Position(c.i)
    BY Zenon, <2>1, <2>2, <2>3
  <2>5. /\ nodes' \in Seq(Seq(Vals)) /\ Len(nodes') = Len(nodes)
        /\ \A k \in 1 .. Len(nodes) : Len(nodes'[k]) = Len(nodes[k])
        /\ Elements(nodes') = [Elements(nodes) EXCEPT ![List!Position(c.i)] = c.val]
    <3>1. nodes \in Seq(Seq(Vals))
      BY Zenon DEF ListInv
    <3>2. PICK v \in Vals : v = c.val
      BY Zenon, <1>1
    <3>3. WasSet(Vals, nodes, j, y, v, SetIn(nodes, j, y, v))
      BY Zenon, <2>2, <3>1, SetFlat
    <3>4. nodes' = SetIn(nodes, j, y, v)
      BY Zenon, <2>4, <3>2 DEF SetIn
    <3> QED
      BY Zenon, <2>4, <3>2, <3>3, <3>4 DEF WasSet
  <2>6. Filled(nodes')
    BY Zenon, <2>5 DEF Filled, ListInv
  <2>7. count' = Len(Elements(nodes'))
    <3>1. Len([Elements(nodes) EXCEPT ![List!Position(c.i)] = c.val]) = Len(Elements(nodes))
      <4>1. PICK F \in Seq(Vals) : F = Elements(nodes)
        BY Zenon, ListFacts
      <4>2. Len([F EXCEPT ![List!Position(c.i)] = c.val]) = Len(F)
        OBVIOUS
      <4> QED
        BY Zenon, <4>1, <4>2
    <3> QED
      BY Zenon, <2>1, <2>5, <3>1 DEF ListInv
  <2>8. op'.call = c
    BY <2>1
  <2>9. List!Set(c)
    BY Zenon, <2>1, <2>2, <2>5 DEF List!Set, List!Answers
  <2>10. ListInv'
    BY Zenon, <2>5, <2>6, <2>7 DEF ListInv
  <2> QED
    BY Zenon, <1>1, <2>8, <2>9, <2>10 DEF List!Next, List!Call
<1> QED
  BY ZenonT(40), <1>3, <1>4

-----------------------------------------------------------------------------
(* The quicklist. *)

(* A new quicklist (NewQuicklist) is an empty sequence. *)
LEMMA EmptyList == Init => ListInv /\ List!Init
<1> SUFFICES ASSUME Init
             PROVE  ListInv /\ List!Init
  OBVIOUS
<1>1. nodes = << >> /\ count = 0 /\ op = [call |-> [name |-> "none"], error |-> FALSE]
  BY Zenon DEF Init
<1>2. Elements(nodes) = << >> /\ Len(<< >>) = 0 /\ << >> \in Seq(Seq(Vals))
  BY <1>1 DEF Elements
<1>3. Filled(nodes)
  BY <1>1 DEF Filled
<1> QED
  BY Zenon, <1>1, <1>2, <1>3 DEF ListInv, List!Init

(* Every call does to the sequence what its contract says. *)
LEMMA CallsImplement ==
  ASSUME NodeCapacity \in Nat \ {0}, IntegerIndices, ListInv, [Next]_vars
  PROVE  ListInv' /\ [List!Next]_(List!vars)
<1>1. CASE UNCHANGED vars
  <2>1. nodes' = nodes /\ count' = count /\ op' = op
    BY Zenon, <1>1 DEF vars
  <2> QED
    BY Zenon, <2>1 DEF ListInv, List!vars
<1>2. ASSUME NEW c \in Calls, LPush(c) \/ RPush(c) \/ LPop(c) \/ RPop(c) \/ LRange(c) \/ LIndex(c) \/ LSet(c)
      PROVE  ListInv' /\ List!Next
  BY Zenon, <1>2, LPushImplements, RPushImplements, LPopImplements, RPopImplements, LRangeImplements,
     LIndexImplements, LSetImplements
<1> QED
  BY Zenon, <1>1, <1>2 DEF Next

(* Whatever the capacity of a node and the calls: count is the number of   *)
(* elements and no node is empty or too full, so LPop's items[0] and       *)
(* RPop's last item are there to be read.                                  *)
THEOREM NodesStayFilled ==
  ASSUME NodeCapacity \in Nat \ {0}, IntegerIndices
  PROVE  Spec => []NodesFilled
<1>1. ListInv => NodesFilled
  <2> SUFFICES ASSUME ListInv
               PROVE  NodesFilled
    OBVIOUS
  <2>1. DOMAIN nodes = 1 .. Len(nodes)
    BY Zenon, ListFacts
  <2> QED
    BY Zenon, <2>1 DEF ListInv, NodesFilled, Filled
<1>2. ListInv /\ [Next]_vars => ListInv'
  BY Zenon, CallsImplement
<1> QED
  BY <1>1, <1>2, EmptyList, PTL DEF Spec

(* Whatever the capacity of a node, the values and the calls: what was     *)
(* pushed and popped at both ends, read and set by index and read by range *)
(* is answered as a plain sequence would (quicklist.go as the list of      *)
(* ListSpec).                                                              *)
THEOREM QuicklistIsASequence ==
  ASSUME NodeCapacity \in Nat \ {0}, IntegerIndices
  PROVE  Spec => ImplementsList
<1>1. Init => ListInv /\ List!Init
  BY EmptyList
<1>2. ListInv /\ [Next]_vars => ListInv' /\ [List!Next]_(List!vars)
  BY Zenon, CallsImplement
<1> QED
  BY <1>1, <1>2, PTL DEF Spec, ImplementsList, List!Spec
=============================================================================
