----------------------------- MODULE PartsProofs -----------------------------
(***************************************************************************)
(* Two parts that stand alone, proved for every size.                      *)
(*                                                                         *)
(* Module Backlog: the ring buffer holds the last bytes of the stream, for *)
(* every size and every sequence of feeds.                                 *)
(*                                                                         *)
(* Module PubSub, for any number of subscribers, publishers, channels and  *)
(* patterns and for any size of the queues: hub and subscribers agree      *)
(* between two calls, a message reaches whoever subscribed before it, once *)
(* and in order, and nothing is sent to a subscriber that was closed.      *)
(***************************************************************************)
EXTENDS Backlog, PubSub, TLAPS, WellFoundedInduction

-----------------------------------------------------------------------------
(* The replication backlog.                                                *)

(* Quotient and remainder. *)
LEMMA DivMod ==
  ASSUME NEW n \in Nat \ {0}, NEW a \in Int
  PROVE  /\ a \div n \in Int /\ a % n \in 0 .. n - 1
         /\ a = n * (a \div n) + (a % n)
BY SMTT(60)

(* The remainder is determined by any such decomposition. *)
LEMMA ModUnique ==
  ASSUME NEW n \in Nat \ {0}, NEW q \in Int, NEW r \in 0 .. n - 1
  PROVE  (n * q + r) % n = r
BY SMTT(60)

(* Numbers less than n apart have different remainders. *)
LEMMA ModDiffer ==
  ASSUME NEW n \in Nat \ {0}, NEW a \in Int, NEW b \in Int, a < b, b < a + n
  PROVE  a % n # b % n
<1> SUFFICES ASSUME a % n = b % n PROVE FALSE
  OBVIOUS
<1> DEFINE q == a \div n
           p == b \div n
           d == p - q
<1>a. q \in Int /\ a % n \in Int /\ a = n * q + (a % n)
  BY DivMod
<1>b. p \in Int /\ b = n * p + (b % n)
  BY DivMod
<1>c. n * (p - q) = n * p - n * q
  <2> HIDE DEF p, q
  <2> QED
    BY <1>a, <1>b
<1>1. d \in Int /\ b - a = n * d
  <2> HIDE DEF p, q
  <2> QED
    BY <1>a, <1>b, <1>c
<1> HIDE DEF d
<1>2. CASE d <= 0
  <2>1. n * d <= 0
    BY <1>1, <1>2
  <2> QED
    BY <1>1, <2>1
<1>3. CASE d >= 1
  <2>1. n * d >= n
    BY <1>1, <1>3
  <2> QED
    BY <1>1, <2>1
<1> QED
  BY <1>1, <1>2, <1>3

(* A remainder may be taken early. *)
LEMMA ModAdd ==
  ASSUME NEW n \in Nat \ {0}, NEW a \in Int, NEW b \in Int
  PROVE  ((a % n) + b) % n = (a + b) % n
<1> DEFINE q == a \div n
           p == (a + b) \div n
           r == (a + b) % n
<1>1. q \in Int /\ a = n * q + (a % n) /\ a % n \in Int
  BY DivMod
<1>a. a + b \in Int
  OBVIOUS
<1>2. p \in Int /\ r \in 0 .. n - 1 /\ a + b = n * p + r
  BY <1>a, DivMod, Zenon
<1> HIDE DEF q, p, r
<1>3. n * (p - q) = n * p - n * q
  BY <1>1, <1>2
<1>4. (a % n) + b = n * (p - q) + r
  BY <1>1, <1>2, <1>3
<1>5. (n * (p - q) + r) % n = r
  BY <1>1, <1>2, ModUnique
<1> QED
  BY <1>4, <1>5 DEF r

(* Byte i of a feed goes to the cell of its offset. *)
LEMMA CellOfOffset ==
  ASSUME RingInv, NEW i \in Nat
  PROVE  Cell(i) = (lastOffset + i - 1) % size
<1>1. lastOffset \in Int /\ i - 1 \in Int /\ head = lastOffset % size /\ head \in Int
  BY SizeAssumption DEF RingInv, TypeOK
<1>2. ((lastOffset % size) + (i - 1)) % size = (lastOffset + (i - 1)) % size
  BY Zenon, <1>1, ModAdd, SizeAssumption
<1>3. head + i - 1 = head + (i - 1) /\ lastOffset + i - 1 = lastOffset + (i - 1)
  BY <1>1
<1> QED
  BY <1>1, <1>2, <1>3 DEF Cell

(* A byte that is still in range after the feed is the last one its cell   *)
(* received.                                                               *)
LEMMA LastIntoCell ==
  ASSUME RingInv, NEW data, NEW i \in 1 .. Len(data), Len(data) \in Nat,
         Len(data) - i < size
  PROVE  LastInto(data, Cell(i)) = i
<1>1. ASSUME NEW j \in 1 .. Len(data), Cell(j) = Cell(i)
      PROVE  j <= i
  <2> SUFFICES ASSUME j > i PROVE FALSE
    BY <1>1
  <2> DEFINE a == lastOffset + i - 1
             b == lastOffset + j - 1
  <2>1. a \in Int /\ b \in Int /\ a < b /\ b < a + size
    BY SMTT(30), SizeAssumption DEF RingInv, TypeOK
  <2>2. Cell(i) = a % size /\ Cell(j) = b % size
    BY CellOfOffset
  <2> HIDE DEF a, b
  <2>3. a % size # b % size
    BY Zenon, <2>1, ModDiffer, SizeAssumption
  <2> QED
    BY <1>1, <2>2, <2>3
<1>2. \A k \in 1 .. Len(data) :
        Cell(k) = Cell(i) /\ (\A j \in 1 .. Len(data) : Cell(j) = Cell(i) => j <= k) => k = i
  BY <1>1
<1> QED
  BY <1>1, <1>2 DEF LastInto

(* A non-empty set of numbers up to n has a largest element. *)
LEMMA LargestExists ==
  ASSUME NEW n \in Nat, NEW S \in SUBSET (1 .. n), S # {}
  PROVE  \E m \in S : \A j \in S : j <= m
<1> DEFINE T == {n - k : k \in S}
<1>1. T \subseteq Nat /\ T # {}
  <2>1. \A k \in S : n - k \in Nat
    OBVIOUS
  <2> QED
    BY Zenon, <2>1
<1>2. PICK t \in T : \A y \in T : ~(<<y, t>> \in OpToRel(<, Nat))
  BY Zenon, <1>1, WFMin, NatLessThanWellFounded
<1>3. \A y \in T : ~(y < t)
  BY Zenon, <1>1, <1>2 DEF OpToRel
<1>4. PICK m \in S : t = n - m
  BY Zenon, <1>2
<1>5. ASSUME NEW j \in S PROVE j <= m
  <2>1. n - j \in T
    BY Zenon
  <2>2. ~(n - j < n - m) /\ j \in 1 .. n /\ m \in 1 .. n
    BY Zenon, <1>3, <1>4, <2>1
  <2> QED
    BY <2>2
<1> QED
  BY <1>5

(* Feed keeps the ring invariant. *)
LEMMA FeedKeepsRing ==
  ASSUME RingInv, NEW data \in Seq(Bytes), Feed(data)
  PROVE  RingInv'
<1> DEFINE n == Len(data)
           N == lastOffset
<1>1. /\ n \in Nat \ {0} /\ N \in Nat /\ N = Len(stream) /\ stream \in Seq(Bytes)
      /\ size \in Nat \ {0} /\ head \in 0 .. size - 1 /\ head = N % size
  BY SMTT(30), SizeAssumption DEF RingInv, TypeOK, Feed
<1>2. /\ stream' = stream \o data /\ stream' \in Seq(Bytes) /\ Len(stream') = N + n
      /\ lastOffset' = N + n
      /\ \A i \in 1 .. n : stream'[N + i] = data[i]
      /\ \A o \in 1 .. N : stream'[o] = stream[o]
  BY <1>1 DEF Feed
<1>3. /\ firstOffset' \in Nat
      /\ N + n > size => firstOffset' = N + n - size
      /\ ~(N + n > size) => firstOffset' = 0
  <2> DEFINE F == firstOffset
  <2>1. F \in Int /\ (N > size => F = N - size) /\ (~(N > size) => F = 0)
    BY <1>1 DEF RingInv, TypeOK
  <2>2. firstOffset' = Advance(N + n)
    BY Zenon DEF Feed
  <2>3. /\ N + n - F > size => Advance(N + n) = N + n - size
        /\ ~(N + n - F > size) => Advance(N + n) = F
    BY <1>1, <2>1 DEF Advance
  <2> HIDE DEF n, N, F
  <2> QED
    BY SMTT(30), <1>1, <2>1, <2>2, <2>3
<1>4. head' = (N + n) % size /\ head' \in 0 .. size - 1
  <2>1. head' = (head + n) % size
    BY DEF Feed
  <2> HIDE DEF n, N
  <2>2. N + n \in Int /\ n \in Int /\ N \in Int
    BY <1>1
  <2>3. ((N % size) + n) % size = (N + n) % size
    BY Zenon, <1>1, <2>2, ModAdd
  <2>4. (N + n) % size \in 0 .. size - 1
    BY <1>1, <2>2, DivMod
  <2> QED
    BY <1>1, <2>1, <2>3, <2>4
<1>5. \A i \in 1 .. n : Cell(i) = (N + i - 1) % size /\ Cell(i) \in 0 .. size - 1
  <2> SUFFICES ASSUME NEW i \in 1 .. n
               PROVE  Cell(i) = (N + i - 1) % size /\ Cell(i) \in 0 .. size - 1
    OBVIOUS
  <2>1. Cell(i) = (N + i - 1) % size
    BY <1>1, CellOfOffset
  <2>2. N + i - 1 \in Int
    BY <1>1
  <2>3. (N + i - 1) % size \in 0 .. size - 1
    BY Zenon, <1>1, <2>2, DivMod
  <2> QED
    BY <2>1, <2>3
<1>6. buf' \in [0 .. size - 1 -> Bytes]
  <2> SUFFICES ASSUME NEW p \in 0 .. size - 1, NEW i \in 1 .. n, Cell(i) = p
               PROVE  data[LastInto(data, p)] \in Bytes
    BY Zenon, SizeAssumption DEF RingInv, TypeOK, Feed
  <2> DEFINE S == {k \in 1 .. n : Cell(k) = p}
  <2>1. S \in SUBSET (1 .. n) /\ S # {}
    OBVIOUS
  <2>2. \E m \in S : \A j \in S : j <= m
    BY Zenon, <1>1, <2>1, LargestExists
  <2>3. LastInto(data, p) \in 1 .. n
    BY SMTT(30), <2>2 DEF LastInto
  <2> QED
    BY <2>3
<1>7. ASSUME NEW o \in firstOffset' + 1 .. lastOffset'
      PROVE  buf'[(o - 1) % size] = stream'[o]
  <2> DEFINE p == (o - 1) % size
  <2>1. o \in Nat /\ o >= 1 /\ o <= N + n /\ N + n - o < size
    <3>1. o \in firstOffset' + 1 .. N + n
      BY <1>2, <1>7
    <3> DEFINE F == firstOffset'
    <3>2. /\ n \in Nat /\ N \in Nat /\ size \in Nat /\ F \in Nat /\ o \in F + 1 .. N + n
          /\ N + n > size => F = N + n - size
          /\ ~(N + n > size) => F = 0
      BY Zenon, <1>1, <1>3, <3>1
    <3> HIDE DEF n, N, F
    <3>3. o \in Nat /\ o >= F + 1 /\ o <= N + n
      BY <3>2
    <3> QED
      BY <3>2, <3>3
  <2>2. p \in 0 .. size - 1
    <3>1. o - 1 \in Int
      BY <2>1
    <3> QED
      BY Zenon, <3>1, <1>1, DivMod
  <2>3. buf'[p] = IF \E i \in 1 .. n : Cell(i) = p THEN data[LastInto(data, p)] ELSE buf[p]
    BY <2>2 DEF Feed
  <2>4. CASE o > N
    <3> DEFINE i == o - N
    <3>1. i \in 1 .. n /\ n - i < size /\ o = N + i /\ N + i - 1 = o - 1
      <4> HIDE DEF n, N
      <4> QED
        BY <1>1, <2>1, <2>4
    <3> HIDE DEF i
    <3>2. Cell(i) = p
      BY <1>5, <3>1
    <3>3. LastInto(data, Cell(i)) = i
      BY <1>1, <3>1, LastIntoCell
    <3> QED
      BY ZenonT(30), <1>2, <2>3, <3>1, <3>2, <3>3
  <2>5. CASE o <= N
    <3>1. ASSUME NEW i \in 1 .. n
          PROVE  Cell(i) # p
      <4> DEFINE a == o - 1
                 b == N + i - 1
      <4>1. a \in Int /\ b \in Int /\ a < b /\ b < a + size
        <5> HIDE DEF n, N
        <5> QED
          BY <1>1, <2>1, <2>5, <3>1
      <4>2. Cell(i) = b % size /\ p = a % size
        BY <1>5
      <4> HIDE DEF a, b
      <4> QED
        BY Zenon, <1>1, <4>1, <4>2, ModDiffer
    <3>2. o \in firstOffset + 1 .. N
      <4>1. firstOffset = IF N > size THEN N - size ELSE 0
        BY DEF RingInv
      <4> HIDE DEF n, N
      <4> QED
        BY <1>1, <2>1, <2>5, <4>1
    <3>3. buf[p] = stream[o]
      BY <3>2 DEF RingInv
    <3> QED
      BY <1>2, <2>1, <2>3, <2>5, <3>1, <3>3
  <2> QED
    BY <1>1, <2>1, <2>4, <2>5
<1> QED
  <2>2. TypeOK'
    BY SMTT(30), <1>1, <1>2, <1>3, <1>4, <1>6 DEF TypeOK
  <2>3. firstOffset' = IF lastOffset' > size THEN lastOffset' - size ELSE 0
    <3>1. lastOffset' = N + n
      BY <1>2
    <3>2. lastOffset' \in Nat
      BY <1>1, <3>1
    <3> HIDE DEF n, N
    <3> QED
      BY SMTT(30), <1>1, <1>3, <3>1, <3>2
  <2>4. lastOffset' = Len(stream') /\ head' = lastOffset' % size
    BY <1>2, <1>4
  <2> QED
    BY <1>7, <2>2, <2>3, <2>4, Zenon DEF RingInv

(* The empty backlog satisfies the ring invariant. *)
LEMMA InitRing == Init => RingInv
<1> SUFFICES ASSUME Init PROVE RingInv
  OBVIOUS
<1>1. TypeOK
  BY SizeAssumption DEF Init, TypeOK
<1>2. 0 % size = 0
  <2>1. (size * 0 + 0) % size = 0
    BY SizeAssumption, ModUnique
  <2>2. size * 0 + 0 = 0
    BY SizeAssumption
  <2> QED
    BY <2>1, <2>2
<1>3. lastOffset = Len(stream) /\ head = lastOffset % size
  BY <1>2 DEF Init
<1>4. firstOffset = IF lastOffset > size THEN lastOffset - size ELSE 0
  BY SizeAssumption DEF Init
<1>5. \A o \in firstOffset + 1 .. lastOffset : buf[(o - 1) % size] = stream[o]
  BY DEF Init
<1> QED
  BY <1>1, <1>3, <1>4, <1>5 DEF RingInv

(* The ring holds the last bytes of the stream at the cells of their       *)
(* offsets (backlog.go Feed), for every size and every sequence of feeds.  *)
THEOREM RingInvariant == Spec => []RingInv
<1>1. RingInv /\ [Next]_vars => RingInv'
  <2> SUFFICES ASSUME RingInv, [Next]_vars PROVE RingInv'
    OBVIOUS
  <2>1. CASE Next
    <3>1. PICK data \in Chunks : Feed(data)
      BY <2>1 DEF Next
    <3>2. data \in Seq(Bytes)
      BY <3>1, SizeAssumption DEF Chunks
    <3> QED
      BY <3>1, <3>2, FeedKeepsRing
  <2>2. CASE UNCHANGED vars
    BY <2>2 DEF vars, RingInv, TypeOK
  <2> QED
    BY <2>1, <2>2
<1> QED
  BY <1>1, InitRing, PTL DEF Spec

(* ReadFromOffset finds the bytes fed since an offset the backlog grants.  *)
LEMMA ReadsTheDifference ==
  ASSUME RingInv
  PROVE  PartialSyncExact
<1> SUFFICES ASSUME NEW offset \in 0 .. Len(stream), CanPartialSync(offset)
             PROVE  ReadFromOffset(offset) = SubSeq(stream, offset + 1, Len(stream))
  BY DEF PartialSyncExact
<1> DEFINE L == lastOffset
           n == L - offset
           startIdx == (head - n) % size
<1>1. /\ size \in Nat \ {0} /\ L \in Nat /\ L = Len(stream) /\ stream \in Seq(Bytes)
      /\ head = L % size /\ offset \in Nat /\ offset <= L /\ firstOffset <= offset
      /\ firstOffset \in Nat
  BY SizeAssumption DEF RingInv, TypeOK, CanPartialSync
<1>2. startIdx = offset % size
  <2> DEFINE b == -n
  <2>1. L \in Int /\ b \in Int /\ L + b = offset
    BY <1>1
  <2>2. head - n = (L % size) + b
    <3>1. L % size \in Int
      BY <1>1, <2>1, DivMod
    <3> QED
      BY <1>1, <2>1, <3>1
  <2> HIDE DEF b
  <2>3. ((L % size) + b) % size = (L + b) % size
    BY Zenon, <1>1, <2>1, ModAdd
  <2> QED
    BY <2>1, <2>2, <2>3
<1>3. ASSUME NEW i \in 1 .. n
      PROVE  buf[(startIdx + i - 1) % size] = stream[offset + i]
  <2> DEFINE k == i - 1
             o == offset + i
  <2>1. /\ offset \in Int /\ k \in Int /\ offset + k = o - 1 /\ i \in Int
        /\ o \in firstOffset + 1 .. L
    BY <1>1
  <2>2. ((offset % size) + k) % size = (offset + k) % size
    BY Zenon, <1>1, <2>1, ModAdd
  <2>3. offset % size \in Int
    BY <1>1, <2>1, DivMod
  <2>4. startIdx + i - 1 = (offset % size) + k
    <3> HIDE DEF startIdx
    <3> QED
      BY <1>2, <2>1, <2>3
  <2>5. buf[(o - 1) % size] = stream[o]
    BY <2>1 DEF RingInv
  <2>6. offset + i = o
    OBVIOUS
  <2> HIDE DEF startIdx, k, o
  <2> QED
    BY SMTT(30), <2>1, <2>2, <2>4, <2>5, <2>6
<1>4. ReadFromOffset(offset) = [i \in 1 .. n |-> buf[(startIdx + i - 1) % size]]
  <2>1. ~(offset < firstOffset \/ offset > lastOffset)
    BY <1>1
  <2> QED
    BY <2>1, Zenon DEF ReadFromOffset
<1>5. [i \in 1 .. n |-> buf[(startIdx + i - 1) % size]] = [i \in 1 .. n |-> stream[offset + i]]
  BY <1>3, Zenon
<1>6. SubSeq(stream, offset + 1, Len(stream)) = [i \in 1 .. n |-> stream[offset + i]]
  BY <1>1
<1> QED
  BY SMTT(30), <1>4, <1>5, <1>6

(* A granted partial resync (HandlePSync through CanPartialSync and        *)
(* ReadFromOffset) sends exactly the bytes fed after the replica's offset. *)
THEOREM PartialSyncIsExact == Spec => []PartialSyncExact
BY RingInvariant, ReadsTheDifference, PTL

(* An offset at most size bytes behind is always granted.                  *)
THEOREM NothingForgottenEarly == Spec => []KeepsAsMuchAsFits
<1>1. RingInv => KeepsAsMuchAsFits
  BY SizeAssumption DEF RingInv, TypeOK, KeepsAsMuchAsFits, CanPartialSync
<1> QED
  BY <1>1, RingInvariant, PTL

-----------------------------------------------------------------------------
(* The publish-subscribe hub.  First the invariant.                        *)

Subscriptions == Channels \cup Patterns
PatternEntry  == [sub : Subs, pat : Patterns]
Message       == [p : Publishers, n : Nat, via : Subscriptions]
ConnState     == [at : {"idle", "add", "drop"}, todo : SUBSET Subscriptions,
                  then : {"idle", "close"}, noting : SUBSET Subscriptions]
Resting       == [at : {"idle"}, n : Nat]
Busy          == [at : {"channel", "pattern"}, n : Nat, ch : Channels, todo : SUBSET Subs,
                  owed : SUBSET (Subs \X Subscriptions), sent : SUBSET (Subs \X Subscriptions),
                  full : SUBSET (Subs \X Subscriptions), list : Seq(PatternEntry)]

(* Every variable has its type. *)
HubTypeOK ==
  /\ channels \in [Channels -> SUBSET Subs]
  /\ patterns \in Seq(PatternEntry)
  /\ patMu \in SUBSET Subs
  /\ subbed \in [Subs -> SUBSET Subscriptions]
  /\ queue \in [Subs -> Seq(Message)]
  /\ closed \in [Subs -> BOOLEAN]
  /\ conn \in [Subs -> ConnState]
  /\ calls \in Nat
  /\ pub \in [Publishers -> Resting \cup Busy]

\* No entry is in a list twice.
Distinct(list) == \A i, j \in DOMAIN list : list[i] = list[j] => i = j

\* The subscription is in the maps of the hub.
InHub(s, sub) == IF sub \in Channels THEN s \in channels[sub] ELSE Entry(s, sub) \in Range(patterns)

(* What a connection is in the middle of.  A connection that ends still    *)
(* has to drop, or is dropping, everything that it is subscribed to.       *)
ConnInv ==
  \A s \in Subs :
    /\ conn[s].at = "idle" => conn[s] = Idle
    /\ conn[s].then = "close" =>
         conn[s].at = "drop" /\ subbed[s] \subseteq conn[s].todo \cup conn[s].noting
    /\ closed[s] => conn[s] = Idle /\ subbed[s] = {}

(* The hub knows of a subscription what the subscriber knows, and is one   *)
(* subscription ahead of it inside a call.                                 *)
BooksAgree ==
  \A s \in Subs, sub \in Subscriptions :
    InHub(s, sub) <=> IF sub \in conn[s].noting THEN conn[s].at = "add" ELSE sub \in subbed[s]

(* The lists that publishers walk, and the hub's own, repeat nothing. *)
ListsDistinct ==
  /\ Distinct(patterns)
  /\ \A p \in Publishers : pub[p].at = "pattern" => Distinct(pub[p].list)

\* The publisher r has dealt with what it owes, or will: a channel's subscriber is on
\* its list of them, a pattern in the hub's list pats or in the one that it loaded.
Due(r, pats, o) ==
  /\ o[2] = r.ch \/ (o[2] \in Patterns /\ r.ch \in Matches[o[2]])
  /\ \/ o \in r.sent \cup r.full
     \/ r.at = "channel" /\ o[2] = r.ch /\ o[1] \in r.todo
     \/ r.at = "channel" /\ Entry(o[1], o[2]) \in pats
     \/ r.at = "pattern" /\ Entry(o[1], o[2]) \in Range(r.list)

(* A message is owed to subscriptions that match and are not being given up. *)
OwedInv ==
  \A p \in Publishers : pub[p].at # "idle" =>
    \A o \in pub[p].owed : conn[o[1]].at # "drop" /\ Due(pub[p], Range(patterns), o)

\* The publisher r will not send m to s again.
Past(r, s, m) ==
  /\ m.n <= r.n
  /\ m.n = r.n /\ r.at = "channel" => m.via = r.ch /\ s \notin r.todo
  /\ m.n = r.n /\ r.at = "pattern" => Entry(s, m.via) \notin Range(r.list)

(* A queue holds nothing that its publisher is still going to send. *)
SentInv == \A s \in Subs : \A i \in DOMAIN queue[s] : Past(pub[queue[s][i].p], s, queue[s][i])

\* The two invariants that concern the books of one connection, and the four that
\* concern the messages under way.
BookInv == ConnInv /\ BooksAgree
SendInv == ListsDistinct /\ OwedInv /\ SentInv /\ InOrderOnce

HubInv == HubTypeOK /\ BookInv /\ SendInv
-----------------------------------------------------------------------------
(* Lists.                                                                  *)

(* The order of the naturals, as the library's well-founded relation. *)
Below == {ss \in Nat \X Nat : ss[1] < ss[2]}

(* It is the library's. *)
LEMMA BelowIsLess == OpToRel(<, Nat) = Below
BY Zenon DEF OpToRel, Below

(* What holds at 0 and is passed on from n to n + 1 holds up to any bound. *)
LEMMA UpTo ==
  ASSUME NEW S, NEW n \in Nat, 0 \in S, \A i \in 0 .. n - 1 : i \in S => i + 1 \in S
  PROVE  \A i \in 0 .. n : i \in S
<1> SUFFICES ASSUME NEW j \in 0 .. n, j \notin S
             PROVE  FALSE
  BY Zenon
<1> DEFINE T == {i \in Nat : i \in 0 .. n /\ i \notin S}
<1>1. IsWellFoundedOn(Below, Nat)
  BY ZenonT(60), NatLessThanWellFounded, BelowIsLess
<1>2. T \subseteq Nat /\ j \in T
  BY SMT
<1> HIDE DEF T
<1>3. PICK m \in T : \A t \in T : ~ (<<t, m>> \in Below)
  BY Zenon, <1>1, <1>2, WFMin
<1>4. m \in Nat /\ m \in 0 .. n /\ m \notin S /\ m # 0
  BY Zenon, <1>3 DEF T
<1>5. m - 1 \in 0 .. n - 1 /\ m - 1 + 1 = m /\ m - 1 \in Nat /\ m - 1 < m /\ m - 1 \in 0 .. n
  BY <1>4
<1>6. m - 1 \notin S
  BY Zenon, <1>4, <1>5
<1>7. m - 1 \in T
  BY Zenon, <1>5, <1>6 DEF T
<1>8. <<m - 1, m>> \in Below
  BY Zenon, <1>4, <1>5 DEF Below
<1> QED
  BY Zenon, <1>3, <1>7, <1>8

(* The function by which Keeping is defined satisfies its recursion. *)
LEMMA KeptSteps ==
  ASSUME NEW l, NEW set, Len(l) \in Nat
  PROVE  LET kept == KeptUpTo(l, set)
         IN /\ kept[0] = <<>>
            /\ \A i \in 1 .. Len(l) : l[i] \in set => kept[i] = Append(kept[i - 1], l[i])
            /\ \A i \in 1 .. Len(l) : l[i] \notin set => kept[i] = kept[i - 1]
<1> DEFINE Rule(g, i) == IF l[i] \in set THEN Append(g[i - 1], l[i]) ELSE g[i - 1]
           Fits(m, g) == g = [i \in 0 .. m |-> IF i = 0 THEN <<>> ELSE Rule(g, i)]
           S == {m \in 0 .. Len(l) : \E g : Fits(m, g)}
<1>1. 0 \in S
  <2> DEFINE g == [i \in 0 .. 0 |-> <<>>]
  <2>1. Fits(0, g)
    OBVIOUS
  <2>2. 0 \in 0 .. Len(l)
    OBVIOUS
  <2> QED
    BY Zenon, <2>1, <2>2
<1>2. ASSUME NEW m \in 0 .. Len(l) - 1, m \in S
      PROVE  m + 1 \in S
  <2>1. PICK g : Fits(m, g)
    BY Zenon, <1>2
  <2> DEFINE h == [i \in 0 .. m + 1 |-> IF i <= m THEN g[i] ELSE Rule(g, m + 1)]
  <2>2. ASSUME NEW i \in 0 .. m + 1
        PROVE  h[i] = IF i = 0 THEN <<>> ELSE Rule(h, i)
    <3>1. CASE i = 0
      <4>1. g[0] = <<>>
        BY <2>1
      <4> QED
        BY <3>1, <4>1
    <3>2. CASE i # 0 /\ i <= m
      <4>1. i - 1 \in 0 .. m + 1 /\ i - 1 <= m /\ i \in 0 .. m
        BY <3>2
      <4>2. g[i] = Rule(g, i)
        BY Zenon, <2>1, <3>2, <4>1
      <4>3. h[i] = g[i] /\ h[i - 1] = g[i - 1]
        BY Zenon, <3>2, <4>1
      <4> QED
        BY Zenon, <3>2, <4>2, <4>3
    <3>3. CASE i = m + 1
      <4>1. i # 0 /\ i - 1 = m /\ i - 1 \in 0 .. m + 1 /\ i - 1 <= m /\ ~(i <= m)
        BY <3>3
      <4>2. h[i] = Rule(g, m + 1) /\ h[i - 1] = g[i - 1]
        BY Zenon, <4>1
      <4> QED
        BY Zenon, <3>3, <4>1, <4>2
    <3> QED
      BY <3>1, <3>2, <3>3
  <2>3. Fits(m + 1, h)
    <3> HIDE DEF h
    <3>1. h = [i \in 0 .. m + 1 |-> h[i]]
      BY DEF h
    <3> QED
      BY Zenon, <2>2, <3>1
  <2>4. m + 1 \in 0 .. Len(l)
    OBVIOUS
  <2> QED
    BY Zenon, <2>3, <2>4
<1>3. Len(l) \in S
  <2> HIDE DEF S
  <2>1. \A m \in 0 .. Len(l) : m \in S
    BY Zenon, <1>1, <1>2, UpTo
  <2> QED
    BY <2>1
<1>4. Fits(Len(l), KeptUpTo(l, set))
  BY Zenon, <1>3 DEF KeptUpTo
<1>5. ASSUME NEW i \in 0 .. Len(l)
      PROVE  KeptUpTo(l, set)[i] = IF i = 0 THEN <<>> ELSE Rule(KeptUpTo(l, set), i)
  BY Zenon, <1>4
<1>6. 0 \in 0 .. Len(l) /\ \A i \in 1 .. Len(l) : i \in 0 .. Len(l) /\ i # 0
  OBVIOUS
<1> QED
  BY Zenon, <1>5, <1>6

(* A list with one entry more. *)
LEMMA AppendFacts ==
  ASSUME NEW T, NEW l \in Seq(T), NEW e \in T
  PROVE  /\ Append(l, e) \in Seq(T)
         /\ Range(Append(l, e)) = Range(l) \cup {e}
         /\ Distinct(l) /\ e \notin Range(l) => Distinct(Append(l, e))
<1>1. /\ Append(l, e) \in Seq(T) /\ Len(Append(l, e)) = Len(l) + 1
      /\ DOMAIN Append(l, e) = 1 .. Len(l) + 1 /\ DOMAIN l = 1 .. Len(l) /\ Len(l) \in Nat
      /\ Append(l, e)[Len(l) + 1] = e
      /\ \A i \in 1 .. Len(l) : Append(l, e)[i] = l[i]
  BY SMT
<1> DEFINE a == Append(l, e)
<1> HIDE DEF a
<1>2. Range(a) = Range(l) \cup {e}
  BY SMT, <1>1 DEF Range, a
<1>3. ASSUME Distinct(l), e \notin Range(l)
      PROVE  Distinct(a)
  <2>1. \A i \in 1 .. Len(l) : l[i] # e
    BY SMT, <1>1, <1>3 DEF Range
  <2>2. \A i, j \in 1 .. Len(l) : l[i] = l[j] => i = j
    BY Zenon, <1>1, <1>3 DEF Distinct
  <2> QED
    BY SMT, <1>1, <2>1, <2>2 DEF Distinct, a
<1> QED
  BY <1>1, <1>2, <1>3 DEF a

(* A list without its first entry. *)
LEMMA TailFacts ==
  ASSUME NEW T, NEW l \in Seq(T), l # <<>>
  PROVE  /\ Tail(l) \in Seq(T) /\ Head(l) \in T
         /\ Range(l) = Range(Tail(l)) \cup {Head(l)}
         /\ Distinct(l) => Distinct(Tail(l)) /\ Head(l) \notin Range(Tail(l))
         /\ \A i \in DOMAIN Tail(l) : i + 1 \in DOMAIN l /\ Tail(l)[i] = l[i + 1]
<1>1. /\ Tail(l) \in Seq(T) /\ Len(Tail(l)) = Len(l) - 1 /\ Head(l) \in T /\ Head(l) = l[1]
      /\ DOMAIN Tail(l) = 1 .. Len(l) - 1 /\ DOMAIN l = 1 .. Len(l) /\ Len(l) \in Nat /\ Len(l) > 0
      /\ \A i \in 1 .. Len(l) - 1 : Tail(l)[i] = l[i + 1]
  BY SMT
<1> DEFINE t == Tail(l)
<1> HIDE DEF t
<1>2. Range(l) = Range(t) \cup {Head(l)}
  <2>1. ASSUME NEW i \in 1 .. Len(l)
        PROVE  l[i] \in Range(t) \cup {Head(l)}
    <3>1. i = 1 \/ (i - 1 \in 1 .. Len(l) - 1 /\ i - 1 + 1 = i)
      BY <1>1
    <3>2. CASE i = 1
      BY Zenon, <1>1, <3>2
    <3>3. CASE i - 1 \in 1 .. Len(l) - 1 /\ i - 1 + 1 = i
      <4>1. t[i - 1] = l[i] /\ i - 1 \in DOMAIN t
        BY Zenon, <1>1, <3>3 DEF t
      <4> QED
        BY Zenon, <4>1 DEF Range
    <3> QED
      BY Zenon, <3>1, <3>2, <3>3
  <2>2. ASSUME NEW i \in 1 .. Len(l) - 1
        PROVE  t[i] \in Range(l)
    <3>1. i + 1 \in 1 .. Len(l)
      BY <1>1
    <3> QED
      BY Zenon, <1>1, <3>1 DEF Range, t
  <2>3. Head(l) \in Range(l)
    <3>1. 1 \in 1 .. Len(l)
      BY <1>1
    <3> QED
      BY Zenon, <1>1, <3>1 DEF Range
  <2> QED
    BY ZenonT(60), <1>1, <2>1, <2>2, <2>3 DEF Range, t
<1>3. ASSUME Distinct(l)
      PROVE  Distinct(t) /\ Head(l) \notin Range(t)
  <2>1. \A i, j \in 1 .. Len(l) : l[i] = l[j] => i = j
    BY Zenon, <1>1, <1>3 DEF Distinct
  <2>2. Distinct(t)
    BY SMT, <1>1, <2>1 DEF Distinct, t
  <2>3. \A i \in DOMAIN t : t[i] # Head(l)
    BY SMT, <1>1, <2>1 DEF t
  <2> QED
    BY Zenon, <2>2, <2>3 DEF Range
<1>4. \A i \in DOMAIN t : i + 1 \in DOMAIN l /\ t[i] = l[i + 1]
  BY SMT, <1>1 DEF t
<1> QED
  BY <1>1, <1>2, <1>3, <1>4 DEF t

(* PUnsubscribe and the matching of Publish keep the entries asked for, and *)
(* repeat none.                                                            *)
LEMMA KeepingFacts ==
  ASSUME NEW T, NEW l \in Seq(T), NEW set
  PROVE  /\ Keeping(l, set) \in Seq(T)
         /\ Range(Keeping(l, set)) = Range(l) \cap set
         /\ Distinct(l) => Distinct(Keeping(l, set))
<1> DEFINE K == KeptUpTo(l, set)
           Front(i) == {l[j] : j \in 1 .. i}
           Good(k, i) == /\ k \in Seq(T) /\ Range(k) = Front(i) \cap set
                         /\ Distinct(l) => Distinct(k)
           S == {i \in 0 .. Len(l) : Good(K[i], i)}
<1>0. Len(l) \in Nat /\ DOMAIN l = 1 .. Len(l) /\ \A i \in 1 .. Len(l) : l[i] \in T
  BY SMT
<1>1. /\ K[0] = <<>>
      /\ \A i \in 1 .. Len(l) : l[i] \in set => K[i] = Append(K[i - 1], l[i])
      /\ \A i \in 1 .. Len(l) : l[i] \notin set => K[i] = K[i - 1]
  BY <1>0, KeptSteps
<1> HIDE DEF K
<1>2. 0 \in S
  <2>1. <<>> \in Seq(T) /\ DOMAIN <<>> = {} /\ 1 .. 0 = {}
    BY SMT
  <2>2. Good(K[0], 0)
    BY Zenon, <1>1, <2>1 DEF Range, Distinct
  <2>3. 0 \in 0 .. Len(l)
    BY <1>0
  <2> QED
    BY Zenon, <2>2, <2>3
<1>3. ASSUME NEW i \in 0 .. Len(l) - 1, i \in S
      PROVE  i + 1 \in S
  <2>1. Good(K[i], i)
    BY Zenon, <1>3
  <2>2. i + 1 \in 1 .. Len(l) /\ i + 1 \in 0 .. Len(l) /\ i + 1 - 1 = i /\ i \in Nat
    BY <1>0
  <2>3. /\ l[i + 1] \in set => K[i + 1] = Append(K[i], l[i + 1])
        /\ l[i + 1] \notin set => K[i + 1] = K[i]
    <3>1. /\ l[i + 1] \in set => K[i + 1] = Append(K[i + 1 - 1], l[i + 1])
          /\ l[i + 1] \notin set => K[i + 1] = K[i + 1 - 1]
      BY SMTT(30), <1>1, <2>2
    <3> QED
      BY Zenon, <2>2, <3>1
  <2>4. 1 .. i + 1 = (1 .. i) \cup {i + 1} /\ l[i + 1] \in T
    BY <1>0, <2>2
  <2>5. Front(i + 1) = Front(i) \cup {l[i + 1]}
    BY Zenon, <2>4
  <2>6. Distinct(l) => l[i + 1] \notin Front(i)
    <3>1. \A j \in 1 .. i : j \in 1 .. Len(l) /\ j # i + 1
      BY <1>0
    <3> QED
      BY Zenon, <1>0, <2>2, <3>1 DEF Distinct
  <2>7. CASE l[i + 1] \in set
    <3>1. /\ Append(K[i], l[i + 1]) \in Seq(T)
          /\ Range(Append(K[i], l[i + 1])) = Range(K[i]) \cup {l[i + 1]}
          /\ Distinct(K[i]) /\ l[i + 1] \notin Range(K[i]) => Distinct(Append(K[i], l[i + 1]))
      <4>1. K[i] \in Seq(T) /\ l[i + 1] \in T
        BY Zenon, <2>1, <2>4
      <4> QED
        BY Zenon, <4>1, AppendFacts
    <3>2. Good(K[i + 1], i + 1)
      BY Zenon, <2>1, <2>3, <2>5, <2>6, <2>7, <3>1
    <3> QED
      BY Zenon, <2>2, <3>2
  <2>8. CASE l[i + 1] \notin set
    <3>1. Good(K[i + 1], i + 1)
      BY Zenon, <2>1, <2>3, <2>5, <2>8
    <3> QED
      BY ZenonT(40), <2>2, <3>1
  <2> QED
    BY Zenon, <2>7, <2>8
<1>4. Len(l) \in S
  <2> HIDE DEF S
  <2>1. \A i \in 0 .. Len(l) : i \in S
    BY Zenon, <1>0, <1>2, <1>3, UpTo
  <2> QED
    BY <1>0, <2>1
<1>5. Good(K[Len(l)], Len(l)) /\ Front(Len(l)) = Range(l)
  BY Zenon, <1>0, <1>4 DEF Range
<1> QED
  BY Zenon, <1>5 DEF Keeping, K

-----------------------------------------------------------------------------
(* Types.                                                                  *)

(* A publisher that is not idle has all fields of a PUBLISH. *)
LEMMA BusyFacts ==
  ASSUME HubTypeOK, NEW p \in Publishers, pub[p].at # "idle"
  PROVE  pub[p] \in Busy
BY Zenon DEF HubTypeOK, Resting

(* Letting a publisher off keeps it what it is. *)
LEMMA ExcuseType ==
  ASSUME HubTypeOK, NEW s, Excuse(s)
  PROVE  pub' \in [Publishers -> Resting \cup Busy]
<1>1. ASSUME NEW p \in Publishers, pub[p].at # "idle"
      PROVE  [pub[p] EXCEPT !.owed = {o \in @ : o[1] # s}] \in Busy
  <2>1. pub[p] \in Busy
    BY Zenon, <1>1, BusyFacts
  <2> QED
    BY SMT, <2>1 DEF Busy
<1>2. \A p \in Publishers : pub[p] \in Resting \cup Busy
  BY Zenon DEF HubTypeOK
<1>3. \A p \in Publishers : pub'[p] = IF pub[p].at = "idle" THEN pub[p]
                                      ELSE [pub[p] EXCEPT !.owed = {o \in @ : o[1] # s}]
  BY Zenon DEF Excuse
<1>4. \A p \in Publishers : pub'[p] \in Resting \cup Busy
  BY Zenon, <1>1, <1>2, <1>3
<1>5. pub' = [p \in Publishers |-> pub'[p]]
  BY DEF Excuse
<1> QED
  BY Zenon, <1>4, <1>5

(* TrySend goes into the books of the publisher, and nowhere else. *)
LEMMA BookedFields ==
  ASSUME HubTypeOK, NEW p \in Publishers, pub[p].at # "idle", NEW s \in Subs, NEW sub \in Subscriptions
  PROVE  LET q == Booked(p, s, sub)
         IN /\ q \in Busy /\ q.at = pub[p].at /\ q.n = pub[p].n /\ q.ch = pub[p].ch
            /\ q.todo = pub[p].todo /\ q.owed = pub[p].owed /\ q.list = pub[p].list
            /\ q.sent \cup q.full = pub[p].sent \cup pub[p].full \cup {<<s, sub>>}
<1>1. pub[p] \in Busy /\ <<s, sub>> \in Subs \X Subscriptions
  BY Zenon, BusyFacts
<1> DEFINE o == <<s, sub>>
<1> HIDE DEF o
<1>2. CASE MaySend(s)
  <2> DEFINE q == [pub[p] EXCEPT !.sent = @ \cup {o}]
  <2>1. /\ q \in Busy /\ q.at = pub[p].at /\ q.n = pub[p].n /\ q.ch = pub[p].ch
        /\ q.todo = pub[p].todo /\ q.owed = pub[p].owed /\ q.list = pub[p].list
        /\ q.sent = pub[p].sent \cup {o} /\ q.full = pub[p].full
    BY Zenon, <1>1 DEF Busy, o
  <2>2. Booked(p, s, sub) = q
    BY Zenon, <1>2 DEF Booked, o
  <2> QED
    BY Zenon, <2>1, <2>2 DEF o
<1>3. CASE ~MaySend(s)
  <2> DEFINE q == [pub[p] EXCEPT !.full = @ \cup {o}]
  <2>1. /\ q \in Busy /\ q.at = pub[p].at /\ q.n = pub[p].n /\ q.ch = pub[p].ch
        /\ q.todo = pub[p].todo /\ q.owed = pub[p].owed /\ q.list = pub[p].list
        /\ q.sent = pub[p].sent /\ q.full = pub[p].full \cup {o}
    BY Zenon, <1>1 DEF Busy, o
  <2>2. Booked(p, s, sub) = q
    BY Zenon, <1>3 DEF Booked, o
  <2> QED
    BY Zenon, <2>1, <2>2 DEF o
<1> QED
  BY Zenon, <1>2, <1>3

(* A message that may be sent goes to the end of the queue. *)
LEMMA TrySendType ==
  ASSUME HubTypeOK, NEW p \in Publishers, NEW s \in Subs, NEW sub \in Subscriptions, TrySend(p, s, sub)
  PROVE  queue' \in [Subs -> Seq(Message)]
<1>1. pub[p].n \in Nat
  BY SMTT(30) DEF HubTypeOK, Resting, Busy
<1> DEFINE m == [p |-> p, n |-> pub[p].n, via |-> sub]
<1>2. m \in Message
  BY SMT, <1>1 DEF Message
<1>3. queue[s] \in Seq(Message)
  BY DEF HubTypeOK
<1> HIDE DEF m
<1>4. Append(queue[s], m) \in Seq(Message)
  BY SMT, <1>2, <1>3
<1> QED
  BY SMT, <1>4 DEF TrySend, HubTypeOK, m

(* Every step keeps the types. *)
LEMMA TypeStep == HubTypeOK /\ HubNext => HubTypeOK'
<1> SUFFICES ASSUME HubTypeOK, HubNext
             PROVE  HubTypeOK'
  OBVIOUS
<1> USE SubscriptionAssumption
<1>1. ASSUME NEW s \in Subs, NEW what \in {"add", "drop"}, NEW sub \in Channels \cup Patterns,
             Call(s, what, sub)
      PROVE  HubTypeOK'
  <2>1. [at |-> what, todo |-> {sub}, then |-> "idle", noting |-> {}] \in ConnState
    BY DEF ConnState, Subscriptions
  <2>2. conn' \in [Subs -> ConnState]
    BY <1>1, <2>1 DEF Call, ConnGoes, HubTypeOK
  <2>3. pub' \in [Publishers -> Resting \cup Busy]
    BY Zenon, <1>1, ExcuseType DEF Call, HubTypeOK
  <2> QED
    BY <1>1, <2>2, <2>3 DEF Call, HubTypeOK
<1>2. ASSUME NEW s \in Subs, CallUnsubscribeAll(s) \/ Disconnect(s)
      PROVE  HubTypeOK'
  <2>1. PICK then \in {"idle", "close"} : UnsubscribeAll(s, then)
    BY Zenon, <1>2 DEF CallUnsubscribeAll, Disconnect
  <2>2. [at |-> "drop", todo |-> subbed[s], then |-> then, noting |-> {}] \in ConnState
    BY DEF ConnState, HubTypeOK
  <2>3. conn' \in [Subs -> ConnState]
    BY <2>1, <2>2 DEF UnsubscribeAll, ConnGoes, HubTypeOK
  <2>4. pub' \in [Publishers -> Resting \cup Busy]
    BY Zenon, <2>1, ExcuseType DEF UnsubscribeAll
  <2> QED
    BY <1>2, <2>3, <2>4 DEF CallUnsubscribeAll, Disconnect, HubTypeOK
<1>3. ASSUME NEW s \in Subs, HubChannel(s)
      PROVE  HubTypeOK'
  <2>1. PICK ch \in Channels :
          /\ channels' = [channels EXCEPT ![ch] = IF conn[s].at = "add" THEN @ \cup {s} ELSE @ \ {s}]
          /\ ConnGoes(s, [conn[s] EXCEPT !.todo = @ \ {ch}, !.noting = {ch}])
    BY Zenon, <1>3 DEF HubChannel
  <2>2. [conn[s] EXCEPT !.todo = @ \ {ch}, !.noting = {ch}] \in ConnState
    BY ZenonT(60) DEF ConnState, HubTypeOK, Subscriptions
  <2>3. conn' \in [Subs -> ConnState]
    BY <2>1, <2>2 DEF ConnGoes, HubTypeOK
  <2>4. channels' \in [Channels -> SUBSET Subs]
    BY <2>1 DEF HubTypeOK
  <2> QED
    BY <1>3, <2>3, <2>4 DEF HubChannel, HubTypeOK
<1>4. ASSUME NEW s \in Subs, HubPattern(s)
      PROVE  HubTypeOK'
  <2>1. PICK pat \in Patterns :
          /\ patterns' = IF conn[s].at = "add" THEN WithEntry(patterns, Entry(s, pat))
                         ELSE WithoutEntry(patterns, Entry(s, pat))
          /\ ConnGoes(s, [conn[s] EXCEPT !.todo = @ \ {pat}, !.noting = {pat}])
    BY Zenon, <1>4 DEF HubPattern
  <2>2. [conn[s] EXCEPT !.todo = @ \ {pat}, !.noting = {pat}] \in ConnState
    BY ZenonT(60) DEF ConnState, HubTypeOK, Subscriptions
  <2>3. conn' \in [Subs -> ConnState]
    BY <2>1, <2>2 DEF ConnGoes, HubTypeOK
  <2>4. patterns' \in Seq(PatternEntry)
    <3>1. Entry(s, pat) \in PatternEntry /\ patterns \in Seq(PatternEntry)
      BY DEF Entry, PatternEntry, HubTypeOK
    <3>2. /\ Append(patterns, Entry(s, pat)) \in Seq(PatternEntry)
          /\ \A set : Keeping(patterns, set) \in Seq(PatternEntry)
      BY Zenon, <3>1, AppendFacts, KeepingFacts
    <3> QED
      BY Zenon, <2>1, <3>1, <3>2 DEF WithEntry, WithoutEntry
  <2>5. patMu' \in SUBSET Subs
    BY Zenon, <1>4 DEF HubPattern
  <2> QED
    BY <1>4, <2>3, <2>4, <2>5 DEF HubPattern, HubTypeOK
<1>5. ASSUME NEW s \in Subs, Note(s)
      PROVE  HubTypeOK'
  <2>1. [conn[s] EXCEPT !.noting = {}] \in ConnState /\ conn[s].noting \subseteq Subscriptions
    BY Zenon DEF ConnState, HubTypeOK
  <2>2. conn' \in [Subs -> ConnState]
    BY <1>5, <2>1 DEF Note, ConnGoes, HubTypeOK
  <2>3. subbed' \in [Subs -> SUBSET Subscriptions]
    BY <1>5, <2>1 DEF Note, HubTypeOK
  <2> QED
    BY <1>5, <2>2, <2>3 DEF Note, HubTypeOK
<1>6. ASSUME NEW s \in Subs, Finish(s)
      PROVE  HubTypeOK'
  <2>1. Idle \in ConnState
    BY DEF Idle, ConnState
  <2>2. conn' \in [Subs -> ConnState]
    BY <1>6, <2>1 DEF Finish, ConnGoes, HubTypeOK
  <2>3. closed' \in [Subs -> BOOLEAN] /\ subbed' \in [Subs -> SUBSET Subscriptions]
    BY ZenonT(60), <1>6 DEF Finish, HubTypeOK
  <2> QED
    BY <1>6, <2>2, <2>3 DEF Finish, HubTypeOK
<1>7. ASSUME NEW s \in Subs, Drain(s)
      PROVE  HubTypeOK'
  <2>1. Tail(queue[s]) \in Seq(Message)
    BY SMT, <1>7 DEF Drain, HubTypeOK
  <2>2. queue' \in [Subs -> Seq(Message)]
    BY SMTT(30), <1>7, <2>1 DEF Drain, HubTypeOK
  <2> QED
    BY <1>7, <2>2 DEF Drain, HubTypeOK
<1>8. ASSUME NEW p \in Publishers, NEW ch \in Channels, Publish(p, ch)
      PROVE  HubTypeOK'
  <2>1. Owed(ch) \subseteq Subs \X Subscriptions
    BY DEF Owed, Subscriptions
  <2>2. pub[p].n + 1 \in Nat /\ channels[ch] \subseteq Subs /\ <<>> \in Seq(PatternEntry)
    <3>1. pub[p].n \in Nat
      BY Zenon DEF HubTypeOK, Resting, Busy
    <3> QED
      BY SMT, <3>1 DEF HubTypeOK
  <2>3. [at |-> "channel", n |-> pub[p].n + 1, ch |-> ch, todo |-> channels[ch],
         owed |-> Owed(ch), sent |-> {}, full |-> {}, list |-> <<>>] \in Busy
    BY SMT, <2>1, <2>2 DEF Busy
  <2>4. pub' \in [Publishers -> Resting \cup Busy]
    BY <1>8, <2>3 DEF Publish, HubTypeOK
  <2> QED
    BY <1>8, <2>4 DEF Publish, HubTypeOK
<1>9. ASSUME NEW p \in Publishers, ToChannel(p)
      PROVE  HubTypeOK'
  <2>0. pub[p] \in Busy
    BY Zenon, <1>9, BusyFacts DEF ToChannel
  <2>1. PICK s \in pub[p].todo :
          /\ TrySend(p, s, pub[p].ch)
          /\ pub' = [pub EXCEPT ![p] = [Booked(p, s, pub[p].ch) EXCEPT !.todo = Rest(p, s)]]
    BY Zenon, <1>9 DEF ToChannel
  <2>2. s \in Subs /\ pub[p].ch \in Subscriptions /\ Rest(p, s) \subseteq Subs /\ pub[p].at # "idle"
    BY SMT, <1>9, <2>0 DEF Busy, Subscriptions, Rest, ToChannel
  <2>3. queue' \in [Subs -> Seq(Message)]
    BY Zenon, <2>1, <2>2, TrySendType
  <2>4. Booked(p, s, pub[p].ch) \in Busy
    BY Zenon, <2>2, BookedFields
  <2>5. [Booked(p, s, pub[p].ch) EXCEPT !.todo = Rest(p, s)] \in Busy
    BY ZenonT(60), <2>2, <2>4 DEF Busy
  <2>6. pub' \in [Publishers -> Resting \cup Busy]
    BY <2>1, <2>5 DEF HubTypeOK
  <2> QED
    BY <1>9, <2>3, <2>6 DEF ToChannel, HubTypeOK
<1>10. ASSUME NEW p \in Publishers, LoadPatterns(p)
       PROVE  HubTypeOK'
  <2>0. pub[p] \in Busy
    BY Zenon, <1>10, BusyFacts DEF LoadPatterns
  <2> DEFINE l == Keeping(patterns, {e \in Range(patterns) : pub[p].ch \in Matches[e.pat]})
  <2>1. l \in Seq(PatternEntry)
    BY Zenon, KeepingFacts DEF HubTypeOK
  <2>2. pub' = [pub EXCEPT ![p].at = "pattern", ![p].list = l]
    BY Zenon, <1>10 DEF LoadPatterns
  <2> HIDE DEF l
  <2>3. [pub[p] EXCEPT !.at = "pattern", !.list = l] \in Busy
    BY Zenon, <2>0, <2>1 DEF Busy
  <2>4. pub' = [pub EXCEPT ![p] = [pub[p] EXCEPT !.at = "pattern", !.list = l]]
    BY Zenon, <2>2 DEF HubTypeOK
  <2>5. pub' \in [Publishers -> Resting \cup Busy]
    <3>1. pub \in [Publishers -> Resting \cup Busy]
      BY ZenonT(40) DEF HubTypeOK
    <3> QED
      BY Zenon, <2>3, <2>4, <3>1
  <2> QED
    BY <1>10, <2>5 DEF LoadPatterns, HubTypeOK
<1>11. ASSUME NEW p \in Publishers, ToPattern(p)
       PROVE  HubTypeOK'
  <2>0. pub[p] \in Busy
    BY Zenon, <1>11, BusyFacts DEF ToPattern
  <2> DEFINE e == Head(pub[p].list)
  <2>1. /\ TrySend(p, e.sub, e.pat)
        /\ pub' = [pub EXCEPT ![p] = [Booked(p, e.sub, e.pat) EXCEPT !.list = Tail(@)]]
        /\ pub[p].list # <<>> /\ pub[p].at # "idle"
    BY ZenonT(60), <1>11 DEF ToPattern
  <2>2. e \in PatternEntry /\ Tail(pub[p].list) \in Seq(PatternEntry)
    <3>1. pub[p].list \in Seq(PatternEntry)
      BY SMTT(30), <2>0 DEF Busy
    <3>2. QED
      BY ZenonT(40), <2>1, <3>1, TailFacts
  <2> HIDE DEF e
  <2>3. e.sub \in Subs /\ e.pat \in Subscriptions
    BY <2>2 DEF PatternEntry, Subscriptions
  <2>4. queue' \in [Subs -> Seq(Message)]
    BY Zenon, <2>1, <2>3, TrySendType
  <2>5. Booked(p, e.sub, e.pat) \in Busy
    BY Zenon, <2>1, <2>3, BookedFields
  <2>6. Booked(p, e.sub, e.pat).list = pub[p].list
    BY Zenon, <2>1, <2>3, BookedFields
  <2>7. [Booked(p, e.sub, e.pat) EXCEPT !.list = Tail(@)] \in Busy
    BY Zenon, <2>2, <2>5, <2>6 DEF Busy
  <2>8. pub' \in [Publishers -> Resting \cup Busy]
    BY <2>1, <2>7 DEF HubTypeOK
  <2> QED
    BY ZenonT(40), <1>11, <2>4, <2>8 DEF ToPattern, HubTypeOK
<1>12. ASSUME NEW p \in Publishers, Answer(p)
       PROVE  HubTypeOK'
  <2>1. [at |-> "idle", n |-> pub[p].n] \in Resting
    BY SMT DEF HubTypeOK, Resting, Busy
  <2>2. pub' \in [Publishers -> Resting \cup Busy]
    BY <1>12, <2>1 DEF Answer, HubTypeOK
  <2> QED
    BY <1>12, <2>2 DEF Answer, HubTypeOK
<1> QED
  BY Zenon, <1>1, <1>2, <1>3, <1>4, <1>5, <1>6, <1>7, <1>8, <1>9, <1>10, <1>11, <1>12 DEF HubNext

-----------------------------------------------------------------------------
(* Connections.                                                            *)

(* A connection's step moves that connection only. *)
LEMMA ConnGoesFacts ==
  ASSUME HubTypeOK, NEW s \in Subs, NEW next, ConnGoes(s, next)
  PROVE  conn'[s] = next /\ \A t \in Subs : t # s => conn'[t] = conn[t]
BY Zenon DEF ConnGoes, HubTypeOK

(* An entry of the list names the subscription and the subscriber. *)
LEMMA EntryIsOne ==
  ASSUME NEW s, NEW x, NEW t, NEW y, Entry(s, x) = Entry(t, y)
  PROVE  s = t /\ x = y
<1>1. Entry(s, x).sub = s /\ Entry(s, x).pat = x /\ Entry(t, y).sub = t /\ Entry(t, y).pat = y
  BY DEF Entry
<1> QED
  BY Zenon, <1>1

(* A channel is not a pattern. *)
LEMMA KindsDiffer ==
  ASSUME NEW x \in Subscriptions
  PROVE  x \in Channels <=> x \notin Patterns
BY Zenon, SubscriptionAssumption DEF Subscriptions, Patterns

(* A command that arrives changes nothing yet. *)
LEMMA BookCall ==
  ASSUME HubTypeOK, BookInv, NEW s \in Subs, NEW next, ConnGoes(s, next), conn[s] = Idle, ~closed[s],
         next.at \in {"add", "drop"}, next.noting = {},
         next.then = "close" => next.at = "drop" /\ subbed[s] \subseteq next.todo,
         UNCHANGED <<channels, patterns, subbed, closed>>
  PROVE  BookInv'
<1>1. conn'[s] = next /\ \A t \in Subs : t # s => conn'[t] = conn[t]
  BY Zenon, ConnGoesFacts
<1>2. channels' = channels /\ patterns' = patterns /\ subbed' = subbed /\ closed' = closed
  OBVIOUS
<1>3. conn[s].noting = {}
  BY SMTT(30) DEF Idle
<1>4. ConnInv'
  <2> SUFFICES ASSUME NEW t \in Subs
               PROVE  /\ conn'[t].at = "idle" => conn'[t] = Idle
                      /\ conn'[t].then = "close" =>
                           conn'[t].at = "drop" /\ subbed'[t] \subseteq conn'[t].todo \cup conn'[t].noting
                      /\ closed'[t] => conn'[t] = Idle /\ subbed'[t] = {}
    BY Zenon DEF ConnInv
  <2>1. CASE t = s
    <3>1. next.at # "idle"
      OBVIOUS
    <3> QED
      BY Zenon, <1>1, <1>2, <2>1, <3>1
  <2>2. CASE t # s
    BY ZenonT(40), <1>1, <1>2, <2>2 DEF BookInv, ConnInv
  <2> QED
    BY Zenon, <2>1, <2>2
<1>5. BooksAgree'
  <2> SUFFICES ASSUME NEW t \in Subs, NEW sub \in Subscriptions
               PROVE  InHub(t, sub)' <=> IF sub \in conn'[t].noting THEN conn'[t].at = "add"
                                         ELSE sub \in subbed'[t]
    BY Zenon DEF BooksAgree
  <2>1. InHub(t, sub)' <=> InHub(t, sub)
    BY Zenon, <1>2 DEF InHub
  <2>2. InHub(t, sub) <=> IF sub \in conn[t].noting THEN conn[t].at = "add" ELSE sub \in subbed[t]
    BY Zenon DEF BookInv, BooksAgree
  <2>3. CASE t = s
    BY Zenon, <1>1, <1>2, <1>3, <2>1, <2>2, <2>3
  <2>4. CASE t # s
    BY Zenon, <1>1, <1>2, <2>1, <2>2, <2>4
  <2> QED
    BY Zenon, <2>3, <2>4
<1> QED
  BY Zenon, <1>4, <1>5 DEF BookInv

(* The hub's half of a subscription: the hub is one subscription ahead. *)
LEMMA BookHub ==
  ASSUME HubTypeOK, BookInv, NEW s \in Subs, NEW sub \in Subscriptions,
         conn[s].at \in {"add", "drop"}, sub \in conn[s].todo, conn[s].noting = {},
         ConnGoes(s, [conn[s] EXCEPT !.todo = @ \ {sub}, !.noting = {sub}]),
         \A t \in Subs, x \in Subscriptions :
           InHub(t, x)' <=> IF t = s /\ x = sub THEN conn[s].at = "add" ELSE InHub(t, x),
         UNCHANGED <<subbed, closed>>
  PROVE  BookInv'
<1> DEFINE next == [conn[s] EXCEPT !.todo = @ \ {sub}, !.noting = {sub}]
<1>1. conn'[s] = next /\ \A t \in Subs : t # s => conn'[t] = conn[t]
  BY Zenon, ConnGoesFacts
<1>2. subbed' = subbed /\ closed' = closed
  OBVIOUS
<1>3. /\ next.at = conn[s].at /\ next.todo = conn[s].todo \ {sub} /\ next.then = conn[s].then
      /\ next.noting = {sub}
  BY Zenon DEF HubTypeOK, ConnState
<1> HIDE DEF next
<1>4. ConnInv'
  <2> SUFFICES ASSUME NEW t \in Subs
               PROVE  /\ conn'[t].at = "idle" => conn'[t] = Idle
                      /\ conn'[t].then = "close" =>
                           conn'[t].at = "drop" /\ subbed'[t] \subseteq conn'[t].todo \cup conn'[t].noting
                      /\ closed'[t] => conn'[t] = Idle /\ subbed'[t] = {}
    BY Zenon DEF ConnInv
  <2>1. CASE t = s
    <3>1. conn[s].at # "idle"
      OBVIOUS
    <3>2. /\ conn[s].then = "close" =>
               conn[s].at = "drop" /\ subbed[s] \subseteq conn[s].todo \cup conn[s].noting
          /\ closed[s] => conn[s] = Idle
      BY Zenon DEF BookInv, ConnInv
    <3>3. ~closed[s]
      <4>1. Idle.at = "idle"
        BY DEF Idle
      <4> QED
        BY Zenon, <3>1, <3>2, <4>1
    <3> QED
      BY Zenon, <1>1, <1>2, <1>3, <2>1, <3>1, <3>2, <3>3
  <2>2. CASE t # s
    BY Zenon, <1>1, <1>2, <2>2 DEF BookInv, ConnInv
  <2> QED
    BY Zenon, <2>1, <2>2
<1>5. BooksAgree'
  <2> SUFFICES ASSUME NEW t \in Subs, NEW x \in Subscriptions
               PROVE  InHub(t, x)' <=> IF x \in conn'[t].noting THEN conn'[t].at = "add"
                                       ELSE x \in subbed'[t]
    BY Zenon DEF BooksAgree
  <2>1. InHub(t, x)' <=> IF t = s /\ x = sub THEN conn[s].at = "add" ELSE InHub(t, x)
    BY Zenon
  <2>2. InHub(t, x) <=> IF x \in conn[t].noting THEN conn[t].at = "add" ELSE x \in subbed[t]
    BY Zenon DEF BookInv, BooksAgree
  <2>3. CASE t = s
    BY Zenon, <1>1, <1>2, <1>3, <2>1, <2>2, <2>3
  <2>4. CASE t # s
    BY Zenon, <1>1, <1>2, <2>1, <2>2, <2>4
  <2> QED
    BY Zenon, <2>3, <2>4
<1> QED
  BY Zenon, <1>4, <1>5 DEF BookInv

(* Steps that touch no books. *)
LEMMA BookSame ==
  ASSUME BookInv, UNCHANGED <<channels, patterns, subbed, closed, conn>>
  PROVE  BookInv'
<1>1. channels' = channels /\ patterns' = patterns /\ subbed' = subbed /\ closed' = closed /\ conn' = conn
  OBVIOUS
<1> QED
  BY ZenonT(60), <1>1 DEF BookInv, ConnInv, BooksAgree, InHub

(* The subscriber's half: it catches up with the hub. *)
LEMMA BookNote ==
  ASSUME HubTypeOK, BookInv, NEW s \in Subs, Note(s)
  PROVE  BookInv'
<1> DEFINE next == [conn[s] EXCEPT !.noting = {}]
<1>1. conn'[s] = next /\ \A t \in Subs : t # s => conn'[t] = conn[t]
  BY Zenon, ConnGoesFacts DEF Note
<1>2. channels' = channels /\ patterns' = patterns /\ closed' = closed
  BY DEF Note
<1>3. /\ subbed'[s] = IF conn[s].at = "add" THEN subbed[s] \cup conn[s].noting ELSE subbed[s] \ conn[s].noting
      /\ \A t \in Subs : t # s => subbed'[t] = subbed[t]
  BY Zenon DEF Note, HubTypeOK
<1>4. /\ next.at = conn[s].at /\ next.todo = conn[s].todo /\ next.then = conn[s].then
      /\ next.noting = {}
  BY Zenon DEF HubTypeOK, ConnState
<1> HIDE DEF next
<1>5. conn[s].at # "idle" /\ ~closed[s]
  <2>1. Idle.noting = {}
    BY DEF Idle
  <2> QED
    BY Zenon, <2>1 DEF Note, Noting, BookInv, ConnInv
<1>6. ConnInv'
  <2> SUFFICES ASSUME NEW t \in Subs
               PROVE  /\ conn'[t].at = "idle" => conn'[t] = Idle
                      /\ conn'[t].then = "close" =>
                           conn'[t].at = "drop" /\ subbed'[t] \subseteq conn'[t].todo \cup conn'[t].noting
                      /\ closed'[t] => conn'[t] = Idle /\ subbed'[t] = {}
    BY Zenon DEF ConnInv
  <2>1. CASE t = s
    <3>1. conn[s].then = "close" =>
            conn[s].at = "drop" /\ subbed[s] \subseteq conn[s].todo \cup conn[s].noting
      BY Zenon DEF BookInv, ConnInv
    <3>2. "drop" # "add"
      OBVIOUS
    <3> QED
      BY Zenon, <1>1, <1>2, <1>3, <1>4, <1>5, <2>1, <3>1, <3>2
  <2>2. CASE t # s
    BY Zenon, <1>1, <1>2, <1>3, <2>2 DEF BookInv, ConnInv
  <2> QED
    BY Zenon, <2>1, <2>2
<1>7. BooksAgree'
  <2> SUFFICES ASSUME NEW t \in Subs, NEW x \in Subscriptions
               PROVE  InHub(t, x)' <=> IF x \in conn'[t].noting THEN conn'[t].at = "add"
                                       ELSE x \in subbed'[t]
    BY Zenon DEF BooksAgree
  <2>1. InHub(t, x)' <=> InHub(t, x)
    BY Zenon, <1>2 DEF InHub
  <2>2. InHub(t, x) <=> IF x \in conn[t].noting THEN conn[t].at = "add" ELSE x \in subbed[t]
    BY Zenon DEF BookInv, BooksAgree
  <2>3. CASE t = s
    BY Zenon, <1>1, <1>3, <1>4, <2>1, <2>2, <2>3
  <2>4. CASE t # s
    BY Zenon, <1>1, <1>3, <2>1, <2>2, <2>4
  <2> QED
    BY Zenon, <2>3, <2>4
<1> QED
  BY Zenon, <1>6, <1>7 DEF BookInv

(* The end of a call, and of a connection: nothing is left to forget. *)
LEMMA BookFinish ==
  ASSUME HubTypeOK, BookInv, NEW s \in Subs, Finish(s)
  PROVE  BookInv'
<1>1. conn'[s] = Idle /\ \A t \in Subs : t # s => conn'[t] = conn[t]
  BY Zenon, ConnGoesFacts DEF Finish
<1>2. channels' = channels /\ patterns' = patterns
  BY DEF Finish
<1>3. Idle.noting = {} /\ Idle.at = "idle" /\ Idle.then = "idle"
  BY DEF Idle
<1>4. /\ conn[s].todo = {} /\ conn[s].noting = {} /\ conn[s].at # "idle"
      /\ conn[s].then = "close" => subbed[s] = {}
  <2>1. conn[s].todo = {} /\ conn[s].noting = {} /\ conn[s].at # "idle"
    BY Zenon DEF Finish, Noting
  <2> QED
    BY Zenon, <2>1 DEF BookInv, ConnInv
<1>5. subbed' = subbed
  <2>1. CASE conn[s].then = "close"
    <3>1. subbed' = [subbed EXCEPT ![s] = {}]
      BY Zenon, <2>1 DEF Finish
    <3> QED
      BY <1>4, <2>1, <3>1 DEF HubTypeOK
  <2>2. CASE conn[s].then # "close"
    BY <2>2 DEF Finish
  <2> QED
    BY <2>1, <2>2
<1>6. /\ \A t \in Subs : t # s => closed'[t] = closed[t]
      /\ closed'[s] => subbed[s] = {}
  <2>1. ~closed[s]
    BY Zenon, <1>3, <1>4 DEF BookInv, ConnInv
  <2>2. CASE conn[s].then = "close"
    <3>1. closed' = [closed EXCEPT ![s] = TRUE]
      BY Zenon, <2>2 DEF Finish
    <3> QED
      BY Zenon, <1>4, <2>2, <3>1 DEF HubTypeOK
  <2>3. CASE conn[s].then # "close"
    <3>1. closed' = closed
      BY Zenon, <2>3 DEF Finish
    <3> QED
      BY Zenon, <2>1, <3>1
  <2> QED
    BY Zenon, <2>2, <2>3
<1>7. ConnInv'
  <2> SUFFICES ASSUME NEW t \in Subs
               PROVE  /\ conn'[t].at = "idle" => conn'[t] = Idle
                      /\ conn'[t].then = "close" =>
                           conn'[t].at = "drop" /\ subbed'[t] \subseteq conn'[t].todo \cup conn'[t].noting
                      /\ closed'[t] => conn'[t] = Idle /\ subbed'[t] = {}
    BY ZenonT(40) DEF ConnInv
  <2>1. CASE t = s
    <3>1. "idle" # "close"
      OBVIOUS
    <3> QED
      BY Zenon, <1>1, <1>3, <1>5, <1>6, <2>1, <3>1
  <2>2. CASE t # s
    BY Zenon, <1>1, <1>5, <1>6, <2>2 DEF BookInv, ConnInv
  <2> QED
    BY ZenonT(40), <2>1, <2>2
<1>8. BooksAgree'
  <2> SUFFICES ASSUME NEW t \in Subs, NEW x \in Subscriptions
               PROVE  InHub(t, x)' <=> IF x \in conn'[t].noting THEN conn'[t].at = "add"
                                       ELSE x \in subbed'[t]
    BY ZenonT(40) DEF BooksAgree
  <2>1. InHub(t, x)' <=> InHub(t, x)
    BY Zenon, <1>2 DEF InHub
  <2>2. InHub(t, x) <=> IF x \in conn[t].noting THEN conn[t].at = "add" ELSE x \in subbed[t]
    BY ZenonT(40) DEF BookInv, BooksAgree
  <2>3. CASE t = s
    BY Zenon, <1>1, <1>3, <1>4, <1>5, <2>1, <2>2, <2>3
  <2>4. CASE t # s
    BY Zenon, <1>1, <1>5, <2>1, <2>2, <2>4
  <2> QED
    BY ZenonT(40), <2>3, <2>4
<1> QED
  BY ZenonT(40), <1>7, <1>8 DEF BookInv

\* PSubscribe and PUnsubscribe on the hub's list.
NewList(s, pat) == IF conn[s].at = "add" THEN WithEntry(patterns, Entry(s, pat))
                   ELSE WithoutEntry(patterns, Entry(s, pat))

(* The new list differs from the old one in one entry, and repeats none. *)
LEMMA NewListFacts ==
  ASSUME HubTypeOK, NEW s \in Subs, NEW pat \in Patterns
  PROVE  /\ conn[s].at = "add" => Range(NewList(s, pat)) = Range(patterns) \cup {Entry(s, pat)}
         /\ conn[s].at # "add" => Range(NewList(s, pat)) = Range(patterns) \ {Entry(s, pat)}
         /\ Distinct(patterns) => Distinct(NewList(s, pat))
<1> DEFINE e == Entry(s, pat)
<1>1. e \in PatternEntry /\ patterns \in Seq(PatternEntry)
  BY DEF Entry, PatternEntry, HubTypeOK
<1> HIDE DEF e
<1>2. /\ Range(Append(patterns, e)) = Range(patterns) \cup {e}
      /\ Distinct(patterns) /\ e \notin Range(patterns) => Distinct(Append(patterns, e))
  BY SMT, <1>1, AppendFacts
<1>3. ASSUME NEW set
      PROVE  /\ Range(Keeping(patterns, set)) = Range(patterns) \cap set
             /\ Distinct(patterns) => Distinct(Keeping(patterns, set))
  BY Zenon, <1>1, KeepingFacts
<1>4. CASE conn[s].at = "add" /\ e \in Range(patterns)
  <2>1. NewList(s, pat) = patterns
    BY Zenon, <1>4 DEF NewList, WithEntry, e
  <2> QED
    BY Zenon, <1>4, <2>1 DEF e
<1>5. CASE conn[s].at = "add" /\ e \notin Range(patterns)
  <2>1. NewList(s, pat) = Append(patterns, e)
    BY Zenon, <1>5 DEF NewList, WithEntry, e
  <2> QED
    BY Zenon, <1>2, <1>5, <2>1 DEF e
<1>6. CASE conn[s].at # "add"
  <2>1. NewList(s, pat) = Keeping(patterns, Range(patterns) \ {e})
    BY Zenon, <1>6 DEF NewList, WithoutEntry, e
  <2>2. Range(patterns) \cap (Range(patterns) \ {e}) = Range(patterns) \ {e}
    BY Zenon
  <2> QED
    BY Zenon, <1>3, <1>6, <2>1, <2>2 DEF e
<1> QED
  BY Zenon, <1>4, <1>5, <1>6

(* Every step keeps the books. *)
LEMMA BookStep == HubTypeOK /\ BookInv /\ HubNext => BookInv'
<1> SUFFICES ASSUME HubTypeOK, BookInv, HubNext
             PROVE  BookInv'
  OBVIOUS
<1>1. ASSUME NEW s \in Subs, NEW what \in {"add", "drop"}, NEW sub \in Channels \cup Patterns,
             Call(s, what, sub)
      PROVE  BookInv'
  <2> DEFINE next == [at |-> what, todo |-> {sub}, then |-> "idle", noting |-> {}]
  <2>1. next.at \in {"add", "drop"} /\ next.noting = {} /\ next.then # "close"
    OBVIOUS
  <2>2. ConnGoes(s, next) /\ conn[s] = Idle /\ ~closed[s]
    BY Zenon, <1>1 DEF Call
  <2>3. UNCHANGED <<channels, patterns, subbed, closed>>
    BY <1>1 DEF Call
  <2> HIDE DEF next
  <2> QED
    BY Zenon, <2>1, <2>2, <2>3, BookCall
<1>2. ASSUME NEW s \in Subs, CallUnsubscribeAll(s) \/ Disconnect(s)
      PROVE  BookInv'
  <2>1. PICK then : UnsubscribeAll(s, then)
    BY Zenon, <1>2 DEF CallUnsubscribeAll, Disconnect
  <2> DEFINE next == [at |-> "drop", todo |-> subbed[s], then |-> then, noting |-> {}]
  <2>2. next.at = "drop" /\ next.at \in {"add", "drop"} /\ next.noting = {} /\ subbed[s] \subseteq next.todo
    OBVIOUS
  <2>3. ConnGoes(s, next) /\ conn[s] = Idle /\ ~closed[s]
    BY Zenon, <1>2, <2>1 DEF CallUnsubscribeAll, Disconnect, UnsubscribeAll
  <2>4. UNCHANGED <<channels, patterns, subbed, closed>>
    BY <1>2 DEF CallUnsubscribeAll, Disconnect
  <2> HIDE DEF next
  <2> QED
    BY Zenon, <2>2, <2>3, <2>4, BookCall
<1>3. ASSUME NEW s \in Subs, HubChannel(s)
      PROVE  BookInv'
  <2>1. PICK ch \in Channels :
          /\ conn[s].at \in {"add", "drop"} /\ ch \in conn[s].todo /\ ~Noting(s)
          /\ channels' = [channels EXCEPT ![ch] = IF conn[s].at = "add" THEN @ \cup {s} ELSE @ \ {s}]
          /\ ConnGoes(s, [conn[s] EXCEPT !.todo = @ \ {ch}, !.noting = {ch}])
    BY Zenon, <1>3 DEF HubChannel
  <2>2. patterns' = patterns /\ UNCHANGED <<subbed, closed>>
    BY <1>3 DEF HubChannel
  <2>3. ASSUME NEW t \in Subs, NEW x \in Subscriptions
        PROVE  InHub(t, x)' <=> IF t = s /\ x = ch THEN conn[s].at = "add" ELSE InHub(t, x)
    <3>1. CASE x \notin Channels
      BY Zenon, <2>2, <3>1 DEF InHub
    <3>2. CASE x = ch
      <4>1. channels'[ch] = IF conn[s].at = "add" THEN channels[ch] \cup {s} ELSE channels[ch] \ {s}
        BY Zenon, <2>1 DEF HubTypeOK
      <4> QED
        BY Zenon, <3>2, <4>1 DEF InHub
    <3>3. CASE x \in Channels /\ x # ch
      <4>1. channels'[x] = channels[x]
        BY Zenon, <2>1, <3>3 DEF HubTypeOK
      <4> QED
        BY Zenon, <3>3, <4>1 DEF InHub
    <3> QED
      BY Zenon, <3>1, <3>2, <3>3
  <2>4. ch \in Subscriptions /\ conn[s].noting = {}
    BY Zenon, <2>1 DEF Noting, Subscriptions
  <2> QED
    BY Zenon, <2>1, <2>2, <2>3, <2>4, BookHub
<1>4. ASSUME NEW s \in Subs, HubPattern(s)
      PROVE  BookInv'
  <2>1. PICK pat \in Patterns :
          /\ conn[s].at \in {"add", "drop"} /\ pat \in conn[s].todo /\ ~Noting(s)
          /\ patterns' = NewList(s, pat)
          /\ ConnGoes(s, [conn[s] EXCEPT !.todo = @ \ {pat}, !.noting = {pat}])
    BY Zenon, <1>4 DEF HubPattern, NewList
  <2>2. channels' = channels /\ UNCHANGED <<subbed, closed>>
    BY <1>4 DEF HubPattern
  <2>3. pat \in Subscriptions /\ conn[s].noting = {} /\ pat \notin Channels
    BY Zenon, <2>1, KindsDiffer DEF Noting, Subscriptions
  <2>4. /\ conn[s].at = "add" => Range(patterns') = Range(patterns) \cup {Entry(s, pat)}
        /\ conn[s].at # "add" => Range(patterns') = Range(patterns) \ {Entry(s, pat)}
    BY Zenon, <2>1, NewListFacts
  <2>5. ASSUME NEW t \in Subs, NEW x \in Subscriptions
        PROVE  InHub(t, x)' <=> IF t = s /\ x = pat THEN conn[s].at = "add" ELSE InHub(t, x)
    <3>1. CASE x \in Channels
      BY Zenon, <2>2, <2>3, <3>1 DEF InHub
    <3>2. CASE x \notin Channels
      <4>1. Entry(t, x) = Entry(s, pat) <=> t = s /\ x = pat
        BY Zenon, EntryIsOne
      <4>2. Entry(t, x) \in Range(patterns') <=>
              IF t = s /\ x = pat THEN conn[s].at = "add" ELSE Entry(t, x) \in Range(patterns)
        BY Zenon, <2>4, <4>1
      <4> QED
        BY Zenon, <3>2, <4>2 DEF InHub
    <3> QED
      BY Zenon, <3>1, <3>2
  <2> QED
    BY Zenon, <2>1, <2>2, <2>3, <2>5, BookHub
<1>5. ASSUME NEW s \in Subs, Note(s) \/ Finish(s)
      PROVE  BookInv'
  BY Zenon, <1>5, BookNote, BookFinish
<1>6. ASSUME NEW s \in Subs, Drain(s)
      PROVE  BookInv'
  <2>1. UNCHANGED <<channels, patterns, subbed, closed, conn>>
    BY <1>6 DEF Drain
  <2> QED
    BY Zenon, <2>1, BookSame
<1>7. ASSUME NEW p \in Publishers, NEW ch \in Channels,
             Publish(p, ch) \/ ToChannel(p) \/ LoadPatterns(p) \/ ToPattern(p) \/ Answer(p)
      PROVE  BookInv'
  <2>1. UNCHANGED <<channels, patterns, subbed, closed, conn>>
    BY ZenonT(60), <1>7 DEF Publish, ToChannel, LoadPatterns, ToPattern, Answer
  <2> QED
    BY ZenonT(60), <2>1, BookSame
<1>8. ASSUME NEW p \in Publishers, ToChannel(p) \/ LoadPatterns(p) \/ ToPattern(p) \/ Answer(p)
      PROVE  BookInv'
  <2>1. UNCHANGED <<channels, patterns, subbed, closed, conn>>
    BY ZenonT(60), <1>8 DEF ToChannel, LoadPatterns, ToPattern, Answer
  <2> QED
    BY ZenonT(40), <2>1, BookSame
<1> QED
  BY Zenon, <1>1, <1>2, <1>3, <1>4, <1>5, <1>6, <1>7, <1>8 DEF HubNext

-----------------------------------------------------------------------------
(* Publishers.                                                             *)

\* A step leaves the publisher where it is.
Stays(p) ==
  /\ pub'[p].at = pub[p].at /\ pub'[p].n = pub[p].n
  /\ pub[p].at # "idle" => /\ pub'[p].ch = pub[p].ch /\ pub'[p].todo = pub[p].todo
                           /\ pub'[p].sent = pub[p].sent /\ pub'[p].full = pub[p].full
                           /\ pub'[p].list = pub[p].list /\ pub'[p].owed \subseteq pub[p].owed

(* Letting off takes the debts to one subscriber away. *)
LEMMA ExcuseFacts ==
  ASSUME HubTypeOK, NEW s, Excuse(s), NEW p \in Publishers
  PROVE  Stays(p) /\ (pub[p].at # "idle" => \A o \in pub'[p].owed : o[1] # s)
<1>1. CASE pub[p].at = "idle"
  <2>1. pub'[p] = pub[p]
    BY Zenon, <1>1 DEF Excuse
  <2> QED
    BY Zenon, <1>1, <2>1 DEF Stays
<1>2. CASE pub[p].at # "idle"
  <2>1. pub'[p] = [pub[p] EXCEPT !.owed = {o \in @ : o[1] # s}]
    BY Zenon, <1>2 DEF Excuse
  <2>2. pub[p] \in Busy
    BY ZenonT(40), <1>2, BusyFacts
  <2> DEFINE q == [pub[p] EXCEPT !.owed = {o \in @ : o[1] # s}]
  <2>3. /\ q.at = pub[p].at /\ q.n = pub[p].n /\ q.ch = pub[p].ch /\ q.todo = pub[p].todo
        /\ q.sent = pub[p].sent /\ q.full = pub[p].full /\ q.list = pub[p].list
        /\ q.owed = {o \in pub[p].owed : o[1] # s}
    BY Zenon, <2>2 DEF Busy
  <2> HIDE DEF q
  <2> QED
    BY Zenon, <2>1, <2>3 DEF Stays, q
<1> QED
  BY Zenon, <1>1, <1>2

(* Where the publisher stays, what is past stays past. *)
LEMMA PastStays ==
  ASSUME NEW p, Stays(p), NEW s, NEW m, Past(pub[p], s, m)
  PROVE  Past(pub'[p], s, m)
<1>1. CASE pub[p].at = "idle"
  <2>1. pub'[p].at # "channel" /\ pub'[p].at # "pattern" /\ pub'[p].n = pub[p].n
    BY <1>1 DEF Stays
  <2> QED
    BY Zenon, <2>1 DEF Past
<1>2. CASE pub[p].at # "idle"
  BY Zenon, <1>2 DEF Stays, Past
<1> QED
  BY Zenon, <1>1, <1>2

(* The queues are left alone. *)
LEMMA SentSame ==
  ASSUME HubTypeOK, SentInv, InOrderOnce, queue' = queue,
         \A s \in Subs, m \in Message : Past(pub[m.p], s, m) => Past(pub'[m.p], s, m)
  PROVE  SentInv' /\ InOrderOnce'
<1>1. ASSUME NEW s \in Subs, NEW i \in DOMAIN queue[s]
      PROVE  Past(pub'[queue[s][i].p], s, queue[s][i])
  <2>1. queue[s][i] \in Message
    BY SMT DEF HubTypeOK
  <2>2. Past(pub[queue[s][i].p], s, queue[s][i])
    BY Zenon DEF SentInv
  <2> QED
    BY Zenon, <2>1, <2>2
<1>2. SentInv'
  BY Zenon, <1>1 DEF SentInv
<1>3. InOrderOnce'
  BY ZenonT(40) DEF InOrderOnce
<1> QED
  BY Zenon, <1>2, <1>3

(* One message more at the end of a queue: it is new, and not older than   *)
(* what the publisher sent before.                                         *)
LEMMA SentTry ==
  ASSUME HubTypeOK, SentInv, InOrderOnce,
         NEW p \in Publishers, NEW s \in Subs, NEW sub \in Subscriptions, TrySend(p, s, sub),
         \A t \in Subs, m \in Message : Past(pub[m.p], t, m) => Past(pub'[m.p], t, m),
         ~Past(pub[p], s, [p |-> p, n |-> pub[p].n, via |-> sub]),
         Past(pub'[p], s, [p |-> p, n |-> pub[p].n, via |-> sub])
  PROVE  SentInv' /\ InOrderOnce'
<1> DEFINE new == [p |-> p, n |-> pub[p].n, via |-> sub]
<1>1. pub[p].n \in Nat
  BY Zenon DEF HubTypeOK, Resting, Busy
<1>2. new \in Message /\ new.p = p /\ new.n = pub[p].n
  BY SMTT(30), <1>1 DEF Message
<1>3. ~Past(pub[p], s, new) /\ Past(pub'[p], s, new)
  OBVIOUS
<1>4. queue' = IF MaySend(s) THEN [queue EXCEPT ![s] = Append(@, new)] ELSE queue
  BY Zenon DEF TrySend
<1> HIDE DEF new
<1>5. CASE ~MaySend(s)
  <2>1. queue' = queue
    BY Zenon, <1>4, <1>5
  <2> QED
    BY Zenon, <2>1, SentSame
<1>6. CASE MaySend(s)
  <2> DEFINE q == queue[s]
  <2>1. q \in Seq(Message)
    BY Zenon DEF HubTypeOK
  <2>2. queue'[s] = Append(q, new) /\ \A t \in Subs : t # s => queue'[t] = queue[t]
    BY Zenon, <1>4, <1>6 DEF HubTypeOK
  <2>3. ASSUME NEW i \in DOMAIN q
        PROVE  q[i] \in Message /\ Past(pub[q[i].p], s, q[i])
    <3>1. q[i] \in Message
      BY SMTT(30), <2>1
    <3> QED
      BY Zenon, <3>1 DEF SentInv
  <2> HIDE DEF q
  <2>4. /\ DOMAIN Append(q, new) = 1 .. Len(q) + 1 /\ DOMAIN q = 1 .. Len(q) /\ Len(q) \in Nat
        /\ Append(q, new)[Len(q) + 1] = new
        /\ \A i \in 1 .. Len(q) : Append(q, new)[i] = q[i]
    BY SMTT(30), <1>2, <2>1
  <2>5. \A i \in 1 .. Len(q) + 1 : i \in 1 .. Len(q) \/ i = Len(q) + 1
    BY <2>4
  <2>6. ASSUME NEW t \in Subs, NEW i \in DOMAIN queue'[t]
        PROVE  Past(pub'[queue'[t][i].p], t, queue'[t][i])
    <3>1. CASE t # s
      <4>1. queue'[t] = queue[t]
        BY Zenon, <2>2, <3>1
      <4>2. queue[t][i] \in Message
        BY SMT, <4>1 DEF HubTypeOK
      <4>3. Past(pub[queue[t][i].p], t, queue[t][i])
        BY Zenon, <4>1 DEF SentInv
      <4> QED
        BY Zenon, <4>1, <4>2, <4>3
    <3>2. CASE t = s /\ i \in 1 .. Len(q)
      <4>1. queue'[t][i] = q[i] /\ i \in DOMAIN q
        BY Zenon, <2>2, <2>4, <3>2
      <4> QED
        BY Zenon, <2>3, <3>2, <4>1
    <3>3. CASE t = s /\ i = Len(q) + 1
      <4>1. queue'[t][i] = new
        BY Zenon, <2>2, <2>4, <3>3
      <4> QED
        BY Zenon, <1>2, <1>3, <3>3, <4>1
    <3> QED
      BY Zenon, <2>2, <2>4, <2>5, <3>1, <3>2, <3>3
  <2>7. ASSUME NEW t \in Subs, NEW i \in DOMAIN queue'[t], NEW j \in DOMAIN queue'[t],
               i < j, queue'[t][i].p = queue'[t][j].p
        PROVE  queue'[t][i].n <= queue'[t][j].n /\ queue'[t][i] # queue'[t][j]
    <3>1. CASE t # s
      <4>1. queue'[t] = queue[t]
        BY Zenon, <2>2, <3>1
      <4> QED
        BY Zenon, <2>7, <4>1 DEF InOrderOnce
    <3>2. CASE t = s /\ j \in 1 .. Len(q)
      <4>1. i \in 1 .. Len(q)
        BY <2>2, <2>4, <2>7, <3>2
      <4>2. queue'[t][i] = q[i] /\ queue'[t][j] = q[j] /\ i \in DOMAIN q /\ j \in DOMAIN q
        BY Zenon, <2>2, <2>4, <3>2, <4>1
      <4> QED
        BY Zenon, <2>7, <4>2 DEF InOrderOnce, q
    <3>3. CASE t = s /\ j = Len(q) + 1
      <4>1. i \in 1 .. Len(q)
        BY <2>2, <2>4, <2>7, <3>3
      <4>2. queue'[t][i] = q[i] /\ queue'[t][j] = new /\ i \in DOMAIN q
        BY Zenon, <2>2, <2>4, <3>3, <4>1
      <4>3. q[i].p = p
        BY Zenon, <1>2, <2>7, <4>2
      <4>4. Past(pub[p], s, q[i])
        BY Zenon, <2>3, <4>2, <4>3
      <4>5. q[i].n <= pub[p].n
        BY Zenon, <4>4 DEF Past
      <4>6. q[i] # new
        BY Zenon, <1>3, <4>4
      <4> QED
        BY Zenon, <1>2, <4>2, <4>5, <4>6
    <3> QED
      BY Zenon, <2>2, <2>4, <2>5, <3>1, <3>2, <3>3
  <2> QED
    BY Zenon, <2>6, <2>7 DEF SentInv, InOrderOnce
<1> QED
  BY Zenon, <1>5, <1>6

(* The writer goroutine takes the first message out. *)
LEMMA SentDrain ==
  ASSUME HubTypeOK, SentInv, InOrderOnce, NEW s \in Subs, Drain(s)
  PROVE  SentInv' /\ InOrderOnce'
<1> DEFINE q == queue[s]
<1>1. q \in Seq(Message) /\ q # <<>>
  BY Zenon DEF HubTypeOK, Drain
<1>2. /\ queue'[s] = Tail(q) /\ (\A t \in Subs : t # s => queue'[t] = queue[t])
      /\ pub' = pub
  BY Zenon DEF HubTypeOK, Drain
<1> HIDE DEF q
<1>3. /\ DOMAIN Tail(q) \subseteq Int
      /\ \A i \in DOMAIN Tail(q) : i + 1 \in DOMAIN q /\ Tail(q)[i] = q[i + 1]
  <2>1. DOMAIN Tail(q) \subseteq Int
    BY SMT, <1>1
  <2> QED
    BY Zenon, <1>1, <2>1, TailFacts
<1>4. ASSUME NEW t \in Subs, NEW i \in DOMAIN queue'[t]
      PROVE  Past(pub'[queue'[t][i].p], t, queue'[t][i])
  <2>1. CASE t = s
    <3>1. i + 1 \in DOMAIN q /\ queue'[t][i] = q[i + 1]
      BY Zenon, <1>2, <1>3, <2>1
    <3> QED
      BY Zenon, <1>2, <2>1, <3>1 DEF SentInv, q
  <2>2. CASE t # s
    BY Zenon, <1>2, <2>2 DEF SentInv
  <2> QED
    BY Zenon, <2>1, <2>2
<1>5. ASSUME NEW t \in Subs, NEW i \in DOMAIN queue'[t], NEW j \in DOMAIN queue'[t],
             i < j, queue'[t][i].p = queue'[t][j].p
      PROVE  queue'[t][i].n <= queue'[t][j].n /\ queue'[t][i] # queue'[t][j]
  <2>1. CASE t = s
    <3>1. /\ i + 1 \in DOMAIN q /\ queue'[t][i] = q[i + 1]
          /\ j + 1 \in DOMAIN q /\ queue'[t][j] = q[j + 1]
      BY Zenon, <1>2, <1>3, <2>1
    <3>2. i + 1 < j + 1
      <4>1. i \in Int /\ j \in Int
        BY Zenon, <1>2, <1>3, <2>1
      <4> QED
        BY <1>5, <4>1
    <3> QED
      BY ZenonT(60), <1>5, <2>1, <3>1, <3>2 DEF InOrderOnce, q
  <2>2. CASE t # s
    <3>1. queue'[t] = queue[t]
      BY Zenon, <1>2, <2>2
    <3> QED
      BY Zenon, <1>5, <3>1 DEF InOrderOnce
  <2> QED
    BY Zenon, <2>1, <2>2
<1> QED
  BY Zenon, <1>4, <1>5 DEF SentInv, InOrderOnce

(* Publishers stay where they are, and what they owe is not given up. *)
LEMMA OwedStays ==
  ASSUME HubTypeOK, ListsDistinct, OwedInv, Distinct(patterns'), \A p \in Publishers : Stays(p),
         \A p \in Publishers : pub[p].at # "idle" => \A o \in pub'[p].owed :
           /\ conn'[o[1]].at # "drop"
           /\ Entry(o[1], o[2]) \in Range(patterns) => Entry(o[1], o[2]) \in Range(patterns')
  PROVE  ListsDistinct' /\ OwedInv'
<1>1. ASSUME NEW p \in Publishers, pub'[p].at = "pattern"
      PROVE  Distinct(pub'[p].list)
  <2>1. Stays(p)
    BY Zenon
  <2>2. pub[p].at = "pattern" /\ pub[p].at # "idle"
    BY <1>1, <2>1 DEF Stays
  <2>3. Distinct(pub[p].list)
    BY Zenon, <2>2 DEF ListsDistinct
  <2> QED
    BY Zenon, <2>1, <2>2, <2>3 DEF Stays
<1>2. ASSUME NEW p \in Publishers, pub'[p].at # "idle", NEW o \in pub'[p].owed
      PROVE  conn'[o[1]].at # "drop" /\ Due(pub'[p], Range(patterns'), o)
  <2>1. Stays(p) /\ pub[p].at # "idle"
    BY Zenon, <1>2 DEF Stays
  <2>2. /\ pub'[p].at = pub[p].at /\ pub'[p].ch = pub[p].ch /\ pub'[p].todo = pub[p].todo
        /\ pub'[p].sent = pub[p].sent /\ pub'[p].full = pub[p].full
        /\ pub'[p].list = pub[p].list /\ pub'[p].owed \subseteq pub[p].owed
    BY Zenon, <2>1 DEF Stays
  <2>3. Due(pub[p], Range(patterns), o)
    BY Zenon, <2>1, <2>2 DEF OwedInv
  <2>4. /\ conn'[o[1]].at # "drop"
        /\ Entry(o[1], o[2]) \in Range(patterns) => Entry(o[1], o[2]) \in Range(patterns')
    BY Zenon, <2>1
  <2> DEFINE pats == Range(patterns)
             npats == Range(patterns')
             e == Entry(o[1], o[2])
  <2> HIDE DEF pats, npats, e
  <2>5. Due(pub[p], pats, o) /\ (e \in pats => e \in npats)
    BY Zenon, <2>3, <2>4 DEF pats, npats, e
  <2>6. Due(pub'[p], npats, o)
    BY Zenon, <2>2, <2>5 DEF Due, e
  <2> QED
    BY Zenon, <2>4, <2>6 DEF npats
<1> QED
  BY Zenon, <1>1, <1>2 DEF ListsDistinct, OwedInv

(* One publisher goes on. *)
LEMMA OwedOne ==
  ASSUME HubTypeOK, ListsDistinct, OwedInv, NEW p \in Publishers, NEW r, pub' = [pub EXCEPT ![p] = r],
         patterns' = patterns, conn' = conn,
         r.at = "pattern" => Distinct(r.list),
         r.at # "idle" => \A o \in r.owed : conn[o[1]].at # "drop" /\ Due(r, Range(patterns), o)
  PROVE  ListsDistinct' /\ OwedInv'
<1>1. pub'[p] = r /\ \A q \in Publishers : q # p => pub'[q] = pub[q]
  BY Zenon DEF HubTypeOK
<1>2. ASSUME NEW q \in Publishers, pub'[q].at = "pattern"
      PROVE  Distinct(pub'[q].list)
  <2>1. CASE q = p
    BY Zenon, <1>1, <1>2, <2>1
  <2>2. CASE q # p
    BY Zenon, <1>1, <1>2, <2>2 DEF ListsDistinct
  <2> QED
    BY Zenon, <2>1, <2>2
<1>3. ASSUME NEW q \in Publishers, pub'[q].at # "idle", NEW o \in pub'[q].owed
      PROVE  conn[o[1]].at # "drop" /\ Due(pub'[q], Range(patterns), o)
  <2>1. CASE q = p
    BY Zenon, <1>1, <1>3, <2>1
  <2>2. CASE q # p
    BY Zenon, <1>1, <1>3, <2>2 DEF OwedInv
  <2> QED
    BY Zenon, <2>1, <2>2
<1>4. Distinct(patterns')
  BY Zenon DEF ListsDistinct
<1> QED
  BY Zenon, <1>2, <1>3, <1>4 DEF ListsDistinct, OwedInv

(* What is past stays past when one publisher goes on. *)
LEMMA PastOne ==
  ASSUME HubTypeOK, NEW p \in Publishers, NEW r, pub' = [pub EXCEPT ![p] = r],
         \A s \in Subs, m \in Message : Past(pub[p], s, m) => Past(r, s, m)
  PROVE  \A s \in Subs, m \in Message : Past(pub[m.p], s, m) => Past(pub'[m.p], s, m)
<1>1. pub'[p] = r /\ \A q \in Publishers : q # p => pub'[q] = pub[q]
  BY Zenon DEF HubTypeOK
<1> SUFFICES ASSUME NEW s \in Subs, NEW m \in Message, Past(pub[m.p], s, m)
             PROVE  Past(pub'[m.p], s, m)
  BY Zenon
<1>2. m.p \in Publishers
  BY DEF Message
<1>3. CASE m.p = p
  BY Zenon, <1>1, <1>3
<1>4. CASE m.p # p
  BY Zenon, <1>1, <1>2, <1>4
<1> QED
  BY Zenon, <1>3, <1>4

(* A connection's step, the publishers staying where they are. *)
LEMMA SendConn ==
  ASSUME HubTypeOK, SendInv, queue' = queue, Distinct(patterns'), \A p \in Publishers : Stays(p),
         \A p \in Publishers : pub[p].at # "idle" => \A o \in pub'[p].owed :
           /\ conn'[o[1]].at # "drop"
           /\ Entry(o[1], o[2]) \in Range(patterns) => Entry(o[1], o[2]) \in Range(patterns')
  PROVE  SendInv'
<1>1. ListsDistinct' /\ OwedInv'
  BY Zenon, OwedStays DEF SendInv
<1>2. ASSUME NEW s \in Subs, NEW m \in Message, Past(pub[m.p], s, m)
      PROVE  Past(pub'[m.p], s, m)
  <2>1. m.p \in Publishers
    BY DEF Message
  <2>2. Stays(m.p)
    BY Zenon, <2>1
  <2> DEFINE p == m.p
  <2> HIDE DEF p
  <2>3. Stays(p) /\ Past(pub[p], s, m)
    BY Zenon, <1>2, <2>2 DEF p
  <2>4. Past(pub'[p], s, m)
    BY Zenon, <2>3, PastStays
  <2> QED
    BY Zenon, <2>4 DEF p
<1>3. SentInv' /\ InOrderOnce'
  BY Zenon, <1>2, SentSame DEF SendInv
<1> QED
  BY Zenon, <1>1, <1>3 DEF SendInv

(* A publisher that did not move. *)
LEMMA StaysSame ==
  ASSUME pub' = pub, NEW p
  PROVE  Stays(p)
BY Zenon DEF Stays

(* What is owed, to whom, and that the subscription matches. *)
LEMMA OwedFacts ==
  ASSUME HubTypeOK, NEW p \in Publishers, pub[p].at # "idle", NEW o \in pub[p].owed
  PROVE  o = <<o[1], o[2]>> /\ o[1] \in Subs /\ o[2] \in Subscriptions
<1>1. o \in Subs \X Subscriptions
  <2>1. pub[p] \in Busy
    BY Zenon, BusyFacts
  <2> QED
    BY Zenon, <2>1 DEF Busy
<1> QED
  BY <1>1

(* The connections' steps keep the invariants on messages. *)
LEMMA SendStepConn ==
  ASSUME HubTypeOK, BookInv, SendInv, NEW s \in Subs,
         \/ \E sub \in Channels \cup Patterns, what \in {"add", "drop"} : Call(s, what, sub)
         \/ CallUnsubscribeAll(s) \/ Disconnect(s)
         \/ HubChannel(s) \/ HubPattern(s) \/ Note(s) \/ Finish(s) \/ Drain(s)
  PROVE  SendInv'
<1>0. Distinct(patterns) /\ ListsDistinct /\ OwedInv /\ SentInv /\ InOrderOnce
  BY Zenon DEF SendInv, ListsDistinct
<1>1. ASSUME Excuse(s), \A t \in Subs : t # s => conn'[t] = conn[t], queue' = queue, patterns' = patterns
      PROVE  SendInv'
  <2>1. ASSUME NEW p \in Publishers
        PROVE  Stays(p) /\ (pub[p].at # "idle" => \A o \in pub'[p].owed : o[1] # s)
    BY Zenon, <1>1, ExcuseFacts
  <2>2. ASSUME NEW p \in Publishers, pub[p].at # "idle", NEW o \in pub'[p].owed
        PROVE  conn'[o[1]].at # "drop"
    <3>1. o \in pub[p].owed /\ o[1] # s
      BY Zenon, <2>1, <2>2 DEF Stays
    <3>2. o[1] \in Subs /\ conn[o[1]].at # "drop"
      BY Zenon, <1>0, <2>2, <3>1, OwedFacts DEF OwedInv
    <3> QED
      BY Zenon, <1>1, <3>1, <3>2
  <2>3. \A p \in Publishers : Stays(p)
    BY Zenon, <2>1
  <2>4. Distinct(patterns')
    BY Zenon, <1>0, <1>1
  <2> QED
    BY Zenon, <1>1, <2>2, <2>3, <2>4, SendConn
<1>2. ASSUME pub' = pub, queue' = queue, patterns' = patterns,
             \A t \in Subs : conn'[t].at = conn[t].at \/ conn'[t].at # "drop"
      PROVE  SendInv'
  <2>1. \A p \in Publishers : Stays(p)
    BY Zenon, <1>2, StaysSame
  <2>2. ASSUME NEW p \in Publishers, pub[p].at # "idle", NEW o \in pub'[p].owed
        PROVE  conn'[o[1]].at # "drop"
    <3>1. o \in pub[p].owed
      BY Zenon, <1>2
    <3>2. o[1] \in Subs /\ conn[o[1]].at # "drop"
      BY Zenon, <1>0, <2>2, <3>1, OwedFacts DEF OwedInv
    <3> QED
      BY Zenon, <1>2, <3>2
  <2>3. Distinct(patterns')
    BY Zenon, <1>0, <1>2
  <2> QED
    BY Zenon, <1>2, <2>1, <2>2, <2>3, SendConn
<1>3. ASSUME NEW what \in {"add", "drop"}, NEW sub \in Channels \cup Patterns, Call(s, what, sub)
      PROVE  SendInv'
  <2> DEFINE next == [at |-> what, todo |-> {sub}, then |-> "idle", noting |-> {}]
  <2>1. conn'[s] = next /\ \A t \in Subs : t # s => conn'[t] = conn[t]
    BY ZenonT(40), <1>3, ConnGoesFacts DEF Call
  <2>2. queue' = queue /\ patterns' = patterns
    BY <1>3 DEF Call
  <2>3. next.at = what
    OBVIOUS
  <2>4. CASE what = "drop"
    <3>1. Excuse(s)
      BY Zenon, <1>3, <2>4 DEF Call
    <3> QED
      BY Zenon, <1>1, <2>1, <2>2, <3>1
  <2>5. CASE what # "drop"
    <3>1. pub' = pub
      BY Zenon, <1>3, <2>5 DEF Call
    <3> QED
      BY Zenon, <1>2, <2>1, <2>2, <2>3, <2>5, <3>1
  <2> QED
    BY Zenon, <2>4, <2>5
<1>4. ASSUME CallUnsubscribeAll(s) \/ Disconnect(s)
      PROVE  SendInv'
  <2>1. PICK then : UnsubscribeAll(s, then)
    BY Zenon, <1>4 DEF CallUnsubscribeAll, Disconnect
  <2>2. Excuse(s) /\ \A t \in Subs : t # s => conn'[t] = conn[t]
    BY Zenon, <2>1, ConnGoesFacts DEF UnsubscribeAll
  <2>3. queue' = queue /\ patterns' = patterns
    BY <1>4 DEF CallUnsubscribeAll, Disconnect
  <2> QED
    BY Zenon, <1>1, <2>2, <2>3
<1>5. ASSUME HubChannel(s)
      PROVE  SendInv'
  <2>1. PICK ch \in Channels : ConnGoes(s, [conn[s] EXCEPT !.todo = @ \ {ch}, !.noting = {ch}])
    BY Zenon, <1>5 DEF HubChannel
  <2> DEFINE next == [conn[s] EXCEPT !.todo = @ \ {ch}, !.noting = {ch}]
  <2>2. conn'[s] = next /\ \A t \in Subs : t # s => conn'[t] = conn[t]
    BY Zenon, <2>1, ConnGoesFacts
  <2>3. next.at = conn[s].at
    BY ZenonT(60) DEF HubTypeOK, ConnState
  <2>4. queue' = queue /\ patterns' = patterns /\ pub' = pub
    BY ZenonT(60), <1>5 DEF HubChannel
  <2> QED
    BY Zenon, <1>2, <2>2, <2>3, <2>4
<1>6. ASSUME HubPattern(s)
      PROVE  SendInv'
  <2>1. PICK pat \in Patterns :
          /\ conn[s].at \in {"add", "drop"}
          /\ patterns' = NewList(s, pat)
          /\ ConnGoes(s, [conn[s] EXCEPT !.todo = @ \ {pat}, !.noting = {pat}])
    BY Zenon, <1>6 DEF HubPattern, NewList
  <2> DEFINE next == [conn[s] EXCEPT !.todo = @ \ {pat}, !.noting = {pat}]
  <2>2. conn'[s] = next /\ \A t \in Subs : t # s => conn'[t] = conn[t]
    BY Zenon, <2>1, ConnGoesFacts
  <2>3. next.at = conn[s].at
    BY ZenonT(60) DEF HubTypeOK, ConnState
  <2>4. queue' = queue /\ pub' = pub
    BY ZenonT(60), <1>6 DEF HubPattern
  <2>5. /\ conn[s].at = "add" => Range(patterns') = Range(patterns) \cup {Entry(s, pat)}
        /\ conn[s].at # "add" => Range(patterns') = Range(patterns) \ {Entry(s, pat)}
        /\ Distinct(patterns')
    BY Zenon, <1>0, <2>1, NewListFacts
  <2>6. \A p \in Publishers : Stays(p)
    BY Zenon, <2>4, StaysSame
  <2>7. ASSUME NEW p \in Publishers, pub[p].at # "idle", NEW o \in pub'[p].owed
        PROVE  /\ conn'[o[1]].at # "drop"
               /\ Entry(o[1], o[2]) \in Range(patterns) => Entry(o[1], o[2]) \in Range(patterns')
    <3>1. o \in pub[p].owed
      BY Zenon, <2>4
    <3>2. o[1] \in Subs /\ conn[o[1]].at # "drop"
      BY Zenon, <1>0, <2>7, <3>1, OwedFacts DEF OwedInv
    <3>3. conn'[o[1]].at # "drop"
      BY Zenon, <2>2, <2>3, <3>2
    <3>4. CASE conn[s].at = "add"
      BY Zenon, <2>5, <3>3, <3>4
    <3>5. CASE conn[s].at = "drop"
      <4>1. o[1] # s /\ "drop" # "add"
        BY Zenon, <3>2, <3>5
      <4>2. Entry(o[1], o[2]) # Entry(s, pat)
        BY <4>1 DEF Entry
      <4> QED
        BY Zenon, <2>5, <3>3, <3>5, <4>1, <4>2
    <3> QED
      BY Zenon, <2>1, <3>4, <3>5
  <2> QED
    BY Zenon, <2>4, <2>5, <2>6, <2>7, SendConn
<1>7. ASSUME Note(s)
      PROVE  SendInv'
  <2> DEFINE next == [conn[s] EXCEPT !.noting = {}]
  <2>2. conn'[s] = next /\ \A t \in Subs : t # s => conn'[t] = conn[t]
    BY Zenon, <1>7, ConnGoesFacts DEF Note
  <2>3. next.at = conn[s].at
    BY Zenon DEF HubTypeOK, ConnState
  <2>4. queue' = queue /\ patterns' = patterns /\ pub' = pub
    BY <1>7 DEF Note
  <2> QED
    BY Zenon, <1>2, <2>2, <2>3, <2>4
<1>8. ASSUME Finish(s)
      PROVE  SendInv'
  <2>1. conn'[s] = Idle /\ \A t \in Subs : t # s => conn'[t] = conn[t]
    BY Zenon, <1>8, ConnGoesFacts DEF Finish
  <2>2. Idle.at # "drop"
    BY SMTT(30) DEF Idle
  <2>3. queue' = queue /\ patterns' = patterns /\ pub' = pub
    BY <1>8 DEF Finish
  <2> QED
    BY Zenon, <1>2, <2>1, <2>2, <2>3
<1>9. ASSUME Drain(s)
      PROVE  SendInv'
  <2>1. SentInv' /\ InOrderOnce'
    BY Zenon, <1>0, <1>9, SentDrain
  <2>2. patterns' = patterns /\ conn' = conn /\ pub' = pub
    BY <1>9 DEF Drain
  <2>3. ListsDistinct' /\ OwedInv'
    BY Zenon, <1>0, <2>2 DEF ListsDistinct, OwedInv
  <2> QED
    BY Zenon, <2>1, <2>3 DEF SendInv
<1> QED
  BY Zenon, <1>3, <1>4, <1>5, <1>6, <1>7, <1>8, <1>9

(* What a subscriber knows and does not give up is in the hub. *)
LEMMA KnownIsInHub ==
  ASSUME BookInv, NEW s \in Subs, NEW sub \in Subscriptions, sub \in subbed[s], conn[s].at # "drop",
         conn[s].at \in {"idle", "add", "drop"}
  PROVE  InHub(s, sub)
<1>1. CASE sub \in conn[s].noting
  <2>1. conn[s].at # "idle"
    <3> SUFFICES ASSUME conn[s].at = "idle"
                 PROVE  FALSE
      BY Zenon
    <3>1. conn[s] = Idle
      BY Zenon DEF BookInv, ConnInv
    <3>2. Idle.noting = {}
      BY DEF Idle
    <3> QED
      BY Zenon, <1>1, <3>1, <3>2
  <2>2. conn[s].at = "add"
    BY Zenon, <2>1
  <2> QED
    BY Zenon, <1>1, <2>2 DEF BookInv, BooksAgree
<1>2. CASE sub \notin conn[s].noting
  BY Zenon, <1>2 DEF BookInv, BooksAgree
<1> QED
  BY Zenon, <1>1, <1>2

(* PUBLISH begins: it owes what the hub still knows of. *)
LEMMA SendPublish ==
  ASSUME HubTypeOK, BookInv, SendInv, NEW p \in Publishers, NEW ch \in Channels, Publish(p, ch)
  PROVE  SendInv'
<1> DEFINE r == [at |-> "channel", n |-> pub[p].n + 1, ch |-> ch, todo |-> channels[ch],
                 owed |-> Owed(ch), sent |-> {}, full |-> {}, list |-> <<>>]
<1>1. pub' = [pub EXCEPT ![p] = r] /\ queue' = queue /\ patterns' = patterns /\ conn' = conn
      /\ pub[p].at = "idle"
  BY Zenon DEF Publish
<1>2. r.at = "channel" /\ r.n = pub[p].n + 1 /\ r.ch = ch /\ r.todo = channels[ch] /\ r.owed = Owed(ch)
  OBVIOUS
<1> HIDE DEF r
<1>3. ASSUME NEW o \in Owed(ch)
      PROVE  conn[o[1]].at # "drop" /\ Due(r, Range(patterns), o)
  <2>1. /\ o[1] \in Subs /\ o[2] \in {ch} \cup {pat \in Patterns : ch \in Matches[pat]}
        /\ o[2] \in subbed[o[1]] /\ conn[o[1]].at # "drop"
    BY DEF Owed
  <2>2. o[2] \in Subscriptions
    BY Zenon, <2>1 DEF Subscriptions
  <2>3. conn[o[1]].at \in {"idle", "add", "drop"}
    BY Zenon, <2>1 DEF HubTypeOK, ConnState
  <2>4. InHub(o[1], o[2])
    BY Zenon, <2>1, <2>2, <2>3, KnownIsInHub
  <2>5. CASE o[2] = ch
    <3>1. o[1] \in channels[ch]
      BY Zenon, <2>4, <2>5 DEF InHub
    <3> QED
      BY Zenon, <1>2, <2>1, <2>5, <3>1 DEF Due
  <2>6. CASE o[2] \in Patterns /\ ch \in Matches[o[2]]
    <3>1. o[2] \notin Channels
      BY Zenon, <2>2, <2>6, KindsDiffer
    <3>2. Entry(o[1], o[2]) \in Range(patterns)
      BY Zenon, <2>4, <3>1 DEF InHub
    <3> QED
      BY Zenon, <1>2, <2>1, <2>6, <3>2 DEF Due
  <2> QED
    BY Zenon, <2>1, <2>5, <2>6
<1>4. ListsDistinct' /\ OwedInv'
  <2>1. r.at # "pattern"
    BY Zenon, <1>2
  <2>2. r.at # "idle" => \A o \in r.owed : conn[o[1]].at # "drop" /\ Due(r, Range(patterns), o)
    BY Zenon, <1>2, <1>3
  <2> QED
    BY Zenon, <1>1, <2>1, <2>2, OwedOne DEF SendInv
<1>5. ASSUME NEW s \in Subs, NEW m \in Message, Past(pub[p], s, m)
      PROVE  Past(r, s, m)
  <2>1. m.n \in Nat /\ pub[p].n \in Nat
    BY SMTT(30) DEF Message, HubTypeOK, Resting, Busy
  <2>2. m.n <= r.n /\ m.n # r.n
    BY <1>2, <1>5, <2>1 DEF Past
  <2> QED
    BY Zenon, <2>2 DEF Past
<1>6. SentInv' /\ InOrderOnce'
  BY Zenon, <1>1, <1>5, PastOne, SentSame DEF SendInv
<1> QED
  BY Zenon, <1>4, <1>6 DEF SendInv

(* A channel is not in the list of patterns. *)
LEMMA ChannelNotListed ==
  ASSUME NEW l \in Seq(PatternEntry), NEW ch \in Channels, NEW s
  PROVE  Entry(s, ch) \notin Range(l)
<1> SUFFICES ASSUME Entry(s, ch) \in Range(l)
             PROVE  FALSE
  BY Zenon
<1>1. PICK i \in DOMAIN l : l[i] = Entry(s, ch)
  BY Zenon DEF Range
<1>2. l[i] \in PatternEntry
  BY SMT
<1>3. Entry(s, ch).pat = ch
  BY DEF Entry
<1>4. ch \in Patterns
  BY SMT, <1>1, <1>2, <1>3 DEF PatternEntry
<1>5. ch \in Subscriptions
  BY Zenon DEF Subscriptions
<1> QED
  BY Zenon, <1>4, <1>5, KindsDiffer

(* The list of patterns is loaded: whoever is still owed something is in it. *)
LEMMA SendLoad ==
  ASSUME HubTypeOK, BookInv, SendInv, NEW p \in Publishers, LoadPatterns(p)
  PROVE  SendInv'
<1> DEFINE match == {e \in Range(patterns) : pub[p].ch \in Matches[e.pat]}
           l == Keeping(patterns, match)
           r == [pub[p] EXCEPT !.at = "pattern", !.list = l]
<1>0. pub[p] \in Busy /\ pub[p].at = "channel" /\ pub[p].todo = {}
  BY Zenon, BusyFacts DEF LoadPatterns
<1>1. pub' = [pub EXCEPT ![p] = r]
  BY Zenon DEF LoadPatterns, HubTypeOK
<1>2. queue' = queue /\ patterns' = patterns /\ conn' = conn
  BY DEF LoadPatterns
<1>3. Range(l) = Range(patterns) \cap match /\ Distinct(l)
  BY Zenon, KeepingFacts DEF HubTypeOK, SendInv, ListsDistinct
<1> HIDE DEF l
<1>4. /\ r.at = "pattern" /\ r.list = l /\ r.ch = pub[p].ch /\ r.n = pub[p].n /\ r.owed = pub[p].owed
      /\ r.sent = pub[p].sent /\ r.full = pub[p].full /\ pub[p].ch \in Channels
  BY Zenon, <1>0 DEF Busy
<1> HIDE DEF r
<1>5. ASSUME NEW o \in pub[p].owed
      PROVE  conn[o[1]].at # "drop" /\ Due(r, Range(patterns), o)
  <2>1. pub[p].at # "idle"
    BY Zenon, <1>0
  <2>2. conn[o[1]].at # "drop" /\ Due(pub[p], Range(patterns), o)
    BY Zenon, <2>1 DEF SendInv, OwedInv
  <2>3. o[2] = pub[p].ch \/ (o[2] \in Patterns /\ pub[p].ch \in Matches[o[2]])
    BY Zenon, <2>2 DEF Due
  <2>4. ASSUME Entry(o[1], o[2]) \in Range(patterns)
        PROVE  Entry(o[1], o[2]) \in Range(l)
    <3>1. o[2] # pub[p].ch
      BY Zenon, <1>4, <2>4, ChannelNotListed DEF HubTypeOK
    <3>2. Entry(o[1], o[2]).pat = o[2]
      BY DEF Entry
    <3> QED
      BY Zenon, <1>3, <2>3, <2>4, <3>1, <3>2
  <2>5. \/ o \in pub[p].sent \cup pub[p].full
        \/ Entry(o[1], o[2]) \in Range(patterns)
    BY Zenon, <1>0, <2>2 DEF Due
  <2>6. \/ o \in r.sent \cup r.full
        \/ r.at = "pattern" /\ Entry(o[1], o[2]) \in Range(r.list)
    BY Zenon, <1>4, <2>4, <2>5
  <2>7. o[2] = r.ch \/ (o[2] \in Patterns /\ r.ch \in Matches[o[2]])
    BY Zenon, <1>4, <2>3
  <2> QED
    BY Zenon, <2>2, <2>6, <2>7 DEF Due
<1>6. ListsDistinct' /\ OwedInv'
  BY Zenon, <1>1, <1>2, <1>3, <1>4, <1>5, OwedOne DEF SendInv
<1>7. ASSUME NEW s \in Subs, NEW m \in Message, Past(pub[p], s, m)
      PROVE  Past(r, s, m)
  <2>1. r.n = pub[p].n /\ r.at # "channel"
    BY Zenon, <1>4
  <2>2. ASSUME m.n = r.n
        PROVE  Entry(s, m.via) \notin Range(r.list)
    <3>1. m.via = pub[p].ch
      BY Zenon, <1>0, <1>7, <2>1, <2>2 DEF Past
    <3>2. Entry(s, m.via) \notin Range(patterns)
      BY Zenon, <1>4, <3>1, ChannelNotListed DEF HubTypeOK
    <3> QED
      BY Zenon, <1>3, <1>4, <3>2
  <2>3. m.n <= r.n
    BY Zenon, <1>7, <2>1 DEF Past
  <2> QED
    BY Zenon, <2>1, <2>2, <2>3 DEF Past
<1>8. SentInv' /\ InOrderOnce'
  BY Zenon, <1>1, <1>2, <1>7, PastOne, SentSame DEF SendInv
<1> QED
  BY Zenon, <1>6, <1>8 DEF SendInv

(* One subscriber of the channel is dealt with. *)
LEMMA SendToChannel ==
  ASSUME HubTypeOK, BookInv, SendInv, NEW p \in Publishers, ToChannel(p)
  PROVE  SendInv'
<1>0. pub[p] \in Busy /\ pub[p].at = "channel" /\ pub[p].at # "idle"
  BY Zenon, BusyFacts DEF ToChannel
<1>1. PICK s \in pub[p].todo :
        /\ TrySend(p, s, pub[p].ch)
        /\ pub' = [pub EXCEPT ![p] = [Booked(p, s, pub[p].ch) EXCEPT !.todo = Rest(p, s)]]
  BY Zenon DEF ToChannel
<1> DEFINE b == Booked(p, s, pub[p].ch)
           r == [b EXCEPT !.todo = Rest(p, s)]
           o0 == <<s, pub[p].ch>>
<1>2. patterns' = patterns /\ conn' = conn
  BY SMTT(30) DEF ToChannel
<1>3. s \in Subs /\ pub[p].ch \in Subscriptions /\ pub[p].n \in Nat
  BY SMT, <1>0 DEF Busy, Subscriptions
<1>4. /\ b \in Busy /\ b.at = pub[p].at /\ b.n = pub[p].n /\ b.ch = pub[p].ch
      /\ b.owed = pub[p].owed /\ b.sent \cup b.full = pub[p].sent \cup pub[p].full \cup {o0}
  BY ZenonT(60), <1>0, <1>3, BookedFields
<1>5. pub' = [pub EXCEPT ![p] = r]
  BY Zenon, <1>1
<1> HIDE DEF b
<1>6. /\ r.at = b.at /\ r.n = b.n /\ r.ch = b.ch /\ r.owed = b.owed /\ r.sent = b.sent
      /\ r.full = b.full /\ r.todo = Rest(p, s)
  BY Zenon, <1>4 DEF Busy
<1> HIDE DEF r
<1>7. /\ r.at = "channel" /\ r.n = pub[p].n /\ r.ch = pub[p].ch /\ r.owed = pub[p].owed
      /\ r.sent \cup r.full = pub[p].sent \cup pub[p].full \cup {o0}
      /\ r.todo = pub[p].todo \ {s}
  BY Zenon, <1>0, <1>4, <1>6 DEF Rest
<1>8. ASSUME NEW o \in pub[p].owed
      PROVE  conn[o[1]].at # "drop" /\ Due(r, Range(patterns), o)
  <2>1. conn[o[1]].at # "drop" /\ Due(pub[p], Range(patterns), o)
    BY Zenon, <1>0 DEF SendInv, OwedInv
  <2>2. o = <<o[1], o[2]>>
    BY Zenon, <1>0, OwedFacts
  <2>3. o[2] = r.ch \/ (o[2] \in Patterns /\ r.ch \in Matches[o[2]])
    BY Zenon, <1>7, <2>1 DEF Due
  <2>4. \/ o \in pub[p].sent \cup pub[p].full
        \/ o[2] = pub[p].ch /\ o[1] \in pub[p].todo
        \/ Entry(o[1], o[2]) \in Range(patterns)
    BY Zenon, <1>0, <2>1 DEF Due
  <2>5. ASSUME o[2] = pub[p].ch, o[1] \in pub[p].todo
        PROVE  o \in r.sent \cup r.full \/ o[1] \in r.todo
    <3>1. CASE o[1] = s
      BY Zenon, <1>7, <2>2, <2>5, <3>1
    <3>2. CASE o[1] # s
      BY Zenon, <1>7, <2>5, <3>2
    <3> QED
      BY Zenon, <3>1, <3>2
  <2>6. \/ o \in r.sent \cup r.full
        \/ r.at = "channel" /\ o[2] = r.ch /\ o[1] \in r.todo
        \/ r.at = "channel" /\ Entry(o[1], o[2]) \in Range(patterns)
    BY Zenon, <1>7, <2>4, <2>5
  <2> QED
    BY Zenon, <2>1, <2>3, <2>6 DEF Due
<1>9. ListsDistinct' /\ OwedInv'
  <2>1. r.at # "pattern"
    BY Zenon, <1>7
  <2> QED
    BY Zenon, <1>2, <1>5, <1>7, <1>8, <2>1, OwedOne DEF SendInv
<1>10. ASSUME NEW t \in Subs, NEW m \in Message, Past(pub[p], t, m)
       PROVE  Past(r, t, m)
  BY Zenon, <1>0, <1>7, <1>10 DEF Past
<1> DEFINE new == [p |-> p, n |-> pub[p].n, via |-> pub[p].ch]
<1>11. new.n = pub[p].n /\ new.via = pub[p].ch
  OBVIOUS
<1> HIDE DEF new
<1>12. ~Past(pub[p], s, new)
  BY Zenon, <1>0, <1>1, <1>11 DEF Past
<1>13. Past(r, s, new)
  <2>1. new.n <= r.n
    BY <1>3, <1>7, <1>11
  <2>2. r.at # "pattern" /\ s \notin r.todo
    BY Zenon, <1>7
  <2> QED
    BY Zenon, <1>7, <1>11, <2>1, <2>2 DEF Past
<1>14. pub'[p] = r
  BY Zenon, <1>5 DEF HubTypeOK
<1>15. SentInv' /\ InOrderOnce'
  <2>1. \A t \in Subs, m \in Message : Past(pub[m.p], t, m) => Past(pub'[m.p], t, m)
    BY Zenon, <1>5, <1>10, PastOne
  <2>2. Past(pub'[p], s, new)
    BY Zenon, <1>13, <1>14
  <2> QED
    BY Zenon, <1>1, <1>3, <1>12, <2>1, <2>2, SentTry DEF SendInv, new
<1> QED
  BY Zenon, <1>9, <1>15 DEF SendInv

(* One entry of the loaded list is dealt with. *)
LEMMA SendToPattern ==
  ASSUME HubTypeOK, BookInv, SendInv, NEW p \in Publishers, ToPattern(p)
  PROVE  SendInv'
<1>0. pub[p] \in Busy /\ pub[p].at = "pattern" /\ pub[p].at # "idle" /\ pub[p].list # <<>>
  BY Zenon, BusyFacts DEF ToPattern
<1> DEFINE e == Head(pub[p].list)
           l == Tail(pub[p].list)
<1>1. /\ TrySend(p, e.sub, e.pat)
      /\ pub' = [pub EXCEPT ![p] = [Booked(p, e.sub, e.pat) EXCEPT !.list = Tail(@)]]
  BY ZenonT(60) DEF ToPattern
<1>2. patterns' = patterns /\ conn' = conn
  BY DEF ToPattern
<1>3. pub[p].list \in Seq(PatternEntry) /\ Distinct(pub[p].list) /\ pub[p].n \in Nat
  BY Zenon, <1>0 DEF Busy, SendInv, ListsDistinct
<1>4. /\ e \in PatternEntry /\ Range(pub[p].list) = Range(l) \cup {e}
      /\ Distinct(l) /\ e \notin Range(l)
  BY Zenon, <1>0, <1>3, TailFacts
<1>5. e.sub \in Subs /\ e.pat \in Subscriptions /\ Entry(e.sub, e.pat) = e
  BY <1>4 DEF PatternEntry, Subscriptions, Entry
<1> DEFINE b == Booked(p, e.sub, e.pat)
           r == [b EXCEPT !.list = Tail(@)]
           s == e.sub
           o0 == <<s, e.pat>>
<1>6. /\ b \in Busy /\ b.at = pub[p].at /\ b.n = pub[p].n /\ b.ch = pub[p].ch /\ b.list = pub[p].list
      /\ b.owed = pub[p].owed /\ b.sent \cup b.full = pub[p].sent \cup pub[p].full \cup {o0}
  BY ZenonT(60), <1>0, <1>5, BookedFields
<1>7. pub' = [pub EXCEPT ![p] = r]
  BY Zenon, <1>1
<1> HIDE DEF b
<1>8. /\ r.at = b.at /\ r.n = b.n /\ r.ch = b.ch /\ r.owed = b.owed /\ r.sent = b.sent
      /\ r.full = b.full /\ r.list = Tail(b.list)
  BY Zenon, <1>6 DEF Busy
<1> HIDE DEF r
<1>9. /\ r.at = "pattern" /\ r.n = pub[p].n /\ r.ch = pub[p].ch /\ r.owed = pub[p].owed
      /\ r.sent \cup r.full = pub[p].sent \cup pub[p].full \cup {o0}
      /\ r.list = l
  BY Zenon, <1>0, <1>6, <1>8
<1> HIDE DEF l, e
<1>10. ASSUME NEW o \in pub[p].owed
       PROVE  conn[o[1]].at # "drop" /\ Due(r, Range(patterns), o)
  <2>1. conn[o[1]].at # "drop" /\ Due(pub[p], Range(patterns), o)
    BY Zenon, <1>0 DEF SendInv, OwedInv
  <2>2. o = <<o[1], o[2]>>
    BY Zenon, <1>0, OwedFacts
  <2>3. o[2] = r.ch \/ (o[2] \in Patterns /\ r.ch \in Matches[o[2]])
    BY Zenon, <1>9, <2>1 DEF Due
  <2>4. \/ o \in pub[p].sent \cup pub[p].full
        \/ Entry(o[1], o[2]) \in Range(pub[p].list)
    BY Zenon, <1>0, <2>1 DEF Due
  <2>5. ASSUME Entry(o[1], o[2]) \in Range(pub[p].list)
        PROVE  o \in r.sent \cup r.full \/ Entry(o[1], o[2]) \in Range(r.list)
    <3>1. CASE Entry(o[1], o[2]) = e
      <4>1. o[1] = e.sub /\ o[2] = e.pat
        BY <3>1 DEF Entry
      <4> QED
        BY Zenon, <1>9, <2>2, <4>1
    <3>2. CASE Entry(o[1], o[2]) # e
      BY Zenon, <1>4, <1>9, <2>5, <3>2
    <3> QED
      BY Zenon, <3>1, <3>2
  <2>6. \/ o \in r.sent \cup r.full
        \/ r.at = "pattern" /\ Entry(o[1], o[2]) \in Range(r.list)
    BY Zenon, <1>9, <2>4, <2>5
  <2> QED
    BY Zenon, <2>1, <2>3, <2>6 DEF Due
<1>11. ListsDistinct' /\ OwedInv'
  BY Zenon, <1>2, <1>4, <1>7, <1>9, <1>10, OwedOne DEF SendInv
<1>12. ASSUME NEW t \in Subs, NEW m \in Message, Past(pub[p], t, m)
       PROVE  Past(r, t, m)
  <2>1. r.at # "channel" /\ Range(r.list) \subseteq Range(pub[p].list)
    BY Zenon, <1>4, <1>9
  <2> QED
    BY Zenon, <1>0, <1>9, <1>12, <2>1 DEF Past
<1> DEFINE new == [p |-> p, n |-> pub[p].n, via |-> e.pat]
<1>13. new.n = pub[p].n /\ new.via = e.pat
  OBVIOUS
<1> HIDE DEF new
<1>14. ~Past(pub[p], s, new)
  <2>1. Entry(s, new.via) \in Range(pub[p].list)
    BY Zenon, <1>4, <1>5, <1>13
  <2> QED
    BY Zenon, <1>0, <1>13, <2>1 DEF Past
<1>15. Past(r, s, new)
  <2>1. new.n <= r.n
    BY <1>3, <1>9, <1>13
  <2>2. r.at # "channel" /\ Entry(s, new.via) \notin Range(r.list)
    BY Zenon, <1>4, <1>5, <1>9, <1>13
  <2> QED
    BY Zenon, <2>1, <2>2 DEF Past
<1>16. pub'[p] = r
  BY Zenon, <1>7 DEF HubTypeOK
<1>17. SentInv' /\ InOrderOnce'
  <2>1. \A t \in Subs, m \in Message : Past(pub[m.p], t, m) => Past(pub'[m.p], t, m)
    BY Zenon, <1>7, <1>12, PastOne
  <2>2. Past(pub'[p], s, new) /\ TrySend(p, s, e.pat) /\ s \in Subs /\ e.pat \in Subscriptions
    BY Zenon, <1>1, <1>5, <1>15, <1>16
  <2> QED
    BY Zenon, <1>14, <2>1, <2>2, SentTry DEF SendInv, new
<1> QED
  BY ZenonT(40), <1>11, <1>17 DEF SendInv

(* PUBLISH ends. *)
LEMMA SendAnswer ==
  ASSUME HubTypeOK, BookInv, SendInv, NEW p \in Publishers, Answer(p)
  PROVE  SendInv'
<1> DEFINE r == [at |-> "idle", n |-> pub[p].n]
<1>1. pub' = [pub EXCEPT ![p] = r]
  BY Zenon DEF Answer
<1>2. queue' = queue /\ patterns' = patterns /\ conn' = conn
  BY DEF Answer
<1>3. r.at = "idle" /\ r.n = pub[p].n
  OBVIOUS
<1> HIDE DEF r
<1>4. r.at # "pattern" /\ r.at # "channel"
  BY Zenon, <1>3
<1>5. ListsDistinct' /\ OwedInv'
  BY Zenon, <1>1, <1>2, <1>3, <1>4, OwedOne DEF SendInv
<1>6. ASSUME NEW s \in Subs, NEW m \in Message, Past(pub[p], s, m)
      PROVE  Past(r, s, m)
  BY Zenon, <1>3, <1>4, <1>6 DEF Past
<1>7. SentInv' /\ InOrderOnce'
  BY ZenonT(40), <1>1, <1>2, <1>6, PastOne, SentSame DEF SendInv
<1> QED
  BY ZenonT(40), <1>5, <1>7 DEF SendInv

-----------------------------------------------------------------------------
(* The results.                                                            *)

(* The invariant holds at the start. *)
LEMMA HubStart == HubInit => HubInv
<1> SUFFICES ASSUME HubInit
             PROVE  HubInv
  OBVIOUS
<1>1. /\ Idle.at = "idle" /\ Idle.todo = {} /\ Idle.then = "idle" /\ Idle.noting = {}
      /\ Idle \in ConnState
  BY DEF Idle, ConnState
<1>2. HubTypeOK
  <2>1. [at |-> "idle", n |-> 0] \in Resting
    BY DEF Resting
  <2>2. pub \in [Publishers -> Resting \cup Busy]
    BY Zenon, <2>1 DEF HubInit
  <2>3. queue \in [Subs -> Seq(Message)] /\ patterns \in Seq(PatternEntry) /\ calls \in Nat
    BY DEF HubInit
  <2>4. conn \in [Subs -> ConnState]
    BY Zenon, <1>1 DEF HubInit
  <2>5. /\ channels \in [Channels -> SUBSET Subs] /\ patMu \in SUBSET Subs
        /\ subbed \in [Subs -> SUBSET Subscriptions] /\ closed \in [Subs -> BOOLEAN]
    BY Zenon DEF HubInit
  <2> QED
    BY Zenon, <2>2, <2>3, <2>4, <2>5 DEF HubTypeOK
<1>3. BookInv
  <2>1. \A s \in Subs : conn[s] = Idle /\ subbed[s] = {} /\ ~closed[s]
    BY Zenon DEF HubInit
  <2>2. ConnInv
    BY Zenon, <1>1, <2>1 DEF ConnInv
  <2>3. Range(patterns) = {}
    BY DEF HubInit, Range
  <2>4. \A ch \in Channels : channels[ch] = {}
    BY Zenon DEF HubInit
  <2>5. \A s \in Subs, sub \in Subscriptions : ~InHub(s, sub)
    BY Zenon, <2>3, <2>4 DEF InHub
  <2>6. BooksAgree
    BY Zenon, <1>1, <2>1, <2>5 DEF BooksAgree
  <2> QED
    BY Zenon, <2>2, <2>6 DEF BookInv
<1>4. SendInv
  <2>1. \A p \in Publishers : pub[p].at = "idle"
    BY DEF HubInit
  <2>2. ListsDistinct
    BY <2>1 DEF HubInit, ListsDistinct, Distinct
  <2>3. OwedInv
    BY Zenon, <2>1 DEF OwedInv
  <2>4. \A s \in Subs : DOMAIN queue[s] = {}
    BY DEF HubInit
  <2> QED
    BY Zenon, <2>2, <2>3, <2>4 DEF SendInv, SentInv, InOrderOnce
<1> QED
  BY Zenon, <1>2, <1>3, <1>4 DEF HubInv

(* Every step keeps it. *)
LEMMA HubStep == HubInv /\ [HubNext]_hubVars => HubInv'
<1> SUFFICES ASSUME HubInv, [HubNext]_hubVars
             PROVE  HubInv'
  BY Zenon
<1>0. HubTypeOK /\ BookInv /\ SendInv
  BY Zenon DEF HubInv
<1>1. CASE HubNext
  <2>1. HubTypeOK' /\ BookInv'
    BY Zenon, <1>0, <1>1, TypeStep, BookStep
  <2>2. SendInv'
    BY Zenon, <1>0, <1>1, SendStepConn, SendPublish, SendToChannel, SendLoad, SendToPattern, SendAnswer
       DEF HubNext
  <2> QED
    BY Zenon, <2>1, <2>2 DEF HubInv
<1>2. CASE UNCHANGED hubVars
  <2>0. /\ channels' = channels /\ patterns' = patterns /\ patMu' = patMu /\ subbed' = subbed
        /\ queue' = queue /\ closed' = closed /\ conn' = conn /\ calls' = calls /\ pub' = pub
    BY <1>2 DEF hubVars
  <2>1. HubTypeOK'
    BY Zenon, <1>0, <2>0 DEF HubTypeOK
  <2>2. BookInv'
    BY Zenon, <1>0, <2>0 DEF BookInv, ConnInv, BooksAgree, InHub
  <2>3. SendInv'
    BY Zenon, <1>0, <2>0 DEF SendInv, ListsDistinct, OwedInv, SentInv, InOrderOnce
  <2> QED
    BY Zenon, <2>1, <2>2, <2>3 DEF HubInv
<1> QED
  BY Zenon, <1>1, <1>2

(* The books of the hub, of the connections and of the publishers are in   *)
(* order in every state.                                                   *)
THEOREM HubInvariant == HubSpec => []HubInv
BY HubStart, HubStep, PTL DEF HubSpec

(* Between two calls the hub knows of a connection what the connection     *)
(* knows, and a connection that ended has left nothing behind.             *)
THEOREM HubAndSubscriberAgree == HubSpec => []HubAgrees
<1>1. HubInv => HubAgrees
  <2> SUFFICES ASSUME HubInv, NEW s \in Subs, conn[s] = Idle
               PROVE  /\ \A ch \in Channels : s \in channels[ch] <=> ch \in subbed[s]
                      /\ \A pat \in Patterns : Entry(s, pat) \in Range(patterns) <=> pat \in subbed[s]
                      /\ closed[s] => subbed[s] = {}
    BY Zenon DEF HubAgrees
  <2>1. ConnInv /\ BooksAgree
    BY Zenon DEF HubInv, BookInv
  <2>2. Idle.noting = {}
    BY DEF Idle
  <2>3. \A sub \in Subscriptions : InHub(s, sub) <=> sub \in subbed[s]
    BY Zenon, <2>1, <2>2 DEF BooksAgree
  <2>4. \A ch \in Channels : ch \in Subscriptions
    BY Zenon DEF Subscriptions
  <2>5. \A pat \in Patterns : pat \in Subscriptions /\ pat \notin Channels
    BY Zenon, KindsDiffer DEF Subscriptions
  <2>6. \A ch \in Channels : s \in channels[ch] <=> ch \in subbed[s]
    BY Zenon, <2>3, <2>4 DEF InHub
  <2>7. \A pat \in Patterns : Entry(s, pat) \in Range(patterns) <=> pat \in subbed[s]
    BY Zenon, <2>3, <2>5 DEF InHub
  <2>8. closed[s] => subbed[s] = {}
    BY Zenon, <2>1 DEF ConnInv
  <2> QED
    BY Zenon, <2>6, <2>7, <2>8
<1> QED
  BY <1>1, HubInvariant, PTL

(* A message reaches every subscription made before it was published and   *)
(* not given up meanwhile, unless the queue was full, no queue holds a     *)
(* message twice for one subscription, and what a publisher sent stays in  *)
(* order, whatever calls run at the same time.                             *)
THEOREM MessagesDelivered == HubSpec => []DeliveredOnce
<1>1. HubInv => DeliveredOnce
  <2> SUFFICES ASSUME HubInv
               PROVE  DeliveredOnce
    BY Zenon
  <2>1. OwedInv /\ InOrderOnce
    BY Zenon DEF HubInv, SendInv
  <2>2. ASSUME NEW p \in Publishers, pub[p].at = "pattern", pub[p].list = <<>>, NEW o \in pub[p].owed
        PROVE  o \in pub[p].sent \cup pub[p].full
    <3>1. pub[p].at # "idle" /\ pub[p].at # "channel"
      BY Zenon, <2>2
    <3>2. Due(pub[p], Range(patterns), o)
      BY Zenon, <2>1, <3>1 DEF OwedInv
    <3>3. Range(pub[p].list) = {}
      BY <2>2 DEF Range
    <3> QED
      BY Zenon, <3>1, <3>2, <3>3 DEF Due
  <2>3. ReachesSubscribed
    BY Zenon, <2>2 DEF ReachesSubscribed
  <2> QED
    BY Zenon, <2>1, <2>3 DEF DeliveredOnce
<1> QED
  BY <1>1, HubInvariant, PTL

(* No step changes the queue of a subscriber that was closed: TrySend looks *)
(* at the flag under the same lock as Close, so that a publisher with an    *)
(* old list sends nothing on the closed queue.                              *)
THEOREM NothingAfterClose == HubSpec => NothingSentAfterClose
<1>1. ASSUME HubTypeOK, HubNext, NEW s \in Subs, closed[s]
      PROVE  queue'[s] = queue[s]
  <2>1. ASSUME NEW p \in Publishers, NEW t, NEW sub, TrySend(p, t, sub)
        PROVE  queue'[s] = queue[s]
    <3>1. CASE MaySend(t)
      <4>1. t # s
        BY Zenon, <1>1, <3>1 DEF MaySend
      <4>2. queue' = [queue EXCEPT ![t] = Append(@, [p |-> p, n |-> pub[p].n, via |-> sub])]
        BY Zenon, <2>1, <3>1 DEF TrySend
      <4> QED
        BY Zenon, <4>1, <4>2, <1>1 DEF HubTypeOK
    <3>2. CASE ~MaySend(t)
      BY Zenon, <2>1, <3>2 DEF TrySend
    <3> QED
      BY Zenon, <3>1, <3>2
  <2>2. ASSUME NEW t \in Subs, Drain(t)
        PROVE  queue'[s] = queue[s]
    <3>1. t # s /\ queue' = [queue EXCEPT ![t] = Tail(@)]
      BY Zenon, <1>1, <2>2 DEF Drain
    <3> QED
      BY Zenon, <3>1, <1>1 DEF HubTypeOK
  <2>3. ASSUME queue' = queue
        PROVE  queue'[s] = queue[s]
    BY ZenonT(60), <2>3
  <2>4. ASSUME NEW t \in Subs,
               \/ \E sub \in Channels \cup Patterns, what \in {"add", "drop"} : Call(t, what, sub)
               \/ CallUnsubscribeAll(t) \/ Disconnect(t)
               \/ HubChannel(t) \/ HubPattern(t) \/ Note(t) \/ Finish(t)
        PROVE  queue' = queue
    BY ZenonT(60), <2>4 DEF Call, CallUnsubscribeAll, Disconnect, HubChannel, HubPattern, Note, Finish
  <2>5. ASSUME NEW p \in Publishers, (\E ch \in Channels : Publish(p, ch)) \/ LoadPatterns(p) \/ Answer(p)
        PROVE  queue' = queue
    BY <2>5 DEF Publish, LoadPatterns, Answer
  <2>6. ASSUME NEW p \in Publishers, ToChannel(p) \/ ToPattern(p)
        PROVE  queue'[s] = queue[s]
    BY Zenon, <2>1, <2>6 DEF ToChannel, ToPattern
  <2> QED
    BY Zenon, <1>1, <2>2, <2>3, <2>4, <2>5, <2>6 DEF HubNext
<1>2. HubInv /\ [HubNext]_hubVars => [\A s \in Subs : closed[s] => queue'[s] = queue[s]]_hubVars
  BY Zenon, <1>1 DEF HubInv
<1> QED
  BY <1>2, HubInvariant, PTL DEF HubSpec, NothingSentAfterClose
=============================================================================
