--------------------------- MODULE AofOrderProofs ---------------------------
(***************************************************************************)
(* The order of one client's commands survives the append-only file, for   *)
(* any number of clients, keys and crashes and any size of the buffer.     *)
(*                                                                         *)
(* The invariant, on top of those of AofProofs: wherever the commands of   *)
(* one client are, they are in the order in which it sent them, and the    *)
(* one it is executing comes after all of them.                            *)
(***************************************************************************)
EXTENDS AofProofs

\* The commands of any one client have ascending numbers under every key, and in l.
Sorted(d, cs) ==
  \A k \in Keys : \A i, j \in DOMAIN d[k] :
    i < j /\ cs[d[k][i]].by = cs[d[k][j]].by => d[k][i] < d[k][j]
SortedLog(l) ==
  \A i, j \in 1 .. Len(l) :
    i < j /\ l[i].id # 0 /\ l[j].id # 0 /\ l[i].by = l[j].by => l[i].id < l[j].id

\* What d, or l, has of client c has numbers below i.
OlderIn(d, cs, c, i) == \A k \in Keys : \A x \in Range(d[k]) : cs[x].by = c => x < i
OlderLog(l, c, i) == \A e \in Range(l) : e.id # 0 /\ e.by = c => e.id < i
Older(b, l, cs, c, i) == OlderIn(b, cs, c, i) /\ OlderLog(l, c, i)

\* Replaying l on top of b keeps the order.
Lined(b, l, cs) ==
  Sorted(b, cs) /\ SortedLog(l) /\ \A e \in Range(l) : e.id # 0 => OlderIn(b, cs, e.by, e.id)

OlderDisk(c, i)  == Older(base, Flushed, cmds, c, i)
OlderTemp(c, i)  == Older(temp.base, temp.log, cmds, c, i)
OlderNoted(c, i) == Older(temp.base, rewriteBuf, cmds, c, i)

\* Where its command has not got to, a client has only older ones.
Ahead(c) ==
  /\ pc[c] # "idle" => cur[c].by = c
  /\ pc[c] = "apply" => OlderIn(db, cmds, c, cur[c].id)
  /\ pc[c] \in {"apply", "feed"} => OlderDisk(c, cur[c].id) /\ OlderTemp(c, cur[c].id)
  /\ pc[c] \in {"apply", "feed", "note"} => OlderNoted(c, cur[c].id)

DiskLined == Lined(base, Flushed, cmds)
TempLined == Lined(temp.base, temp.log, cmds) /\ Lined(temp.base, rewriteBuf, cmds)

Numbered == \A i \in DOMAIN cmds : cmds[i].id = i

OrderInv ==
  Numbered /\ Sorted(db, cmds) /\ DiskLined /\ TempLined /\ \A c \in Clients : Ahead(c)

(* The empty file is in order. *)
LEMMA LinedEmpty ==
  ASSUME NEW b, NEW cs
  PROVE  /\ Sorted(b, cs) => Lined(b, << >>, cs)
         /\ \A c, i : OlderIn(b, cs, c, i) => Older(b, << >>, cs, c, i)
<1>1. SortedLog(<< >>)
  BY DEF SortedLog
<1>2. Range(<< >>) = {}
  BY Zenon, RangeSmall
<1> QED
  BY Zenon, <1>1, <1>2 DEF Lined, Older, OlderLog

(* So is the empty keyspace. *)
LEMMA NoKeysSorted ==
  ASSUME NEW cs
  PROVE  Sorted(NoKeys, cs) /\ \A c, i : OlderIn(NoKeys, cs, c, i)
<1>1. \A k \in Keys : NoKeys[k] = << >>
  BY Zenon DEF NoKeys
<1>2. DOMAIN << >> = {}
  BY SMT
<1>3. Sorted(NoKeys, cs)
  BY Zenon, <1>1, <1>2 DEF Sorted
<1>4. \A k \in Keys : Range(NoKeys[k]) = {}
  BY Zenon, <1>1, RangeSmall
<1> QED
  BY Zenon, <1>3, <1>4 DEF OlderIn

(* A command that is younger than all of its client's goes to the end. *)
LEMMA LinedAppend ==
  ASSUME NEW b, NEW l \in Seq(Entries), NEW cs, NEW e \in Entries,
         Lined(b, l, cs), e.id # 0 => Older(b, l, cs, e.by, e.id)
  PROVE  /\ Lined(b, Append(l, e), cs)
         /\ \A c, i : Older(b, l, cs, c, i) /\ (e.id = 0 \/ e.by # c)
                        => Older(b, Append(l, e), cs, c, i)
<1> DEFINE t == Append(l, e)
<1>0. Len(l) \in Nat /\ \A i \in 1 .. Len(l) : l[i] \in Range(l)
  BY Zenon, RangeMember
<1>1. /\ t \in Seq(Entries) /\ Range(t) = Range(l) \cup {e}
      /\ Len(t) = Len(l) + 1 /\ t[Len(l) + 1] = e
      /\ \A i \in 1 .. Len(l) : t[i] = l[i]
  BY RangeAppend
<1> HIDE DEF t
<1>2. SortedLog(t)
  <2> SUFFICES ASSUME NEW i \in 1 .. Len(t), NEW j \in 1 .. Len(t),
                      i < j, t[i].id # 0, t[j].id # 0, t[i].by = t[j].by
               PROVE  t[i].id < t[j].id
    BY Zenon DEF SortedLog
  <2>1. i \in 1 .. Len(l) /\ (j \in 1 .. Len(l) \/ j = Len(l) + 1)
    BY SMTT(30), <1>0, <1>1
  <2>2. t[i] = l[i]
    BY Zenon, <1>1, <2>1
  <2>3. CASE j \in 1 .. Len(l)
    <3>1. t[j] = l[j]
      BY Zenon, <1>1, <2>3
    <3> QED
      BY Zenon, <2>1, <2>2, <2>3, <3>1 DEF Lined, SortedLog
  <2>4. CASE j = Len(l) + 1
    <3>1. t[j] = e
      BY Zenon, <1>1, <2>4
    <3>2. l[i] \in Range(l)
      BY Zenon, <1>0, <2>1
    <3> QED
      BY Zenon, <2>2, <3>1, <3>2 DEF Older, OlderLog
  <2> QED
    BY Zenon, <2>1, <2>3, <2>4
<1>3. \A x \in Range(t) : x.id # 0 => OlderIn(b, cs, x.by, x.id)
  BY Zenon, <1>1 DEF Lined, Older
<1>4. Lined(b, t, cs)
  BY Zenon, <1>2, <1>3 DEF Lined
<1>5. ASSUME NEW c, NEW i, Older(b, l, cs, c, i), e.id = 0 \/ e.by # c
      PROVE  Older(b, t, cs, c, i)
  BY Zenon, <1>1, <1>5 DEF Older, OlderLog
<1> QED
  BY Zenon, <1>4, <1>5 DEF t

(* A prefix of a file in order is in order. *)
LEMMA LinedPrefix ==
  ASSUME NEW b, NEW l \in Seq(Entries), NEW s \in Seq(Entries), NEW cs,
         Len(s) <= Len(l), \A i \in 1 .. Len(s) : s[i] = l[i]
  PROVE  /\ Lined(b, l, cs) => Lined(b, s, cs)
         /\ \A c, i : Older(b, l, cs, c, i) => Older(b, s, cs, c, i)
<1>0. Len(l) \in Nat /\ Len(s) \in Nat
  BY SeqShape
<1>1. \A i \in 1 .. Len(s) : i \in 1 .. Len(l)
  BY <1>0
<1>2. Range(s) \subseteq Range(l)
  <2>1. \A x \in Range(s) : \E i \in 1 .. Len(s) : x = s[i]
    BY Zenon, RangeMember
  <2>2. \A i \in 1 .. Len(l) : l[i] \in Range(l)
    BY Zenon, RangeMember
  <2> QED
    BY Zenon, <1>1, <2>1, <2>2
<1>3. ASSUME SortedLog(l)
      PROVE  SortedLog(s)
  BY Zenon, <1>1, <1>3 DEF SortedLog
<1> QED
  BY Zenon, <1>2, <1>3 DEF Lined, Older, OlderLog

(* A new command changes nothing about the old ones, and is younger than   *)
(* all of them.                                                            *)
LEMMA LinedGrows ==
  ASSUME NEW cs \in Seq(Entries), NEW e \in Entries, NEW b, NEW l, KnownIn(b, cs), KnownLog(l, cs)
  PROVE  LET ds == Append(cs, e)
         IN /\ Sorted(b, cs) => Sorted(b, ds)
            /\ Lined(b, l, cs) => Lined(b, l, ds)
            /\ \A c, i : OlderIn(b, cs, c, i) => OlderIn(b, ds, c, i)
            /\ \A c, i : Older(b, l, cs, c, i) => Older(b, l, ds, c, i)
            /\ \A c : OlderIn(b, ds, c, Len(cs) + 1) /\ Older(b, l, ds, c, Len(cs) + 1)
<1> DEFINE ds == Append(cs, e)
<1>0. Len(cs) \in Nat /\ DOMAIN cs = 1 .. Len(cs)
  BY Zenon, RangeMember
<1>1. \A i \in DOMAIN cs : ds[i] = cs[i]
  BY Zenon, CmdsGrow
<1> HIDE DEF ds
<1>2. \A k \in Keys : \A x \in Range(b[k]) : x \in DOMAIN cs /\ ds[x] = cs[x]
  BY Zenon, <1>1 DEF KnownIn
<1>3. ASSUME Sorted(b, cs)
      PROVE  Sorted(b, ds)
  <2> SUFFICES ASSUME NEW k \in Keys, NEW i \in DOMAIN b[k], NEW j \in DOMAIN b[k],
                      i < j, ds[b[k][i]].by = ds[b[k][j]].by
               PROVE  b[k][i] < b[k][j]
    BY Zenon DEF Sorted
  <2>1. b[k][i] \in Range(b[k]) /\ b[k][j] \in Range(b[k])
    BY Zenon DEF Range
  <2>2. cs[b[k][i]].by = cs[b[k][j]].by
    BY Zenon, <1>2, <2>1
  <2> QED
    BY Zenon, <1>3, <2>2 DEF Sorted
<1>4. ASSUME NEW c, NEW i, OlderIn(b, cs, c, i)
      PROVE  OlderIn(b, ds, c, i)
  BY Zenon, <1>2, <1>4 DEF OlderIn
<1>5. \A i \in DOMAIN cs : i < Len(cs) + 1
  BY <1>0
<1>6. ASSUME NEW c
      PROVE  OlderIn(b, ds, c, Len(cs) + 1) /\ OlderLog(l, c, Len(cs) + 1)
  BY Zenon, <1>2, <1>5 DEF OlderIn, OlderLog, KnownLog
<1> QED
  BY Zenon, <1>3, <1>4, <1>6 DEF Lined, Older, ds

(* Applying a command that is younger keeps the keyspace in order. *)
LEMMA ApplySorted ==
  ASSUME NEW d \in Values, NEW e \in Entries, NEW cs, Sorted(d, cs),
         e.id # 0 =>
           /\ cs[e.id] = e
           /\ e.key \in Keys => \A x \in Range(d[e.key]) : cs[x].by = e.by => x < e.id
  PROVE  /\ Sorted(Apply(d, e), cs)
         /\ \A k \in Keys : \A x \in Range(Apply(d, e)[k]) :
              x \in Range(d[k]) \/ (x = e.id /\ e.id # 0)
<1>1. /\ Apply(d, e) \in Values
      /\ \A k \in Keys : k # e.key => Apply(d, e)[k] = d[k]
      /\ e.key \in Keys /\ e.id = 0 => Apply(d, e)[e.key] = << >>
      /\ e.key \in Keys /\ e.id # 0 => Range(Apply(d, e)[e.key]) = Range(d[e.key]) \cup {e.id}
  BY Zenon, ApplyStep
<1>2. ASSUME e.key \in Keys, e.id # 0
      PROVE  Apply(d, e)[e.key] = Append(d[e.key], e.id)
  BY Zenon, <1>2 DEF Apply, Values
<1>3. DOMAIN << >> = {} /\ Range(<< >>) = {}
  <2>1. DOMAIN << >> = {}
    BY SMT
  <2> QED
    BY Zenon, <2>1, RangeSmall
<1>4. ASSUME NEW k \in Keys, NEW i \in DOMAIN Apply(d, e)[k], NEW j \in DOMAIN Apply(d, e)[k],
             i < j, cs[Apply(d, e)[k][i]].by = cs[Apply(d, e)[k][j]].by
      PROVE  Apply(d, e)[k][i] < Apply(d, e)[k][j]
  <2>1. CASE k # e.key
    <3>1. Apply(d, e)[k] = d[k]
      BY Zenon, <1>1, <2>1
    <3> QED
      BY Zenon, <1>4, <3>1 DEF Sorted
  <2>2. CASE k = e.key /\ e.id = 0
    BY Zenon, <1>1, <1>3, <1>4, <2>2
  <2>3. CASE k = e.key /\ e.id # 0
    <3> DEFINE s == d[k]
               t == Append(s, e.id)
    <3>1. Apply(d, e)[k] = t
      BY Zenon, <1>2, <2>3
    <3>2. s \in Seq(1 .. MaxCmds) /\ e.id \in 1 .. MaxCmds
      BY <2>3 DEF Values, Entries
    <3>3. Len(s) \in Nat /\ DOMAIN s = 1 .. Len(s) /\ \A n \in 1 .. Len(s) : s[n] \in Range(s)
      BY Zenon, <3>2, RangeMember
    <3>4. /\ t \in Seq(1 .. MaxCmds) /\ Len(t) = Len(s) + 1 /\ t[Len(s) + 1] = e.id
          /\ \A n \in 1 .. Len(s) : t[n] = s[n]
      BY <3>2, RangeAppend
    <3>5. DOMAIN t = 1 .. Len(t)
      BY Zenon, <3>4, RangeMember
    <3> HIDE DEF s, t
    <3>6. i \in 1 .. Len(t) /\ j \in 1 .. Len(t)
      BY Zenon, <1>4, <3>1, <3>5
    <3>7. i \in 1 .. Len(s) /\ (j \in 1 .. Len(s) \/ j = Len(s) + 1)
      BY SMTT(30), <1>4, <3>3, <3>4, <3>6
    <3>8. t[i] = s[i] /\ cs[t[i]].by = cs[t[j]].by
      BY Zenon, <1>4, <3>1, <3>4, <3>7
    <3>9. CASE j \in 1 .. Len(s)
      <4>1. t[j] = s[j]
        BY Zenon, <3>4, <3>9
      <4>2. s[i] < s[j]
        BY Zenon, <1>4, <3>3, <3>7, <3>8, <3>9, <4>1 DEF Sorted, s
      <4> QED
        BY Zenon, <3>1, <3>8, <4>1, <4>2
    <3>10. CASE j = Len(s) + 1
      <4>1. t[j] = e.id
        BY Zenon, <3>4, <3>10
      <4>2. s[i] \in Range(d[e.key])
        BY Zenon, <2>3, <3>3, <3>7 DEF s
      <4>3. cs[s[i]].by = e.by
        BY Zenon, <2>3, <3>8, <4>1
      <4> QED
        BY Zenon, <1>4, <2>3, <3>1, <3>8, <4>1, <4>2, <4>3
    <3> QED
      BY Zenon, <3>7, <3>9, <3>10
  <2> QED
    BY Zenon, <2>1, <2>2, <2>3
<1>5. ASSUME NEW k \in Keys, NEW x \in Range(Apply(d, e)[k])
      PROVE  x \in Range(d[k]) \/ (x = e.id /\ e.id # 0)
  BY Zenon, <1>1, <1>3, <1>5
<1> QED
  BY Zenon, <1>4, <1>5 DEF Sorted

(* Replaying a file that is in order gives keys that are in order. *)
LEMMA ReplaySorted ==
  ASSUME NEW b \in Values, NEW l \in Seq(Entries), NEW cs, Lined(b, l, cs), KnownLog(l, cs)
  PROVE  Sorted(Replay(b, l), cs)
<1> DEFINE R == Replayed(b, l)
           S == {i \in 0 .. Len(l) : Sorted(R[i], cs)}
<1>0. Len(l) \in Nat /\ \A i \in 1 .. Len(l) : l[i] \in Entries /\ l[i] \in Range(l)
  BY Zenon, SeqShape, RangeMember
<1>1. R[0] = b /\ \A i \in 1 .. Len(l) : R[i] = Apply(R[i - 1], l[i])
  BY <1>0, ReplayedSteps
<1>2. \A i \in 0 .. Len(l) : R[i] \in Values /\ Within(b, l, i, R[i])
  BY Zenon, ReplayedWithin
<1> HIDE DEF R
<1>3. 0 \in S
  <2>1. 0 \in 0 .. Len(l)
    BY <1>0
  <2> QED
    BY Zenon, <1>1, <2>1 DEF Lined
<1>4. ASSUME NEW i \in 0 .. Len(l) - 1, i \in S
      PROVE  i + 1 \in S
  <2>1. /\ i \in 0 .. Len(l) /\ i + 1 \in 1 .. Len(l) /\ i + 1 \in 0 .. Len(l)
        /\ \A j \in 1 .. i : j \in 1 .. Len(l) /\ j < i + 1
    BY <1>0
  <2> DEFINE d == R[i]
             e == l[i + 1]
             f == R[i + 1]
  <2>2. d \in Values /\ e \in Entries /\ e \in Range(l) /\ Within(b, l, i, d) /\ Sorted(d, cs)
    BY Zenon, <1>0, <1>2, <1>4, <2>1
  <2>3. f = Apply(d, e)
    BY SMTT(30), <1>1, <2>1
  <2>4. \A j \in 1 .. i : l[j].id # 0 /\ e.id # 0 /\ l[j].by = e.by => l[j].id < e.id
    BY Zenon, <2>1 DEF Lined, SortedLog
  <2> HIDE DEF d, e, f
  <2>5. ASSUME e.id # 0, e.key \in Keys, NEW x \in Range(d[e.key]), cs[x].by = e.by
        PROVE  x < e.id
    <3>1. x # 0
      <4>1. d[e.key] \in Seq(1 .. MaxCmds)
        BY Zenon, <2>2, <2>5 DEF Values
      <4>2. x \in 1 .. MaxCmds
        BY Zenon, <2>5, <4>1, RangeMember
      <4> QED
        BY <4>2, AofAssumption
    <3>2. CASE x \in Range(b[e.key])
      BY Zenon, <2>2, <2>5, <3>2 DEF Lined, OlderIn
    <3>3. CASE \E j \in 1 .. i : l[j].key = e.key /\ l[j].id = x
      <4>1. PICK j \in 1 .. i : l[j].id = x
        BY Zenon, <3>3
      <4>2. cs[x] = l[j]
        BY ZenonT(40), <1>0, <2>1, <3>1, <4>1 DEF KnownLog
      <4> QED
        BY ZenonT(40), <2>4, <2>5, <3>1, <4>1, <4>2
    <3>4. x \in Range(b[e.key]) \/ \E j \in 1 .. i : l[j].key = e.key /\ l[j].id = x
      <4>1. \A k \in Keys : \A y \in Range(d[k]) :
              y \in Range(b[k]) \/ \E j \in 1 .. i : l[j].key = k /\ l[j].id = y
        BY Zenon, <2>2 DEF Within
      <4>2. PICK k \in Keys : k = e.key
        BY Zenon, <2>5
      <4>3. x \in Range(d[k])
        BY Zenon, <2>5, <4>2
      <4>4. x \in Range(b[k]) \/ \E j \in 1 .. i : l[j].key = k /\ l[j].id = x
        BY ZenonT(40), <4>1, <4>3
      <4> QED
        BY Zenon, <4>2, <4>4
    <3> QED
      BY Zenon, <3>2, <3>3, <3>4
  <2>6. e.id # 0 => cs[e.id] = e
    BY Zenon, <2>2 DEF KnownLog
  <2>7. e.id # 0 =>
          /\ cs[e.id] = e
          /\ e.key \in Keys => \A x \in Range(d[e.key]) : cs[x].by = e.by => x < e.id
    BY Zenon, <2>5, <2>6
  <2>8. Sorted(f, cs)
    <3>1. Sorted(Apply(d, e), cs)
      BY Zenon, <2>2, <2>7, ApplySorted
    <3> QED
      BY Zenon, <2>3, <3>1
  <2> QED
    BY Zenon, <2>1, <2>8 DEF f
<1>5. Readable(l) \in 0 .. Len(l)
  BY Zenon, ReadableCount
<1>6. Readable(l) \in S
  <2> HIDE DEF S
  <2> QED
    BY Zenon, <1>0, <1>3, <1>4, <1>5, UpTo
<1> QED
  BY Zenon, <1>6 DEF R, Replay

(* Flushing does not change what is in the file or on its way there. *)
LEMMA FlushedStays ==
  ASSUME FileOK
  PROVE  /\ Flushed \in Seq(Entries) /\ KnownLog(Flushed, cmds)
         /\ Flushes => Flushed' = Flushed
         /\ Len(log) <= Len(Flushed) /\ \A i \in 1 .. Len(log) : log[i] = Flushed[i]
<1>0. log \in Seq(Entries) /\ buf \in Seq(Entries) /\ synced \in 0 .. Len(log)
  BY Zenon DEF FileOK
<1>1. Flushed \in Seq(Entries) /\ Range(Flushed) \subseteq Range(log) \cup Range(buf)
  BY Zenon, <1>0, FlushTypes
<1>2. KnownLog(Flushed, cmds)
  BY Zenon, <1>1 DEF KnownLog, FileOK
<1>3. ASSUME Flushes
      PROVE  Flushed' = Flushed
  <2>1. Flushed \o << >> = Flushed
    BY <1>1
  <2> QED
    BY Zenon, <1>3, <2>1 DEF Flushes, Flushed
<1>4. /\ Len(log) <= Len(Flushed) /\ \A i \in 1 .. Len(log) : log[i] = Flushed[i]
  BY <1>0 DEF Flushed
<1> QED
  BY Zenon, <1>1, <1>2, <1>3, <1>4

(* A command that is written goes to the end, or nowhere. *)
LEMMA FlushedWrites ==
  ASSUME FileOK, NEW e \in Entries, Writes(e), UNCHANGED open
  PROVE  Flushed' = Flushed \/ Flushed' = Append(Flushed, e)
<1>0. log \in Seq(Entries) /\ buf \in Seq(Entries) /\ Flushed \in Seq(Entries)
  BY Zenon, FlushedStays DEF FileOK
<1>1. CASE ~open
  BY Zenon, <1>1 DEF Writes, Write, Flushed
<1>2. CASE open /\ Big(e)
  <2>1. log' = Append(Flushed, e) /\ buf' = << >>
    BY Zenon, <1>2 DEF Writes, Write
  <2>2. Append(Flushed, e) \o << >> = Append(Flushed, e)
    BY SMTT(30), <1>0
  <2> QED
    BY ZenonT(40), <1>2, <2>1, <2>2 DEF Flushed
<1>3. CASE open /\ ~Big(e) /\ Len(buf) = BufSize
  <2>1. log' = Flushed /\ buf' = <<e>>
    BY Zenon, <1>3 DEF Writes, Write, WriteFails
  <2>2. Flushed \o <<e>> = Append(Flushed, e)
    BY <1>0
  <2> QED
    BY ZenonT(40), <1>3, <2>1, <2>2 DEF Flushed
<1>4. CASE open /\ ~Big(e) /\ Len(buf) # BufSize
  <2>1. log' = log /\ buf' = Append(buf, e)
    BY Zenon, <1>4 DEF Writes, Write
  <2>2. log \o Append(buf, e) = Append(log \o buf, e)
    BY SMTT(30), <1>0
  <2> QED
    BY Zenon, <1>4, <2>1, <2>2 DEF Flushed
<1> QED
  BY Zenon, <1>1, <1>2, <1>3, <1>4

(* A client stays ahead of what gets nothing younger of its own. *)
LEMMA AheadKeeps ==
  ASSUME NEW d, Ahead(d), pc'[d] = pc[d], cur'[d] = cur[d],
         OlderIn(db, cmds, d, cur[d].id) => OlderIn(db', cmds', d, cur[d].id),
         OlderDisk(d, cur[d].id) /\ OlderTemp(d, cur[d].id) =>
           Older(base', Flushed', cmds', d, cur[d].id),
         OlderTemp(d, cur[d].id) /\ OlderNoted(d, cur[d].id) =>
           Older(temp'.base, temp'.log, cmds', d, cur[d].id),
         OlderNoted(d, cur[d].id) => Older(temp'.base, rewriteBuf', cmds', d, cur[d].id)
  PROVE  Ahead(d)'
<1> DEFINE i == cur[d].id
<1>1. i = cur'[d].id /\ (pc[d] # "idle" => cur'[d].by = d)
  BY Zenon DEF Ahead
<1> HIDE DEF i
<1>2. pc[d] = "apply" => OlderIn(db', cmds', d, i)
  BY Zenon DEF Ahead, i
<1>3. pc[d] \in {"apply", "feed"} => Older(base', Flushed', cmds', d, i)
  BY Zenon DEF Ahead, i
<1>4. pc[d] \in {"apply", "feed"} => Older(temp'.base, temp'.log, cmds', d, i)
  BY Zenon DEF Ahead, i
<1>5. pc[d] \in {"apply", "feed", "note"} => Older(temp'.base, rewriteBuf', cmds', d, i)
  BY Zenon DEF Ahead, i
<1> QED
  BY ZenonT(40), <1>1, <1>2, <1>3, <1>4, <1>5 DEF Ahead, OlderDisk, OlderTemp, OlderNoted

(* One that moves on keeps those of the facts that it still needs. *)
LEMMA AheadMoves ==
  ASSUME NEW c \in Clients, Ahead(c), pc[c] # "idle", cur'[c] = cur[c], pc'[c] # "apply",
         pc'[c] = "feed" => Older(base', Flushed', cmds', c, cur[c].id)
                            /\ Older(temp'.base, temp'.log, cmds', c, cur[c].id),
         pc'[c] \in {"feed", "note"} => Older(temp'.base, rewriteBuf', cmds', c, cur[c].id)
  PROVE  Ahead(c)'
<1>1. pc'[c] # "idle" => cur'[c].by = c
  BY Zenon DEF Ahead
<1>2. pc'[c] \in {"apply", "feed"} => OlderDisk(c, cur[c].id)' /\ OlderTemp(c, cur[c].id)'
  BY Zenon DEF OlderDisk, OlderTemp
<1>3. pc'[c] \in {"apply", "feed", "note"} => OlderNoted(c, cur[c].id)'
  BY Zenon DEF OlderNoted
<1> QED
  BY ZenonT(40), <1>1, <1>2, <1>3 DEF Ahead

(* A new command is younger than all there is. *)
LEMMA OrderIssue ==
  ASSUME Traced, OrderInv, NEW c \in Clients, NEW k \in Keys, NEW tx,
         tx \in 0 .. MaxCmds \/ tx = Len(cmds) + 1, Issue(c, k, tx), Goto(c, "apply"),
         UNCHANGED <<db, base, log, open, buf, rewriteBuf, temp>>
  PROVE  OrderInv'
<1> DEFINE n == Len(cmds) + 1
           e == [key |-> k, id |-> n, by |-> c, tx |-> tx]
<1>1. cmds \in Seq(Entries) /\ ClientsOK /\ FileOK /\ Len(cmds) \in Nat
  <2>1. cmds \in Seq(Entries) /\ ClientsOK /\ FileOK
    BY Zenon DEF Traced, ClientsOK
  <2> QED
    BY Zenon, <2>1, RangeMember
<1>2. /\ e \in Entries /\ e.id = n /\ e.by = c
      /\ cmds' = Append(cmds, e) /\ cur' = [cur EXCEPT ![c] = e]
  <2>1. n \in 0 .. MaxCmds
    BY SMTT(30), <1>1, AofAssumption DEF Issue
  <2> QED
    BY SMTT(30), <2>1 DEF Issue, Entries
<1> HIDE DEF e
<1>3. pc'[c] = "apply" /\ cur'[c] = e
  BY Zenon, <1>1, <1>2 DEF ClientsOK, Goto
<1>4. \A d \in Clients : d # c => pc'[d] = pc[d] /\ cur'[d] = cur[d]
  BY Zenon, <1>1, <1>2 DEF ClientsOK, Goto
<1>5. Flushed' = Flushed
  BY Zenon DEF Flushed
<1> HIDE DEF n
<1>6. /\ KnownIn(db, cmds) /\ KnownIn(base, cmds) /\ KnownIn(temp.base, cmds)
      /\ KnownLog(Flushed, cmds) /\ KnownLog(rewriteBuf, cmds) /\ KnownLog(temp.log, cmds)
  BY Zenon, <1>1, FlushedStays DEF Traced, MemOK, FileOK, RewriteOK
<1>7. ASSUME NEW b, NEW l, KnownIn(b, cmds), KnownLog(l, cmds)
      PROVE  /\ Sorted(b, cmds) => Sorted(b, cmds')
             /\ Lined(b, l, cmds) => Lined(b, l, cmds')
             /\ \A d, i : OlderIn(b, cmds, d, i) => OlderIn(b, cmds', d, i)
             /\ \A d, i : Older(b, l, cmds, d, i) => Older(b, l, cmds', d, i)
             /\ \A d : OlderIn(b, cmds', d, n) /\ Older(b, l, cmds', d, n)
  BY ZenonT(40), <1>1, <1>2, <1>7, LinedGrows DEF n
<1>8. Sorted(db, cmds)' /\ DiskLined' /\ TempLined'
  BY Zenon, <1>5, <1>6, <1>7 DEF OrderInv, DiskLined, TempLined
<1>9. Ahead(c)'
  <2>1. OlderIn(db', cmds', c, n)
    BY Zenon, <1>6, <1>7
  <2>2. Older(base', Flushed', cmds', c, n)
    BY Zenon, <1>5, <1>6, <1>7
  <2>3. Older(temp'.base, temp'.log, cmds', c, n) /\ Older(temp'.base, rewriteBuf', cmds', c, n)
    BY Zenon, <1>6, <1>7
  <2> QED
    BY ZenonT(40), <1>2, <1>3, <2>1, <2>2, <2>3 DEF Ahead, OlderDisk, OlderTemp, OlderNoted
<1>10. ASSUME NEW d \in Clients, d # c
       PROVE  Ahead(d)'
  <2> DEFINE i == cur[d].id
  <2>1. Ahead(d) /\ pc'[d] = pc[d] /\ cur'[d] = cur[d]
    BY Zenon, <1>4, <1>10 DEF OrderInv
  <2>2. OlderIn(db, cmds, d, i) => OlderIn(db', cmds', d, i)
    BY Zenon, <1>6, <1>7
  <2>3. OlderDisk(d, i) => Older(base', Flushed', cmds', d, i)
    BY Zenon, <1>5, <1>6, <1>7 DEF OlderDisk
  <2>4. /\ OlderTemp(d, i) => Older(temp'.base, temp'.log, cmds', d, i)
        /\ OlderNoted(d, i) => Older(temp'.base, rewriteBuf', cmds', d, i)
    BY Zenon, <1>6, <1>7 DEF OlderTemp, OlderNoted
  <2> QED
    BY ZenonT(40), <2>1, <2>2, <2>3, <2>4, AheadKeeps
<1>11. Numbered'
  <2>1. /\ DOMAIN Append(cmds, e) = DOMAIN cmds \cup {n} /\ Append(cmds, e)[n] = e
        /\ \A i \in DOMAIN cmds : Append(cmds, e)[i] = cmds[i]
    BY Zenon, <1>1, <1>2, CmdsGrow DEF n
  <2>2. \A i \in DOMAIN cmds' : cmds'[i].id = i
    BY Zenon, <1>2, <2>1 DEF OrderInv, Numbered
  <2> QED
    BY Zenon, <2>2 DEF Numbered
<1> QED
  BY ZenonT(40), <1>8, <1>9, <1>10, <1>11 DEF OrderInv

(* Writing a command that has only older ones of its client before it. *)
LEMMA WriteLined ==
  ASSUME FileOK, DiskLined, NEW e \in Entries, Writes(e), UNCHANGED <<open, cmds>>,
         e.id # 0 => OlderDisk(e.by, e.id)
  PROVE  /\ DiskLined'
         /\ \A c, i : OlderDisk(c, i) /\ (e.id = 0 \/ e.by # c)
                        => Older(base', Flushed', cmds', c, i)
<1>1. Flushed \in Seq(Entries) /\ base' = base /\ Lined(base, Flushed, cmds)
  BY Zenon, FlushedStays DEF Writes, DiskLined
<1>2. CASE Flushed' = Flushed
  BY Zenon, <1>1, <1>2 DEF DiskLined, OlderDisk
<1>3. CASE Flushed' = Append(Flushed, e)
  <2>1. e.id # 0 => Older(base, Flushed, cmds, e.by, e.id)
    BY Zenon DEF OlderDisk
  <2>2. /\ Lined(base, Append(Flushed, e), cmds)
        /\ \A c, i : Older(base, Flushed, cmds, c, i) /\ (e.id = 0 \/ e.by # c)
                       => Older(base, Append(Flushed, e), cmds, c, i)
    BY Zenon, <1>1, <2>1, LinedAppend
  <2> QED
    BY Zenon, <1>1, <1>3, <2>2 DEF DiskLined, OlderDisk
<1> QED
  BY Zenon, <1>2, <1>3, FlushedWrites

(* Noting one. *)
LEMMA NoteLined ==
  ASSUME RewriteOK, TempLined, NEW e \in Entries, Note(e) \/ rewriteBuf' = rewriteBuf,
         UNCHANGED <<temp, cmds>>, e.id # 0 => OlderNoted(e.by, e.id)
  PROVE  /\ TempLined'
         /\ \A c, i : OlderNoted(c, i) /\ (e.id = 0 \/ e.by # c)
                        => Older(temp'.base, rewriteBuf', cmds', c, i)
<1>1. rewriteBuf \in Seq(Entries) /\ Lined(temp.base, rewriteBuf, cmds)
  BY Zenon DEF RewriteOK, TempLined
<1>2. CASE rewriteBuf' = rewriteBuf
  BY Zenon, <1>2 DEF TempLined, OlderNoted
<1>3. CASE rewriteBuf' = Append(rewriteBuf, e)
  <2>1. e.id # 0 => Older(temp.base, rewriteBuf, cmds, e.by, e.id)
    BY Zenon DEF OlderNoted
  <2>2. /\ Lined(temp.base, Append(rewriteBuf, e), cmds)
        /\ \A c, i : Older(temp.base, rewriteBuf, cmds, c, i) /\ (e.id = 0 \/ e.by # c)
                       => Older(temp.base, Append(rewriteBuf, e), cmds, c, i)
    BY ZenonT(40), <1>1, <2>1, LinedAppend
  <2> QED
    BY Zenon, <1>3, <2>2 DEF TempLined, OlderNoted
<1> QED
  BY Zenon, <1>2, <1>3 DEF Note

(* What moving on leaves alone. *)
LEMMA MovesOnly ==
  ASSUME ClientsOK, NEW c, Moves(c)
  PROVE  /\ \A d \in Clients : d # c => pc'[d] = pc[d]
         /\ \A d \in Clients : cur'[d] = cur[d]
BY Zenon DEF ClientsOK, Moves

(* The steps of a client. *)
LEMMA OrderClient ==
  ASSUME Traced, OrderInv, NEW c \in Clients,
         \/ \E k \in Keys : BeginOp(c, k)
         \/ \E j, k \in Keys : BeginTx(c, <<j, k>>)
         \/ ClientStep(c)
  PROVE  OrderInv'
<1>0. /\ MemOK /\ FileOK /\ RewriteOK /\ ClientsOK /\ cur[c] \in Entries /\ batch[c] \in Seq(Keys)
      /\ DiskLined /\ TempLined /\ Sorted(db, cmds) /\ \A d \in Clients : Ahead(d)
  BY Zenon DEF Traced, ClientsOK, OrderInv
<1>1. ASSUME NEW k \in Keys, BeginOp(c, k)
      PROVE  OrderInv'
  <2>1. /\ Issue(c, k, 0) /\ Goto(c, "apply")
        /\ UNCHANGED <<db, base, log, open, buf, rewriteBuf, temp>>
    BY SMTT(30), <1>1 DEF BeginOp, file, rewrite
  <2>2. 0 \in 0 .. MaxCmds
    BY AofAssumption
  <2> QED
    BY ZenonT(40), <2>1, <2>2, OrderIssue
<1>2. ASSUME NEW j \in Keys, NEW k \in Keys, BeginTx(c, <<j, k>>)
      PROVE  OrderInv'
  <2>0. Head(<<j, k>>) = j
    BY SMTT(30)
  <2>1. /\ Issue(c, j, Len(cmds) + 1) /\ Goto(c, "apply")
        /\ UNCHANGED <<db, base, log, open, buf, rewriteBuf, temp>>
    BY SMTT(30), <1>2, <2>0 DEF BeginTx, file, rewrite
  <2> QED
    BY Zenon, <2>1, OrderIssue
<1>3. ASSUME pc[c] # "idle"
      PROVE  /\ cur[c].id \in DOMAIN cmds /\ cmds[cur[c].id] = cur[c] /\ cur[c].key \in Keys
             /\ cur[c].by = c /\ cur[c].id # 0
  <2>1. /\ cur[c].id \in DOMAIN cmds /\ cmds[cur[c].id] = cur[c]
        /\ cur[c].key \in Keys /\ cur[c].by = c
    BY Zenon, <1>0, <1>3 DEF ClientsOK, Ahead
  <2>2. 0 \notin DOMAIN cmds
    BY ZenonT(40), <1>0, NoZero DEF MemOK, ClientsOK
  <2> QED
    BY Zenon, <2>1, <2>2
<1>4. CASE Handle(c)
  <2>1. /\ Moves(c) /\ db' = Apply(db, cur[c]) /\ pc[c] = "apply" /\ Goto(c, "feed")
        /\ UNCHANGED <<base, log, open, buf, rewriteBuf, temp, cmds>>
    BY ZenonT(60), <1>4 DEF Handle, Moves, Goto, file, rewrite, history
  <2>2. /\ pc'[c] = "feed" /\ Flushed' = Flushed
        /\ \A d \in Clients : (d # c => pc'[d] = pc[d]) /\ cur'[d] = cur[d]
    <3>1. pc'[c] = "feed" /\ Flushed' = Flushed
      BY Zenon, <1>0, <2>1 DEF ClientsOK, Goto, Flushed
    <3> QED
      BY ZenonT(40), <1>0, <2>1, <3>1, MovesOnly
  <2> DEFINE e == cur[c]
  <2>3. /\ cmds[e.id] = e /\ e.by = c /\ e.id # 0 /\ OlderIn(db, cmds, c, e.id)
        /\ OlderDisk(c, e.id) /\ OlderTemp(c, e.id) /\ OlderNoted(c, e.id)
    <3>1. /\ OlderIn(db, cmds, c, e.id)
          /\ OlderDisk(c, e.id) /\ OlderTemp(c, e.id) /\ OlderNoted(c, e.id)
      BY Zenon, <1>0, <2>1 DEF Ahead
    <3> QED
      BY Zenon, <1>3, <2>1, <3>1
  <2> HIDE DEF e
  <2>4. /\ Sorted(db', cmds)
        /\ \A k \in Keys : \A x \in Range(db'[k]) : x \in Range(db[k]) \/ (x = e.id /\ e.id # 0)
    <3>1. db \in Values /\ e \in Entries
      BY Zenon, <1>0 DEF MemOK, e
    <3>2. e.key \in Keys => \A x \in Range(db[e.key]) : cmds[x].by = e.by => x < e.id
      BY Zenon, <2>3 DEF OlderIn
    <3>3. db' = Apply(db, e)
      BY Zenon, <2>1 DEF e
    <3> QED
      BY ZenonT(40), <1>0, <2>3, <3>1, <3>2, <3>3, ApplySorted
  <2>5. Sorted(db, cmds)' /\ DiskLined' /\ TempLined' /\ Numbered'
    BY ZenonT(40), <1>0, <2>1, <2>2, <2>4 DEF DiskLined, TempLined, OrderInv, Numbered
  <2>6. Ahead(c)'
    <3>1. /\ Older(base', Flushed', cmds', c, cur[c].id)
          /\ Older(temp'.base, temp'.log, cmds', c, cur[c].id)
          /\ Older(temp'.base, rewriteBuf', cmds', c, cur[c].id)
      BY ZenonT(40), <2>1, <2>2, <2>3 DEF OlderDisk, OlderTemp, OlderNoted, e
    <3> QED
      BY ZenonT(40), <1>0, <2>1, <2>2, <3>1, AheadMoves
  <2>7. ASSUME NEW d \in Clients, d # c
        PROVE  Ahead(d)'
    <3>1. OlderIn(db, cmds, d, cur[d].id) => OlderIn(db', cmds', d, cur[d].id)
      BY ZenonT(40), <2>1, <2>3, <2>4, <2>7 DEF OlderIn
    <3>2. /\ OlderDisk(d, cur[d].id) => Older(base', Flushed', cmds', d, cur[d].id)
          /\ OlderTemp(d, cur[d].id) => Older(temp'.base, temp'.log, cmds', d, cur[d].id)
          /\ OlderNoted(d, cur[d].id) => Older(temp'.base, rewriteBuf', cmds', d, cur[d].id)
      BY Zenon, <2>1, <2>2 DEF OlderDisk, OlderTemp, OlderNoted
    <3> QED
      BY ZenonT(40), <1>0, <2>2, <2>7, <3>1, <3>2, AheadKeeps
  <2> QED
    BY ZenonT(40), <2>5, <2>6, <2>7 DEF OrderInv
<1>5. CASE Feed(c)
  <2>1. /\ Moves(c) /\ Writes(cur[c]) /\ pc[c] = "feed" /\ (Goto(c, "reply") \/ Goto(c, "note"))
        /\ UNCHANGED <<db, open, rewriteBuf, temp, cmds>>
    BY ZenonT(60), <1>5 DEF Feed, Moves, Writes, Goto, rewrite, history
  <2>2. /\ pc'[c] \in {"reply", "note"}
        /\ \A d \in Clients : (d # c => pc'[d] = pc[d]) /\ cur'[d] = cur[d]
    <3>1. pc'[c] \in {"reply", "note"}
      BY Zenon, <1>0, <2>1 DEF ClientsOK, Goto
    <3> QED
      BY Zenon, <1>0, <2>1, <3>1, MovesOnly
  <2>3. cur[c].by = c /\ OlderDisk(c, cur[c].id) /\ OlderNoted(c, cur[c].id)
    BY Zenon, <1>0, <1>3, <2>1 DEF Ahead
  <2>4. /\ DiskLined'
        /\ \A d, i : OlderDisk(d, i) /\ d # c => Older(base', Flushed', cmds', d, i)
    BY ZenonT(40), <1>0, <2>1, <2>3, WriteLined
  <2>5. Sorted(db, cmds)' /\ TempLined' /\ Numbered'
    BY Zenon, <1>0, <2>1 DEF TempLined, OrderInv, Numbered
  <2>6. Ahead(c)'
    <3>1. Older(temp'.base, rewriteBuf', cmds', c, cur[c].id)
      BY Zenon, <2>1, <2>3 DEF OlderNoted
    <3> QED
      BY ZenonT(40), <1>0, <2>1, <2>2, <3>1, AheadMoves
  <2>7. ASSUME NEW d \in Clients, d # c
        PROVE  Ahead(d)'
    <3>1. /\ OlderIn(db, cmds, d, cur[d].id) => OlderIn(db', cmds', d, cur[d].id)
          /\ OlderTemp(d, cur[d].id) => Older(temp'.base, temp'.log, cmds', d, cur[d].id)
          /\ OlderNoted(d, cur[d].id) => Older(temp'.base, rewriteBuf', cmds', d, cur[d].id)
      BY Zenon, <2>1 DEF OlderTemp, OlderNoted
    <3> QED
      BY ZenonT(40), <1>0, <2>2, <2>4, <2>7, <3>1, AheadKeeps
  <2> QED
    BY ZenonT(40), <2>4, <2>5, <2>6, <2>7 DEF OrderInv
<1>6. CASE FeedNote(c)
  <2>1. /\ Moves(c) /\ Note(cur[c]) /\ pc[c] = "note" /\ (Goto(c, "flush") \/ Goto(c, "reply"))
        /\ UNCHANGED <<db, base, log, open, buf, temp, cmds>>
    BY ZenonT(60), <1>6 DEF FeedNote, Moves, Goto, file, history
  <2>2. /\ pc'[c] \in {"reply", "flush"} /\ Flushed' = Flushed
        /\ \A d \in Clients : (d # c => pc'[d] = pc[d]) /\ cur'[d] = cur[d]
    <3>1. pc'[c] \in {"reply", "flush"} /\ Flushed' = Flushed
      BY Zenon, <1>0, <2>1 DEF ClientsOK, Goto, Flushed
    <3> QED
      BY ZenonT(40), <1>0, <2>1, <3>1, MovesOnly
  <2>3. cur[c].by = c /\ OlderNoted(c, cur[c].id)
    BY Zenon, <1>0, <1>3, <2>1 DEF Ahead
  <2>4. /\ TempLined'
        /\ \A d, i : OlderNoted(d, i) /\ d # c => Older(temp'.base, rewriteBuf', cmds', d, i)
    BY ZenonT(40), <1>0, <2>1, <2>3, NoteLined
  <2>5. Sorted(db, cmds)' /\ DiskLined' /\ Numbered'
    BY Zenon, <1>0, <2>1, <2>2 DEF DiskLined, OrderInv, Numbered
  <2>6. Ahead(c)'
    BY ZenonT(40), <1>0, <2>1, <2>2, AheadMoves
  <2>7. ASSUME NEW d \in Clients, d # c
        PROVE  Ahead(d)'
    <3>1. /\ OlderIn(db, cmds, d, cur[d].id) => OlderIn(db', cmds', d, cur[d].id)
          /\ OlderDisk(d, cur[d].id) => Older(base', Flushed', cmds', d, cur[d].id)
          /\ OlderTemp(d, cur[d].id) => Older(temp'.base, temp'.log, cmds', d, cur[d].id)
      BY ZenonT(40), <2>1, <2>2 DEF OlderDisk, OlderTemp
    <3> QED
      BY ZenonT(40), <1>0, <2>2, <2>4, <2>7, <3>1, AheadKeeps
  <2> QED
    BY Zenon, <2>4, <2>5, <2>6, <2>7 DEF OrderInv
<1>7. CASE FeedFlush(c) \/ FeedSync(c)
  <2>1. /\ Moves(c) /\ Flushes /\ UNCHANGED <<db, rewriteBuf, temp, cmds>>
        /\ Goto(c, "sync") \/ Goto(c, "reply")
    BY SMTT(30), <1>7 DEF FeedFlush, FeedSync, Moves, Flushes, Goto, rewrite, history
  <2>2. /\ pc'[c] \in {"reply", "sync"} /\ Flushed' = Flushed /\ base' = base
        /\ \A d \in Clients : (d # c => pc'[d] = pc[d]) /\ cur'[d] = cur[d]
    <3>1. pc'[c] \in {"reply", "sync"} /\ base' = base
      BY Zenon, <1>0, <2>1 DEF ClientsOK, Goto, Flushes
    <3>2. Flushed' = Flushed
      BY ZenonT(40), <1>0, <2>1, FlushedStays
    <3> QED
      BY ZenonT(40), <1>0, <2>1, <3>1, <3>2, MovesOnly
  <2>3. Sorted(db, cmds)' /\ DiskLined' /\ TempLined' /\ Numbered'
    BY Zenon, <1>0, <2>1, <2>2 DEF DiskLined, TempLined, OrderInv, Numbered
  <2>4. Ahead(c)'
    BY ZenonT(40), <1>0, <2>1, <2>2, AheadMoves DEF Moves
  <2>5. ASSUME NEW d \in Clients, d # c
        PROVE  Ahead(d)'
    <3>1. /\ OlderIn(db, cmds, d, cur[d].id) => OlderIn(db', cmds', d, cur[d].id)
          /\ OlderDisk(d, cur[d].id) => Older(base', Flushed', cmds', d, cur[d].id)
          /\ OlderTemp(d, cur[d].id) => Older(temp'.base, temp'.log, cmds', d, cur[d].id)
          /\ OlderNoted(d, cur[d].id) => Older(temp'.base, rewriteBuf', cmds', d, cur[d].id)
      BY Zenon, <2>1, <2>2 DEF OlderDisk, OlderTemp, OlderNoted
    <3> QED
      BY ZenonT(40), <1>0, <2>2, <2>5, <3>1, AheadKeeps
  <2> QED
    BY ZenonT(40), <2>3, <2>4, <2>5 DEF OrderInv
<1>8. CASE Reply(c) /\ batch[c] # << >>
  <2>0. Head(batch[c]) \in Keys
    BY SMTT(30), <1>0, <1>8
  <2>1. /\ Issue(c, Head(batch[c]), cur[c].tx) /\ Goto(c, "apply")
        /\ UNCHANGED <<db, base, log, open, buf, rewriteBuf, temp>>
    BY SMTT(30), <1>8 DEF Reply, file, rewrite
  <2>2. cur[c].tx \in 0 .. MaxCmds
    BY SMTT(30), <1>0 DEF Entries
  <2> QED
    BY ZenonT(40), <2>0, <2>1, <2>2, OrderIssue
<1>9. CASE Reply(c) /\ batch[c] = << >>
  <2>1. /\ pc' = [pc EXCEPT ![c] = "idle"] /\ cur' = [cur EXCEPT ![c] = Nothing]
        /\ UNCHANGED <<db, base, log, open, buf, rewriteBuf, temp, cmds>>
    BY SMTT(30), <1>9 DEF Reply, Goto, file, rewrite
  <2>2. /\ pc'[c] = "idle" /\ Flushed' = Flushed
        /\ \A d \in Clients : d # c => pc'[d] = pc[d] /\ cur'[d] = cur[d]
    BY Zenon, <1>0, <2>1 DEF ClientsOK, Flushed
  <2>3. Sorted(db, cmds)' /\ DiskLined' /\ TempLined' /\ Numbered'
    BY Zenon, <1>0, <2>1, <2>2 DEF DiskLined, TempLined, OrderInv, Numbered
  <2>4. Ahead(c)'
    BY Zenon, <2>2 DEF Ahead
  <2>5. ASSUME NEW d \in Clients, d # c
        PROVE  Ahead(d)'
    <3>1. /\ OlderIn(db, cmds, d, cur[d].id) => OlderIn(db', cmds', d, cur[d].id)
          /\ OlderDisk(d, cur[d].id) => Older(base', Flushed', cmds', d, cur[d].id)
          /\ OlderTemp(d, cur[d].id) => Older(temp'.base, temp'.log, cmds', d, cur[d].id)
          /\ OlderNoted(d, cur[d].id) => Older(temp'.base, rewriteBuf', cmds', d, cur[d].id)
      BY Zenon, <2>1, <2>2 DEF OlderDisk, OlderTemp, OlderNoted
    <3> QED
      BY ZenonT(40), <1>0, <2>2, <2>5, <3>1, AheadKeeps
  <2> QED
    BY ZenonT(40), <2>3, <2>4, <2>5 DEF OrderInv
<1> QED
  BY ZenonT(40), <1>1, <1>2, <1>4, <1>5, <1>6, <1>7, <1>8, <1>9 DEF ClientStep

(* A step that no client takes. *)
LEMMA AheadAll ==
  ASSUME \A c \in Clients : Ahead(c), UNCHANGED <<pc, cur>>,
         \A c \in Clients : \A i : OlderIn(db, cmds, c, i) => OlderIn(db', cmds', c, i),
         \A c \in Clients : \A i :
           OlderDisk(c, i) /\ OlderTemp(c, i) => Older(base', Flushed', cmds', c, i),
         \A c \in Clients : \A i :
           OlderTemp(c, i) /\ OlderNoted(c, i) => Older(temp'.base, temp'.log, cmds', c, i),
         \A c \in Clients : \A i : OlderNoted(c, i) => Older(temp'.base, rewriteBuf', cmds', c, i)
  PROVE  \A c \in Clients : Ahead(c)'
<1> SUFFICES ASSUME NEW c \in Clients
             PROVE  Ahead(c)'
  BY Zenon
<1> QED
  BY Zenon, AheadKeeps

(* The steps of the tickers, of expiry and of Server.Close. *)
LEMMA OrderBackground ==
  ASSUME Traced, OrderInv, Background \/ Close \/ \E k \in Keys : Expire(k)
  PROVE  OrderInv'
<1>0. /\ MemOK /\ FileOK /\ RewriteOK /\ ClientsOK /\ gone \in Seq(Keys)
      /\ DiskLined /\ TempLined /\ Sorted(db, cmds) /\ \A d \in Clients : Ahead(d)
  BY Zenon DEF Traced, ClientsOK, OrderInv
<1>1. CASE FlusherTick \/ SyncTick \/ Close
  <2>1. Flushes /\ UNCHANGED <<db, rewriteBuf, temp, pc, cur, cmds>>
    BY SMTT(30), <1>1 DEF FlusherTick, SyncTick, Close, Flushes, client, rewrite, history
  <2>2. Flushed' = Flushed /\ base' = base
    BY Zenon, <1>0, <2>1, FlushedStays DEF Flushes
  <2>3. Sorted(db, cmds)' /\ DiskLined' /\ TempLined' /\ Numbered'
    BY Zenon, <1>0, <2>1, <2>2 DEF DiskLined, TempLined, OrderInv, Numbered
  <2>4. \A c \in Clients : Ahead(c)'
    BY Zenon, <1>0, <2>1, <2>2 DEF Ahead, OlderDisk, OlderTemp, OlderNoted
  <2> QED
    BY Zenon, <2>3, <2>4 DEF OrderInv
<1>2. CASE notifyExpired
  <2> DEFINE e == Report(Head(gone))
  <2>0. Head(gone) \in Keys
    BY SMTT(30), <1>0, <1>2 DEF notifyExpired
  <2>1. e \in Entries /\ e.id = 0
    BY Zenon, <2>0, ReportIs
  <2>2. /\ Writes(e) /\ (Note(e) \/ rewriteBuf' = rewriteBuf)
        /\ UNCHANGED <<db, open, temp, pc, cur, cmds>>
    BY Zenon, <1>2 DEF notifyExpired, Report, Writes, client, history
  <2> HIDE DEF e
  <2>3. DiskLined' /\ \A c, i : OlderDisk(c, i) => Older(base', Flushed', cmds', c, i)
    BY ZenonT(40), <1>0, <2>1, <2>2, WriteLined
  <2>4. TempLined' /\ \A c, i : OlderNoted(c, i) => Older(temp'.base, rewriteBuf', cmds', c, i)
    BY Zenon, <1>0, <2>1, <2>2, NoteLined
  <2>5. \A c, i : /\ OlderIn(db, cmds, c, i) => OlderIn(db', cmds', c, i)
                  /\ OlderTemp(c, i) => Older(temp'.base, temp'.log, cmds', c, i)
    BY Zenon, <2>2 DEF OlderTemp
  <2>6. \A c \in Clients : Ahead(c)'
    BY ZenonT(40), <1>0, <2>2, <2>3, <2>4, <2>5, AheadAll
  <2>7. Sorted(db, cmds)' /\ Numbered'
    BY Zenon, <1>0, <2>2 DEF OrderInv, Numbered
  <2> QED
    BY ZenonT(40), <2>3, <2>4, <2>6, <2>7 DEF OrderInv
<1>3. ASSUME NEW k \in Keys, Expire(k)
      PROVE  OrderInv'
  <2>1. /\ db' = [db EXCEPT ![k] = << >>]
        /\ UNCHANGED <<base, log, open, buf, rewriteBuf, temp, pc, cur, cmds>>
    BY <1>3 DEF Expire, client, file, rewrite, history
  <2>2. \A j \in Keys : db'[j] = db[j] \/ db'[j] = << >>
    BY Zenon, <1>0, <2>1 DEF MemOK, Values
  <2>3. DOMAIN << >> = {} /\ Range(<< >>) = {} /\ Flushed' = Flushed
    <3>1. DOMAIN << >> = {}
      BY SMT
    <3> QED
      BY Zenon, <2>1, <3>1, RangeSmall DEF Flushed
  <2>4. Sorted(db', cmds)
    <3> SUFFICES ASSUME NEW h \in Keys, NEW i \in DOMAIN db'[h], NEW j \in DOMAIN db'[h],
                        i < j, cmds[db'[h][i]].by = cmds[db'[h][j]].by
                 PROVE  db'[h][i] < db'[h][j]
      BY Zenon DEF Sorted
    <3>1. db'[h] = db[h]
      BY Zenon, <2>2, <2>3
    <3> QED
      BY Zenon, <1>0, <3>1 DEF Sorted
  <2>5. \A c, i : OlderIn(db, cmds, c, i) => OlderIn(db', cmds', c, i)
    <3>1. \A j \in Keys : \A x \in Range(db'[j]) : x \in Range(db[j])
      BY Zenon, <2>2, <2>3
    <3> QED
      BY Zenon, <2>1, <3>1 DEF OlderIn
  <2>6. \A c, i : /\ OlderDisk(c, i) => Older(base', Flushed', cmds', c, i)
                  /\ OlderTemp(c, i) => Older(temp'.base, temp'.log, cmds', c, i)
                  /\ OlderNoted(c, i) => Older(temp'.base, rewriteBuf', cmds', c, i)
    BY Zenon, <2>1, <2>3 DEF OlderDisk, OlderTemp, OlderNoted
  <2>7. \A c \in Clients : Ahead(c)'
    BY ZenonT(40), <1>0, <2>1, <2>5, <2>6, AheadAll
  <2>8. Sorted(db, cmds)' /\ DiskLined' /\ TempLined' /\ Numbered'
    BY Zenon, <1>0, <2>1, <2>3, <2>4 DEF DiskLined, TempLined, OrderInv, Numbered
  <2> QED
    BY Zenon, <2>7, <2>8 DEF OrderInv
<1> QED
  BY Zenon, <1>1, <1>2, <1>3 DEF Background

(* The steps of Rewrite: it snapshots the keyspace while no command is     *)
(* under way, and takes over what was noted since.                         *)
LEMMA OrderRewrite ==
  ASSUME Traced, OnceInv, OrderInv, RewriteLock \/ RewriteStep
  PROVE  OrderInv'
<1>0. /\ MemOK /\ FileOK /\ RewriteOK /\ ClientsOK /\ temp \in [base : Values, log : Seq(Entries)]
      /\ DiskLined /\ TempLined /\ Sorted(db, cmds) /\ Sorted(temp.base, cmds) /\ Phases
      /\ \A d \in Clients : Ahead(d)
  BY Zenon DEF Traced, RewriteOK, OrderInv, OnceInv, TempLined, Lined
<1>1. ASSUME UNCHANGED <<db, cmds>>
      PROVE  /\ Sorted(db, cmds)' /\ Numbered'
             /\ \A c, i : OlderIn(db, cmds, c, i) => OlderIn(db', cmds', c, i)
  BY Zenon, <1>0, <1>1 DEF OrderInv, Numbered
<1>2. ASSUME NEW b, Sorted(b, cmds)
      PROVE  /\ Lined(b, << >>, cmds)
             /\ \A l, c, i : Older(b, l, cmds, c, i) => Older(b, << >>, cmds, c, i)
  BY Zenon, <1>2, LinedEmpty DEF Older
<1>3. CASE RewriteLock \/ RewriteUnlock
  <2>1. /\ rewriteBuf' = << >> \/ rewriteBuf' = rewriteBuf
        /\ UNCHANGED <<db, base, log, open, buf, temp, pc, cur, cmds>>
    BY SMTT(30), <1>3 DEF RewriteLock, RewriteUnlock, client, file, history
  <2>2. Flushed' = Flushed
    BY Zenon, <2>1 DEF Flushed
  <2>3. DiskLined'
    BY Zenon, <1>0, <2>1, <2>2 DEF DiskLined
  <2>4. TempLined' /\ \A c, i : OlderNoted(c, i) => Older(temp'.base, rewriteBuf', cmds', c, i)
    BY Zenon, <1>0, <1>2, <2>1 DEF TempLined, OlderNoted
  <2>5. \A c, i : /\ OlderDisk(c, i) => Older(base', Flushed', cmds', c, i)
                  /\ OlderTemp(c, i) => Older(temp'.base, temp'.log, cmds', c, i)
    BY Zenon, <2>1, <2>2 DEF OlderDisk, OlderTemp
  <2>6. \A c \in Clients : Ahead(c)'
    BY ZenonT(40), <1>0, <1>1, <2>1, <2>4, <2>5, AheadAll
  <2> QED
    BY ZenonT(40), <1>1, <2>1, <2>3, <2>4, <2>6 DEF OrderInv
<1>4. ASSUME NEW k \in Keys, SnapshotShard(k)
      PROVE  OrderInv'
  <2>1. UNCHANGED <<db, base, log, open, buf, rewriteBuf, pc, cur, cmds>> /\ rw = "snapshot"
    BY <1>4 DEF SnapshotShard, client, file, history
  <2>2. /\ temp'.log = temp.log /\ temp'.base[k] = db[k]
        /\ \A j \in Keys : j # k => temp'.base[j] = temp.base[j]
    BY ZenonT(40), <1>0, <1>4, SnapshotIs DEF MemOK
  <2>3. Flushed' = Flushed
    BY Zenon, <2>1 DEF Flushed
  <2>4. temp.log = << >> /\ Ids(rewriteBuf) = {} /\ \A c \in Clients : pc[c] = "idle"
    BY Zenon, <1>0, <2>1 DEF Phases
  <2>5. Sorted(temp'.base, cmds)
    <3> SUFFICES ASSUME NEW h \in Keys,
                        NEW i \in DOMAIN temp'.base[h], NEW j \in DOMAIN temp'.base[h],
                        i < j, cmds[temp'.base[h][i]].by = cmds[temp'.base[h][j]].by
                 PROVE  temp'.base[h][i] < temp'.base[h][j]
      BY Zenon DEF Sorted
    <3>1. CASE h = k
      BY ZenonT(40), <1>0, <2>2, <3>1 DEF Sorted
    <3>2. CASE h # k
      <4>1. temp'.base[h] = temp.base[h]
        BY Zenon, <2>2, <3>2
      <4> QED
        BY Zenon, <1>0, <4>1 DEF Sorted
    <3> QED
      BY Zenon, <3>1, <3>2
  <2>6. Lined(temp'.base, rewriteBuf, cmds)
    <3>1. \A e \in Range(rewriteBuf) : e.id = 0
      BY Zenon, <2>4 DEF Ids
    <3>2. SortedLog(rewriteBuf)
      BY Zenon, <1>0 DEF TempLined, Lined
    <3> QED
      BY ZenonT(40), <2>5, <3>1, <3>2 DEF Lined
  <2>7. Lined(temp'.base, temp'.log, cmds)
    BY Zenon, <1>2, <2>2, <2>4, <2>5
  <2>8. DiskLined' /\ TempLined'
    BY Zenon, <1>0, <2>1, <2>3, <2>6, <2>7 DEF DiskLined, TempLined
  <2>9. \A c \in Clients : Ahead(c)'
    BY Zenon, <2>1, <2>4 DEF Ahead
  <2> QED
    BY ZenonT(40), <1>1, <2>1, <2>8, <2>9 DEF OrderInv
<1>5. CASE Drain
  <2>1. /\ temp' = [temp EXCEPT !.log = rewriteBuf] /\ rewriteBuf' = << >>
        /\ UNCHANGED <<db, base, log, open, buf, pc, cur, cmds>>
    BY SMTT(30), <1>5 DEF Drain, client, file, history
  <2>2. temp'.base = temp.base /\ temp'.log = rewriteBuf
    BY SMTT(30), <1>0, <2>1
  <2>3. Flushed' = Flushed
    BY Zenon, <2>1 DEF Flushed
  <2>4. DiskLined' /\ TempLined'
    BY ZenonT(40), <1>0, <1>2, <2>1, <2>2, <2>3 DEF DiskLined, TempLined
  <2>5. \A c, i : /\ OlderDisk(c, i) => Older(base', Flushed', cmds', c, i)
                  /\ OlderNoted(c, i) => Older(temp'.base, temp'.log, cmds', c, i)
                  /\ OlderNoted(c, i) => Older(temp'.base, rewriteBuf', cmds', c, i)
    BY ZenonT(40), <1>0, <1>2, <2>1, <2>2, <2>3 DEF OlderDisk, OlderNoted
  <2>6. \A c \in Clients : Ahead(c)'
    BY ZenonT(40), <1>0, <1>1, <2>1, <2>5, AheadAll
  <2> QED
    BY ZenonT(40), <1>1, <2>1, <2>4, <2>6 DEF OrderInv
<1>6. CASE CloseOld
  <2>1. Flushes /\ UNCHANGED <<db, rewriteBuf, temp, pc, cur, cmds>>
    BY SMTT(30), <1>6 DEF CloseOld, Flushes, client, history
  <2>2. Flushed' = Flushed /\ base' = base
    BY Zenon, <1>0, <2>1, FlushedStays DEF Flushes
  <2>3. DiskLined' /\ TempLined'
    BY Zenon, <1>0, <2>1, <2>2 DEF DiskLined, TempLined
  <2>4. \A c \in Clients : Ahead(c)'
    BY Zenon, <1>0, <2>1, <2>2 DEF Ahead, OlderDisk, OlderTemp, OlderNoted
  <2> QED
    BY ZenonT(40), <1>1, <2>1, <2>3, <2>4 DEF OrderInv
<1>7. CASE Rename
  <2>1. /\ base' = temp.base /\ log' = temp.log /\ rw = "rename"
        /\ UNCHANGED <<db, open, buf, rewriteBuf, temp, pc, cur, cmds>>
    BY <1>7 DEF Rename, client, history
  <2>2. Flushed' = temp.log
    BY Zenon, <1>0, <2>1 DEF Phases, Flushed
  <2>3. DiskLined' /\ TempLined'
    BY Zenon, <1>0, <2>1, <2>2 DEF DiskLined, TempLined
  <2>4. \A c, i : /\ OlderTemp(c, i) => Older(base', Flushed', cmds', c, i)
                  /\ OlderTemp(c, i) => Older(temp'.base, temp'.log, cmds', c, i)
                  /\ OlderNoted(c, i) => Older(temp'.base, rewriteBuf', cmds', c, i)
    BY Zenon, <2>1, <2>2 DEF OlderTemp, OlderNoted
  <2>5. \A c \in Clients : Ahead(c)'
    BY ZenonT(40), <1>0, <1>1, <2>1, <2>4, AheadAll
  <2> QED
    BY Zenon, <1>1, <2>1, <2>3, <2>5 DEF OrderInv
<1>8. CASE RewriteFails \/ Swap
  <2>1. /\ temp' = [base |-> NoKeys, log |-> << >>]
        /\ rewriteBuf' = << >> \/ rewriteBuf' = rewriteBuf
        /\ UNCHANGED <<db, base, log, pc, cur, cmds>>
    BY SMTT(30), <1>8 DEF RewriteFails, Swap, client, file, history
  <2>2. temp'.base = NoKeys /\ temp'.log = << >>
    BY <2>1
  <2>3. Flushed' = Flushed
    <3>1. CASE RewriteFails
      BY <3>1 DEF RewriteFails, file, Flushed
    <3>2. CASE Swap
      <4>1. ~open /\ open' /\ log' = log /\ buf' = << >>
        BY Zenon, <1>0, <3>2 DEF Swap, Phases
      <4>2. log \in Seq(Entries)
        BY Zenon, <1>0 DEF FileOK
      <4>3. log \o << >> = log
        BY SMTT(30), <4>2
      <4> QED
        BY Zenon, <4>1, <4>3 DEF Flushed
    <3> QED
      BY ZenonT(40), <1>8, <3>1, <3>2
  <2>4. Sorted(NoKeys, cmds) /\ \A c, i : OlderIn(NoKeys, cmds, c, i)
    BY Zenon, NoKeysSorted
  <2>5. /\ Lined(NoKeys, rewriteBuf', cmds)
        /\ \A c, i : OlderNoted(c, i) => Older(NoKeys, rewriteBuf', cmds, c, i)
    <3>1. CASE rewriteBuf' = << >>
      BY Zenon, <2>4, <3>1, LinedEmpty
    <3>2. CASE rewriteBuf' = rewriteBuf
      BY Zenon, <1>0, <2>4, <3>2 DEF TempLined, Lined, OlderNoted, Older
    <3> QED
      BY Zenon, <2>1, <3>1, <3>2
  <2>6. Lined(NoKeys, << >>, cmds) /\ \A c, i : Older(NoKeys, << >>, cmds, c, i)
    BY Zenon, <2>4, LinedEmpty
  <2>7. DiskLined' /\ TempLined'
    BY Zenon, <1>0, <2>1, <2>2, <2>3, <2>5, <2>6 DEF DiskLined, TempLined
  <2>8. \A c, i : /\ OlderDisk(c, i) => Older(base', Flushed', cmds', c, i)
                  /\ Older(temp'.base, temp'.log, cmds', c, i)
                  /\ OlderNoted(c, i) => Older(temp'.base, rewriteBuf', cmds', c, i)
    BY ZenonT(40), <2>1, <2>2, <2>3, <2>5, <2>6 DEF OlderDisk
  <2>9. \A c \in Clients : Ahead(c)'
    BY ZenonT(40), <1>0, <1>1, <2>1, <2>8, AheadAll
  <2> QED
    BY Zenon, <1>1, <2>1, <2>7, <2>9 DEF OrderInv
<1> QED
  BY ZenonT(40), <1>3, <1>4, <1>5, <1>6, <1>7, <1>8 DEF RewriteStep

(* A crash leaves a prefix of the file, its last command perhaps torn. *)
LEMMA OrderCrash ==
  ASSUME Traced, OrderInv, Crash
  PROVE  OrderInv'
<1>0. /\ FileOK /\ base \in Values
      /\ log \in Seq(Entries) /\ synced \in 0 .. Len(log) /\ Len(log) \in Nat
      /\ KnownLog(log, cmds) /\ Lined(base, Flushed, cmds) /\ Sorted(base, cmds)
  BY Zenon, RangeMember DEF Traced, FileOK, OrderInv, DiskLined, Lined
<1>1. PICK n \in synced .. Len(log) :
        Restart(SubSeq(log, 1, n)) \/ Restart(Append(SubSeq(log, 1, n), Torn))
  BY Zenon DEF Crash
<1>2. n \in 0 .. Len(log)
  BY SMTT(30), <1>0, <1>1
<1> DEFINE s == SubSeq(log, 1, n)
           t == Append(s, Torn)
<1>3. /\ s \in Seq(Entries) /\ Range(s) \subseteq Range(log) /\ Len(s) = n
      /\ \A i \in 1 .. n : s[i] = log[i]
  BY SMTT(30), <1>0, <1>2, RangePrefix
<1> HIDE DEF s
<1>4. Lined(base, s, cmds) /\ KnownLog(s, cmds)
  <2>1. /\ Flushed \in Seq(Entries) /\ Len(log) <= Len(Flushed)
        /\ \A i \in 1 .. Len(log) : log[i] = Flushed[i]
    BY Zenon, <1>0, FlushedStays
  <2>2. Lined(base, log, cmds)
    BY Zenon, <1>0, <2>1, LinedPrefix
  <2>3. Len(s) <= Len(log)
    BY SMTT(30), <1>0, <1>2, <1>3
  <2>4. Lined(base, s, cmds)
    BY ZenonT(40), <1>0, <1>3, <2>2, <2>3, LinedPrefix
  <2> QED
    BY Zenon, <1>0, <1>3, <2>4 DEF KnownLog
<1>5. Torn \in Entries /\ Torn.id = 0
  <2>1. Torn.id = 0
    BY SMTT(30) DEF Torn, Nothing
  <2> QED
    BY Zenon, <2>1, EmptyOK
<1>6. t \in Seq(Entries) /\ Range(t) = Range(s) \cup {Torn}
  BY SMTT(30), <1>3, <1>5, RangeAppend
<1>7. Lined(base, t, cmds) /\ KnownLog(t, cmds)
  <2>1. Lined(base, t, cmds)
    BY Zenon, <1>3, <1>4, <1>5, LinedAppend
  <2> QED
    BY ZenonT(40), <1>4, <1>5, <1>6, <2>1 DEF KnownLog
<1> HIDE DEF t
<1>8. PICK l \in Seq(Entries) : Restart(l) /\ Lined(base, l, cmds) /\ KnownLog(l, cmds)
  <2>1. Restart(s) \/ Restart(t)
    BY Zenon, <1>1 DEF s, t
  <2> QED
    BY ZenonT(40), <1>3, <1>4, <1>6, <1>7, <2>1
<1>9. /\ db' = Replay(base, l) /\ log' = l /\ open' = TRUE /\ buf' = << >>
      /\ pc' = [c \in Clients |-> "idle"] /\ rewriteBuf' = << >>
      /\ temp' = [base |-> NoKeys, log |-> << >>] /\ base' = base /\ cmds' = cmds
  BY Zenon, <1>8 DEF Restart
<1>10. Sorted(db, cmds)' /\ Numbered'
  <2>1. Sorted(Replay(base, l), cmds)
    BY ZenonT(40), <1>0, <1>8, ReplaySorted
  <2> QED
    BY Zenon, <1>9, <2>1 DEF OrderInv, Numbered
<1>11. DiskLined'
  <2>1. l \o << >> = l
    BY <1>8
  <2>2. Flushed' = l
    BY Zenon, <1>9, <2>1 DEF Flushed
  <2> QED
    BY ZenonT(40), <1>8, <1>9, <2>2 DEF DiskLined
<1>12. TempLined'
  <2>1. temp'.base = NoKeys /\ temp'.log = << >>
    BY SMTT(30), <1>9
  <2> QED
    BY ZenonT(40), <1>9, <2>1, NoKeysSorted, LinedEmpty DEF TempLined
<1>13. \A c \in Clients : Ahead(c)'
  BY Zenon, <1>9 DEF Ahead
<1> QED
  BY Zenon, <1>10, <1>11, <1>12, <1>13 DEF OrderInv

(* The empty server. *)
LEMMA OrderInit == Init => OrderInv
<1> SUFFICES ASSUME Init
             PROVE  OrderInv
  BY Zenon
<1>1. /\ db = NoKeys /\ base = NoKeys /\ log = << >> /\ buf = << >> /\ rewriteBuf = << >>
      /\ temp = [base |-> NoKeys, log |-> << >>] /\ cmds = << >> /\ pc = [c \in Clients |-> "idle"]
  BY Zenon DEF Init
<1>2. temp.base = NoKeys /\ temp.log = << >>
  BY SMTT(30), <1>1
<1>3. Flushed = << >>
  BY <1>1 DEF Flushed
<1>4. Sorted(NoKeys, cmds) /\ Lined(NoKeys, << >>, cmds)
  BY Zenon, NoKeysSorted, LinedEmpty
<1>5. Numbered
  BY <1>1 DEF Numbered
<1> QED
  BY ZenonT(40), <1>1, <1>2, <1>3, <1>4, <1>5 DEF OrderInv, DiskLined, TempLined, Ahead

(* Every step keeps the invariant. *)
LEMMA OrderStep ==
  ASSUME Traced, OnceInv, OrderInv, [Next]_vars
  PROVE  OrderInv'
<1>1. CASE UNCHANGED vars
  <2>1. UNCHANGED <<db, base, log, open, buf, rewriteBuf, temp, pc, cur, cmds>>
    BY SMTT(30), <1>1 DEF vars, client, file, rewrite, history
  <2>2. Flushed' = Flushed
    BY Zenon, <2>1 DEF Flushed
  <2>3. Sorted(db, cmds)' /\ DiskLined' /\ TempLined' /\ Numbered'
    BY Zenon, <2>1, <2>2 DEF OrderInv, DiskLined, TempLined, Numbered
  <2>4. \A c \in Clients : Ahead(c)'
    BY Zenon, <2>1, <2>2 DEF OrderInv, Ahead, OlderDisk, OlderTemp, OlderNoted
  <2> QED
    BY Zenon, <2>3, <2>4 DEF OrderInv
<1> QED
  BY ZenonT(40), <1>1, NextCases, OrderClient, OrderBackground, OrderRewrite, OrderCrash

(* Wherever the commands of one client are, they are in its order. *)
LEMMA OrderInvariant == Spec => []OrderInv
<1>1. Init => OrderInv
  BY OrderInit
<1>2. Traced /\ OnceInv /\ OrderInv /\ [Next]_vars => OrderInv'
  BY OrderStep
<1> QED
  BY <1>1, <1>2, TracedInvariant, OnceInvariant, PTL DEF Spec

(* Two commands of one client are replayed in the order the client sent    *)
(* them: the buffer, commands too large for it, a rewrite that runs at the *)
(* same time, expired keys, failing writes and crashes keep it             *)
(* (double_buffer.go:59-89, aof.go:186-229).                               *)
THEOREM ReplayKeepsOrder == Spec => []ClientOrder
<1>1. ASSUME Traced, OrderInv
      PROVE  ClientOrder
  <2>1. /\ base \in Values /\ log \in Seq(Entries) /\ FileOK
        /\ KnownIn(base, cmds) /\ KnownLog(log, cmds)
        /\ Lined(base, Flushed, cmds)
    BY Zenon, <1>1 DEF Traced, FileOK, OrderInv, DiskLined
  <2>2. Lined(base, log, cmds)
    <3>1. /\ Flushed \in Seq(Entries) /\ Len(log) <= Len(Flushed)
          /\ \A i \in 1 .. Len(log) : log[i] = Flushed[i]
      BY Zenon, <2>1, FlushedStays
    <3> QED
      BY Zenon, <2>1, <3>1, LinedPrefix
  <2>3. Sorted(Restored, cmds)
    BY Zenon, <2>1, <2>2, ReplaySorted DEF Restored
  <2>4. \A k \in Keys : \A x \in Range(Restored[k]) : cmds[x].id = x
    <3>1. \A k \in Keys : \A x \in Range(Restored[k]) : x \in Range(base[k]) \/ x \in Ids(log)
      BY Zenon, <2>1, ReplayTypes DEF Restored
    <3>2. \A x \in Ids(log) : x \in DOMAIN cmds
      BY Zenon, <2>1 DEF KnownLog, Ids
    <3>3. \A k \in Keys : \A x \in Range(base[k]) : x \in DOMAIN cmds
      BY Zenon, <2>1 DEF KnownIn
    <3>4. \A x \in DOMAIN cmds : cmds[x].id = x
      BY Zenon, <1>1 DEF OrderInv, Numbered
    <3> QED
      BY Zenon, <3>1, <3>2, <3>3, <3>4
  <2>5. ASSUME NEW k \in Keys, NEW i \in DOMAIN Restored[k], NEW j \in DOMAIN Restored[k],
               i < j, cmds[Restored[k][i]].by = cmds[Restored[k][j]].by
        PROVE  cmds[Restored[k][i]].id < cmds[Restored[k][j]].id
    <3>1. Restored[k][i] \in Range(Restored[k]) /\ Restored[k][j] \in Range(Restored[k])
      BY Zenon DEF Range
    <3>2. Restored[k][i] < Restored[k][j]
      BY Zenon, <2>3, <2>5 DEF Sorted
    <3> QED
      BY Zenon, <2>4, <3>1, <3>2
  <2> QED
    BY Zenon, <2>5 DEF ClientOrder
<1> QED
  BY <1>1, TracedInvariant, OrderInvariant, PTL
=============================================================================
