---------------------------- MODULE StringCommands ----------------------------
(***************************************************************************)
(* The handlers of commands/string.go, delex.go, msetex.go and digest_cmd  *)
(* .go, each as an operator from the state it finds and its arguments to   *)
(* the Result it returns.                                                  *)
(*                                                                         *)
(* A string is a sequence of bytes: 0..9 are the digits, Dash the minus    *)
(* sign, NUL the padding byte, anything else is a letter.  Numbers in      *)
(* arguments are given parsed; NaI stands for an argument ParseInt refuses.*)
(* An int64 spans -MaxInt-1 .. MaxInt, a second is MsPerSec milliseconds.  *)
(***************************************************************************)
EXTENDS Keyspace, SequencesExt

CONSTANTS
  MaxInt,          \* math.MaxInt64
  MsPerSec,        \* milliseconds in a second
  MaxExpireMillis, \* maxExpireMillis
  MaxStringLength  \* maxStringLength

Dash == 10
NUL  == 11
NaI  == 999999

MinInt == -MaxInt - 1

Str(v) == [type |-> "string", data |-> v]

\* strconv.ParseInt: an optional sign, digits, and the range of an int64.
Digits(v) == IF v # <<>> /\ v[1] = Dash THEN Tail(v) ELSE v

Magnitude(v) == FoldLeft(LAMBDA n, d : 10 * n + d, 0, Digits(v))

Number(v) == IF v # <<>> /\ v[1] = Dash THEN -Magnitude(v) ELSE Magnitude(v)

IsInt(v) == /\ Digits(v) # <<>>
            /\ \A i \in DOMAIN Digits(v) : Digits(v)[i] \in 0..9
            /\ Number(v) \in MinInt .. MaxInt

\* strconv.FormatInt.
DigitsOf[n \in Nat] == IF n < 10 THEN <<n>> ELSE DigitsOf[n \div 10] \o <<n % 10>>

FormatInt(n) == IF n < 0 THEN <<Dash>> \o DigitsOf[-n] ELSE DigitsOf[n]

validExpireSeconds(n) == n <= MaxExpireMillis \div MsPerSec
                         /\ -n <= MaxExpireMillis \div MsPerSec

validExpireMillis(n) == n <= MaxExpireMillis /\ -n <= MaxExpireMillis

------------------------------------------------------------------------------

getCommand(s, c) == Read(s, c.key, "string", Null, LAMBDA obj : Bulk(obj.data))

strlenCommand(s, c) ==
  Read(s, c.key, "string", Integer(0), LAMBDA obj : Integer(Len(obj.data)))

\* xxh3 as 16 hex digits: one value per string.
Digest(v) == <<-1>> \o v

digestCommand(s, c) ==
  Read(s, c.key, "string", Null, LAMBDA obj : Bulk(Digest(obj.data)))

\* Two negative bounds in the wrong order select nothing, before clamping.
Substring(v, start, end) ==
  LET n  == Len(v)
      lo == IF start < 0 THEN (IF start + n < 0 THEN 0 ELSE start + n) ELSE start
      e  == IF end < 0 THEN (IF end + n < 0 THEN 0 ELSE end + n) ELSE end
      hi == IF e >= n THEN n - 1 ELSE e
  IN IF n = 0 \/ (start < 0 /\ end < 0 /\ start > end) \/ lo > hi \/ lo >= n
     THEN <<>> ELSE SubSeq(v, lo + 1, hi + 1)

getrangeCommand(s, c) ==
  IF NaI \in {c.start, c.end} THEN Result(s, Error)
  ELSE Read(s, c.key, "string", Bulk(<<>>),
            LAMBDA obj : Bulk(Substring(obj.data, c.start, c.end)))

Overwrite(cur, offset, value) ==
  LET end == offset + Len(value)
  IN [i \in 1 .. (IF end > Len(cur) THEN end ELSE Len(cur)) |->
       IF i \in offset + 1 .. end THEN value[i - offset]
       ELSE IF i > Len(cur) THEN NUL ELSE cur[i]]

\* DB.Set drops the deadline of the key, here and in APPEND and INCR.
setrangeCommand(s0, c) ==
  LET s   == Get(s0, c.key)
      obj == s.entries[c.key]
      cur == IF obj = Nil THEN <<>> ELSE obj.data
      buf == Overwrite(cur, c.offset, c.val)
  IN IF c.offset < 0 \/ c.offset + Len(c.val) > MaxStringLength THEN Result(s0, Error)
     ELSE IF WrongType(obj, "string") THEN Result(s, Error)
     ELSE IF c.val = <<>> THEN Result(s, Integer(Len(cur)))
     ELSE Result(Set(s, c.key, Str(buf)), Integer(Len(buf)))

appendCommand(s0, c) ==
  LET s   == Get(s0, c.key)
      obj == s.entries[c.key]
      new == IF obj = Nil THEN c.val ELSE obj.data \o c.val
  IN IF WrongType(obj, "string") THEN Result(s, Error)
     ELSE Result(Set(s, c.key, Str(new)), Integer(Len(new)))

\* The guard of incrGeneric, written so that it cannot itself overflow.
Overflows(current, delta) == \/ delta > 0 /\ current > MaxInt - delta
                             \/ delta < 0 /\ current < MinInt - delta

\* Mutant: the overflow is noticed after the write.
incrWritesFirst(s0, key, delta) ==
  LET s       == Get(s0, key)
      obj     == s.entries[key]
      current == IF obj = Nil THEN 0 ELSE Number(obj.data)
      put     == Set(s, key, Str(FormatInt(MaxInt)))
  IN IF WrongType(obj, "string") THEN Result(s, Error)
     ELSE IF obj # Nil /\ ~IsInt(obj.data) THEN Result(s, Error)
     ELSE IF Overflows(current, delta) THEN Result(put, Error)
     ELSE Result(Set(s, key, Str(FormatInt(current + delta))), Integer(current + delta))

incrGeneric(s0, key, delta) ==
  LET s       == Get(s0, key)
      obj     == s.entries[key]
      current == IF obj = Nil THEN 0 ELSE Number(obj.data)
  IN IF WrongType(obj, "string") THEN Result(s, Error)
     ELSE IF obj # Nil /\ ~IsInt(obj.data) THEN Result(s, Error)
     ELSE IF Overflows(current, delta) THEN Result(s, Error)
     ELSE Result(Set(s, key, Str(FormatInt(current + delta))), Integer(current + delta))

incrCommand(s, c) == incrGeneric(s, c.key, 1)

decrCommand(s, c) == incrGeneric(s, c.key, -1)

incrbyCommand(s, c) ==
  IF c.n = NaI THEN Result(s, Error) ELSE incrGeneric(s, c.key, c.n)

\* -MinInt64 wraps to itself, so DECRBY refuses it.
decrbyCommand(s, c) ==
  IF c.n \in {NaI, MinInt} THEN Result(s, Error) ELSE incrGeneric(s, c.key, -c.n)

------------------------------------------------------------------------------
(* SET and its relatives.  An expiry option is a record [opt, n], NoExpiry  *)
(* when it is absent; a comparison is [mode, val, hex], NoCompare when it   *)
(* is absent, hex being isHexDigest of its operand.                         *)

NoExpiry  == [opt |-> "none", n |-> 0]
NoCompare == [mode |-> "none", val |-> <<>>, hex |-> TRUE]

\* EX and PX are validated while the options are read, EXAT and PXAT are not.
BadExpiry(e) ==
  \/ e.n = NaI
  \/ e.opt = "EX" /\ (e.n <= 0 \/ ~validExpireSeconds(e.n))
  \/ e.opt = "PX" /\ (e.n <= 0 \/ ~validExpireMillis(e.n))

\* The relative time to live, in the width of a time.Duration.
RelativeTTL(e) == Duration(IF e.opt = "EX" THEN e.n * MsPerSec ELSE e.n)

AbsoluteMs(e) == IF e.opt = "EXAT" THEN e.n * MsPerSec ELSE e.n

\* The write at the end of SET and MSETEX: expAt > 0 guards the absolute forms.
WriteString(s, k, v, e, keepTTL) ==
  IF e.opt \in {"EX", "PX"} THEN SetWithExpire(s, k, Str(v), RelativeTTL(e))
  ELSE IF e.opt \in {"EXAT", "PXAT"} /\ AbsoluteMs(e) > 0
       THEN SetExpireAt(Set(s, k, Str(v)), k, AbsoluteMs(e))
  ELSE IF keepTTL THEN SetKeepTTL(s, k, Str(v))
  ELSE Set(s, k, Str(v))

\* The comparison of SET and DELEX against a string value.
Matches(cmp, v) ==
  CASE cmp.mode = "IFEQ"  -> v = cmp.val
    [] cmp.mode = "IFNE"  -> v # cmp.val
    [] cmp.mode = "IFDEQ" -> Digest(v) = Digest(cmp.val)
    [] cmp.mode = "IFDNE" -> Digest(v) # Digest(cmp.val)

BadDigest(cmp) == cmp.mode \in {"IFDEQ", "IFDNE"} /\ ~cmp.hex

setCommand(s0, c) ==
  LET s        == Get(s0, c.key)
      old      == s.entries[c.key]
      exists   == old # Nil
      compares == c.cmp.mode # "none"
      oldReply == IF exists THEN Bulk(old.data) ELSE Null
      match    == IF exists THEN Matches(c.cmp, old.data) ELSE c.cmp.mode \in {"IFNE", "IFDNE"}
      written  == WriteString(s, c.key, c.val, c.expiry, c.keepTTL)
  IN IF BadExpiry(c.expiry) \/ (c.nx /\ c.xx) \/ (compares /\ (c.nx \/ c.xx))
     THEN Result(s0, Error)
     ELSE IF c.get /\ WrongType(old, "string") THEN Result(s, Error)
     ELSE IF (c.nx /\ exists) \/ (c.xx /\ ~exists)
       THEN Result(s, IF c.get THEN oldReply ELSE Null)
     ELSE IF compares /\ (WrongType(old, "string") \/ (exists /\ BadDigest(c.cmp)))
       THEN Result(s, Error)
     ELSE IF compares /\ ~match
       THEN ResultP(s, IF c.get THEN oldReply ELSE Null, PropagateNothing)
     ELSE Result(written, IF c.get THEN oldReply ELSE OK)

\* Exists neither reclaims nor reports an expired key; Set then replaces it.
setnxCommand(s, c) ==
  IF Exists(s, c.key) THEN Result(s, Integer(0))
  ELSE Result(Set(s, c.key, Str(c.val)), Integer(1))

\* The product is taken in a Duration before it is validated.
setexGeneric(s, c, unit) ==
  LET ttl == Duration(c.n * unit)
  IN IF c.n = NaI \/ c.n <= 0 \/ ~validExpireMillis(ttl) THEN Result(s, Error)
     ELSE Result(SetWithExpire(s, c.key, Str(c.val), ttl), OK)

setexCommand(s, c) == setexGeneric(s, c, MsPerSec)

psetexCommand(s, c) == setexGeneric(s, c, 1)

getsetCommand(s0, c) ==
  LET s == Get(s0, c.key)  old == s.entries[c.key]
  IN IF WrongType(old, "string") THEN Result(s, Error)
     ELSE Result(Set(s, c.key, Str(c.val)), IF old = Nil THEN Null ELSE Bulk(old.data))

getdelCommand(s0, c) ==
  LET s == Get(s0, c.key)  obj == s.entries[c.key]
  IN IF obj = Nil THEN Result(s, Null)
     ELSE IF WrongType(obj, "string") THEN Result(s, Error)
     ELSE Result(Del(s, c.key), Bulk(obj.data))

\* One option of GETEX: the state after it, or an error.
GetexOption(s, k, e) ==
  IF BadExpiry(e) \/ e.opt \notin {"EX", "PX", "EXAT", "PXAT"}
     \/ (e.opt = "EXAT" /\ ~validExpireMillis(AbsoluteMs(e)))
  THEN [s |-> s, bad |-> TRUE]
  ELSE [s   |-> IF e.opt \in {"EX", "PX"} THEN SetExpire(s, k, RelativeTTL(e))
                ELSE SetExpireAt(s, k, AbsoluteMs(e)),
        bad |-> FALSE]

\* Options are applied one by one as they are read: an error in the second
\* leaves the first one done.  PERSIST ends the loop.
getexCommand(s0, c) ==
  LET s    == Get(s0, c.key)
      obj  == s.entries[c.key]
      Step(acc, e) ==
        IF acc.bad \/ acc.done THEN acc
        ELSE IF e.opt = "PERSIST" THEN [s |-> Persist(acc.s, c.key), bad |-> FALSE, done |-> TRUE]
        ELSE LET r == GetexOption(acc.s, c.key, e)
             IN [s |-> r.s, bad |-> r.bad, done |-> FALSE]
      end  == FoldLeft(Step, [s |-> s, bad |-> FALSE, done |-> FALSE], c.opts)
  IN IF obj = Nil THEN Result(s, Null)
     ELSE IF WrongType(obj, "string") THEN Result(s, Error)
     ELSE Result(end.s, IF end.bad THEN Error ELSE Bulk(obj.data))

------------------------------------------------------------------------------
(* Commands on several keys: pairs is a sequence of <<key, value>>.         *)

SetAll(s, pairs) == FoldLeft(LAMBDA t, p : Set(t, p[1], Str(p[2])), s, pairs)

msetCommand(s, c) == Result(SetAll(s, c.pairs), OK)

\* All or nothing, checked before anything is written.
msetnxCommand(s, c) ==
  IF \E i \in DOMAIN c.pairs : Exists(s, c.pairs[i][1]) THEN Result(s, Integer(0))
  ELSE Result(SetAll(s, c.pairs), Integer(1))

msetexCommand(s, c) ==
  LET exists(i) == Exists(s, c.pairs[i][1])
  IN IF BadExpiry(c.expiry) \/ (c.nx /\ c.xx) \/ (c.keepTTL /\ c.expiry # NoExpiry)
     THEN Result(s, Error)
     ELSE IF \E i \in DOMAIN c.pairs : (c.nx /\ exists(i)) \/ (c.xx /\ ~exists(i))
     THEN Result(s, Integer(0))
     ELSE Result(FoldLeft(LAMBDA t, p : WriteString(t, p[1], p[2], c.expiry, c.keepTTL),
                          s, c.pairs),
                 Integer(1))

\* Every key is looked up, and reclaimed when it has expired.
GetAll(s, keys) == FoldLeft(LAMBDA t, k : Get(t, k), s, keys)

mgetCommand(s0, c) ==
  LET s == GetAll(s0, c.keys)
  IN Result(s, Array([i \in DOMAIN c.keys |->
       LET obj == s.entries[c.keys[i]]
       IN IF obj.type = "string" THEN Bulk(obj.data) ELSE Null]))

delexCommand(s0, c) ==
  LET s == Get(s0, c.key)  obj == s.entries[c.key]  conditional == c.cmp.mode # "none"
  IN IF obj = Nil THEN ResultP(s, Integer(0), PropagateNothing)
     ELSE IF conditional /\ (WrongType(obj, "string") \/ BadDigest(c.cmp)) THEN Result(s, Error)
     ELSE IF conditional /\ ~Matches(c.cmp, obj.data) THEN ResultP(s, Integer(0), PropagateNothing)
     ELSE ResultP(Del(s, c.key), Integer(1), Propagate(DEL(c.key)))

\* The registrations of string.go: which of its commands carry FlagWrite.
StringWrites == {"set", "mset", "incr", "decr", "incrby", "decrby", "append", "incrbyfloat",
                 "setrange", "setnx", "setex", "psetex", "getset", "getdel", "getex", "msetnx"}
=============================================================================
