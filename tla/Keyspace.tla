------------------------------- MODULE Keyspace -------------------------------
(***************************************************************************)
(* The keyspace of db/sharded.go and db/keyspace.go, seen by one command:  *)
(* what each method of ShardedDB does to a key's entry and to its deadline,*)
(* and which keys it reports as expired.                                   *)
(*                                                                         *)
(* A state s is a record: s.entries[k] is the value of k or Nil, s.expires *)
(* [k] its deadline in Unix milliseconds or 0, s.now the clock the command *)
(* reads, s.notified the keys reported to the expiry hook, in order.       *)
(* A missing entry of the expires map and an entry 0 are both 0: isExpired,*)
(* TTL and Persist do not tell them apart.                                 *)
(*                                                                         *)
(* Version counters (bumpVersion) are modelled in TxWatch, the stripe and  *)
(* shard locks in KeyLocks, the memory accounting in Eviction.             *)
(***************************************************************************)
EXTENDS Integers, Sequences, FiniteSets

CONSTANTS
  NumShards,      \* the partitions of the keyspace, numbered from 0
  Shard,          \* fnv32(key) % NumShards: a function from keys to shards
  DurationHalf    \* a time.Duration spans -DurationHalf .. DurationHalf-1 ms

Nil == [type |-> "none"]

\* time.Duration(n) * time.Millisecond: an int64 of nanoseconds, which wraps
\* long before maxExpireMillis.
Duration(ms) == ((ms + DurationHalf) % (2 * DurationHalf)) - DurationHalf

isExpired(s, k) == s.expires[k] # 0 /\ s.now >= s.expires[k]

Removed(s, k) == [s EXCEPT !.entries[k] = Nil, !.expires[k] = 0]

\* The lookup of Get is (Get(s, k)).entries[k]: an expired key is deleted
\* lazily and reported to the hook.
Get(s, k) ==
  IF ~isExpired(s, k) THEN s
  ELSE [Removed(s, k) EXCEPT
         !.notified = IF s.entries[k] # Nil THEN Append(@, k) ELSE @]

Set(s, k, v) == [s EXCEPT !.entries[k] = v, !.expires[k] = 0]

SetWithExpire(s, k, v, ttl) ==
  [s EXCEPT !.entries[k] = v, !.expires[k] = s.now + ttl]

SetKeepTTL(s, k, v) == [s EXCEPT !.entries[k] = v]

Exists(s, k) == ~isExpired(s, k) /\ s.entries[k] # Nil

\* SetExpireAt and Del reclaim an expired key as well, but report nothing.
SetExpireAt(s, k, exp) ==
  CASE isExpired(s, k)       -> Removed(s, k)
    [] s.entries[k] = Nil    -> s
    [] OTHER                 -> [s EXCEPT !.expires[k] = exp]

SetExpire(s, k, ttl) == SetExpireAt(s, k, s.now + ttl)

\* Del answers Exists(s, k): an expired key is removed and counts as missing.
Del(s, k) == Removed(s, k)

Persist(s, k) == IF Exists(s, k) THEN [s EXCEPT !.expires[k] = 0] ELSE s

Persists(s, k) == Exists(s, k) /\ s.expires[k] # 0

\* GetWithTTL: the value and the deadline of a live key, without reclaiming.
GetWithTTL(s, k) ==
  IF Exists(s, k) THEN [ok |-> TRUE, val |-> s.entries[k], exp |-> s.expires[k]]
  ELSE [ok |-> FALSE, val |-> Nil, exp |-> 0]

\* TTL: <<remaining, code>>, code -2 for a missing key, -1 for one that has
\* no deadline, 0 otherwise.
TTL(s, k) ==
  CASE ~Exists(s, k)      -> <<0, -2>>
    [] s.expires[k] = 0   -> <<0, -1>>
    [] OTHER              -> <<Duration(s.expires[k] - s.now), 0>>

LiveKeys(s) == {k \in DOMAIN s.entries : Exists(s, k)}

\* Mutant: the shard in which the count was reached is counted as not visited.
ScanStopsEarly(s, cursor, count) ==
  LET Upto(i) == {k \in LiveKeys(s) : Shard[k] \in cursor .. i}
      full    == {i \in cursor .. NumShards - 1 : Cardinality(Upto(i)) >= count}
      last    == IF full = {} THEN NumShards - 1
                 ELSE CHOOSE i \in full : \A j \in full : i <= j
  IN [cursor |-> IF last + 1 >= NumShards THEN 0 ELSE last + 1,
      keys   |-> Upto(last - 1)]

\* One call of Scan from cursor: whole shards, until count keys are found.
Scan(s, cursor, count) ==
  LET Upto(i) == {k \in LiveKeys(s) : Shard[k] \in cursor .. i}
      full    == {i \in cursor .. NumShards - 1 : Cardinality(Upto(i)) >= count}
      last    == IF full = {} THEN NumShards - 1
                 ELSE CHOOSE i \in full : \A j \in full : i <= j
  IN [cursor |-> IF last + 1 >= NumShards THEN 0 ELSE last + 1,
      keys   |-> IF cursor >= NumShards THEN {} ELSE Upto(last)]

RandomKey(s) == LiveKeys(s)

FlushAll(s) == [s EXCEPT !.entries = [k \in DOMAIN s.entries |-> Nil],
                         !.expires = [k \in DOMAIN s.entries |-> 0]]


\* One pass of the sampling loop over a shard: the keys of a sample that have
\* expired are deleted, then reported in the order they were met.
ActiveExpire(s, sample) ==
  LET dead == SelectSeq(sample, LAMBDA k : isExpired(s, k))
  IN [s EXCEPT
       !.entries  = [k \in DOMAIN @ |-> IF \E i \in DOMAIN dead : dead[i] = k
                                        THEN Nil ELSE @[k]],
       !.expires  = [k \in DOMAIN @ |-> IF \E i \in DOMAIN dead : dead[i] = k
                                        THEN 0 ELSE @[k]],
       !.notified = @ \o dead]

-----------------------------------------------------------------------------
(***************************************************************************)
(* What a command handler gives back to Table.Execute: the state it left,  *)
(* its reply, and what it asked to propagate in place of its arguments     *)
(* (ctx.Propagate).  Replies keep their RESP kind and, where a property    *)
(* reads it, their payload; wording is left out.                           *)
(***************************************************************************)
OK          == [t |-> "ok"]
Error       == [t |-> "error"]
Null        == [t |-> "null"]
Integer(n)  == [t |-> "int", n |-> n]
Bulk(v)     == [t |-> "bulk", data |-> v]
Array(v)    == [t |-> "array", data |-> v]

\* ctx.propagateSet is FALSE: Execute rewrites the arguments itself.
ByDefault == [set |-> FALSE]

\* ctx.Propagate(nil) and ctx.Propagate(cmd).
PropagateNothing == [set |-> TRUE, cmds |-> {}]
Propagate(cmd)   == [set |-> TRUE, cmds |-> {cmd}]

Result(s, reply)           == [s |-> s, reply |-> reply, prop |-> ByDefault]
ResultP(s, reply, propage) == [s |-> s, reply |-> reply, prop |-> propage]

\* The guard of every handler of one type: a missing key (Nil) or the type.
WrongType(obj, type) == obj # Nil /\ obj.type # type

\* A handler that only looks: the missing reply, WRONGTYPE, or an answer.
Read(s0, k, type, missing, Answer(_)) ==
  LET s == Get(s0, k)  obj == s.entries[k]
  IN Result(s, IF obj = Nil THEN missing
               ELSE IF WrongType(obj, type) THEN Error ELSE Answer(obj))

DEL(k) == [name |-> "del", keys |-> <<k>>]
=============================================================================
