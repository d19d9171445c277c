----------------------------- MODULE KeyCommands -----------------------------
(***************************************************************************)
(* The handlers of commands/generic.go and keyspace.go, which work on keys *)
(* of any type: deadlines, deletion, renaming, copying and listing.        *)
(***************************************************************************)
EXTENDS StringCommands

\* The deadline EXPIRE, PEXPIRE, EXPIREAT or PEXPIREAT asks for.
ExpireMs(c, now) ==
  CASE c.name = "expire"    -> now + c.n * MsPerSec
    [] c.name = "pexpire"   -> now + c.n
    [] c.name = "expireat"  -> c.n * MsPerSec
    [] c.name = "pexpireat" -> c.n

\* c.opts is the set of conditions given.  A key with no deadline counts as
\* expiring at infinity.  Exists and TTL do not reclaim; SetExpireAt would.
expireGeneric(s, c) ==
  LET absMs   == ExpireMs(c, s.now)
      ttl     == TTL(s, c.key)
      current == IF ttl[2] = 0 THEN s.now + ttl[1] ELSE 0
      hasTTL  == current # 0
      Given(o) == o \in c.opts
      refused == \/ Given("NX") /\ hasTTL
                 \/ Given("XX") /\ ~hasTTL
                 \/ Given("GT") /\ (~hasTTL \/ absMs <= current)
                 \/ Given("LT") /\ hasTTL /\ absMs >= current
  IN IF c.n = NaI \/ {"GT", "LT"} \subseteq c.opts
        \/ (Given("NX") /\ c.opts # {"NX"})
        \/ (c.name = "expire" /\ ~validExpireSeconds(c.n))
        \/ (c.name = "pexpire" /\ ~validExpireMillis(c.n))
     THEN Result(s, Error)
     ELSE IF ~Exists(s, c.key) \/ refused THEN Result(s, Integer(0))
     ELSE Result(SetExpireAt(s, c.key, absMs), Integer(1))

persistCommand(s, c) ==
  Result(Persist(s, c.key), Integer(IF Persists(s, c.key) THEN 1 ELSE 0))

ttlCommand(s, c) ==
  LET ttl == TTL(s, c.key)
  IN Result(s, Integer(IF ttl[2] # 0 THEN ttl[2] ELSE ttl[1] \div MsPerSec))

pttlCommand(s, c) ==
  LET ttl == TTL(s, c.key)
  IN Result(s, Integer(IF ttl[2] # 0 THEN ttl[2] ELSE ttl[1]))

\* EXPIRETIME rounds the deadline down to seconds.
expiretimeGeneric(s, c) ==
  LET ttl == TTL(s, c.key)  at == s.now + ttl[1]
  IN Result(s, Integer(IF ttl[2] # 0 THEN ttl[2]
                       ELSE IF c.name = "pexpiretime" THEN at ELSE at \div MsPerSec))

\* DEL and UNLINK: keys one after the other, each counted when it was live.
delCommand(s0, c) ==
  LET Step(acc, k) == [s |-> Del(acc.s, k), n |-> acc.n + (IF Exists(acc.s, k) THEN 1 ELSE 0)]
      end == FoldLeft(Step, [s |-> s0, n |-> 0], c.keys)
  IN Result(end.s, Integer(end.n))

existsCommand(s, c) ==
  Result(s, Integer(Cardinality({i \in DOMAIN c.keys : Exists(s, c.keys[i])})))

touchCommand(s0, c) ==
  LET s == GetAll(s0, c.keys)
  IN Result(s, Integer(Cardinality({i \in DOMAIN c.keys : s.entries[c.keys[i]] # Nil})))

typeCommand(s0, c) ==
  LET s == Get(s0, c.key)
  IN Result(s, Bulk(s.entries[c.key].type))

\* The value moves with its deadline; DB.Set first drops the deadline dst had.
renameGeneric(s, c, failIfExists) ==
  LET src == GetWithTTL(s, c.key)
      put == Set(s, c.dst, src.val)
  IN IF c.key = c.dst
     THEN Result(s, IF ~Exists(s, c.key) THEN Error
                    ELSE IF failIfExists THEN Integer(0) ELSE OK)
     ELSE IF ~src.ok THEN Result(s, Error)
     ELSE IF failIfExists /\ Exists(s, c.dst) THEN Result(s, Integer(0))
     ELSE Result(Del(IF src.exp > 0 THEN SetExpireAt(put, c.dst, src.exp) ELSE put, c.key),
                 IF failIfExists THEN Integer(1) ELSE OK)

renameCommand(s, c) == renameGeneric(s, c, FALSE)

renamenxCommand(s, c) == renameGeneric(s, c, TRUE)

\* deepCopy and cloneContainer rebuild the value; a value is what it holds.
copyCommand(s, c) ==
  LET src == GetWithTTL(s, c.key)
      put == Set(s, c.dst, src.val)
  IN IF c.key = c.dst THEN Result(s, Error)
     ELSE IF ~src.ok \/ (~c.replace /\ Exists(s, c.dst)) THEN Result(s, Integer(0))
     ELSE Result(IF src.exp > 0 THEN SetExpireAt(put, c.dst, src.exp) ELSE put, Integer(1))

keysCommand(s, c) == Result(s, Array(LiveKeys(s)))

\* Any live key may be the answer.
randomkeyOutcomes(s, c) ==
  IF LiveKeys(s) = {} THEN {Result(s, Null)}
  ELSE {Result(s, Bulk(k)) : k \in RandomKey(s)}

flushallCommand(s, c) == Result(FlushAll(s), OK)

\* DUMP serializes a live value with its deadline; the checksum and the RDB
\* encoding are those of the value.  A payload is [val, exp], or Corrupt.
Corrupt == [val |-> Nil, exp |-> 0]

dumpCommand(s, c) ==
  LET src == GetWithTTL(s, c.key)
  IN Result(s, IF ~src.ok THEN Null ELSE Bulk([val |-> src.val, exp |-> src.exp]))

\* RESTORE replays the payload into a scratch database, whose decoder drops an
\* entry that has expired, then moves the value across.
restoreCommand(s, c) ==
  LET gone == c.payload.exp # 0 /\ s.now >= c.payload.exp
      put  == Set(s, c.key, c.payload.val)
  IN IF c.n = NaI \/ c.n < 0 \/ c.payload = Corrupt THEN Result(s, Error)
     ELSE IF ~c.replace /\ Exists(s, c.key) THEN Result(s, Error)
     ELSE IF gone THEN Result(s, Error)
     ELSE Result(IF c.n = 0 THEN put
                 ELSE IF c.absttl THEN SetExpireAt(put, c.key, c.n)
                 ELSE SetExpire(put, c.key, Duration(c.n)),
                 OK)

\* The registrations of generic.go and keyspace.go.
GenericWrites == {"del", "expire", "pexpire", "expireat", "pexpireat"}

KeyspaceWrites == {"unlink", "rename", "renamenx", "persist", "copy", "swapdb"}
=============================================================================
