------------------------------- MODULE Eviction -------------------------------
(***************************************************************************)
(* The memory limit of the database (db/eviction.go and the writers of     *)
(* db/sharded.go): an atomic counter of bytes, checked without a lock      *)
(* before a write and corrected under the shard's lock, and an evictor     *)
(* that chooses a key under the read lock and removes it later under the   *)
(* write lock.  Clients and the cron run the same code.  A value is its    *)
(* size.  Which candidate a policy prefers does not matter here, so a      *)
(* policy is the set of keys it may evict.                                 *)
(***************************************************************************)
EXTENDS Integers, FiniteSets, Functions

CONSTANTS
  Clients, \* goroutines that serve clients
  Cron,    \* the goroutine of StartCron
  NumKeys, ShardOf, \* the keys, numbered, and the shard each belongs to
  MaxSize, \* the most that estimateObjectSize answers
  maxMemory,
  Policies,\* subset of {"noeviction", "allkeys", "volatile"}
  Mixes,   \* which operations, keys and sizes the clients of a run use
  MaxOps   \* operations in a run

Keys    == 1 .. NumKeys
NoKey   == 0
Workers == Clients \cup {Cron}

\* estimateObjectSize is positive and a limit of 0 means that there is none.
ASSUME EvictionAssumption ==
  /\ IsFiniteSet(Clients) /\ Cron \notin Clients
  /\ NumKeys \in Nat /\ MaxSize \in Nat /\ maxMemory \in Nat \ {0} /\ MaxOps \in Nat
  /\ \A m \in Mixes : m.keys \subseteq Keys /\ m.sizes \subseteq 1 .. MaxSize

VARIABLES
  policy, mix, \* chosen at the start
  entries, \* size of the value of every key present
  expires, \* the keys with a deadline
  used,    \* usedMemory
  held,    \* the shards whose write lock is held between two steps
  doing,   \* where every worker is
  ops,     \* operations begun
  outcome  \* what became of the last write that was answered OK

memoryVars == <<policy, mix, entries, expires, used, held, doing, ops, outcome>>

Idle == [at |-> "idle", kind |-> "none", k |-> NoKey, size |-> 0, victim |-> NoKey, todo |-> {}]

MemoryInit ==
  /\ policy \in Policies /\ mix \in Mixes
  /\ entries = [k \in {} |-> 0] /\ expires = {} /\ used = 0 /\ held = {}
  /\ doing = [w \in Workers |-> Idle] /\ ops = 0 /\ outcome = "none"

With(f, k, n) == [x \in DOMAIN f \cup {k} |-> IF x = k THEN n ELSE f[x]]
Without(f, k) == Restrict(f, DOMAIN f \ {k})
SizeOf(k)     == IF k \in DOMAIN entries THEN entries[k] ELSE 0
Free(k)       == ShardOf[k] \notin held
Goes(w, next) == doing' = [doing EXCEPT ![w] = next]
Ends(w) ==
  /\ Goes(w, Idle)
  /\ outcome' = IF doing[w].at = "add" THEN "stored" ELSE "refused"

\* What Set and SetWithExpire read of the limit before they write.  SetKeepTTL
\* does not look at it.
Begin(c, kind, k, size) ==
  LET at(name) == [Idle EXCEPT !.at = name, !.kind = kind, !.k = k, !.size = size]
  IN /\ doing[c] = Idle /\ ops < MaxOps /\ kind \in mix.kinds
     /\ ops' = ops + 1
     /\ Goes(c, IF kind # "keep" /\ used + size > maxMemory THEN at("free") ELSE at("write"))
     /\ UNCHANGED <<policy, mix, entries, expires, used, held, outcome>>

\* The tick of the cron frees memory without writing.
CronFree ==
  /\ doing[Cron] = Idle /\ "cron" \in mix.kinds /\ used > maxMemory /\ policy # "noeviction"
  /\ Goes(Cron, [Idle EXCEPT !.at = "loop"])
  /\ UNCHANGED <<policy, mix, entries, expires, used, held, ops, outcome>>

\* A refused write: no handler but RESTORE looks at the error, and answers OK.
Refuse(w) == /\ IF w = Cron THEN Goes(w, Idle) /\ UNCHANGED outcome ELSE Ends(w)
             /\ UNCHANGED <<policy, mix, entries, expires, used, held, ops>>

\* Mutant: a policy that finds nothing to evict lets the write pass.
NothingFoundPasses(w) ==
  IF w = Cron THEN Refuse(w)
  ELSE /\ Goes(w, [doing[w] EXCEPT !.at = "write"])
       /\ UNCHANGED <<policy, mix, entries, expires, used, held, ops, outcome>>

\* Mutant: it looks again instead of giving up.
NothingFoundRetries(w) ==
  /\ Goes(w, [doing[w] EXCEPT !.at = "loop"])
  /\ UNCHANGED <<policy, mix, entries, expires, used, held, ops, outcome>>

\* FreeMemoryIfNeeded found no candidate: ErrOOM.
NothingFound(w) == Refuse(w)

\* The head of FreeMemoryIfNeeded.
FreeMemoryIfNeeded(c) ==
  /\ doing[c].at = "free"
  /\ \/ /\ used <= maxMemory
        /\ Goes(c, [doing[c] EXCEPT !.at = "recheck"])
        /\ UNCHANGED <<policy, mix, entries, expires, used, held, ops, outcome>>
     \/ used > maxMemory /\ policy = "noeviction" /\ Refuse(c)
     \/ /\ used > maxMemory /\ policy # "noeviction"
        /\ Goes(c, [doing[c] EXCEPT !.at = "loop"])
        /\ UNCHANGED <<policy, mix, entries, expires, used, held, ops, outcome>>

Candidates == IF policy = "allkeys" THEN DOMAIN entries ELSE DOMAIN entries \cap expires

\* The head of the loop reads the counter.
Loop(w) ==
  /\ doing[w].at = "loop"
  /\ Goes(w, IF used > maxMemory THEN [doing[w] EXCEPT !.at = "choose"]
             ELSE IF w = Cron THEN Idle ELSE [doing[w] EXCEPT !.at = "recheck"])
  /\ UNCHANGED <<policy, mix, entries, expires, used, held, ops, outcome>>

\* It looks into shards at random, so it may miss them all, and takes a
\* candidate of the first shard that has one.
Choose(w) ==
  /\ doing[w].at = "choose"
  /\ \/ /\ \E k \in Candidates : Free(k) /\ Goes(w, [doing[w] EXCEPT !.at = "evict", !.victim = k])
        /\ UNCHANGED <<policy, mix, entries, expires, used, held, ops, outcome>>
     \/ NothingFound(w)

BackToLoop(w) == Goes(w, [doing[w] EXCEPT !.at = "loop", !.victim = NoKey])

\* Mutant: the size of the chosen key is subtracted whether or not it is still there.
EvictBlindly(w) ==
  LET k == doing[w].victim
  IN /\ doing[w].at = "evict" /\ Free(k)
     /\ used' = used - (IF k \in DOMAIN entries THEN entries[k] ELSE 1)
     /\ entries' = Without(entries, k) /\ expires' = expires \ {k}
     /\ BackToLoop(w)
     /\ UNCHANGED <<policy, mix, held, ops, outcome>>

\* The chosen key goes, whatever became of it since it was chosen.
Evict(w) ==
  LET k == doing[w].victim
  IN /\ doing[w].at = "evict" /\ Free(k)
     /\ used' = used - SizeOf(k)
     /\ entries' = Without(entries, k) /\ expires' = expires \ {k}
     /\ BackToLoop(w)
     /\ UNCHANGED <<policy, mix, held, ops, outcome>>

\* Set looks at the limit once more; only "noeviction" still refuses.
Recheck(c) ==
  /\ doing[c].at = "recheck"
  /\ IF used + doing[c].size > maxMemory /\ policy = "noeviction" THEN Refuse(c)
     ELSE /\ Goes(c, [doing[c] EXCEPT !.at = "write"])
          /\ UNCHANGED <<policy, mix, entries, expires, used, held, ops, outcome>>

\* Under the shard's lock: the old size goes off the counter, the value is
\* published, and the new size goes on it.  The counter is read in between.
Write(c) ==
  LET k == doing[c].k
  IN /\ doing[c].at = "write" /\ Free(k)
     /\ used' = used - SizeOf(k)
     /\ entries' = With(entries, k, doing[c].size)
     /\ expires' = CASE doing[c].kind = "set"   -> expires \ {k}
                     [] doing[c].kind = "setex" -> expires \cup {k}
                     [] doing[c].kind = "keep"  -> expires
     /\ held' = held \cup {ShardOf[k]}
     /\ Goes(c, [doing[c] EXCEPT !.at = "add"])
     /\ UNCHANGED <<policy, mix, ops, outcome>>

AddMem(c) ==
  /\ doing[c].at = "add"
  /\ used' = used + doing[c].size
  /\ held' = held \ {ShardOf[doing[c].k]}
  /\ Ends(c)
  /\ UNCHANGED <<policy, mix, entries, expires, ops>>

\* Del, lazy expiry and ActiveExpireCycle: the key and its size go together.
Del(c, k) ==
  /\ doing[c] = Idle /\ ops < MaxOps /\ "del" \in mix.kinds /\ Free(k) /\ k \in DOMAIN entries
  /\ used' = used - entries[k]
  /\ entries' = Without(entries, k) /\ expires' = expires \ {k}
  /\ ops' = ops + 1
  /\ UNCHANGED <<policy, mix, held, doing, outcome>>

ActiveExpireCycle(k) ==
  /\ doing[Cron] = Idle /\ "cron" \in mix.kinds /\ Free(k) /\ k \in expires
  /\ used' = used - SizeOf(k)
  /\ entries' = Without(entries, k) /\ expires' = expires \ {k}
  /\ UNCHANGED <<policy, mix, held, doing, ops, outcome>>

\* A container that grows in place changes the estimate and not the counter.
Grow(c, k, size) ==
  /\ doing[c] = Idle /\ ops < MaxOps /\ "grow" \in mix.kinds /\ k \in DOMAIN entries
  /\ entries' = [entries EXCEPT ![k] = size]
  /\ ops' = ops + 1
  /\ UNCHANGED <<policy, mix, expires, used, held, doing, outcome>>

\* FlushAll empties shard after shard and clears the counter at the end.
FlushAll(c) ==
  /\ doing[c] = Idle /\ ops < MaxOps /\ "flush" \in mix.kinds
  /\ Goes(c, [Idle EXCEPT !.at = "flush", !.todo = Range(ShardOf)])
  /\ ops' = ops + 1
  /\ UNCHANGED <<policy, mix, entries, expires, used, held, outcome>>

FlushShard(c) ==
  /\ doing[c].at = "flush" /\ doing[c].todo # {}
  /\ LET shard == CHOOSE s \in doing[c].todo : \A t \in doing[c].todo : s <= t
         gone  == {k \in Keys : ShardOf[k] = shard}
     IN /\ shard \notin held
        /\ entries' = Restrict(entries, DOMAIN entries \ gone)
        /\ expires' = expires \ gone
        /\ Goes(c, [doing[c] EXCEPT !.todo = @ \ {shard}])
  /\ UNCHANGED <<policy, mix, used, held, ops, outcome>>

FlushCounter(c) ==
  /\ doing[c].at = "flush" /\ doing[c].todo = {}
  /\ used' = 0
  /\ Goes(c, Idle)
  /\ UNCHANGED <<policy, mix, entries, expires, held, ops, outcome>>

WorkerStep(w) == \/ w \in Clients /\ (FreeMemoryIfNeeded(w) \/ Recheck(w) \/ Write(w) \/ AddMem(w)
                                      \/ FlushShard(w) \/ FlushCounter(w))
                 \/ Loop(w) \/ Choose(w) \/ Evict(w)

MemoryNext ==
  \/ \E c \in Clients, k \in mix.keys :
       \/ \E kind \in {"set", "setex", "keep"}, size \in mix.sizes : Begin(c, kind, k, size)
       \/ Del(c, k)
       \/ FlushAll(c)
       \/ \E size \in mix.sizes : Grow(c, k, size)
  \/ CronFree
  \/ \E k \in Keys : ActiveExpireCycle(k)
  \/ \E w \in Workers : WorkerStep(w)

\* A goroutine inside an operation is scheduled again.
MemoryFairness == \A w \in Workers : WF_memoryVars(WorkerStep(w))

MemorySpec == MemoryInit /\ [][MemoryNext]_memoryVars /\ MemoryFairness

------------------------------------------------------------------------------

\* The estimate of every key; a value that is published and not yet added to
\* the counter does not count.
Counted ==
  [k \in Keys |-> IF \E c \in Clients : doing[c].at = "add" /\ doing[c].k = k THEN 0 ELSE SizeOf(k)]

\* The sums of the first n keys.
Sums(f) == LET sum[n \in 0 .. NumKeys] == IF n = 0 THEN 0 ELSE sum[n - 1] + f[n] IN sum
Total(f) == Sums(f)[NumKeys]

\* The counter is the sum of the estimates of what is stored, but for the values
\* that are published and not yet counted.
UsedIsEstimate == used = Total(Counted)

\* No evictor, cron or client subtracts a value twice, or one that it did not
\* remove, however they interleave.  A container that grows in place and a
\* FLUSHALL that overlaps a write do make the counter drift.
UsedIsSum == mix.kinds \cap {"grow", "flush"} = {} => UsedIsEstimate

\* The check before a write is not atomic with the write, and eviction frees
\* only down to the limit: every client may overshoot by one value, and no more,
\* as long as all writers check.  Growth in place and FLUSHALL never push the counter up.
MemoryBounded ==
  "keep" \notin mix.kinds => used <= maxMemory + Cardinality(Clients) * MaxSize

\* Whoever began to write or to free memory gets out of the loop again.
EvictionEnds == \A w \in Workers : (doing[w] # Idle) ~> (doing[w] = Idle)

\* What a handler answers OK is stored; the refusal of Set is dropped by all
\* handlers but one, so this fails under "noeviction".
OkIsStored == outcome # "refused"

\* A volatile policy never removes a key without deadline; it does when the
\* deadline is removed between the choice and the removal.
VolatileOnly ==
  [][\A w \in Workers, k \in Keys :
       doing[w].at = "evict" /\ policy = "volatile" /\ k \in DOMAIN entries /\ k \notin DOMAIN entries'
         /\ doing'[w].at = "loop" => k \in expires]_memoryVars
=============================================================================
