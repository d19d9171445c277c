------------------------------ MODULE Propagation ------------------------------
(***************************************************************************)
(* What a master executes against what its replica, or the loading of its  *)
(* AOF, makes of it: Table.Execute runs a handler, then rewrites the       *)
(* command (commands/propagate.go) and appends it to the stream; the other *)
(* side runs the same handlers on what it reads, with its own clock.       *)
(*                                                                         *)
(* One client sends commands one after the other, and the clock and the    *)
(* expiry cron of each side run beside it, also between a handler and the  *)
(* feed of its command.  A handler is one step here, and so is one sample  *)
(* of the cron with its report: the steps inside them, commands of several *)
(* clients, and the two sinks are the subject of KeyLocks, Aof and         *)
(* Replication.                                                            *)
(*                                                                         *)
(* drift and delay are history: the keys that were live for a command on   *)
(* one side and not on the other, and the longest time a command waited    *)
(* between its handler and its feed.                                       *)
(***************************************************************************)
EXTENDS CommandTable

CONSTANTS
  Keys,      \* the keys
  Workloads, \* name -> [seed: commands run first, cmds: commands clients send]
  Bounds,    \* name -> [steps, now]: how many commands, and how late it gets
  Start      \* the clock at the start, late enough for deadlines to be positive

VARIABLES
  load,     \* the name of the workload, chosen once
  now,      \* the clock, in milliseconds, of both sides
  master,   \* entries and deadlines of the master
  replica,  \* entries and deadlines of the replica
  pending,  \* <<>>, or the executed command that is about to be fed
  stream,   \* fed and not yet replayed, oldest first
  scan,     \* a SCAN in progress: cursor, keys returned, keys live all along
  steps,    \* commands sent
  drift, delay

vars == <<load, now, master, replica, pending, stream, scan, steps, drift, delay>>

State(d, t) == [entries |-> d.entries, expires |-> d.expires, now |-> t, notified |-> <<>>]

Stored(s) == [entries |-> s.entries, expires |-> s.expires]

EmptyDB == [entries |-> [k \in Keys |-> Nil], expires |-> [k \in Keys |-> 0]]

LiveOf(d, ks) == {k \in ks : Exists(State(d, now), k)}

------------------------------------------------------------------------------
(* commands/propagate.go: the command a replica gets, or none.              *)

SetAt(k, v, e, keep) ==
  [name |-> "set", key |-> k, val |-> v, expiry |-> e, nx |-> FALSE, xx |-> FALSE,
   cmp |-> NoCompare, get |-> FALSE, keepTTL |-> keep]

PEXPIREAT(k, ms) == [name |-> "pexpireat", key |-> k, n |-> ms, opts |-> {}]

\* The deadline of an option: int64 milliseconds, with no Duration in between.
Deadline(e, t) ==
  CASE e.opt = "EX" -> t + e.n * MsPerSec
    [] e.opt = "PX" -> t + e.n
    [] OTHER        -> AbsoluteMs(e)

\* Mutant: the time to live is propagated as the client sent it.
normalizeSetRelative(c, t) ==
  LET at == Deadline(c.expiry, t)
  IN IF c.expiry # NoExpiry /\ at <= t THEN DEL(c.key)
     ELSE SetAt(c.key, c.val, c.expiry, c.keepTTL)

\* NX, XX, IFEQ.. and GET are dropped, whatever the reply was.
normalizeSet(c, t) ==
  LET at == Deadline(c.expiry, t)
  IN IF c.expiry = NoExpiry THEN SetAt(c.key, c.val, NoExpiry, c.keepTTL)
     ELSE IF at <= t THEN DEL(c.key)
     ELSE SetAt(c.key, c.val, [opt |-> "PXAT", n |-> at], c.keepTTL)

\* Only the first option counts; a plain GETEX propagates nothing.
normalizeGetex(c, t) ==
  LET e  == c.opts[1]
      at == Deadline(e, t)
  IN IF c.opts = <<>> THEN {}
     ELSE IF e.opt = "PERSIST" THEN {[name |-> "persist", key |-> c.key]}
     ELSE IF e.opt \notin {"EX", "PX", "EXAT", "PXAT"} THEN {}
     ELSE IF at <= t THEN {DEL(c.key)}
     ELSE {PEXPIREAT(c.key, at)}

normalizeRestore(c, t) ==
  IF c.absttl \/ c.n = 0 THEN c ELSE [c EXCEPT !.n = t + c.n, !.absttl = TRUE]

normalizeForPropagation(c, answer, t) ==
  CASE c.name \in {"expire", "pexpire", "expireat", "pexpireat"} ->
         IF answer # Integer(1) THEN {c}
         ELSE IF ExpireMs(c, t) <= t THEN {DEL(c.key)}
         ELSE {PEXPIREAT(c.key, ExpireMs(c, t))}
    [] c.name \in {"setex", "psetex"} ->
         LET ms == IF c.name = "setex" THEN c.n * MsPerSec ELSE c.n
         IN {SetAt(c.key, c.val, [opt |-> "PXAT", n |-> t + ms], FALSE)}
    [] c.name = "set"     -> {normalizeSet(c, t)}
    [] c.name = "getex"   -> normalizeGetex(c, t)
    [] c.name = "getdel"  -> IF answer = Null THEN {} ELSE {DEL(c.key)}
    [] c.name = "restore" -> {normalizeRestore(c, t)}
    [] OTHER              -> {c}

------------------------------------------------------------------------------

NoScan == [on |-> FALSE, cursor |-> 0, got |-> {}, live |-> {}]

\* The keys a scan has to return: those live from its start to now.
StillLive(d, t) == [scan EXCEPT !.live = {k \in @ : Exists(State(d, t), k)}]

RunAll(d, cmds) ==
  FoldLeft(LAMBDA x, c : Stored((CHOOSE r \in Outcomes(State(x, Start), c) : TRUE).s), d, cmds)

Init ==
  /\ load \in DOMAIN Workloads
  /\ now = Start
  /\ master = RunAll(EmptyDB, Workloads[load].seed)
  /\ replica = master
  /\ pending = <<>> /\ stream = <<>>
  /\ scan = NoScan
  /\ steps = 0
  /\ drift = {} /\ delay = 0

\* The keys the handler reported as expired are fed as DEL before the command.
\* An entry of the stream carries the keys of its command that were live when
\* the master ran it; a DEL for an expired key is right whatever the replica has.
Expirations(ks) == [i \in DOMAIN ks |-> [cmd |-> DEL(ks[i]), report |-> TRUE, live |-> {}]]

Execute ==
  /\ pending = <<>>
  /\ steps < Bounds[load].steps
  /\ \E c \in Workloads[load].cmds : \E r \in Outcomes(State(master, now), c) :
       /\ master' = Stored(r.s)
       /\ pending' = <<[cmd |-> c, reply |-> r.reply, prop |-> r.prop, at |-> now,
                        live |-> LiveOf(master, KeysOf(c))]>>
       /\ stream' = stream \o Expirations(r.s.notified)
  /\ steps' = steps + 1
  /\ scan' = StillLive(master', now)
  /\ UNCHANGED <<load, now, replica, drift, delay>>

\* The tail of Execute: only a write that did not fail is fed, in the form the
\* handler asked for or else the rewritten one.
Propagated(p) ==
  IF p.cmd.name \notin WriteCommands \/ p.reply = Error THEN {}
  ELSE IF p.prop.set THEN p.prop.cmds
  ELSE normalizeForPropagation(p.cmd, p.reply, now)

Feed ==
  /\ pending # <<>>
  /\ LET p == pending[1]  out == Propagated(p)
     IN stream' = stream \o
          (IF out = {} THEN <<>>
           ELSE <<[cmd |-> CHOOSE c \in out : TRUE, report |-> FALSE, live |-> p.live]>>)
  /\ delay' = IF now - pending[1].at > delay THEN now - pending[1].at ELSE delay
  /\ pending' = <<>>
  /\ UNCHANGED <<load, now, master, replica, scan, steps, drift>>

\* The other side executes what it reads with its own handlers and clock.  When
\* a key of the command was live on one side only, the two have drifted apart on
\* it, and a command that reads a drifted key spreads that to the others it names.
Replay ==
  /\ stream # <<>>
  /\ LET e  == Head(stream)
         ks == KeysOf(e.cmd)
         apart == (drift \cap ks # {}) \/ LiveOf(replica, ks) # e.live \cap ks
     IN /\ \E r \in Outcomes(State(replica, now), e.cmd) : replica' = Stored(r.s)
        /\ drift' = IF ~e.report /\ apart THEN drift \cup ks ELSE drift
  /\ stream' = Tail(stream)
  /\ UNCHANGED <<load, now, master, pending, scan, steps, delay>>

\* One sample of the cron: shards are small enough for it to meet every key.
Expired(d) == {k \in Keys : isExpired(State(d, now), k)}

ActiveExpireCycle ==
  /\ Expired(master) # {}
  /\ \E order \in SetToSeqs(Expired(master)) :
       LET s == ActiveExpire(State(master, now), order)
       IN /\ master' = Stored(s)
          /\ stream' = stream \o Expirations(s.notified)
  /\ UNCHANGED <<load, now, replica, pending, scan, steps, drift, delay>>

\* The replica runs the same cron; it has no replica of its own here.
ReplicaExpireCycle ==
  /\ Expired(replica) # {}
  /\ replica' = Stored(ActiveExpire(State(replica, now), SetToSeq(Expired(replica))))
  /\ UNCHANGED <<load, now, master, pending, stream, scan, steps, drift, delay>>

\* SCAN: one call from cursor 0, then one per cursor returned, with COUNT 1.
ScanCall ==
  /\ Workloads[load].scans
  /\ ~scan.on \/ scan.cursor # 0
  /\ LET call == Scan(State(master, now), scan.cursor, 1)
     IN scan' = [on |-> TRUE, cursor |-> call.cursor, got |-> scan.got \cup call.keys,
                 live |-> IF scan.on THEN scan.live ELSE LiveOf(master, Keys)]
  /\ UNCHANGED <<load, now, master, replica, pending, stream, steps, drift, delay>>

Tick ==
  /\ now < Bounds[load].now
  /\ now' = now + 1
  /\ scan' = StillLive(master, now')
  /\ UNCHANGED <<load, master, replica, pending, stream, steps, drift, delay>>

Next == \/ Execute \/ Feed \/ Replay
        \/ ActiveExpireCycle \/ ReplicaExpireCycle \/ ScanCall \/ Tick

\* A connection goroutine finishes the command it has begun, the replication
\* loop reads what it is sent, and the ticker of StartCron keeps firing.  The
\* first two are stated on the queues: only Feed empties pending and only Replay
\* shortens the stream, and both can whenever there is something to take.
Finishes == pending # <<>> /\ pending' = <<>>
Consumes == stream # <<>> /\ stream' = Tail(stream)
Fairness == WF_pending(Finishes) /\ WF_stream(Consumes)
            /\ WF_vars(ActiveExpireCycle) /\ WF_vars(ReplicaExpireCycle)

Spec == Init /\ [][Next]_vars /\ Fairness

------------------------------------------------------------------------------
(* Properties.                                                              *)

Listpacked(obj, type) == obj.type = type /\ obj.enc = "listpack"

\* What a value holds, whatever its encoding.
Content(obj) ==
  CASE obj.type = "hash" -> [f \in hashFields(obj) |-> hashGet(obj, f)]
    [] obj.type = "set"  -> setMembers(obj)
    [] obj.type = "none" -> <<>>
    [] OTHER             -> obj.data

SameValue(x, y) == x.type = y.type /\ Content(x) = Content(y)

\* Once everything executed has been replayed, the replica has every live key of
\* the master with the same content, and a deadline exactly when the master has
\* one: not earlier, and later only by the time a command may wait between its
\* handler and normalizeForPropagation, which reads the clock again.  A key that
\* is gone on the master is gone on the replica or will expire there.  Excepted
\* are the keys on which a replay met another liveness than the execution did.
ReplicaAgrees ==
  pending = <<>> /\ stream = <<>> =>
    \A k \in Keys \ drift :
      IF k \in LiveOf(master, Keys)
      THEN /\ SameValue(master.entries[k], replica.entries[k])
           /\ IF master.expires[k] = 0 THEN replica.expires[k] = 0
              ELSE replica.expires[k] \in master.expires[k] .. master.expires[k] + delay
      ELSE k \in LiveOf(replica, Keys) => replica.expires[k] # 0

\* The step in which a handler runs, its command and its reply.
Executes == pending = <<>> /\ pending' # <<>>
Cmd      == pending'[1].cmd
Reply    == pending'[1].reply

\* Every key that was live still is, with its content and deadline, and no other is.
NothingChanged ==
  /\ LiveOf(master', Keys) = LiveOf(master, Keys)
  /\ \A k \in LiveOf(master, Keys) :
       /\ SameValue(master.entries[k], master'.entries[k])
       /\ master.expires[k] = master'.expires[k]

\* A command that answers an error is not fed (Execute looks at the first byte of
\* the reply), so it must not have changed anything either.
ErrorChangesNothing == Reply = Error => NothingChanged

\* A command without FlagWrite is neither fed nor touched: it changes nothing but
\* the reclaiming of expired keys.
ReadsOnlyReclaim == Cmd.name \notin WriteCommands => NothingChanged

Size(obj) ==
  CASE obj.type = "none"   -> 0
    [] obj.type = "hash"   -> hashLen(obj)
    [] obj.type = "set"    -> setCard(obj)
    [] OTHER               -> Len(obj.data)

\* Some container is empty: every handler that removes the last element, or
\* creates the container before it knows what to store, has to delete the key.
Empty(obj) == obj.type \in {"hash", "list", "set", "zset"} /\ Size(obj) = 0

\* The compact encodings stay within their limits, hold nothing twice, and keep
\* the order their searches rely on.
WellEncoded(obj) ==
  /\ Listpacked(obj, "hash") =>
       /\ Len(obj.data) <= HashMaxListpackEntries
       /\ Len(obj.data) = Cardinality(hashFields(obj))
       /\ \A f \in hashFields(obj) : Len(f) <= HashMaxListpackValue
                                     /\ Len(hashGet(obj, f)) <= HashMaxListpackValue
  /\ Listpacked(obj, "list") =>
       /\ ListMaxListpackSize >= 0 => Len(obj.data) <= ListMaxListpackSize
       /\ \A i \in DOMAIN obj.data : Len(obj.data[i]) <= ListMaxListpackValue
  /\ obj.type = "set" =>
       /\ obj.enc = "intset" => Cardinality(obj.data) <= SetMaxIntsetEntries
       /\ Listpacked(obj, "set") =>
            /\ Len(obj.data) <= SetMaxListpackEntries /\ Len(obj.data) = Cardinality(ToSet(obj.data))
            /\ \A m \in ToSet(obj.data) : Len(m) <= SetMaxListpackValue
  /\ obj.type = "zset" =>
       /\ \A i \in 1 .. Len(obj.data) - 1 : ZLess(obj.data[i], obj.data[i + 1])
       /\ Cardinality(zMembers(obj)) = Len(obj.data)
       /\ Listpacked(obj, "zset") => /\ Len(obj.data) <= ZsetMaxListpackEntries
                                     /\ \A m \in zMembers(obj) : Len(m) <= ZsetMaxListpackValue

\* On either side no key holds an empty container and every container is well
\* encoded, whatever sequence of commands, promotions and rebuilds led there.
ContainersWellFormed ==
  \A k \in Keys : /\ ~Empty(master.entries[k]) /\ WellEncoded(master.entries[k])
                  /\ ~Empty(replica.entries[k]) /\ WellEncoded(replica.entries[k])

\* What a key holds before and after the step, an expired value counting as none.
Before(k) == IF k \in LiveOf(master, Keys) THEN master.entries[k] ELSE Nil
After(k)  == IF k \in LiveOf(master', Keys) THEN master'.entries[k] ELSE Nil

\* The number a command answers is the change it made, across promotions, repeated
\* arguments and expired values: added by SADD, HSET and ZADD, removed by SREM,
\* HDEL, ZREM, LREM and ZREMRANGEBY.., the length after a push or an insertion,
\* the size of the result of a STORE, the keys that DEL took away.
RepliesCount ==
  Reply.t = "int" =>
    LET n == Reply.n
        Grown(k) == Size(After(k)) - Size(Before(k))
    IN CASE Cmd.name \in {"sadd", "hset", "hsetnx"} -> n = Grown(Cmd.key)
         [] Cmd.name \in {"zadd", "geoadd"} -> "CH" \notin Cmd.opts => n = Grown(Cmd.key)
         [] Cmd.name \in {"srem", "hdel", "zrem", "lrem", "zremrangebyrank",
                          "zremrangebyscore", "zremrangebylex"} -> n = -Grown(Cmd.key)
         [] Cmd.name \in {"lpush", "rpush", "lpushx", "rpushx"} ->
              n = Size(After(Cmd.key)) /\ Grown(Cmd.key) \in {0, Len(Cmd.vals)}
         [] Cmd.name = "linsert" -> n > 0 => n = Size(After(Cmd.key)) /\ Grown(Cmd.key) = 1
         [] Cmd.name \in {"sinterstore", "sunionstore", "sdiffstore", "zunionstore",
                          "zinterstore", "zdiffstore", "zrangestore"} ->
              n = Size(After(Cmd.dst))
         [] Cmd.name \in {"del", "unlink"} ->
              n = Cardinality(LiveOf(master, Keys)) - Cardinality(LiveOf(master', Keys))
         [] OTHER -> TRUE

\* How often an element occurs in the lists of some keys.
Occurs(e, ks, Holds(_)) ==
  FoldSet(LAMBDA k, n : n + (IF Holds(k).type = "list"
                             THEN Cardinality({i \in DOMAIN Holds(k).data : Holds(k).data[i] = e})
                             ELSE 0), 0, ks)

MembersIn(ks, Holds(_)) ==
  UNION {IF Holds(k).type = "set" THEN setMembers(Holds(k)) ELSE {} : k \in ks}

\* LMOVE and SMOVE lose and duplicate nothing between the two keys, also when they
\* are the same key and when the last element leaves; RENAME carries the value and
\* its deadline over and leaves the old name free.
MoveConserves ==
  Reply # Error =>
    CASE Cmd.name \in {"lmove", "rpoplpush"} ->
           LET ks == {Cmd.key, Cmd.dst}
               es == UNION {ToSet(Before(k).data) : k \in {j \in ks : Before(j).type = "list"}}
           IN \A e \in es : Occurs(e, ks, Before) = Occurs(e, ks, After)
      [] Cmd.name = "smove" ->
           LET ks == {Cmd.key, Cmd.dst}
           IN /\ MembersIn(ks, Before) = MembersIn(ks, After)
              /\ Reply = Integer(1) => Cmd.member \in MembersIn({Cmd.dst}, After)
      [] Cmd.name \in {"rename", "renamenx"} ->
           Cmd.key # Cmd.dst /\ Reply \in {OK, Integer(1)} =>
             /\ After(Cmd.dst) = Before(Cmd.key) /\ After(Cmd.key) = Nil
             /\ master'.expires[Cmd.dst] = master.expires[Cmd.key]
      [] OTHER -> TRUE

\* The commands that change a value where it is.
InPlace == (HashWrites \cup ListWrites \cup {"sadd", "srem", "spop", "smove", "zadd", "geoadd",
             "zincrby", "zrem", "zpopmin", "zpopmax", "setbit"})

\* Changing a container in place keeps the deadline of its key: a promotion and a
\* rebuild publish the new value with SetKeepTTL.  Moving the only element of a key
\* onto itself is excepted: it deletes the key and creates it again.
InPlaceKeepsDeadline ==
  Cmd.name \in InPlace =>
    \A k \in LiveOf(master, Keys) \cap LiveOf(master', Keys) :
      ~("dst" \in DOMAIN Cmd /\ Cmd.key = Cmd.dst) =>
        master'.expires[k] = master.expires[k]

\* What a command answers is true of what it did: nothing is changed behind an
\* error, a read changes nothing but what has expired, a count is the change.
RepliesTrue == [][Executes => ErrorChangesNothing /\ ReadsOnlyReclaim /\ RepliesCount]_vars

\* What a command moves or changes in place keeps the rest of the key: elements
\* are neither lost nor doubled, and deadlines stay.
UpdatesConserve == [][Executes => MoveConserves /\ InPlaceKeepsDeadline]_vars

\* A SCAN that has come back to cursor 0 has returned every key that was live
\* from its first call on, whatever was written, renamed or expired meanwhile.
ScanComplete == scan.on /\ scan.cursor = 0 => scan.live \subseteq scan.got

=============================================================================
