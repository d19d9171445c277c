------------------------------- MODULE TxWatch -------------------------------
(***************************************************************************)
(* WATCH / MULTI / EXEC over the sharded keyspace: the optimistic          *)
(* transactions of commands/transaction.go, the command path of            *)
(* Table.Execute around them, and the version counters of db/sharded.go    *)
(* that are maintained only while somebody watches a key.                  *)
(*                                                                         *)
(* A value is abstracted to "the n-th modification of its key" (mod), a    *)
(* shard to the keys it holds: shards are visited in index order and keys  *)
(* hash to them arbitrarily, so a loop over the shards visits the keys in  *)
(* any order.                                                              *)
(***************************************************************************)
EXTENDS Integers, FiniteSets, Sequences

CONSTANTS
  Clients,   \* connections, each with a TxState of its own
  Keys,
  None,      \* no client, no key
  Ops,       \* which operations of AllOps the clients and the cron perform
  MaxOps,    \* bound: modifications, queued commands and hang-ups in a run
  MaxQueue   \* bound: commands queued in one MULTI

\* set:   a handler that goes through DB.Set / SetWithExpire / SetKeepTTL
\* del:   DEL and UNLINK
\* push:  a container created, changed in place, or deleted once it is empty
\*        (LPUSH, LPOP, HSET, HDEL, SADD, SREM, XADD, ...)
\* lmove: LMOVE, RPOPLPUSH, SMOVE: the same with two containers
\* flush: FLUSHALL / FLUSHDB
\* unwatch, discard: the commands of that name
\* badcmd: an unknown command or a wrong arity while a MULTI is open
\* deny:  a command refused with NOPERM or MOVED while a MULTI is open
\* drop:  a client hangs up
\* expire, evict: what the cron goroutine does
WriteOps == {"set", "del", "push", "lmove", "flush"}
AllOps == WriteOps \cup
          {"unwatch", "discard", "badcmd", "deny", "drop", "expire", "evict"}

ASSUME ConstantsAssumption ==
  /\ IsFiniteSet(Clients) /\ IsFiniteSet(Keys) /\ Keys # {}
  /\ None \notin Clients \cup Keys
  /\ Ops \subseteq AllOps
  /\ MaxOps \in Nat /\ MaxQueue \in Nat

VARIABLES
  present,   \* shard.entries: the keys that exist
  ver,       \* shard.versions
  watchers,  \* ShardedDB.watchers
  readers,   \* txMu: who is between BeginOp and EndOp
  writer,    \* txMu: who is between BeginTx and EndTx, or None
  inMulti, dirty, queue,   \* TxState.InMulti, DirtyCAS, QueuedCmds
  watched,   \* TxState.Watched: its keys
  wver,      \* TxState.Watched: the version kept for each of them
  pc,        \* where the client's goroutine is
  op,        \* the command it executes
  key,       \* that command's argv[1], or the key WATCH is at
  todo,      \* the keys the current loop has still to visit
  reply,     \* what the EXEC in progress is going to answer
  mod,       \* history: how often each key has been modified
  seen,      \* history: mod of each watched key when WATCH read its version
  failed,    \* history: a command of the open MULTI was refused
  leaked,    \* history: watches of clients that have hung up
  spent      \* how much of MaxOps is used up

db    == <<present, ver, mod>>
lock  == <<readers, writer>>
tx    == <<inMulti, dirty, queue, failed>>
watch == <<watched, wver, seen>>
at    == <<pc, op, key, todo>>
vars  == <<db, watchers, lock, tx, watch, at, reply, leaked, spent>>

PCs == {"idle", "watchAdd", "watchGet", "body", "touch", "bump",
        "clear", "reclaim", "check", "run"}
OpNames == WriteOps \cup {"none", "watch", "unwatch", "discard", "exec"}

Init ==
  /\ present = {}
  /\ ver = [k \in Keys |-> 0]
  /\ watchers = 0
  /\ readers = {}
  /\ writer = None
  /\ inMulti = [c \in Clients |-> FALSE]
  /\ dirty = [c \in Clients |-> FALSE]
  /\ queue = [c \in Clients |-> << >>]
  /\ watched = [c \in Clients |-> {}]
  /\ wver = [c \in Clients |-> [k \in Keys |-> 0]]
  /\ pc = [c \in Clients |-> "idle"]
  /\ op = [c \in Clients |-> "none"]
  /\ key = [c \in Clients |-> None]
  /\ todo = [c \in Clients |-> {}]
  /\ reply = [c \in Clients |-> "none"]
  /\ mod = [k \in Keys |-> 0]
  /\ seen = [c \in Clients |-> [k \in Keys |-> 0]]
  /\ failed = [c \in Clients |-> FALSE]
  /\ leaked = 0
  /\ spent = 0

-----------------------------------------------------------------------------
(* txMu.  Its writer preference matters for progress only and is left to   *)
(* the module StreamBlock.                                                 *)
BeginOp(c) == writer = None /\ readers' = readers \cup {c} /\ UNCHANGED writer
EndOp(c)   == readers' = readers \ {c} /\ UNCHANGED writer
\* Mutant: the exclusive lock does not wait for operations in progress.
BeginTxUnfair(c) == writer = None /\ writer' = c /\ UNCHANGED readers

BeginTx(c) == writer = None /\ readers = {} /\ writer' = c /\ UNCHANGED readers
EndTx      == writer' = None /\ UNCHANGED readers

InTxExecution(c) == writer = c

Goto(c, l) == pc' = [pc EXCEPT ![c] = l]
Visit(c, k) == todo' = [todo EXCEPT ![c] = @ \ {k}]
Spend == spent < MaxOps /\ spent' = spent + 1

(* bumpVersion, called with the shard locked. *)
bumpVersion(k) ==
  ver' = IF watchers > 0 THEN [ver EXCEPT ![k] = @ + 1] ELSE ver

(* A key gets a new value, or loses the one it has. *)
Store(k)  == present' = present \cup {k} /\ mod' = [mod EXCEPT ![k] = @ + 1]
Remove(k) == present' = present \ {k} /\ mod' = [mod EXCEPT ![k] = @ + 1]

(* The command is answered; its arguments are gone. *)
Forget(c) == op' = [op EXCEPT ![c] = "none"] /\ key' = [key EXCEPT ![c] = None]

(* The end of Table.Execute: a command run by EXEC returns to its loop, any *)
(* other one releases the operation lock.                                   *)
Return(c) ==
  IF InTxExecution(c)
  THEN Goto(c, "run") /\ UNCHANGED <<lock, op, key>>
  ELSE Goto(c, "idle") /\ Forget(c) /\ EndOp(c)

-----------------------------------------------------------------------------
(* watchCommand, key by key: AddWatchers unless the key is watched already, *)
(* then GetVersion.                                                         *)
Watch(c, K) ==
  /\ pc[c] = "idle" /\ ~inMulti[c]
  /\ BeginOp(c)
  /\ Goto(c, "watchAdd")
  /\ op' = [op EXCEPT ![c] = "watch"]
  /\ todo' = [todo EXCEPT ![c] = K]
  /\ UNCHANGED <<db, watchers, tx, watch, key, reply, leaked, spent>>

WatchAdd(c, k) ==
  /\ pc[c] = "watchAdd" /\ k \in todo[c]
  /\ watchers' = IF k \in watched[c] THEN watchers ELSE watchers + 1
  /\ key' = [key EXCEPT ![c] = k]
  /\ Visit(c, k)
  /\ Goto(c, "watchGet")
  /\ UNCHANGED <<db, lock, tx, watch, op, reply, leaked, spent>>

WatchGet(c) ==
  /\ pc[c] = "watchGet"
  /\ watched' = [watched EXCEPT ![c] = @ \cup {key[c]}]
  /\ wver' = [wver EXCEPT ![c][key[c]] = ver[key[c]]]
  /\ seen' = [seen EXCEPT ![c][key[c]] = mod[key[c]]]
  /\ IF todo[c] = {} THEN Return(c) ELSE Goto(c, "watchAdd") /\ UNCHANGED <<lock, op, key>>
  /\ UNCHANGED <<db, watchers, tx, todo, reply, leaked, spent>>

-----------------------------------------------------------------------------
(* MULTI, and what Table.Execute does with a command while it is open: an  *)
(* unknown command or a wrong arity sets DirtyCAS, a missing permission or *)
(* a slot of another node is only answered, anything else is queued.       *)
Multi(c) ==
  /\ pc[c] = "idle" /\ ~inMulti[c] /\ writer = None
  /\ inMulti' = [inMulti EXCEPT ![c] = TRUE]
  /\ queue' = [queue EXCEPT ![c] = << >>]
  /\ UNCHANGED <<db, watchers, lock, dirty, failed, watch, at, reply, leaked, spent>>

(* A command as it stands in argv: its first key and, for those that take *)
(* two, the other one.                                                    *)
Commands ==
  {m \in [op : (WriteOps \cap Ops) \cup {"unwatch"}, key : Keys, other : Keys] :
     m.op \in {"push", "flush", "unwatch"} => m.other = m.key}

Enqueue(c, m) ==
  /\ pc[c] = "idle" /\ inMulti[c] /\ Len(queue[c]) < MaxQueue
  /\ Spend
  /\ queue' = [queue EXCEPT ![c] = Append(@, m)]
  /\ UNCHANGED <<db, watchers, lock, inMulti, dirty, failed, watch, at, reply, leaked>>

\* Mutant: an unknown command is answered and DirtyCAS is forgotten.
EnqueueErrorClean(c) ==
  /\ pc[c] = "idle" /\ inMulti[c] /\ "badcmd" \in Ops
  /\ failed' = [failed EXCEPT ![c] = TRUE]
  /\ UNCHANGED <<db, watchers, lock, inMulti, dirty, queue, watch, at, reply, leaked, spent>>

EnqueueError(c) ==
  /\ pc[c] = "idle" /\ inMulti[c] /\ "badcmd" \in Ops
  /\ dirty' = [dirty EXCEPT ![c] = TRUE]
  /\ failed' = [failed EXCEPT ![c] = TRUE]
  /\ UNCHANGED <<db, watchers, lock, inMulti, queue, watch, at, reply, leaked, spent>>

EnqueueDenied(c) ==
  /\ pc[c] = "idle" /\ inMulti[c] /\ "deny" \in Ops
  /\ failed' = [failed EXCEPT ![c] = TRUE]
  /\ UNCHANGED <<db, watchers, lock, inMulti, dirty, queue, watch, at, reply, leaked, spent>>

-----------------------------------------------------------------------------
(* A write command.  Its handler visits its keys one after the other, each *)
(* under the lock of the key's shard; afterwards Table.Execute touches     *)
(* argv[1], which loads the watcher count before it takes the shard lock.  *)
KeysOf(m) == IF m.op = "flush" THEN Keys ELSE {m.key, m.other}

(* Entering the handler of command m. *)
Dispatch(c, m) ==
  /\ Goto(c, IF m.op = "unwatch" THEN "clear" ELSE "body")
  /\ op' = [op EXCEPT ![c] = m.op]
  /\ key' = [key EXCEPT ![c] = m.key]
  /\ todo' = [todo EXCEPT ![c] = IF m.op = "unwatch" THEN {} ELSE KeysOf(m)]

Call(c, m) ==
  /\ pc[c] = "idle" /\ ~inMulti[c] /\ m.op \in Ops
  /\ Spend
  /\ BeginOp(c)
  /\ Dispatch(c, m)
  /\ UNCHANGED <<db, watchers, tx, watch, reply, leaked>>

(* What one visit does to the key: DB.Set and friends, DB.Del, a change in *)
(* place, one shard of FlushAll.                                           *)
SetKey(k)     == Store(k) /\ bumpVersion(k)
DelKey(k)     == IF k \in present
                 THEN Remove(k) /\ bumpVersion(k)
                 ELSE UNCHANGED db
ChangeKey(k)  == k \in present /\ Store(k) /\ UNCHANGED ver
FlushShard(k) ==
  IF watchers > 0
  THEN DelKey(k)
  ELSE /\ ver' = [ver EXCEPT ![k] = 0]
       /\ IF k \in present THEN Remove(k) ELSE UNCHANGED <<present, mod>>

(* A container command creates the container it does not find.  A move     *)
(* comes to its destination after its source.                              *)
Create(c, k) ==
  /\ pc[c] = "body" /\ k \in todo[c] \ present
  /\ op[c] = "push" \/ (op[c] = "lmove" /\ key[c] \notin todo[c])
  /\ SetKey(k)
  /\ UNCHANGED <<watchers, lock, tx, watch, at, reply, leaked, spent>>

(* DB.Del of a container that a command has emptied. *)
Emptied(c, k) ==
  op[c] = "push" \/ (op[c] = "lmove" /\ k = key[c] /\ k \in present /\ todo[c] # {k})

Body(c, k) ==
  /\ pc[c] = "body" /\ k \in todo[c]
  /\ op[c] = "lmove" => k = key[c] \/ key[c] \notin todo[c]
  /\ \/ op[c] = "set" /\ SetKey(k)
     \/ (op[c] = "del" \/ Emptied(c, k)) /\ DelKey(k)
     \/ op[c] \in {"push", "lmove"} /\ ChangeKey(k)
     \/ op[c] = "flush" /\ FlushShard(k)
  /\ Visit(c, k)
  /\ UNCHANGED <<watchers, lock, tx, watch, pc, op, key, reply, leaked, spent>>

(* The handler returns: its keys are done, or there is nothing to move. *)
BodyDone(c) ==
  /\ pc[c] = "body"
  /\ todo[c] = {} \/ (op[c] = "lmove" /\ key[c] \in todo[c])
  /\ todo' = [todo EXCEPT ![c] = {}]
  /\ IF op[c] = "flush" THEN Return(c) ELSE Goto(c, "touch") /\ UNCHANGED <<lock, op, key>>
  /\ UNCHANGED <<db, watchers, tx, watch, reply, leaked, spent>>

Touch(c) ==
  /\ pc[c] = "touch"
  /\ IF watchers = 0 THEN Return(c) ELSE Goto(c, "bump") /\ UNCHANGED <<lock, op, key>>
  /\ UNCHANGED <<db, watchers, tx, watch, todo, reply, leaked, spent>>

TouchBump(c) ==
  /\ pc[c] = "bump"
  /\ ver' = [ver EXCEPT ![key[c]] = @ + 1]
  /\ Return(c)
  /\ UNCHANGED <<present, mod, watchers, tx, watch, todo, reply, leaked, spent>>

-----------------------------------------------------------------------------
(* clearWatch, reached from UNWATCH, DISCARD and every exit of EXEC.       *)
(* RemoveWatchers first lowers the count; if nobody is left it then        *)
(* empties the version maps shard by shard.  Watched belongs to the client *)
(* alone, so it is emptied together with the count.                        *)
Discard(c) ==
  /\ pc[c] = "idle" /\ inMulti[c] /\ "discard" \in Ops
  /\ BeginOp(c)
  /\ Goto(c, "clear")
  /\ op' = [op EXCEPT ![c] = "discard"]
  /\ UNCHANGED <<db, watchers, tx, watch, key, todo, reply, leaked, spent>>

NoWatch(c) ==
  /\ watched' = [watched EXCEPT ![c] = {}]
  /\ wver' = [wver EXCEPT ![c] = [k \in Keys |-> 0]]
  /\ seen' = [seen EXCEPT ![c] = [k \in Keys |-> 0]]

\* Mutant: versions are reclaimed while others still watch.
clearWatchEager(c) ==
  /\ pc[c] = "clear"
  /\ watchers' = watchers - Cardinality(watched[c])
  /\ todo' = [todo EXCEPT ![c] = IF watched[c] # {} THEN Keys ELSE {}]
  /\ NoWatch(c)
  /\ Goto(c, "reclaim")
  /\ UNCHANGED <<db, lock, tx, op, key, reply, leaked, spent>>

\* Mutant: the last watcher does not reclaim the versions.
clearWatchNever(c) ==
  /\ pc[c] = "clear"
  /\ watchers' = watchers - Cardinality(watched[c])
  /\ todo' = [todo EXCEPT ![c] = {}]
  /\ NoWatch(c)
  /\ Goto(c, "reclaim")
  /\ UNCHANGED <<db, lock, tx, op, key, reply, leaked, spent>>

clearWatch(c) ==
  /\ pc[c] = "clear"
  /\ LET left == watchers - Cardinality(watched[c])
     IN /\ watchers' = left
        /\ todo' = [todo EXCEPT ![c] =
                      IF watched[c] # {} /\ left <= 0 THEN Keys ELSE {}]
  /\ NoWatch(c)
  /\ Goto(c, "reclaim")
  /\ UNCHANGED <<db, lock, tx, op, key, reply, leaked, spent>>

Reclaim(c, k) ==
  /\ pc[c] = "reclaim" /\ k \in todo[c]
  /\ ver' = [ver EXCEPT ![k] = 0]
  /\ Visit(c, k)
  /\ UNCHANGED <<present, mod, watchers, lock, tx, watch, pc, op, key, reply, leaked, spent>>

(* The rest of unwatchCommand, discardCommand and execCommand. *)
Reset(c) ==
  /\ pc[c] = "reclaim" /\ todo[c] = {}
  /\ dirty' = [dirty EXCEPT ![c] = FALSE]
  /\ IF op[c] = "unwatch"
     THEN Return(c) /\ UNCHANGED <<inMulti, queue, failed, reply>>
     ELSE /\ inMulti' = [inMulti EXCEPT ![c] = FALSE]
          /\ queue' = [queue EXCEPT ![c] = << >>]
          /\ failed' = [failed EXCEPT ![c] = FALSE]
          /\ reply' = [reply EXCEPT ![c] = "none"]
          /\ Goto(c, "idle") /\ Forget(c)
          /\ IF op[c] = "exec" THEN EndTx ELSE EndOp(c)
  /\ UNCHANGED <<db, watchers, watch, todo, leaked, spent>>

-----------------------------------------------------------------------------
(* execCommand: BeginTx; give up if DirtyCAS; compare the version of every *)
(* watched key; run the queue; Reset.  All under the exclusive lock.       *)
Exec(c) ==
  /\ pc[c] = "idle" /\ inMulti[c]
  /\ BeginTx(c)
  /\ Goto(c, "check")
  /\ op' = [op EXCEPT ![c] = "exec"]
  /\ todo' = [todo EXCEPT ![c] = watched[c]]
  /\ UNCHANGED <<db, watchers, tx, watch, key, reply, leaked, spent>>

GiveUp(c, r) ==
  /\ reply' = [reply EXCEPT ![c] = r]
  /\ todo' = [todo EXCEPT ![c] = {}]
  /\ Goto(c, "clear")
  /\ UNCHANGED inMulti

ExecAbort(c) ==
  /\ pc[c] = "check" /\ dirty[c]
  /\ GiveUp(c, "execabort")
  /\ UNCHANGED <<db, watchers, lock, dirty, queue, failed, watch, op, key, leaked, spent>>

\* Mutant: a key whose version was 0 is taken for untracked.
ExecVerifyUntracked(c, k) ==
  /\ pc[c] = "check" /\ ~dirty[c] /\ k \in todo[c]
  /\ IF ver[k] # wver[c][k] /\ wver[c][k] # 0
     THEN GiveUp(c, "nil")
     ELSE Visit(c, k) /\ UNCHANGED <<reply, pc, inMulti>>
  /\ UNCHANGED <<db, watchers, lock, dirty, queue, failed, watch, op, key, leaked, spent>>

ExecVerify(c, k) ==
  /\ pc[c] = "check" /\ ~dirty[c] /\ k \in todo[c]
  /\ IF ver[k] # wver[c][k]
     THEN GiveUp(c, "nil")
     ELSE Visit(c, k) /\ UNCHANGED <<reply, pc, inMulti>>
  /\ UNCHANGED <<db, watchers, lock, dirty, queue, failed, watch, op, key, leaked, spent>>

ExecCommit(c) ==
  /\ pc[c] = "check" /\ ~dirty[c] /\ todo[c] = {}
  /\ reply' = [reply EXCEPT ![c] = "array"]
  /\ IF queue[c] = << >>
     THEN Goto(c, "clear") /\ UNCHANGED inMulti
     ELSE Goto(c, "run") /\ inMulti' = [inMulti EXCEPT ![c] = FALSE]
  /\ UNCHANGED <<db, watchers, lock, dirty, queue, failed, watch, op, key, todo, leaked, spent>>

ExecRun(c) ==
  /\ pc[c] = "run" /\ queue[c] # << >>
  /\ Dispatch(c, Head(queue[c]))
  /\ queue' = [queue EXCEPT ![c] = Tail(@)]
  /\ UNCHANGED <<db, watchers, lock, inMulti, dirty, failed, watch, reply, leaked, spent>>

ExecEnd(c) ==
  /\ pc[c] = "run" /\ queue[c] = << >>
  /\ op' = [op EXCEPT ![c] = "exec"]
  /\ Goto(c, "clear")
  /\ UNCHANGED <<db, watchers, lock, tx, watch, key, todo, reply, leaked, spent>>

-----------------------------------------------------------------------------
(* The cron goroutine takes shard locks only, never txMu. *)
Expire(k) ==
  /\ "expire" \in Ops /\ k \in present
  /\ Spend
  /\ DelKey(k)
  /\ UNCHANGED <<watchers, lock, tx, watch, at, reply, leaked>>

Evict(k) ==
  /\ "evict" \in Ops /\ k \in present
  /\ Spend
  /\ Remove(k) /\ UNCHANGED ver
  /\ UNCHANGED <<watchers, lock, tx, watch, at, reply, leaked>>

(* handleConnection returns: the TxState is dropped as it stands.  The     *)
(* client is a new connection afterwards.                                  *)
Drop(c) ==
  /\ pc[c] = "idle" /\ "drop" \in Ops
  /\ Spend
  /\ leaked' = leaked + Cardinality(watched[c])
  /\ NoWatch(c)
  /\ inMulti' = [inMulti EXCEPT ![c] = FALSE]
  /\ dirty' = [dirty EXCEPT ![c] = FALSE]
  /\ queue' = [queue EXCEPT ![c] = << >>]
  /\ failed' = [failed EXCEPT ![c] = FALSE]
  /\ UNCHANGED <<db, watchers, lock, at, reply>>

ClientStep(c) ==
  \/ \E K \in (SUBSET Keys) \ {{}} : Watch(c, K)
  \/ \E k \in Keys : WatchAdd(c, k)
  \/ WatchGet(c)
  \/ Multi(c) \/ EnqueueError(c) \/ EnqueueDenied(c)
  \/ \E m \in Commands : Enqueue(c, m)
  \/ \E m \in Commands : Call(c, m)
  \/ \E k \in Keys : Create(c, k) \/ Body(c, k)
  \/ BodyDone(c) \/ Touch(c) \/ TouchBump(c)
  \/ Discard(c) \/ clearWatch(c) \/ Reset(c)
  \/ \E k \in Keys : Reclaim(c, k)
  \/ Exec(c) \/ ExecAbort(c) \/ ExecCommit(c) \/ ExecRun(c) \/ ExecEnd(c)
  \/ \E k \in Keys : ExecVerify(c, k)
  \/ Drop(c)

Next ==
  \/ \E c \in Clients : ClientStep(c)
  \/ \E k \in Keys : Expire(k) \/ Evict(k)

Spec == Init /\ [][Next]_vars

-----------------------------------------------------------------------------
StoreType ==
  /\ present \subseteq Keys
  /\ ver \in [Keys -> Nat] /\ mod \in [Keys -> Nat]
  /\ watchers \in Int /\ leaked \in Nat /\ spent \in 0..MaxOps
LockType ==
  /\ readers \subseteq Clients /\ writer \in Clients \cup {None}
TxType ==
  /\ inMulti \in [Clients -> BOOLEAN]
  /\ dirty \in [Clients -> BOOLEAN] /\ failed \in [Clients -> BOOLEAN]
  /\ queue \in [Clients -> Seq(Commands)]
  /\ reply \in [Clients -> {"none", "execabort", "nil", "array"}]
WatchType ==
  /\ watched \in [Clients -> SUBSET Keys]
  /\ wver \in [Clients -> [Keys -> Nat]] /\ seen \in [Clients -> [Keys -> Nat]]
ControlType ==
  /\ pc \in [Clients -> PCs] /\ op \in [Clients -> OpNames]
  /\ key \in [Clients -> Keys \cup {None}] /\ todo \in [Clients -> SUBSET Keys]
(* Every variable has its type: versions, modifications and leaked watches *)
(* never fall below zero, and a client is at a step of Table.Execute.      *)
TypeOK == StoreType /\ LockType /\ TxType /\ WatchType /\ ControlType

(* The watches the counter has to account for: those a client holds and   *)
(* the one a WATCH has announced and not yet recorded.                    *)
Registered ==
  {r \in Clients \X Keys :
     r[2] \in watched[r[1]] \/ (pc[r[1]] = "watchGet" /\ key[r[1]] = r[2])}

(* The watcher count is the number of watches held, plus those of clients *)
(* that hung up: WATCH counts a key once however often it is repeated, and *)
(* clearWatch gives back what WATCH took (sharded.go:393-413).             *)
WatcherCount == watchers = Cardinality(Registered) + leaked

(* A client is between its change of k in place and the Touch that        *)
(* follows it in Table.Execute.                                           *)
TouchPending(k) ==
  \E c \in Clients : /\ pc[c] \in {"body", "touch", "bump"}
                     /\ op[c] = "push" /\ key[c] = k

(* A key modified since it was watched has a version other than the one   *)
(* the watch recorded, or is about to get one: what transaction.go:102-104 *)
(* promises of a write concurrent with WATCH.                              *)
ModifiedIsVisible ==
  \A c \in Clients : \A k \in watched[c] :
    mod[k] # seen[c][k] => ver[k] > wver[c][k] \/ TouchPending(k)

(* The conditions under which NoLostUpdate is inductive: no operation that *)
(* changes a key without a version, and no watch given back outside EXEC.  *)
TrackedOps ==
  {"set", "del", "push", "flush", "badcmd", "deny", "drop", "expire"}

(* txMu is held by exactly the clients that execute a command, and EXEC    *)
(* holds it alone.                                                         *)
LockInv ==
  /\ writer # None => readers = {}
  /\ \A c \in Clients :
       /\ pc[c] = "idle" <=> c \notin readers /\ writer # c
       /\ pc[c] \in {"watchAdd", "watchGet"} => c \in readers
       /\ pc[c] \in {"check", "run"} => writer = c
       /\ pc[c] = "check" => op[c] = "exec"
       /\ pc[c] \in {"clear", "reclaim"} =>
            writer = c /\ op[c] \in {"unwatch", "exec"}

(* What a handler knows about its own arguments and loops. *)
CommandInv ==
  \A c \in Clients :
    /\ pc[c] \in {"watchGet", "body", "touch", "bump"} => key[c] \in Keys
    /\ pc[c] = "body" => op[c] \in WriteOps \cap Ops
    /\ pc[c] = "body" /\ op[c] = "push" => todo[c] \subseteq {key[c]}
    /\ pc[c] = "check" => todo[c] \subseteq watched[c]
    /\ pc[c] = "reclaim" /\ todo[c] # {} => watchers <= 0

(* A version never falls below what a watch recorded. *)
VersionsGrow ==
  \A c \in Clients : \A k \in watched[c] : ver[k] >= wver[c][k]

(* The inductive invariant behind NoLostUpdate: the versions of a watched  *)
(* key only grow because the watcher count it is registered in keeps       *)
(* RemoveWatchers from reclaiming them, and the lock keeps a pending Touch *)
(* out of EXEC's check (transaction.go:128-147, sharded.go:393-488).       *)
WatchInv ==
  /\ TypeOK /\ LockInv /\ CommandInv
  /\ WatcherCount /\ VersionsGrow /\ ModifiedIsVisible

(* EXEC lets no watched key pass its check that was modified after the    *)
(* WATCH: no update is lost between reading a key and committing on it.    *)
Passes(c, k) ==
  /\ pc[c] = "check" /\ pc'[c] = "check"
  /\ k \in todo[c] /\ k \notin todo'[c]
NoLostUpdate ==
  [][\A c \in Clients, k \in Keys : Passes(c, k) => mod[k] = seen[c][k]]_vars

(* A transaction one of whose commands was refused while it was queued    *)
(* never runs: "A command that failed to queue poisons the transaction."   *)
PoisonedNeverRuns ==
  [][\A c \in Clients :
       pc[c] = "check" /\ pc'[c] # "check" /\ reply'[c] = "array" => ~failed[c]]_vars

(* While EXEC runs, nothing but its own commands and expiry changes a key: *)
(* a key changes under the exclusive lock only by its holder's handler or  *)
(* by being removed (sharded.go:514-532).                                  *)
ExecIsolated ==
  [][\A k \in Keys :
       writer # None /\ mod'[k] # mod[k] =>
         (pc[writer] = "body" /\ k \in todo[writer]) \/ present' = present \ {k}]_vars

(* "Once nobody is watching anything the version counters are reclaimed": *)
(* with every client idle and none watching, no version is kept.           *)
VersionsReclaimed ==
  (\A c \in Clients : pc[c] = "idle" /\ watched[c] = {}) =>
    \A k \in Keys : ver[k] = 0
=============================================================================
