--------------------------------- MODULE Aof ---------------------------------
(***************************************************************************)
(* The append-only file: a write command is applied, fed to the double     *)
(* buffer and, under FsyncAlways, synced before it is answered; the        *)
(* flusher and the fsync cron move buffered commands to disk; Rewrite      *)
(* replaces the file by a snapshot plus what was fed meanwhile; a crash    *)
(* loses what is not on disk and Load replays the rest.                    *)
(*                                                                         *)
(* A command appends its own number to a key (RPUSH, APPEND, INCR: nothing *)
(* idempotent), so the value of a key tells which commands it has seen and *)
(* in which order.  Number 0 is the DEL that reports an expired key.       *)
(***************************************************************************)
EXTENDS Integers, Sequences, Functions

CONSTANTS
  Clients, Keys, None,
  BigCmds,    \* the numbers of the commands that are larger than the buffer
  Policies,   \* the fsync policies it is started with
  BufSize,    \* DoubleBuffer.maxSize, in commands
  Events,     \* subset of AllEvents: what happens besides single writes
  MaxCmds,    \* bound: commands issued
  MaxCrashes  \* bound: crashes and shutdowns

AllEvents == {"exec", "rewrite", "ioerror", "expire", "torn", "close"}

ASSUME AofAssumption ==
  /\ None \notin Clients \cup Keys \cup {"rewrite"}
  /\ BigCmds \subseteq Nat /\ Policies \subseteq {"always", "everysec", "no"}
  /\ BufSize \in Nat \ {0} /\ Events \subseteq AllEvents
  /\ MaxCmds \in Nat /\ MaxCrashes \in Nat

VARIABLES
  policy,    \* AOF.policy, fixed when the server starts
  db,        \* the keyspace
  writer,    \* txMu: who holds it exclusively (a client, "rewrite", None)
  pc, batch, \* where a client is; the keys it has still to write
  cur,       \* the command a client is executing
  base, log, \* the file: what the last rewrite put first, and what was appended
  synced,    \* how much of log is safe on disk
  open,      \* whether a.file is open
  buf,       \* DoubleBuffer.active
  isRewriting, rewriteBuf,
  rw,        \* where Rewrite is
  temp,      \* the temporary file
  snapTodo,  \* shards it has still to visit
  gone,      \* expired keys whose DEL is not fed yet
  up,        \* "up", "closed" (Server.Close has returned) or "failed" to start
  cmds,      \* history: every command issued, by number
  acked,     \* history: the commands answered with success
  kept,      \* history: those in the keyspace when Rewrite drained its buffer
  crashes

client  == <<pc, batch, cur>>
file    == <<base, log, synced, open>>
rewrite == <<isRewriting, rewriteBuf, rw, temp, snapTodo, kept>>
history == <<cmds, acked, crashes>>
server  == <<policy, up>>
vars    == <<db, writer, client, file, buf, rewrite, gone, server, history>>

NoKeys == [k \in Keys |-> << >>]
Nothing == [key |-> None, id |-> 0, by |-> None, tx |-> 0]

Init ==
  /\ policy \in Policies
  /\ db = NoKeys /\ writer = None
  /\ pc = [c \in Clients |-> "idle"]
  /\ batch = [c \in Clients |-> << >>]
  /\ cur = [c \in Clients |-> Nothing]
  /\ base = NoKeys /\ log = << >> /\ synced = 0 /\ open = TRUE
  /\ buf = << >>
  /\ isRewriting = FALSE /\ rewriteBuf = << >> /\ rw = "idle"
  /\ temp = [base |-> NoKeys, log |-> << >>] /\ snapTodo = {} /\ kept = {}
  /\ gone = << >> /\ up = "up"
  /\ cmds = << >> /\ acked = {} /\ crashes = 0

-----------------------------------------------------------------------------
(* What a command does to the keyspace, and what Load makes of a file.  It *)
(* stops at a command that was written only in part.                       *)
Apply(d, e) == [d EXCEPT ![e.key] = IF e.id = 0 THEN << >> ELSE Append(@, e.id)]
Torn == Nothing
Readable(l) ==
  CHOOSE n \in 0..Len(l) :
    (n = Len(l) \/ l[n + 1] = Torn) /\ \A i \in 1..n : l[i] # Torn
Replayed(b, l) ==
  LET after[n \in 0..Len(l)] == IF n = 0 THEN b ELSE Apply(after[n - 1], l[n])
  IN after
Replay(b, l) == Replayed(b, l)[Readable(l)]

(* The command of that number has had its effect on the keyspace. *)
Holds(d, i) == \E k \in Keys : i \in Range(d[k])

(* DoubleBuffer.flushLocked: the buffers are swapped first, so what a      *)
(* failing write leaves behind is lost.                                    *)
Flushed == IF open THEN log \o buf ELSE log

(* DoubleBuffer.Write. *)
Big(e) == e.id \in BigCmds
WriteFails(e) == ~open /\ (Big(e) \/ Len(buf) = BufSize)

\* Mutant: a command larger than the buffer overtakes what is buffered.
WriteOvertakes(e) ==
  IF Big(e)
  THEN log' = Append(log, e) /\ UNCHANGED buf
  ELSE log' = Flushed /\ buf' = <<e>>

Write(e) ==
  IF Big(e) \/ Len(buf) = BufSize
  THEN /\ log' = IF open /\ Big(e) THEN Append(Flushed, e) ELSE Flushed
       /\ buf' = IF Big(e) \/ WriteFails(e) THEN << >> ELSE <<e>>
  ELSE buf' = Append(buf, e) /\ UNCHANGED log

(* Feed, second step: remember the command while a rewrite is under way. *)
Note(e) == rewriteBuf' = IF isRewriting THEN Append(rewriteBuf, e) ELSE rewriteBuf

Goto(c, l) == pc' = [pc EXCEPT ![c] = l]

-----------------------------------------------------------------------------
(* Table.Execute of a write command, or EXEC of two of them.  Clients keep *)
(* being served while Server.Close runs.                                   *)
Issue(c, k, tx) ==
  LET e == [key |-> k, id |-> Len(cmds) + 1, by |-> c, tx |-> tx]
  IN /\ Len(cmds) < MaxCmds
     /\ cmds' = Append(cmds, e)
     /\ cur' = [cur EXCEPT ![c] = e]

BeginOp(c, k) ==
  /\ pc[c] = "idle" /\ up # "failed" /\ writer = None
  /\ Issue(c, k, 0)
  /\ Goto(c, "apply")
  /\ UNCHANGED <<db, writer, batch, file, buf, rewrite, gone, server, acked, crashes>>

BeginTx(c, ks) ==
  /\ "exec" \in Events /\ pc[c] = "idle" /\ up # "failed"
  /\ writer = None /\ \A d \in Clients : pc[d] = "idle"
  /\ writer' = c
  /\ Issue(c, Head(ks), Len(cmds) + 1)
  /\ batch' = [batch EXCEPT ![c] = Tail(ks)]
  /\ Goto(c, "apply")
  /\ UNCHANGED <<db, file, buf, rewrite, gone, server, acked, crashes>>

Handle(c) ==
  /\ pc[c] = "apply"
  /\ db' = Apply(db, cur[c])
  /\ Goto(c, "feed")
  /\ UNCHANGED <<writer, batch, cur, file, buf, rewrite, gone, server, history>>

Feed(c) ==
  /\ pc[c] = "feed"
  /\ Write(cur[c])
  /\ Goto(c, IF WriteFails(cur[c]) THEN "reply" ELSE "note")
  /\ UNCHANGED <<db, writer, batch, cur, base, synced, open, rewrite, gone, server, history>>

FeedNote(c) ==
  /\ pc[c] = "note"
  /\ Note(cur[c])
  /\ Goto(c, IF policy = "always" THEN "flush" ELSE "reply")
  /\ UNCHANGED <<db, writer, batch, cur, file, buf, isRewriting, rw, temp, snapTodo, kept,
                 gone, server, history>>

FeedFlush(c) ==
  /\ pc[c] = "flush"
  /\ log' = Flushed /\ buf' = << >>
  /\ Goto(c, IF open \/ buf = << >> THEN "sync" ELSE "reply")
  /\ UNCHANGED <<db, writer, batch, cur, base, synced, open, rewrite, gone, server, history>>

\* Mutant: the file is written, but not synced.
FeedSyncSkipped(c) ==
  /\ pc[c] = "sync"
  /\ log' = Flushed /\ buf' = << >>
  /\ Goto(c, "reply")
  /\ UNCHANGED <<db, writer, batch, cur, base, synced, open, rewrite, gone, server, history>>

FeedSync(c) ==
  /\ pc[c] = "sync"
  /\ log' = Flushed /\ buf' = << >>
  /\ synced' = IF open THEN Len(Flushed) ELSE synced
  /\ Goto(c, "reply")
  /\ UNCHANGED <<db, writer, batch, cur, base, open, rewrite, gone, server, history>>

(* The reply; EXEC goes on with its next command and answers at the end.   *)
(* What Feed returned is not looked at.                                    *)
Reply(c) ==
  /\ pc[c] = "reply"
  /\ IF batch[c] # << >>
     THEN /\ Issue(c, Head(batch[c]), cur[c].tx)
          /\ batch' = [batch EXCEPT ![c] = Tail(@)]
          /\ Goto(c, "apply")
          /\ UNCHANGED <<writer, acked>>
     ELSE /\ acked' = acked \cup
               {i \in DOMAIN cmds : i = cur[c].id \/ (cur[c].tx # 0 /\ cmds[i].tx = cur[c].tx)}
          /\ cur' = [cur EXCEPT ![c] = Nothing]
          /\ writer' = IF writer = c THEN None ELSE writer
          /\ Goto(c, "idle")
          /\ UNCHANGED <<batch, cmds>>
  /\ UNCHANGED <<db, file, buf, rewrite, gone, server, crashes>>

-----------------------------------------------------------------------------
\* Mutant: the ticker swaps the buffers and does not write the full one.
FlusherTickSwaps ==
  /\ up = "up" /\ open /\ buf # << >>
  /\ buf' = << >>
  /\ UNCHANGED <<log, db, writer, client, base, synced, open, rewrite, gone, server, history>>

(* flusherLoop, until the buffer is closed; the fsync cron of "everysec". *)
FlusherTick ==
  /\ up = "up" /\ open /\ buf # << >>
  /\ log' = Flushed /\ buf' = << >>
  /\ UNCHANGED <<db, writer, client, base, synced, open, rewrite, gone, server, history>>

\* Mutant: the cron flushes and does not sync.
SyncTickSkipped ==
  /\ up = "up" /\ policy = "everysec"
  /\ log' = Flushed /\ buf' = << >>
  /\ UNCHANGED <<db, writer, client, base, synced, open, rewrite, gone, server, history>>

SyncTick ==
  /\ up = "up" /\ policy = "everysec"
  /\ log' = Flushed /\ buf' = << >>
  /\ synced' = IF open THEN Len(Flushed) ELSE synced
  /\ UNCHANGED <<db, writer, client, base, open, rewrite, gone, server, history>>

(* The cron goroutine removes an expired key under its shard lock and      *)
(* reports it once the lock is released; it never takes txMu.              *)
Expire(k) ==
  /\ "expire" \in Events /\ up = "up" /\ gone = << >> /\ db[k] # << >>
  /\ db' = [db EXCEPT ![k] = << >>]
  /\ gone' = <<k>>
  /\ UNCHANGED <<writer, client, file, buf, rewrite, server, history>>

notifyExpired ==
  /\ up = "up" /\ gone # << >>
  /\ LET e == [Nothing EXCEPT !.key = Head(gone)]
     IN Write(e) /\ (IF WriteFails(e) THEN UNCHANGED rewriteBuf ELSE Note(e))
  /\ gone' = << >>
  /\ UNCHANGED <<db, writer, client, base, synced, open, isRewriting, rw, temp, snapTodo,
                 kept, server, history>>

-----------------------------------------------------------------------------
\* Mutant: buffering starts without the exclusive lock.
RewriteUnlocked ==
  /\ "rewrite" \in Events /\ rw = "idle" /\ up = "up"
  /\ isRewriting' = TRUE /\ rewriteBuf' = << >>
  /\ snapTodo' = Keys
  /\ rw' = "snapshot"
  /\ UNCHANGED <<db, writer, client, file, buf, temp, kept, gone, server, history>>

(* Rewrite.  Buffering starts and the shards are copied under the          *)
(* exclusive lock.                                                         *)
RewriteLock ==
  /\ "rewrite" \in Events /\ rw = "idle" /\ up = "up"
  /\ writer = None /\ \A c \in Clients : pc[c] = "idle"
  /\ writer' = "rewrite"
  /\ isRewriting' = TRUE /\ rewriteBuf' = << >>
  /\ snapTodo' = Keys
  /\ rw' = "snapshot"
  /\ UNCHANGED <<db, client, file, buf, temp, kept, gone, server, history>>

SnapshotShard(k) ==
  /\ rw = "snapshot" /\ k \in snapTodo
  /\ temp' = [temp EXCEPT !.base[k] = db[k]]
  /\ snapTodo' = snapTodo \ {k}
  /\ UNCHANGED <<db, writer, client, file, buf, isRewriting, rewriteBuf, rw, kept, gone, server,
                 history>>

RewriteUnlock ==
  /\ rw = "snapshot" /\ snapTodo = {}
  /\ writer' = None
  /\ rw' = "drain"
  /\ UNCHANGED <<db, client, file, buf, isRewriting, rewriteBuf, temp, snapTodo, kept, gone,
                 server, history>>

\* Mutant: what was fed during the snapshot is dropped.
DrainNothing ==
  /\ rw = "drain"
  /\ isRewriting' = FALSE /\ rewriteBuf' = << >>
  /\ kept' = {i \in acked : open /\ Holds(db, i)}
  /\ rw' = "close"
  /\ UNCHANGED <<db, writer, client, file, buf, temp, snapTodo, gone, server, history>>

(* What was fed meanwhile is taken over, and buffering ends.  The          *)
(* temporary file is then written and synced.                              *)
Drain ==
  /\ rw = "drain"
  /\ temp' = [temp EXCEPT !.log = rewriteBuf]
  /\ isRewriting' = FALSE /\ rewriteBuf' = << >>
  /\ kept' = {i \in acked : open /\ Holds(db, i)}
  /\ rw' = "close"
  /\ UNCHANGED <<db, writer, client, file, buf, snapTodo, gone, server, history>>

(* The old buffer is flushed and closed, and so is the old file. *)
CloseOld ==
  /\ rw = "close" /\ up = "up"
  /\ log' = Flushed /\ buf' = << >>
  /\ open' = FALSE
  /\ rw' = "rename"
  /\ UNCHANGED <<db, writer, client, base, synced, isRewriting, rewriteBuf, temp, snapTodo,
                 kept, gone, server, history>>

Rename ==
  /\ rw = "rename"
  /\ base' = temp.base /\ log' = temp.log /\ synced' = Len(temp.log)
  /\ rw' = "swap"
  /\ UNCHANGED <<db, writer, client, open, buf, isRewriting, rewriteBuf, temp, snapTodo,
                 kept, gone, server, history>>

(* The error paths: writing an entry of the snapshot fails, writing the    *)
(* rest of the temporary file fails, or renaming it does.  The last one    *)
(* leaves a.file and the buffer closed.                                    *)
RewriteFails ==
  /\ "ioerror" \in Events /\ rw \in {"snapshot", "close", "rename"}
  /\ writer' = IF rw = "snapshot" THEN None ELSE writer
  /\ isRewriting' = FALSE /\ rewriteBuf' = << >>
  /\ temp' = [base |-> NoKeys, log |-> << >>] /\ snapTodo' = {}
  /\ rw' = "idle"
  /\ UNCHANGED <<db, client, file, buf, kept, gone, server, history>>

(* a.file and a.doubleBuf are replaced; what the old buffer holds is gone. *)
Swap ==
  /\ rw = "swap"
  /\ open' = TRUE /\ buf' = << >>
  /\ temp' = [base |-> NoKeys, log |-> << >>]
  /\ rw' = "idle"
  /\ UNCHANGED <<db, writer, client, base, log, synced, isRewriting, rewriteBuf, snapTodo,
                 kept, gone, server, history>>

-----------------------------------------------------------------------------
(* Server.Close: the cron stops, the buffer is flushed, the file synced    *)
(* and closed.  Connections are not waited for.                            *)
Close ==
  /\ "close" \in Events /\ up = "up" /\ rw = "idle" /\ crashes < MaxCrashes
  /\ log' = Flushed /\ buf' = << >>
  /\ synced' = Len(Flushed)
  /\ open' = FALSE
  /\ up' = "closed"
  /\ UNCHANGED <<policy, db, writer, client, base, rewrite, gone, history>>

(* The process ends and is started again: OpenAOF, then Load.  Of what was *)
(* written and not synced any prefix may be left, its last command         *)
(* possibly in part; OpenAOF appends behind it.  Load reads a command that *)
(* was cut short together with whatever follows it, and either gives up    *)
(* with a parse error or takes it all for one incomplete command.          *)
Restart(l) ==
  /\ db' = Replay(base, l)
  /\ log' = l /\ synced' = Len(l) /\ open' = TRUE /\ buf' = << >>
  /\ up' \in IF Readable(l) < Len(l) - 1 THEN {"up", "failed"} ELSE {"up"}
  /\ writer' = None
  /\ pc' = [c \in Clients |-> "idle"]
  /\ batch' = [c \in Clients |-> << >>]
  /\ cur' = [c \in Clients |-> Nothing]
  /\ isRewriting' = FALSE /\ rewriteBuf' = << >> /\ rw' = "idle"
  /\ temp' = [base |-> NoKeys, log |-> << >>] /\ snapTodo' = {} /\ kept' = {}
  /\ gone' = << >>
  /\ UNCHANGED <<policy, base, cmds, acked>>

Crash ==
  /\ up # "failed" /\ crashes < MaxCrashes
  /\ crashes' = crashes + 1
  /\ \E n \in synced .. Len(log) :
       \/ Restart(SubSeq(log, 1, n))
       \/ n < Len(log) /\ "torn" \in Events /\ Restart(Append(SubSeq(log, 1, n), Torn))

ClientStep(c) ==
  Handle(c) \/ Feed(c) \/ FeedNote(c) \/ FeedFlush(c) \/ FeedSync(c) \/ Reply(c)

Background == FlusherTick \/ SyncTick \/ notifyExpired

RewriteStep ==
  \/ \E k \in Keys : SnapshotShard(k)
  \/ RewriteUnlock \/ Drain \/ CloseOld \/ Rename \/ RewriteFails \/ Swap

Next ==
  \/ \E c \in Clients :
       \/ \E k \in Keys : BeginOp(c, k)
       \/ \E j, k \in Keys : BeginTx(c, <<j, k>>)
       \/ ClientStep(c)
  \/ Background \/ RewriteLock \/ RewriteStep \/ Close \/ Crash
  \/ \E k \in Keys : Expire(k)

(* Goroutines that can run do, and tickers fire. *)
Fairness ==
  /\ \A c \in Clients : WF_vars(ClientStep(c))
  /\ WF_vars(FlusherTick) /\ WF_vars(SyncTick) /\ WF_vars(notifyExpired)
  /\ WF_vars(RewriteStep)

Spec == Init /\ [][Next]_vars /\ Fairness

-----------------------------------------------------------------------------
Entries == [key : Keys \cup {None}, id : 0..MaxCmds, by : Clients \cup {None}, tx : 0..MaxCmds]
Values == [Keys -> Seq(1..MaxCmds)]

(* Every variable has its type; no more of the file is synced than exists. *)
TypeOK ==
  /\ policy \in Policies
  /\ db \in Values /\ writer \in Clients \cup {None, "rewrite"}
  /\ pc \in [Clients -> {"idle", "apply", "feed", "note", "flush", "sync", "reply"}]
  /\ batch \in [Clients -> Seq(Keys)] /\ cur \in [Clients -> Entries]
  /\ base \in Values /\ log \in Seq(Entries) /\ synced \in 0..Len(log)
  /\ open \in BOOLEAN /\ buf \in Seq(Entries) /\ Len(buf) <= BufSize
  /\ isRewriting \in BOOLEAN /\ rewriteBuf \in Seq(Entries)
  /\ rw \in {"idle", "snapshot", "drain", "close", "rename", "swap"}
  /\ temp.base \in Values /\ temp.log \in Seq(Entries) /\ snapTodo \subseteq Keys
  /\ gone \in Seq(Keys) /\ up \in {"up", "closed", "failed"}
  /\ cmds \in Seq(Entries) /\ acked \subseteq DOMAIN cmds /\ kept \subseteq acked
  /\ crashes \in 0..MaxCrashes

Restored == Replay(base, log)

(* No command is applied twice by replaying the file: a write is in the    *)
(* snapshot or in rewriteBuf, never in both (aof.go:186-195).              *)
NeverTwice == \A k \in Keys : IsInjective(Restored[k])

(* Two commands of one client reach a key of the restored keyspace in the  *)
(* order the client sent them, whether they went through the buffer or     *)
(* were too large for it (double_buffer.go:59-89).                         *)
ClientOrder ==
  \A k \in Keys : \A i, j \in DOMAIN Restored[k] :
    LET a == cmds[Restored[k][i]]
        b == cmds[Restored[k][j]]
    IN i < j /\ a.by = b.by => a.id < b.id

(* What is answered under FsyncAlways is on disk: it survives any crash.   *)
(* "flush double buffer and sync immediately" (aof.go:105).                *)
AckedSurvives ==
  LET disk == Replay(base, SubSeq(log, 1, synced))
  IN policy = "always" => \A i \in acked : Holds(disk, i)

(* A command answered before Rewrite drains its buffer, and not lost       *)
(* earlier, is in the new file: the snapshot and rewriteBuf leave no gap   *)
(* between them (aof.go:186-229).  Only the report of an expired key may   *)
(* remove it again.  (After a failed rename Feed gives up before it has    *)
(* noted a command: kept is empty then.)                                   *)
RewriteKeeps ==
  rw = "swap" =>
    \A i \in kept :
      \/ Holds(Replay(temp.base, temp.log), i)
      \/ \E e \in Range(temp.log) : e.id = 0 /\ e.key = cmds[i].key

(* Nothing is in flight. *)
Quiet ==
  /\ \A c \in Clients : pc[c] = "idle"
  /\ buf = << >> /\ gone = << >> /\ rw = "idle" /\ up = "up"

(* With nothing in flight, replaying the file gives the keyspace back:     *)
(* "every accepted write is appended" (server.go:48).                      *)
ReplayGivesState == Quiet => Restored = db

(* The same up to the order of the commands of different clients. *)
ReplayGivesContents ==
  Quiet => \A k \in Keys : Range(Restored[k]) = Range(db[k])

(* EXEC is all or nothing, also across a crash: its commands are in the    *)
(* keyspace together ("ACID-like transaction guarantees", README.md:28).   *)
ExecAllOrNothing ==
  Quiet => \A i, j \in DOMAIN cmds :
    cmds[i].tx # 0 /\ cmds[i].tx = cmds[j].tx => Holds(db, i) = Holds(db, j)

(* Under FsyncEverySec a command that was answered reaches the disk, or    *)
(* the server crashes first (aof.go:135-160).                              *)
AckedReachesDisk ==
  \A i \in 1..MaxCmds :
    (policy = "everysec" /\ i \in acked /\ crashes = 0) ~>
      (Holds(Replay(base, SubSeq(log, 1, synced)), i) \/ crashes > 0)
=============================================================================
