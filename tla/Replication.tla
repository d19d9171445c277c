----------------------------- MODULE Replication -----------------------------
(***************************************************************************)
(* Master-replica replication: a master applies a write and then feeds it  *)
(* to the backlog and to the queue of each registered replica (manager.go) *)
(* whose connection goroutine sends it on (server.go); a replica connects, *)
(* negotiates with PSYNC, loads a snapshot or continues, and applies what  *)
(* it reads (client.go).                                                   *)
(*                                                                         *)
(* There is one replica.  A command appends its number to a key, number 0  *)
(* is the DEL of an expired key.  An offset counts commands where the code *)
(* counts their bytes; the ring buffer below it is the module Backlog.     *)
(***************************************************************************)
EXTENDS Integers, Sequences, FiniteSets, Functions

CONSTANTS
  Clients,     \* of the master
  Keys, None,
  BacklogSize, \* Backlog.size
  QueueSize,   \* capacity of ReplicaSession.MsgCh
  Events,      \* subset of AllEvents
  MaxCmds,     \* bound: commands issued
  MaxLosses    \* bound: events of AllEvents in a run

\* lose:     the connection breaks while commands are streamed
\* loseload: it breaks before the snapshot has arrived
\* expire:   a key expires on the master; expireLocal: on the replica
\* local:    a client writes to the replica
\* promote:  REPLICAOF NO ONE, and REPLICAOF again
AllEvents == {"lose", "loseload", "expire", "expireLocal", "local", "promote"}

ASSUME ReplicationAssumption ==
  /\ IsFiniteSet(Clients) /\ IsFiniteSet(Keys) /\ None \notin Clients \cup Keys
  /\ BacklogSize \in Nat \ {0} /\ QueueSize \in Nat \ {0}
  /\ Events \subseteq AllEvents /\ MaxCmds \in Nat /\ MaxLosses \in Nat

VARIABLES
  mdb,       \* the master's keyspace
  cur,       \* the command a client has applied and not yet fed
  gone,      \* the expired key whose DEL is not fed yet
  stream,    \* everything fed: its length is masterReplOffset and lastOffset
  mlocked,   \* whether HandlePSync holds Manager.mu
  snapTodo, snap,   \* the snapshot HandlePSync is taking
  sess,      \* the replica's session: "none", "live", "done" (Done is closed)
  queue,     \* ReplicaSession.MsgCh
  conn,      \* the connection: "down", "up", "closed" by the master
  net,       \* what is on its way to the replica
  rdb,       \* the replica's keyspace
  rid,       \* its masterReplID: the "own" it drew at start, or the "master"'s
  roff,      \* its masterReplOffset
  rlast,     \* lastOffset of its own backlog
  req,       \* the ID and the offset of the PSYNC it has sent
  role, cancelled,
  loop,      \* where its replication goroutine is
  stalled,   \* history: the session ended because its queue was full
  issued, lost

master  == <<mdb, cur, gone, stream>>
psync   == <<mlocked, snapTodo, snap>>
link    == <<sess, queue, conn, net>>
replica == <<rdb, rid, roff, rlast, req, role, cancelled, loop>>
vars    == <<master, psync, link, replica, stalled, issued, lost>>

NoKeys == [k \in Keys |-> << >>]
Nothing == [key |-> None, id |-> 0]

Init ==
  /\ mdb = NoKeys /\ cur = [c \in Clients |-> Nothing] /\ gone = None
  /\ stream = << >>
  /\ mlocked = FALSE /\ snapTodo = {} /\ snap = NoKeys
  /\ sess = "none" /\ queue = << >> /\ conn = "down" /\ net = << >>
  /\ rdb = NoKeys /\ rid = "own" /\ roff = 0 /\ rlast = 0
  /\ req = [id |-> "own", off |-> 0]
  /\ role = "replica" /\ cancelled = FALSE /\ loop = "dial"
  /\ stalled = FALSE /\ issued = 0 /\ lost = 0

Apply(d, e) == [d EXCEPT ![e.key] = IF e.id = 0 THEN << >> ELSE Append(@, e.id)]
Event(e) == e \in Events /\ lost < MaxLosses /\ lost' = lost + 1

-----------------------------------------------------------------------------
(* The master.  Table.Execute applies a command and feeds it afterwards;   *)
(* between the two it holds neither Manager.mu nor a lock of its key.      *)
Handle(c, k) ==
  /\ cur[c] = Nothing /\ issued < MaxCmds
  /\ issued' = issued + 1
  /\ LET e == [key |-> k, id |-> issued + 1]
     IN mdb' = Apply(mdb, e) /\ cur' = [cur EXCEPT ![c] = e]
  /\ UNCHANGED <<gone, stream, psync, link, replica, stalled, lost>>

\* Mutant: a write that finds the queue full is dropped.
FeedCommandDrops(e) ==
  /\ ~mlocked
  /\ stream' = Append(stream, e)
  /\ queue' = IF sess = "live" /\ Len(queue) < QueueSize THEN Append(queue, e) ELSE queue
  /\ UNCHANGED <<sess, stalled>>

(* A full queue ends the session. *)
FeedCommand(e) ==
  /\ ~mlocked
  /\ stream' = Append(stream, e)
  /\ LET full == Len(queue) = QueueSize
     IN /\ queue' = IF sess = "live" /\ ~full THEN Append(queue, e) ELSE queue
        /\ sess' = IF sess = "live" /\ full THEN "done" ELSE sess
        /\ stalled' = (stalled \/ (sess = "live" /\ full))

Feed(c) ==
  /\ cur[c] # Nothing
  /\ FeedCommand(cur[c])
  /\ cur' = [cur EXCEPT ![c] = Nothing]
  /\ UNCHANGED <<mdb, gone, psync, conn, net, replica, issued, lost>>

(* The cron, and the callback it calls with no lock held. *)
Expire(k) ==
  /\ gone = None /\ mdb[k] # << >> /\ Event("expire")
  /\ mdb' = [mdb EXCEPT ![k] = << >>]
  /\ gone' = k
  /\ UNCHANGED <<cur, stream, psync, link, replica, stalled, issued>>

notifyExpired ==
  /\ gone # None
  /\ FeedCommand([key |-> gone, id |-> 0])
  /\ gone' = None
  /\ UNCHANGED <<mdb, cur, psync, conn, net, replica, issued, lost>>

-----------------------------------------------------------------------------
(* HandlePSync, under Manager.mu: it registers a session and either sends  *)
(* what the backlog has after the replica's offset or copies the shards    *)
(* one after the other.                                                    *)
FirstOffset == IF Len(stream) > BacklogSize THEN Len(stream) - BacklogSize ELSE 0
CanPartialSync(off) ==
  stream # << >> /\ off >= FirstOffset /\ off <= Len(stream)

Command(e) == [type |-> "cmd", cmd |-> e]
Header(t)  == [type |-> t, off |-> Len(stream)]
Asked == conn = "up" /\ sess = "none" /\ loop = "reply" /\ ~mlocked

PSyncPartial ==
  /\ Asked /\ req.id = "master" /\ CanPartialSync(req.off)
  /\ sess' = "live" /\ queue' = << >>
  /\ net' = <<Header("continue")>> \o
            [i \in 1 .. Len(stream) - req.off |-> Command(stream[req.off + i])]
  /\ stalled' = FALSE
  /\ UNCHANGED <<master, psync, conn, replica, issued, lost>>

PSyncFull ==
  /\ Asked /\ ~(req.id = "master" /\ CanPartialSync(req.off))
  /\ sess' = "live" /\ queue' = << >>
  /\ mlocked' = TRUE /\ snapTodo' = Keys
  /\ UNCHANGED <<master, snap, conn, net, replica, stalled, issued, lost>>

SnapshotShard(k) ==
  /\ mlocked /\ k \in snapTodo
  /\ snap' = [snap EXCEPT ![k] = mdb[k]]
  /\ snapTodo' = snapTodo \ {k}
  /\ UNCHANGED <<master, mlocked, link, replica, stalled, issued, lost>>

PSyncReply ==
  /\ mlocked /\ snapTodo = {}
  /\ mlocked' = FALSE /\ snap' = NoKeys
  /\ net' = <<Header("full"), [type |-> "rdb", db |-> snap]>>
  /\ stalled' = FALSE
  /\ UNCHANGED <<master, snapTodo, sess, queue, conn, replica, issued, lost>>

(* The connection goroutine: it sends the queue, and once Done is closed   *)
(* it hangs up whatever the queue still holds.                             *)
Send ==
  /\ sess # "none" /\ ~mlocked /\ conn = "up" /\ queue # << >>
  /\ net' = Append(net, Command(Head(queue)))
  /\ queue' = Tail(queue)
  /\ UNCHANGED <<master, psync, sess, conn, replica, stalled, issued, lost>>

HangUp ==
  /\ sess = "done"
  /\ sess' = "none" /\ queue' = << >> /\ conn' = "closed"
  /\ UNCHANGED <<master, psync, net, replica, stalled, issued, lost>>

(* The connection is lost with what is on it.  The session the master      *)
(* keeps until it notices reaches nobody.                                  *)
Lose ==
  /\ conn = "up" /\ ~mlocked
  /\ Event(IF loop = "rdb" THEN "loseload" ELSE "lose")
  /\ sess' = "none" /\ queue' = << >> /\ conn' = "down" /\ net' = << >>
  /\ UNCHANGED <<master, psync, replica, stalled, issued>>

-----------------------------------------------------------------------------
(* The replica's goroutine: replicationLoop and syncWithMaster.  Its       *)
(* context is looked at before a connection attempt and before each read.  *)
Dial ==
  /\ loop = "dial"
  /\ IF cancelled
     THEN loop' = "stopped" /\ UNCHANGED <<conn, req>>
     ELSE loop' = "reply" /\ conn' = "up" /\ req' = [id |-> rid, off |-> roff]
  /\ UNCHANGED <<master, psync, sess, queue, net, rdb, rid, roff, rlast, role, cancelled,
                 stalled, issued, lost>>

Received == net # << >> /\ net' = Tail(net)
Arrives(t) == Received /\ Head(net).type = t

(* SetMasterInfo precedes the snapshot. *)
RecvFull ==
  /\ loop = "reply" /\ Arrives("full")
  /\ rid' = "master" /\ roff' = Head(net).off
  /\ loop' = "rdb"
  /\ UNCHANGED <<master, psync, sess, queue, conn, rdb, rlast, req, role, cancelled,
                 stalled, issued, lost>>

RecvContinue ==
  /\ loop = "reply" /\ Arrives("continue")
  /\ loop' = "check"
  /\ UNCHANGED <<master, psync, sess, queue, conn, rdb, rid, roff, rlast, req, role,
                 cancelled, stalled, issued, lost>>

\* Mutant: the snapshot is loaded and then flushed.
RecvRdbFlushed ==
  /\ loop = "rdb" /\ Arrives("rdb")
  /\ rdb' = NoKeys
  /\ loop' = "check"
  /\ UNCHANGED <<master, psync, sess, queue, conn, rid, roff, rlast, req, role, cancelled,
                 stalled, issued, lost>>

(* FlushAll, then Load. *)
RecvRdb ==
  /\ loop = "rdb" /\ Arrives("rdb")
  /\ rdb' = Head(net).db
  /\ loop' = "check"
  /\ UNCHANGED <<master, psync, sess, queue, conn, rid, roff, rlast, req, role, cancelled,
                 stalled, issued, lost>>

Check ==
  /\ loop = "check"
  /\ loop' = IF cancelled THEN "stopped" ELSE "read"
  /\ IF cancelled
     THEN conn' = "down" /\ net' = << >> /\ sess' = "none" /\ queue' = << >>
     ELSE UNCHANGED link
  /\ UNCHANGED <<master, psync, rdb, rid, roff, rlast, req, role, cancelled, stalled,
                 issued, lost>>

(* ExecuteReplicaCommand: the context has neither AOF nor Replication, so  *)
(* the offset stays where SetMasterInfo put it.                            *)
RecvCommand ==
  /\ loop = "read" /\ Arrives("cmd")
  /\ rdb' = Apply(rdb, Head(net).cmd)
  /\ loop' = "check"
  /\ UNCHANGED <<master, psync, sess, queue, conn, rid, roff, rlast, req, role, cancelled,
                 stalled, issued, lost>>

\* Mutant: a read error ends the loop.
EofGivesUp ==
  /\ loop \in {"reply", "rdb", "read"} /\ conn # "up" /\ net = << >>
  /\ loop' = "stopped" /\ conn' = "down"
  /\ UNCHANGED <<master, psync, sess, queue, net, rdb, rid, roff, rlast, req, role,
                 cancelled, stalled, issued, lost>>

(* A read fails once the connection is gone; the loop tries again. *)
Eof ==
  /\ loop \in {"reply", "rdb", "read"} /\ conn # "up" /\ net = << >>
  /\ loop' = "dial" /\ conn' = "down"
  /\ UNCHANGED <<master, psync, sess, queue, net, rdb, rid, roff, rlast, req, role,
                 cancelled, stalled, issued, lost>>

-----------------------------------------------------------------------------
(* REPLICAOF NO ONE, and REPLICAOF host port once the old goroutine has    *)
(* returned.                                                               *)
StopReplication ==
  /\ role = "replica" /\ Event("promote")
  /\ role' = "master" /\ cancelled' = TRUE
  /\ UNCHANGED <<master, psync, link, rdb, rid, roff, rlast, req, loop, stalled, issued>>

StartReplicationClient ==
  /\ role = "master" /\ loop = "stopped" /\ Event("promote")
  /\ role' = "replica" /\ cancelled' = FALSE /\ loop' = "dial"
  /\ UNCHANGED <<master, psync, link, rdb, rid, roff, rlast, req, stalled, issued>>

(* What the replica applies on its own account it also feeds: to its own   *)
(* backlog, and to the masterReplOffset it sends with PSYNC.               *)
FeedOwn == roff' = roff + 1 /\ rlast' = rlast + 1

LocalWrite(k) ==
  /\ issued < MaxCmds /\ Event("local")
  /\ issued' = issued + 1
  /\ rdb' = Apply(rdb, [key |-> k, id |-> issued + 1])
  /\ FeedOwn
  /\ UNCHANGED <<master, psync, link, rid, req, role, cancelled, loop, stalled>>

LocalExpire(k) ==
  /\ rdb[k] # << >> /\ Event("expireLocal")
  /\ rdb' = [rdb EXCEPT ![k] = << >>]
  /\ FeedOwn
  /\ UNCHANGED <<master, psync, link, rid, req, role, cancelled, loop, stalled, issued>>

-----------------------------------------------------------------------------
MasterStep ==
  \/ \E c \in Clients : Feed(c)
  \/ notifyExpired \/ PSyncPartial \/ PSyncFull \/ PSyncReply
  \/ \E k \in Keys : SnapshotShard(k)
  \/ Send \/ HangUp
ReplicaStep ==
  Dial \/ RecvFull \/ RecvContinue \/ RecvRdb \/ Check \/ RecvCommand \/ Eof

Next ==
  \/ \E c \in Clients, k \in Keys : Handle(c, k)
  \/ \E k \in Keys : Expire(k) \/ LocalWrite(k) \/ LocalExpire(k)
  \/ MasterStep \/ ReplicaStep
  \/ Lose \/ StopReplication \/ StartReplicationClient

(* Goroutines that can run do; the network delivers what it does not lose. *)
Fairness == WF_vars(MasterStep) /\ WF_vars(ReplicaStep)
Spec == Init /\ [][Next]_vars /\ Fairness

-----------------------------------------------------------------------------
Commands == [key : Keys \cup {None}, id : 0 .. MaxCmds]
Values == [Keys -> Seq(1 .. MaxCmds)]
Messages ==
  [type : {"cmd"}, cmd : Commands] \cup [type : {"full", "continue"}, off : Nat]
  \cup [type : {"rdb"}, db : Values]

(* Every variable has its type, and MsgCh never holds more than it can. *)
TypeOK ==
  /\ mdb \in Values /\ cur \in [Clients -> Commands] /\ gone \in Keys \cup {None}
  /\ stream \in Seq(Commands)
  /\ mlocked \in BOOLEAN /\ snapTodo \subseteq Keys /\ snap \in Values
  /\ sess \in {"none", "live", "done"} /\ queue \in Seq(Commands) /\ Len(queue) <= QueueSize
  /\ conn \in {"down", "up", "closed"}
  /\ net \in Seq(Messages)
  /\ rdb \in Values /\ rid \in {"own", "master"} /\ roff \in Nat /\ rlast \in Nat
  /\ req \in [id : {"own", "master"}, off : Nat]
  /\ role \in {"master", "replica"} /\ cancelled \in BOOLEAN
  /\ loop \in {"dial", "reply", "rdb", "check", "read", "stopped"}
  /\ stalled \in BOOLEAN /\ issued \in 0 .. MaxCmds /\ lost \in 0 .. MaxLosses

(* What is on its way to a replica with a live session is the end of the   *)
(* stream, complete and in order, behind the answer to PSYNC: FeedCommand, *)
(* HandlePSync and the sender together lose, repeat and reorder nothing    *)
(* (manager.go:99-127, 174-210).                                           *)
NoGapInStream ==
  sess = "live" /\ ~mlocked /\ conn = "up" =>
    LET sent == Len(stream) - Len(queue)
        place(i) == sent - (Len(net) - i)
    IN /\ sent >= 0 /\ \A i \in DOMAIN queue : queue[i] = stream[sent + i]
       /\ \A i \in DOMAIN net : net[i].type = "cmd" =>
            /\ place(i) >= 1 /\ net[i].cmd = stream[place(i)]
            /\ \A j \in i .. Len(net) : net[j].type = "cmd"

(* The replica streams and everything fed has arrived. *)
CaughtUp ==
  /\ sess = "live" /\ ~mlocked /\ loop = "read" /\ net = << >> /\ queue = << >>
  /\ gone = None /\ \A c \in Clients : cur[c] = Nothing

(* A replica that has caught up has every command of the master: it is not *)
(* "silently diverged from the master forever" (manager.go:107-110).       *)
CaughtUpHasAll ==
  CaughtUp => \A k \in Keys : Range(mdb[k]) \subseteq Range(rdb[k])

(* Once nothing more goes wrong the replica catches up, however often it   *)
(* was disconnected before (client.go:55-75).                              *)
EventuallyCaughtUp == <>[]CaughtUp

(* "... so the replica applied it twice" (manager.go:170-172) is what      *)
(* registering inside the snapshot's critical section is there to prevent. *)
AppliedOnce == \A k \in Keys : IsInjective(rdb[k])

(* A replica whose queue ran full is to "come back for a full resync"      *)
(* (manager.go:107-110).                                                   *)
StalledResyncsFully == [][stalled /\ sess = "none" /\ sess' = "live" => mlocked']_vars

(* "StopReplication stops syncing" (client.go:42): a promoted server       *)
(* changes its keys only on its own account.                               *)
PromotedStopsSyncing ==
  [][role = "master" /\ rdb' # rdb => rlast' # rlast]_vars

(* "A replica never expires keys on its own; it waits to be told"          *)
(* (server.go:70).                                                         *)
ReplicaNeverExpires ==
  [][role = "replica" /\ rlast' # rlast => \A k \in Keys : rdb[k] # << >> => rdb'[k] # << >>]_vars

(* The "Global offset of the newest byte" of a promoted server's backlog   *)
(* (backlog.go:13) is the offset it announces to its replicas.             *)
OffsetsAgree == role = "master" /\ loop = "stopped" => rlast = roff
=============================================================================
