-------------------------- MODULE ReplicationProofs --------------------------
(***************************************************************************)
(* Replication for any number of clients, keys and commands and any size   *)
(* of backlog and queue: a live session never loses, repeats or reorders   *)
(* a command, and, when no connection breaks while a snapshot is loaded    *)
(* and keys do not expire, a replica that has caught up has every command  *)
(* of its master.                                                          *)
(***************************************************************************)
EXTENDS Replication, TLAPS, SequenceTheorems

\* From message n on the connection carries commands only.
CmdsFrom(n) == \A i \in n .. Len(net) : net[i].type = "cmd"

\* What the connection carries when the replica is where loop says it is.
ReplyShape ==
  loop = "reply" /\ net # << >> =>
    \/ net[1].type = "continue" /\ CmdsFrom(2)
    \/ net[1].type = "full" /\ Len(net) >= 2 /\ net[2].type = "rdb" /\ CmdsFrom(3)
LoadShape == loop = "rdb" /\ net # << >> => net[1].type = "rdb" /\ CmdsFrom(2)
ReadShape == loop \in {"check", "read"} => CmdsFrom(1)
Shape == ReplyShape /\ LoadShape /\ ReadShape

\* How the session, the connection and the two goroutines go together.
Phases ==
  /\ conn # "up" => sess = "none"
  /\ sess = "none" => queue = << >> /\ ~mlocked
  /\ conn = "up" /\ sess = "none" => net = << >> /\ loop = "reply"
  /\ mlocked => net = << >> /\ queue = << >> /\ sess = "live" /\ loop = "reply"
  /\ loop \in {"dial", "stopped"} => conn = "down" /\ net = << >>
  /\ loop = "reply" /\ sess # "none" /\ ~mlocked => net # << >>
  /\ loop = "rdb" /\ conn = "up" => net # << >>

\* How many commands of the stream are neither queued nor behind a message.
Sent == Len(stream) - Len(queue)

\* The queue and the connection hold the end of the stream.
QueueIsEnd == sess = "live" => Sent >= 0 /\ \A i \in 1 .. Len(queue) : queue[i] = stream[Sent + i]
NetIsEnd ==
  sess = "live" => \A i \in 1 .. Len(net) : net[i].type = "cmd" =>
    Sent - (Len(net) - i) >= 1 /\ net[i].cmd = stream[Sent - (Len(net) - i)]

(* The inductive invariant of the link. *)
LinkInv == TypeOK /\ Shape /\ Phases /\ QueueIsEnd /\ NetIsEnd

-----------------------------------------------------------------------------
\* The first n commands of st are in the keyspace d.
Has(st, n, d) == \A j \in 1 .. n : st[j].id \in Range(d[st[j].key])

\* Where the next message lies in the stream, less one, if it is a command.
Place == Len(stream) - Len(queue) - Len(net)

\* Commands in the hands of a client or fed write to a key of the master.
CurKnown ==
  \A c \in Clients : cur[c] # Nothing =>
    cur[c].key \in Keys /\ cur[c].id # 0 /\ cur[c].id \in Range(mdb[cur[c].key])
StreamKnown == \A j \in 1 .. Len(stream) : stream[j].key \in Keys /\ stream[j].id # 0

\* What the master has was fed or is about to be.
Accounted ==
  \A k \in Keys : \A x \in Range(mdb[k]) :
    \/ \E c \in Clients : cur[c] = [key |-> k, id |-> x]
    \/ \E j \in 1 .. Len(stream) : stream[j] = [key |-> k, id |-> x]

MasterInv ==
  gone = None /\ CurKnown /\ StreamKnown /\ Has(stream, Len(stream), mdb) /\ Accounted

\* The snapshot has what was fed when it began.
SnapHas ==
  mlocked => \A k \in Keys \ snapTodo : \A j \in 1 .. Len(stream) :
    stream[j].key = k => stream[j].id \in Range(snap[k])

\* So has the snapshot that is sent, up to the offset in its header.
FullHas ==
  loop = "reply" /\ net # << >> /\ net[1].type = "full" =>
    net[1].off <= Len(stream) /\ Has(stream, net[1].off, net[2].db)
LoadHas == loop = "rdb" => net # << >> /\ roff <= Len(stream) /\ Has(stream, roff, net[1].db)

\* The replica has what lies before the offset it asks with.
OffsetHas == rid = "master" /\ loop # "rdb" => roff <= Len(stream) /\ Has(stream, roff, rdb)
AskedOffset == loop = "reply" => req.id = rid /\ req.off = roff

\* A live session resumes where the replica stands.
Resumes ==
  sess = "live" /\ ~mlocked =>
    /\ loop = "reply" /\ net[1].type = "continue" => rid = "master" /\ Place + 1 = roff
    /\ loop = "reply" /\ net[1].type = "full" => Place + 2 = net[1].off
    /\ loop = "rdb" => Place + 1 = roff
    /\ loop \in {"check", "read"} => Has(stream, Place, rdb)

ReplicaInv == FullHas /\ LoadHas /\ OffsetHas /\ AskedOffset /\ Resumes

\* So do the commands under way.
WireKnown ==
  /\ \A i \in 1 .. Len(queue) : queue[i].key \in Keys /\ queue[i].id # 0
  /\ \A i \in 1 .. Len(net) : net[i].type = "cmd" => net[i].cmd.key \in Keys /\ net[i].cmd.id # 0

(* The inductive invariant of the data. *)
DataInv == MasterInv /\ SnapHas /\ WireKnown /\ ReplicaInv

-----------------------------------------------------------------------------
(* Types. *)

(* What a message of each kind carries (HandlePSync and the sender build   *)
(* them, syncWithMaster takes them apart).                                 *)
LEMMA MessageFields ==
  ASSUME NEW m \in Messages
  PROVE  /\ m.type \in {"cmd", "full", "continue", "rdb"}
         /\ m.type = "cmd" => m.cmd \in Commands
         /\ m.type \in {"full", "continue"} => m.off \in Nat
         /\ m.type = "rdb" => m.db \in Values
  BY Zenon DEF Messages

(* And those that are built are messages. *)
LEMMA MessagesBuilt ==
  /\ \A e \in Commands : Command(e) \in Messages /\ Command(e).type = "cmd" /\ Command(e).cmd = e
  /\ \A v \in Values : [type |-> "rdb", db |-> v] \in Messages
  /\ \A n \in Nat : /\ [type |-> "full", off |-> n] \in Messages
                    /\ [type |-> "continue", off |-> n] \in Messages
  BY Zenon DEF Messages, Command

(* Applying a command to a keyspace gives a keyspace. *)
LEMMA ApplyTypes ==
  ASSUME NEW d \in Values, NEW e \in Commands
  PROVE  Apply(d, e) \in Values
  <1>1. CASE e.key \in Keys
    <2>1. d[e.key] \in Seq(1 .. MaxCmds)
      BY Zenon, <1>1 DEF Values
    <2>2. e.id = 0 \/ e.id \in 1 .. MaxCmds
      BY ReplicationAssumption DEF Commands
    <2>3. (IF e.id = 0 THEN << >> ELSE Append(d[e.key], e.id)) \in Seq(1 .. MaxCmds)
      <3>1. ASSUME e.id \in 1 .. MaxCmds PROVE Append(d[e.key], e.id) \in Seq(1 .. MaxCmds)
        BY <2>1, <3>1
      <3>2. QED
        BY Zenon, <2>2, <3>1, EmptySeq
    <2>4. QED
      BY Zenon, <1>1, <2>3 DEF Values, Apply
  <1>2. CASE e.key \notin Keys
    BY Zenon, <1>2 DEF Values, Apply
  <1>3. QED
    BY Zenon, <1>1, <1>2

(* FeedCommand keeps the stream and the queue what they are, the queue     *)
(* within its capacity.                                                    *)
LEMMA FeedTypes ==
  ASSUME TypeOK, NEW e \in Commands, FeedCommand(e)
  PROVE  /\ stream' \in Seq(Commands) /\ queue' \in Seq(Commands) /\ Len(queue') <= QueueSize
         /\ sess' \in {"none", "live", "done"} /\ stalled' \in BOOLEAN
  <1>1. stream' \in Seq(Commands)
    BY DEF TypeOK, FeedCommand
  <1>2. queue' \in Seq(Commands) /\ Len(queue') <= QueueSize
    <2>1. CASE sess = "live" /\ Len(queue) # QueueSize
      <3>1. queue' = Append(queue, e)
        BY Zenon, <2>1 DEF FeedCommand
      <3>2. QED
        BY <2>1, <3>1, ReplicationAssumption DEF TypeOK
    <2>2. CASE ~(sess = "live" /\ Len(queue) # QueueSize)
      BY Zenon, <2>2 DEF TypeOK, FeedCommand
    <2>3. QED
      BY Zenon, <2>1, <2>2
  <1>3. sess' \in {"none", "live", "done"} /\ stalled' \in BOOLEAN
    BY Zenon DEF TypeOK, FeedCommand
  <1>4. QED
    BY Zenon, <1>1, <1>2, <1>3

(* Every step keeps the types. *)
LEMMA TypeStep == TypeOK /\ [Next]_vars => TypeOK'
  <1> SUFFICES ASSUME TypeOK, [Next]_vars PROVE TypeOK'
    OBVIOUS
  <1> USE DEF master, psync, link, replica
  <1>1. ASSUME NEW c \in Clients, NEW k \in Keys, Handle(c, k) PROVE TypeOK'
    <2> DEFINE e == [key |-> k, id |-> issued + 1]
    <2>1. e \in Commands /\ issued' \in 0 .. MaxCmds
      BY <1>1, ReplicationAssumption DEF Handle, TypeOK, Commands
    <2>2. mdb' = Apply(mdb, e) /\ cur' = [cur EXCEPT ![c] = e]
      BY Zenon, <1>1 DEF Handle
    <2>3. mdb' \in Values /\ cur' \in [Clients -> Commands]
      BY Zenon, <2>1, <2>2, ApplyTypes DEF TypeOK
    <2>4. QED
      BY <1>1, <2>1, <2>3 DEF Handle, TypeOK
  <1>2. ASSUME NEW c \in Clients, Feed(c) PROVE TypeOK'
    <2>1. cur[c] \in Commands /\ FeedCommand(cur[c])
      BY Zenon, <1>2 DEF Feed, TypeOK
    <2>2. Nothing \in Commands
      BY ReplicationAssumption DEF Nothing, Commands
    <2>3. cur' \in [Clients -> Commands]
      BY Zenon, <1>2, <2>2 DEF Feed, TypeOK
    <2>4. /\ stream' \in Seq(Commands) /\ queue' \in Seq(Commands) /\ Len(queue') <= QueueSize
          /\ sess' \in {"none", "live", "done"} /\ stalled' \in BOOLEAN
      BY Zenon, <2>1, FeedTypes
    <2>5. QED
      BY ZenonT(30), <1>2, <2>3, <2>4 DEF Feed, TypeOK
  <1>3. ASSUME NEW k \in Keys, Expire(k) PROVE TypeOK'
    <2>1. mdb' \in Values
      BY <1>3 DEF Expire, TypeOK, Values
    <2>2. QED
      BY <1>3, <2>1, ReplicationAssumption DEF Expire, Event, TypeOK
  <1>4. ASSUME notifyExpired PROVE TypeOK'
    <2>1. [key |-> gone, id |-> 0] \in Commands /\ FeedCommand([key |-> gone, id |-> 0])
      BY <1>4, ReplicationAssumption DEF notifyExpired, TypeOK, Commands
    <2>2. /\ stream' \in Seq(Commands) /\ queue' \in Seq(Commands) /\ Len(queue') <= QueueSize
          /\ sess' \in {"none", "live", "done"} /\ stalled' \in BOOLEAN
      BY Zenon, <2>1, FeedTypes
    <2>3. QED
      BY ZenonT(30), <1>4, <2>2 DEF notifyExpired, TypeOK
  <1>5. ASSUME PSyncPartial PROVE TypeOK'
    <2> DEFINE n == Len(stream) - req.off
    <2> DEFINE cmds == [i \in 1 .. n |-> Command(stream[req.off + i])]
    <2>1. n \in Nat /\ req.off \in Nat /\ Len(stream) \in Nat
      BY <1>5 DEF PSyncPartial, CanPartialSync, TypeOK
    <2>2. ASSUME NEW i \in 1 .. n PROVE Command(stream[req.off + i]) \in Messages
      BY <2>1, MessagesBuilt DEF TypeOK
    <2>3. cmds \in Seq(Messages)
      BY SMTT(60), <2>1, <2>2
    <2>4. Header("continue") \in Messages
      BY Zenon, <2>1 DEF Header, Messages
    <2>5. net' \in Seq(Messages)
      BY <1>5, <2>3, <2>4, ConcatProperties DEF PSyncPartial
    <2>6. /\ sess' = "live" /\ queue' = << >> /\ stalled' \in BOOLEAN
          /\ UNCHANGED <<master, psync, conn, replica, issued, lost>>
      BY Zenon, <1>5 DEF PSyncPartial
    <2>7. QED
      BY <2>5, <2>6, ReplicationAssumption DEF TypeOK
  <1>6. CASE PSyncFull
    BY <1>6, ReplicationAssumption DEF PSyncFull, TypeOK
  <1>7. ASSUME NEW k \in Keys, SnapshotShard(k) PROVE TypeOK'
    <2>1. snap' \in Values /\ snapTodo' \subseteq Keys
      BY Zenon, <1>7 DEF SnapshotShard, TypeOK, Values
    <2>2. QED
      BY <1>7, <2>1 DEF SnapshotShard, TypeOK
  <1>8. ASSUME PSyncReply PROVE TypeOK'
    <2>1. NoKeys \in Values
      BY DEF NoKeys, Values
    <2>2. Header("full") \in Messages /\ [type |-> "rdb", db |-> snap] \in Messages
      <3>1. Len(stream) \in Nat /\ snap \in Values
        BY DEF TypeOK
      <3>2. QED
        BY Zenon, <3>1 DEF Header, Messages
    <2>3. net' \in Seq(Messages)
      BY <1>8, <2>2 DEF PSyncReply
    <2>4. QED
      BY ZenonT(60), <1>8, <2>1, <2>3 DEF PSyncReply, TypeOK
  <1>9. ASSUME Send PROVE TypeOK'
    <2>1. Head(queue) \in Commands /\ Tail(queue) \in Seq(Commands) /\ Len(Tail(queue)) = Len(queue) - 1
      BY Zenon, <1>9, HeadTailProperties DEF Send, TypeOK
    <2>2. net' \in Seq(Messages)
      BY <1>9, <2>1, MessagesBuilt DEF Send, TypeOK
    <2>3. queue' \in Seq(Commands) /\ Len(queue') <= QueueSize
      BY <1>9, <2>1, ReplicationAssumption DEF Send, TypeOK
    <2>4. QED
      BY ZenonT(60), <1>9, <2>2, <2>3 DEF Send, TypeOK
  <1>10. CASE HangUp
    BY <1>10, ReplicationAssumption DEF HangUp, TypeOK
  <1>11. CASE Lose
    BY <1>11, ReplicationAssumption DEF Lose, Event, TypeOK
  <1>12. CASE Dial
    BY <1>12 DEF Dial, TypeOK
  <1>13. ASSUME Received PROVE Head(net) \in Messages /\ net' \in Seq(Messages)
    BY Zenon, <1>13, HeadTailProperties DEF Received, TypeOK
  <1>14. ASSUME RecvFull PROVE TypeOK'
    <2>1. roff' \in Nat /\ net' \in Seq(Messages)
      BY Zenon, <1>13, <1>14, MessageFields DEF RecvFull, Arrives
    <2>2. QED
      BY ZenonT(40), <1>14, <2>1 DEF RecvFull, TypeOK
  <1>15. ASSUME RecvContinue PROVE TypeOK'
    BY ZenonT(60), <1>13, <1>15 DEF RecvContinue, Arrives, TypeOK
  <1>16. ASSUME RecvRdb PROVE TypeOK'
    <2>1. rdb' \in Values /\ net' \in Seq(Messages)
      BY Zenon, <1>13, <1>16, MessageFields DEF RecvRdb, Arrives
    <2>2. QED
      BY ZenonT(60), <1>16, <2>1 DEF RecvRdb, TypeOK
  <1>17. ASSUME Check PROVE TypeOK'
    <2>1. CASE cancelled
      BY <1>17, <2>1, ReplicationAssumption DEF Check, TypeOK
    <2>2. CASE ~cancelled
      BY ZenonT(60), <1>17, <2>2 DEF Check, TypeOK
    <2>3. QED
      BY Zenon, <2>1, <2>2
  <1>18. ASSUME RecvCommand PROVE TypeOK'
    <2>1. Head(net).cmd \in Commands /\ net' \in Seq(Messages)
      BY Zenon, <1>13, <1>18, MessageFields DEF RecvCommand, Arrives
    <2>2. rdb' \in Values
      BY Zenon, <1>18, <2>1, ApplyTypes DEF RecvCommand, TypeOK
    <2>3. QED
      BY ZenonT(60), <1>18, <2>1, <2>2 DEF RecvCommand, TypeOK
  <1>19. CASE Eof
    BY ZenonT(40), <1>19 DEF Eof, TypeOK
  <1>20. CASE StopReplication
    BY <1>20, ReplicationAssumption DEF StopReplication, Event, TypeOK
  <1>21. ASSUME StartReplicationClient PROVE TypeOK'
    <2>1. cancelled' \in BOOLEAN
      BY Zenon, <1>21 DEF StartReplicationClient
    <2>2. /\ role' = "replica" /\ loop' = "dial" /\ lost' \in 0 .. MaxLosses
          /\ UNCHANGED <<master, psync, link, rdb, rid, roff, rlast, req, stalled, issued>>
      BY <1>21, ReplicationAssumption DEF StartReplicationClient, Event, TypeOK
    <2>3. QED
      BY Zenon, <2>1, <2>2 DEF TypeOK
  <1>22. ASSUME NEW k \in Keys, LocalWrite(k) PROVE TypeOK'
    <2>1. [key |-> k, id |-> issued + 1] \in Commands /\ issued' \in 0 .. MaxCmds
      BY <1>22, ReplicationAssumption DEF LocalWrite, TypeOK, Commands
    <2>2. rdb' \in Values
      BY Zenon, <1>22, <2>1, ApplyTypes DEF LocalWrite, TypeOK
    <2>3. QED
      BY SMTT(30), <1>22, <2>1, <2>2, ReplicationAssumption DEF LocalWrite, FeedOwn, Event, TypeOK
  <1>23. ASSUME NEW k \in Keys, LocalExpire(k) PROVE TypeOK'
    <2>1. rdb' \in Values
      BY SMTT(30), <1>23 DEF LocalExpire, TypeOK, Values
    <2>2. QED
      BY SMTT(30), <1>23, <2>1, ReplicationAssumption DEF LocalExpire, FeedOwn, Event, TypeOK
  <1>24. CASE UNCHANGED vars
    BY <1>24 DEF vars, TypeOK
  <1>25. QED
    BY Zenon, <1>1, <1>2, <1>3, <1>4, <1>5, <1>6, <1>7, <1>8, <1>9, <1>10, <1>11, <1>12, <1>14, <1>15,
       <1>16, <1>17, <1>18, <1>19, <1>20, <1>21, <1>22, <1>23, <1>24
    DEF Next, MasterStep, ReplicaStep

-----------------------------------------------------------------------------
(* The link. *)

(* Taking a message off the connection shifts the rest of it. *)
LEMMA TakeOff ==
  ASSUME NEW S, NEW s \in Seq(S), s # << >>
  PROVE  /\ Len(s) \in Nat /\ Len(s) >= 1 /\ Head(s) = s[1]
         /\ Tail(s) \in Seq(S) /\ Len(Tail(s)) = Len(s) - 1
         /\ \A i \in 1 .. Len(s) - 1 : Tail(s)[i] = s[i + 1]
  BY HeadTailProperties, EmptySeq

(* Sending a command puts it behind the rest. *)
LEMMA PutBehind ==
  ASSUME NEW S, NEW s \in Seq(S), NEW x \in S
  PROVE  /\ Len(s) \in Nat /\ Append(s, x) \in Seq(S) /\ Append(s, x) # << >>
         /\ Len(Append(s, x)) = Len(s) + 1 /\ Append(s, x)[Len(s) + 1] = x
         /\ \A i \in 1 .. Len(s) : Append(s, x)[i] = s[i]
  BY AppendProperties

(* A step that leaves the link and both goroutines alone. *)
LEMMA LinkSame ==
  ASSUME LinkInv, TypeOK', UNCHANGED <<stream, mlocked, sess, queue, conn, net, loop>>
  PROVE  LinkInv'
  BY ZenonT(40) DEF LinkInv, Shape, ReplyShape, LoadShape, ReadShape, CmdsFrom, Phases, Sent, QueueIsEnd, NetIsEnd

(* FeedCommand: the new command is the last of the stream and of the queue,*)
(* or the session ends.                                                    *)
LEMMA LinkFeed ==
  ASSUME LinkInv, TypeOK', NEW e \in Commands, FeedCommand(e), UNCHANGED <<mlocked, conn, net, loop>>
  PROVE  LinkInv'
  <1>1. /\ stream \in Seq(Commands) /\ queue \in Seq(Commands) /\ net \in Seq(Messages)
        /\ stream' = Append(stream, e)
    BY Zenon DEF LinkInv, TypeOK, FeedCommand
  <1>2. Shape'
    BY Zenon DEF LinkInv, Shape, ReplyShape, LoadShape, ReadShape, CmdsFrom
  <1>3. Phases'
    BY Zenon DEF LinkInv, Phases, FeedCommand
  <1>4. ASSUME sess' = "live"
        PROVE  QueueIsEnd' /\ NetIsEnd'
    <2>1. sess = "live" /\ queue' = Append(queue, e)
      BY Zenon, <1>4 DEF FeedCommand
    <2>2. /\ Len(stream') = Len(stream) + 1 /\ stream'[Len(stream) + 1] = e
          /\ \A i \in 1 .. Len(stream) : stream'[i] = stream[i]
          /\ Len(queue') = Len(queue) + 1 /\ queue'[Len(queue) + 1] = e
          /\ \A i \in 1 .. Len(queue) : queue'[i] = queue[i]
          /\ Len(stream) \in Nat /\ Len(queue) \in Nat /\ Len(net) \in Nat
      BY <1>1, <2>1, PutBehind
    <2>3. Sent' = Sent /\ Sent >= 0 /\ Sent \in Int /\ Sent + Len(queue) = Len(stream)
      BY <2>1, <2>2 DEF LinkInv, QueueIsEnd, Sent
    <2>4. ASSUME NEW i \in 1 .. Len(queue') PROVE queue'[i] = stream'[Sent' + i]
      <3>1. CASE i = Len(queue) + 1
        BY <2>2, <2>3, <3>1
      <3>2. CASE i \in 1 .. Len(queue)
        <4>1. queue[i] = stream[Sent + i] /\ Sent + i \in 1 .. Len(stream)
          BY <2>1, <2>2, <2>3, <3>2 DEF LinkInv, QueueIsEnd
        <4>2. QED
          BY Zenon, <2>2, <2>3, <3>2, <4>1
      <3>3. QED
        BY <2>2, <3>1, <3>2
    <2>5. ASSUME NEW i \in 1 .. Len(net), net[i].type = "cmd"
          PROVE  Sent - (Len(net) - i) >= 1 /\ net[i].cmd = stream'[Sent - (Len(net) - i)]
      <3>1. Sent - (Len(net) - i) >= 1 /\ net[i].cmd = stream[Sent - (Len(net) - i)]
        BY Zenon, <2>1, <2>5 DEF LinkInv, NetIsEnd
      <3>2. Sent - (Len(net) - i) \in 1 .. Len(stream)
        BY SMTT(30), <2>2, <2>3, <3>1
      <3>3. QED
        BY Zenon, <2>2, <3>1, <3>2
    <2>6. QED
      BY Zenon, <2>3, <2>4, <2>5 DEF QueueIsEnd, NetIsEnd
  <1>5. QED
    BY Zenon, <1>2, <1>3, <1>4 DEF LinkInv, QueueIsEnd, NetIsEnd

(* A message is taken off the connection. *)
LEMMA LinkReceive ==
  ASSUME LinkInv, Received, UNCHANGED <<stream, mlocked, sess, queue, conn>>
  PROVE  /\ NetIsEnd' /\ QueueIsEnd'
         /\ \A n \in 1 .. 2 : CmdsFrom(n + 1) => CmdsFrom(n)'
         /\ Len(net) >= 1 /\ Len(net') = Len(net) - 1 /\ Head(net) = net[1]
         /\ \A i \in 1 .. Len(net) - 1 : net'[i] = net[i + 1]
  <1>1. /\ net \in Seq(Messages) /\ net # << >> /\ net' = Tail(net)
        /\ Len(stream) \in Nat /\ Len(queue) \in Nat
    BY DEF LinkInv, TypeOK, Received
  <1>2. /\ Len(net) \in Nat /\ Len(net) >= 1 /\ Len(net') = Len(net) - 1 /\ Head(net) = net[1]
        /\ \A i \in 1 .. Len(net) - 1 : net'[i] = net[i + 1]
    BY Zenon, <1>1, TakeOff
  <1>3. QueueIsEnd'
    BY Zenon DEF LinkInv, QueueIsEnd, Sent
  <1>4. ASSUME sess = "live", NEW i \in 1 .. Len(net'), net'[i].type = "cmd"
        PROVE  Sent - (Len(net') - i) >= 1 /\ net'[i].cmd = stream[Sent - (Len(net') - i)]
    <2>1. i + 1 \in 1 .. Len(net) /\ net'[i] = net[i + 1] /\ Len(net') - i = Len(net) - (i + 1)
      BY <1>2
    <2>2. Sent - (Len(net) - (i + 1)) >= 1 /\ net[i + 1].cmd = stream[Sent - (Len(net) - (i + 1))]
      BY Zenon, <1>4, <2>1 DEF LinkInv, NetIsEnd
    <2>3. QED
      BY Zenon, <2>1, <2>2
  <1>5. NetIsEnd'
    BY Zenon, <1>4 DEF NetIsEnd, Sent
  <1>6. ASSUME NEW n \in 1 .. 2, CmdsFrom(n + 1) PROVE CmdsFrom(n)'
    BY SMTT(30), <1>2, <1>6 DEF CmdsFrom
  <1>7. QED
    BY Zenon, <1>2, <1>3, <1>5, <1>6

(* The sender moves the head of the queue behind what it has sent. *)
LEMMA LinkSend ==
  ASSUME LinkInv, TypeOK', Send
  PROVE  LinkInv'
  <1>1. /\ queue \in Seq(Commands) /\ queue # << >> /\ net \in Seq(Messages) /\ Len(stream) \in Nat
        /\ queue' = Tail(queue) /\ net' = Append(net, Command(Head(queue)))
        /\ UNCHANGED <<stream, mlocked, sess, conn, loop>>
    BY DEF LinkInv, TypeOK, Send, master, psync, replica
  <1>2. /\ Len(queue) \in Nat /\ Len(queue) >= 1 /\ Len(queue') = Len(queue) - 1
        /\ Head(queue) = queue[1] /\ \A i \in 1 .. Len(queue) - 1 : queue'[i] = queue[i + 1]
    BY Zenon, <1>1, TakeOff
  <1>3. Head(queue) \in Commands
    BY Zenon, <1>1, HeadTailProperties
  <1>4. /\ Command(Head(queue)) \in Messages
        /\ Command(Head(queue)).type = "cmd" /\ Command(Head(queue)).cmd = queue[1]
    BY Zenon, <1>2, <1>3, MessagesBuilt
  <1>5. /\ Len(net) \in Nat /\ Len(net') = Len(net) + 1 /\ net' # << >>
        /\ net'[Len(net) + 1] = Command(Head(queue))
        /\ \A i \in 1 .. Len(net) : net'[i] = net[i]
    BY SMTT(30), <1>1, <1>4, PutBehind
  <1>6. sess # "none" /\ ~mlocked /\ conn = "up"
    BY Zenon DEF Send
  <1>7. Phases'
    BY Zenon, <1>1, <1>5, <1>6 DEF LinkInv, Phases
  <1>8. ASSUME NEW n \in 1 .. 3, CmdsFrom(n) PROVE CmdsFrom(n)'
    BY <1>4, <1>5, <1>8 DEF CmdsFrom
  <1>9. Shape'
    <2>1. CASE net # << >>
      <3>1. Len(net) >= 1 /\ net'[1] = net[1]
        BY <1>1, <1>5, <2>1, EmptySeq
      <3>2. Len(net) >= 2 => net'[2] = net[2]
        BY <1>5
      <3>3. ReplyShape'
        BY SMTT(30), <1>1, <1>5, <1>8, <2>1, <3>1, <3>2 DEF LinkInv, Shape, ReplyShape
      <3>4. LoadShape' /\ ReadShape'
        BY SMTT(30), <1>1, <1>8, <2>1, <3>1 DEF LinkInv, Shape, LoadShape, ReadShape
      <3>5. QED
        BY Zenon, <3>3, <3>4 DEF Shape
    <2>2. CASE net = << >>
      <3>1. loop \notin {"reply", "rdb"}
        BY Zenon, <1>6, <2>2 DEF LinkInv, Phases
      <3>2. QED
        BY <1>1, <1>8, <3>1 DEF LinkInv, Shape, ReplyShape, LoadShape, ReadShape
    <2>3. QED
      BY Zenon, <2>1, <2>2
  <1>10. ASSUME sess = "live"
         PROVE  QueueIsEnd' /\ NetIsEnd'
    <2>1. Sent \in Int /\ Sent' = Sent + 1 /\ Sent >= 0 /\ queue[1] = stream[Sent + 1]
      BY <1>1, <1>2, <1>10 DEF LinkInv, QueueIsEnd, Sent
    <2>2. ASSUME NEW i \in 1 .. Len(queue') PROVE queue'[i] = stream[Sent' + i]
      <3>1. i + 1 \in 1 .. Len(queue) /\ queue'[i] = queue[i + 1] /\ Sent' + i = Sent + (i + 1)
        BY <1>2, <2>1
      <3>2. QED
        BY Zenon, <1>10, <3>1 DEF LinkInv, QueueIsEnd
    <2>3. ASSUME NEW i \in 1 .. Len(net'), net'[i].type = "cmd"
          PROVE  Sent' - (Len(net') - i) >= 1 /\ net'[i].cmd = stream[Sent' - (Len(net') - i)]
      <3>1. CASE i = Len(net) + 1
        <4>1. Sent' - (Len(net') - i) = Sent + 1 /\ net'[i].cmd = queue[1]
          BY <1>4, <1>5, <2>1, <3>1
        <4>2. QED
          BY <2>1, <4>1
      <3>2. CASE i \in 1 .. Len(net)
        <4>1. Sent' - (Len(net') - i) = Sent - (Len(net) - i) /\ net'[i] = net[i]
          BY <1>5, <2>1, <3>2
        <4>2. QED
          BY Zenon, <1>10, <2>3, <3>2, <4>1 DEF LinkInv, NetIsEnd
      <3>3. QED
        BY <1>5, <3>1, <3>2
    <2>4. QED
      BY SMTT(30), <1>1, <2>1, <2>2, <2>3 DEF QueueIsEnd, NetIsEnd
  <1>11. QED
    BY Zenon, <1>1, <1>7, <1>9, <1>10 DEF LinkInv, QueueIsEnd, NetIsEnd

(* HandlePSync answers +CONTINUE with what the stream has after the offset *)
(* it was asked with.                                                      *)
LEMMA PartialAnswer ==
  ASSUME TypeOK, PSyncPartial
  PROVE  /\ Len(stream) \in Nat /\ req.off \in 0 .. Len(stream)
         /\ Len(net') = Len(stream) - req.off + 1 /\ net' # << >>
         /\ net'[1].type = "continue"
         /\ \A i \in 2 .. Len(net') :
              net'[i].type = "cmd" /\ net'[i].cmd = stream[req.off + i - 1]
  <1> DEFINE n == Len(stream) - req.off
  <1> DEFINE cmds == [i \in 1 .. n |-> Command(stream[req.off + i])]
  <1>1. n \in Nat /\ req.off \in Nat /\ Len(stream) \in Nat
    BY DEF PSyncPartial, CanPartialSync, TypeOK
  <1>2. ASSUME NEW i \in 1 .. n PROVE stream[req.off + i] \in Commands
    BY <1>1 DEF TypeOK
  <1>3. ASSUME NEW i \in 1 .. n PROVE Command(stream[req.off + i]) \in Messages
    BY Zenon, <1>2, MessagesBuilt
  <1>4. cmds \in Seq(Messages) /\ Len(cmds) = n
    BY SMTT(30), <1>1, <1>3
  <1>5. Header("continue") \in Messages /\ Header("continue").type = "continue"
    BY Zenon, <1>1 DEF Header, Messages
  <1>6. <<Header("continue")>> \in Seq(Messages) /\ Len(<<Header("continue")>>) = 1
    BY <1>5
  <1>7. net' = <<Header("continue")>> \o cmds
    BY Zenon DEF PSyncPartial
  <1> HIDE DEF cmds, n
  <1>8. /\ net' \in Seq(Messages) /\ Len(net') = 1 + n
        /\ \A i \in 1 .. 1 + n : net'[i] = IF i <= 1 THEN <<Header("continue")>>[i] ELSE cmds[i - 1]
    BY Zenon, <1>4, <1>6, <1>7, ConcatProperties
  <1>9. net'[1] = Header("continue")
    BY <1>1, <1>8
  <1>10. ASSUME NEW i \in 2 .. Len(net')
         PROVE  net'[i].type = "cmd" /\ net'[i].cmd = stream[req.off + i - 1]
    <2>1. i - 1 \in 1 .. n /\ i \in 1 .. 1 + n /\ ~(i <= 1) /\ req.off + (i - 1) = req.off + i - 1
      BY <1>1, <1>8
    <2>2. net'[i] = cmds[i - 1]
      BY Zenon, <1>8, <2>1
    <2>3. cmds[i - 1] = Command(stream[req.off + (i - 1)])
      BY Zenon, <2>1 DEF cmds
    <2>4. stream[req.off + (i - 1)] \in Commands
      BY Zenon, <1>2, <2>1
    <2>5. QED
      BY Zenon, <2>1, <2>2, <2>3, <2>4, MessagesBuilt
  <1>11. net' # << >>
    BY <1>1, <1>8, EmptySeq
  <1>12. QED
    BY SMTT(30), <1>1, <1>5, <1>8, <1>9, <1>10, <1>11 DEF n

(* The master's steps on the session. *)
LEMMA LinkPSync ==
  ASSUME LinkInv, TypeOK'
  PROVE  /\ PSyncPartial => LinkInv'
         /\ PSyncFull => LinkInv'
         /\ PSyncReply => LinkInv'
  <1> USE DEF master, psync, replica
  <1>1. ASSUME PSyncPartial PROVE LinkInv'
    <2>1. /\ Len(stream) \in Nat /\ req.off \in 0 .. Len(stream)
          /\ Len(net') = Len(stream) - req.off + 1 /\ net' # << >> /\ net'[1].type = "continue"
          /\ \A i \in 2 .. Len(net') : net'[i].type = "cmd" /\ net'[i].cmd = stream[req.off + i - 1]
      BY Zenon, <1>1, PartialAnswer DEF LinkInv
    <2>2. /\ sess' = "live" /\ queue' = << >> /\ conn = "up" /\ loop = "reply" /\ ~mlocked
          /\ UNCHANGED <<stream, mlocked, conn, loop>>
      BY Zenon, <1>1 DEF PSyncPartial, Asked
    <2>3. Shape'
      BY Zenon, <2>1, <2>2 DEF Shape, ReplyShape, LoadShape, ReadShape, CmdsFrom
    <2>4. Phases'
      BY Zenon, <2>1, <2>2 DEF Phases
    <2>5. Len(queue') = 0 /\ Sent' = Len(stream) /\ QueueIsEnd'
      BY <2>1, <2>2 DEF QueueIsEnd, Sent
    <2>6. ASSUME NEW i \in 1 .. Len(net'), net'[i].type = "cmd"
          PROVE  Sent' - (Len(net') - i) >= 1 /\ net'[i].cmd = stream[Sent' - (Len(net') - i)]
      <3>1. i \in 2 .. Len(net')
        BY <2>1, <2>6
      <3>2. Sent' - (Len(net') - i) = req.off + i - 1
        BY SMTT(60), <2>1, <2>5
      <3>3. req.off + i - 1 >= 1 /\ net'[i].cmd = stream[req.off + i - 1]
        BY <2>1, <3>1
      <3>4. QED
        BY Zenon, <3>2, <3>3
    <2>7. NetIsEnd'
      BY Zenon, <2>2, <2>6 DEF NetIsEnd
    <2>8. QED
      BY Zenon, <2>3, <2>4, <2>5, <2>7 DEF LinkInv
  <1>2. ASSUME PSyncFull PROVE LinkInv'
    <2>1. /\ sess' = "live" /\ queue' = << >> /\ conn = "up" /\ loop = "reply" /\ net = << >> /\ mlocked'
          /\ Len(stream) \in Nat /\ UNCHANGED <<stream, conn, net, loop>>
      BY <1>2 DEF PSyncFull, Asked, LinkInv, Phases, TypeOK
    <2>2. QED
      BY <2>1 DEF LinkInv, Shape, ReplyShape, LoadShape, ReadShape, Phases, QueueIsEnd, NetIsEnd, Sent
  <1>3. ASSUME PSyncReply PROVE LinkInv'
    <2>1. /\ sess = "live" /\ queue = << >> /\ loop = "reply" /\ mlocked /\ ~mlocked'
          /\ Len(stream) \in Nat /\ UNCHANGED <<stream, sess, queue, conn, loop>>
          /\ conn = "up"
      BY <1>3 DEF PSyncReply, LinkInv, Phases, TypeOK
    <2>2. /\ Len(net') = 2 /\ net' # << >> /\ net'[1].type = "full" /\ net'[2].type = "rdb"
      BY Zenon, <1>3 DEF PSyncReply, Header
    <2>3. Shape' /\ Phases'
      BY <2>1, <2>2 DEF Shape, ReplyShape, LoadShape, ReadShape, Phases, CmdsFrom
    <2>4. QueueIsEnd'
      BY <2>1 DEF QueueIsEnd, Sent
    <2>5. NetIsEnd'
      BY <2>1, <2>2 DEF NetIsEnd
    <2>6. QED
      BY Zenon, <2>3, <2>4, <2>5 DEF LinkInv
  <1>4. QED
    BY Zenon, <1>1, <1>2, <1>3

(* LinkInv is inductive. *)
LEMMA LinkStep == LinkInv /\ [Next]_vars => LinkInv'
  <1> SUFFICES ASSUME LinkInv, [Next]_vars PROVE LinkInv'
    OBVIOUS
  <1>0. TypeOK'
    BY Zenon, TypeStep DEF LinkInv
  <1> USE DEF master, psync, link, replica
  <1>1. ASSUME NEW c \in Clients, NEW k \in Keys, Handle(c, k) PROVE LinkInv'
    BY Zenon, <1>0, <1>1, LinkSame DEF Handle
  <1>2. ASSUME NEW c \in Clients, Feed(c) PROVE LinkInv'
    <2>1. cur[c] \in Commands
      BY Zenon DEF LinkInv, TypeOK
    <2>2. QED
      BY Zenon, <1>0, <1>2, <2>1, LinkFeed DEF Feed
  <1>3. ASSUME NEW k \in Keys, Expire(k) \/ LocalWrite(k) \/ LocalExpire(k) PROVE LinkInv'
    BY Zenon, <1>0, <1>3, LinkSame DEF Expire, LocalWrite, LocalExpire
  <1>4. ASSUME notifyExpired PROVE LinkInv'
    <2>1. [key |-> gone, id |-> 0] \in Commands
      BY ReplicationAssumption DEF LinkInv, TypeOK, Commands
    <2>2. QED
      BY Zenon, <1>0, <1>4, <2>1, LinkFeed DEF notifyExpired
  <1>5. ASSUME NEW k \in Keys, SnapshotShard(k) PROVE LinkInv'
    BY Zenon, <1>0, <1>5, LinkSame DEF SnapshotShard
  <1>6. CASE HangUp
    <2>1. /\ sess = "done" /\ sess' = "none" /\ queue' = << >> /\ conn' = "closed"
          /\ UNCHANGED <<mlocked, net, loop>>
      BY Zenon, <1>6 DEF HangUp
    <2>2. Shape'
      BY Zenon, <2>1 DEF LinkInv, Shape, ReplyShape, LoadShape, ReadShape, CmdsFrom
    <2>3. Phases'
      BY Zenon, <2>1 DEF LinkInv, Phases
    <2>4. QED
      BY Zenon, <1>0, <2>1, <2>2, <2>3 DEF LinkInv, QueueIsEnd, NetIsEnd
  <1>7. CASE Lose
    <2>1. /\ sess' = "none" /\ queue' = << >> /\ conn = "up" /\ conn' = "down" /\ net' = << >> /\ ~mlocked
          /\ UNCHANGED <<mlocked, loop>>
      BY Zenon, <1>7 DEF Lose
    <2>2. QED
      BY <1>0, <2>1 DEF LinkInv, Shape, ReplyShape, LoadShape, ReadShape, CmdsFrom, Phases, QueueIsEnd, NetIsEnd
  <1>8. CASE Dial
    <2>1. /\ loop = "dial" /\ conn = "down" /\ sess = "none" /\ net = << >> /\ queue = << >> /\ ~mlocked
          /\ UNCHANGED <<mlocked, sess, queue, net>>
      BY Zenon, <1>8 DEF Dial, LinkInv, Phases
    <2>2. (loop' = "stopped" /\ conn' = conn) \/ (loop' = "reply" /\ conn' = "up")
      BY Zenon, <1>8 DEF Dial
    <2>3. QED
      BY Zenon, <1>0, <2>1, <2>2 DEF LinkInv, Shape, ReplyShape, LoadShape, ReadShape, CmdsFrom, Phases, QueueIsEnd, NetIsEnd
  <1>9. CASE RecvFull
    <2>1. /\ Received /\ loop = "reply" /\ loop' = "rdb" /\ Head(net).type = "full"
          /\ UNCHANGED <<stream, mlocked, sess, queue, conn>>
      BY Zenon, <1>9 DEF RecvFull, Arrives
    <2>2. /\ NetIsEnd' /\ QueueIsEnd' /\ (CmdsFrom(3) => CmdsFrom(2)')
          /\ Len(net) >= 1 /\ Len(net') = Len(net) - 1 /\ Head(net) = net[1]
          /\ \A i \in 1 .. Len(net) - 1 : net'[i] = net[i + 1]
      BY SMTT(30), <2>1, LinkReceive
    <2>3. Len(net) >= 2 /\ net[2].type = "rdb" /\ CmdsFrom(3) /\ net # << >> /\ Len(net) \in Nat
      BY <2>1, <2>2 DEF LinkInv, Shape, ReplyShape, Received, TypeOK
    <2>4. net' # << >> /\ net'[1] = net[2]
      BY <2>2, <2>3
    <2>5. Shape'
      BY Zenon, <2>1, <2>2, <2>3, <2>4 DEF Shape, ReplyShape, LoadShape, ReadShape
    <2>6. Phases'
      BY Zenon, <2>1, <2>3, <2>4 DEF LinkInv, Phases
    <2>7. QED
      BY Zenon, <1>0, <2>2, <2>5, <2>6 DEF LinkInv
  <1>10. ASSUME RecvContinue \/ RecvRdb \/ RecvCommand PROVE LinkInv'
    <2>1. /\ Received /\ loop' = "check"
          /\ \/ loop = "reply" /\ Head(net).type = "continue" 
             \/ loop = "rdb" \/ loop = "read"
          /\ UNCHANGED <<stream, mlocked, sess, queue, conn>>
      BY Zenon, <1>10 DEF RecvContinue, RecvRdb, RecvCommand, Arrives
    <2>2. /\ NetIsEnd' /\ QueueIsEnd' /\ (CmdsFrom(2) => CmdsFrom(1)') /\ Head(net) = net[1]
      BY <2>1, LinkReceive
    <2>3. net # << >> /\ CmdsFrom(2)
      BY <2>1, <2>2 DEF LinkInv, Shape, ReplyShape, LoadShape, ReadShape, CmdsFrom, Received
    <2>4. Shape'
      BY Zenon, <2>1, <2>2, <2>3 DEF Shape, ReplyShape, LoadShape, ReadShape
    <2>5. Phases'
      BY Zenon, <2>1, <2>3 DEF LinkInv, Phases
    <2>6. QED
      BY Zenon, <1>0, <2>2, <2>4, <2>5 DEF LinkInv
  <1>11. CASE Check
    <2>1. CASE cancelled
      <3>1. /\ loop = "check" /\ loop' = "stopped" /\ conn' = "down" /\ net' = << >> /\ sess' = "none"
            /\ queue' = << >> /\ UNCHANGED mlocked
        BY Zenon, <1>11, <2>1 DEF Check
      <3>2. QED
        BY Zenon, <1>0, <3>1 DEF LinkInv, Shape, ReplyShape, LoadShape, ReadShape, Phases, QueueIsEnd, NetIsEnd
    <2>2. CASE ~cancelled
      <3>1. /\ loop = "check" /\ loop' = "read" /\ UNCHANGED <<stream, mlocked, sess, queue, conn, net>>
        BY Zenon, <1>11, <2>2 DEF Check
      <3>2. QED
        BY Zenon, <1>0, <3>1 DEF LinkInv, Shape, ReplyShape, LoadShape, ReadShape, CmdsFrom, Phases, QueueIsEnd, NetIsEnd, Sent
    <2>3. QED
      BY ZenonT(40), <2>1, <2>2
  <1>12. CASE Eof
    <2>1. /\ conn # "up" /\ net = << >> /\ loop' = "dial" /\ conn' = "down"
          /\ UNCHANGED <<mlocked, sess, queue, net>>
      BY Zenon, <1>12 DEF Eof
    <2>2. QED
      BY Zenon, <1>0, <2>1 DEF LinkInv, Shape, ReplyShape, LoadShape, ReadShape, Phases, QueueIsEnd, NetIsEnd
  <1>13. CASE StopReplication
    BY Zenon, <1>0, <1>13, LinkSame DEF StopReplication
  <1>14. CASE StartReplicationClient
    <2>1. loop = "stopped" /\ loop' = "dial" /\ UNCHANGED <<stream, mlocked, sess, queue, conn, net>>
      BY Zenon, <1>14 DEF StartReplicationClient
    <2>2. QED
      BY Zenon, <1>0, <2>1 DEF LinkInv, Shape, ReplyShape, LoadShape, ReadShape, Phases, QueueIsEnd, NetIsEnd
  <1>15. CASE UNCHANGED vars
    BY Zenon, <1>0, <1>15, LinkSame DEF vars
  <1>16. QED
    BY Zenon, <1>0, <1>1, <1>2, <1>3, <1>4, <1>5, <1>6, <1>7, <1>8, <1>9, <1>10, <1>11, <1>12, <1>13, <1>14,
       <1>15, LinkPSync, LinkSend DEF Next, MasterStep, ReplicaStep

(* The link starts without a connection. *)
LEMMA LinkInit == Init => LinkInv
  <1> SUFFICES ASSUME Init PROVE LinkInv
    OBVIOUS
  <1>1. Nothing \in Commands /\ NoKeys \in Values
    BY SMTT(30), ReplicationAssumption DEF Nothing, Commands, NoKeys, Values
  <1>2. TypeOK
    <2>1. mlocked \in BOOLEAN /\ cancelled \in BOOLEAN /\ stalled \in BOOLEAN
      BY Zenon DEF Init
    <2>2. /\ stream = << >> /\ queue = << >> /\ net = << >> /\ req = [id |-> "own", off |-> 0]
          /\ mdb = NoKeys /\ cur = [c \in Clients |-> Nothing] /\ gone = None /\ snapTodo = {}
          /\ snap = NoKeys /\ sess = "none" /\ conn = "down" /\ rdb = NoKeys /\ rid = "own"
          /\ roff = 0 /\ rlast = 0 /\ role = "replica" /\ loop = "dial" /\ issued = 0 /\ lost = 0
      BY Zenon DEF Init
    <2>3. QED
      BY SMTT(30), <1>1, <2>1, <2>2, ReplicationAssumption DEF TypeOK
  <1>3. QED
    BY Zenon, <1>2 DEF Init, LinkInv, Shape, ReplyShape, LoadShape, ReadShape, Phases, QueueIsEnd, NetIsEnd

(* The inductive invariant of the link: types, the phases of the session,  *)
(* the connection and the two goroutines, and what is under way.           *)
THEOREM LinkInvariant == Spec => []LinkInv
  BY LinkInit, LinkStep, PTL DEF Spec

(* What is on its way to a replica with a live session is the end of the   *)
(* stream, without a gap, a repetition or a change of order, whatever      *)
(* breaks, expires or is promoted (FeedCommand, HandlePSync, the sender).  *)
THEOREM StreamHasNoGap == Spec => []NoGapInStream
  <1>1. LinkInv => NoGapInStream
    <2> SUFFICES ASSUME LinkInv, sess = "live", ~mlocked, conn = "up"
                 PROVE  /\ Sent >= 0 /\ \A i \in DOMAIN queue : queue[i] = stream[Sent + i]
                        /\ \A i \in DOMAIN net : net[i].type = "cmd" =>
                             /\ Sent - (Len(net) - i) >= 1
                             /\ net[i].cmd = stream[Sent - (Len(net) - i)]
                             /\ \A j \in i .. Len(net) : net[j].type = "cmd"
      BY Zenon DEF NoGapInStream, Sent
    <2>1. /\ DOMAIN queue = 1 .. Len(queue) /\ DOMAIN net = 1 .. Len(net) /\ Len(net) \in Nat
      BY DEF LinkInv, TypeOK
    <2>2. ASSUME NEW i \in 1 .. Len(net), net[i].type = "cmd", NEW j \in i .. Len(net)
          PROVE  net[j].type = "cmd"
      <3>1. CASE loop = "reply"
        <4>1. net # << >>
          BY <2>1, <2>2
        <4>2. \/ net[1].type = "continue" /\ CmdsFrom(2)
              \/ net[1].type = "full" /\ Len(net) >= 2 /\ net[2].type = "rdb" /\ CmdsFrom(3)
          BY Zenon, <3>1, <4>1 DEF LinkInv, Shape, ReplyShape
        <4>3. QED
          BY <2>1, <2>2, <4>2 DEF CmdsFrom
      <3>2. CASE loop = "rdb"
        <4>1. net # << >>
          BY SMTT(30), <2>1, <2>2
        <4>2. net[1].type = "rdb" /\ CmdsFrom(2)
          BY Zenon, <3>2, <4>1 DEF LinkInv, Shape, LoadShape
        <4>3. QED
          BY <2>1, <2>2, <4>2 DEF CmdsFrom
      <3>3. CASE loop \in {"check", "read"}
        BY <2>1, <2>2, <3>3 DEF LinkInv, Shape, ReadShape, CmdsFrom
      <3>4. CASE loop \in {"dial", "stopped"}
        BY Zenon, <3>4 DEF LinkInv, Phases
      <3>5. QED
        BY Zenon, <3>1, <3>2, <3>3, <3>4 DEF LinkInv, TypeOK
    <2>3. QED
      BY Zenon, <2>1, <2>2 DEF LinkInv, QueueIsEnd, NetIsEnd
  <1>2. QED
    BY <1>1, LinkInvariant, PTL

-----------------------------------------------------------------------------
(* The data. *)

(* Appending adds one element to the set of elements. *)
LEMMA RangeAppend ==
  ASSUME NEW S, NEW s \in Seq(S), NEW x \in S
  PROVE  Range(Append(s, x)) = Range(s) \cup {x}
  <1>1. /\ Len(s) \in Nat /\ DOMAIN s = 1 .. Len(s)
        /\ DOMAIN Append(s, x) = 1 .. Len(s) + 1 /\ Append(s, x)[Len(s) + 1] = x
        /\ \A i \in 1 .. Len(s) : Append(s, x)[i] = s[i]
    BY SMTT(30), PutBehind, LenProperties
  <1> DEFINE t == Append(s, x)
  <1> HIDE DEF t
  <1>2. ASSUME NEW y \in Range(t) PROVE y \in Range(s) \cup {x}
    <2>1. PICK i \in 1 .. Len(s) + 1 : y = t[i]
      BY Zenon, <1>1, <1>2 DEF Range, t
    <2>2. CASE i \in 1 .. Len(s)
      BY Zenon, <1>1, <2>1, <2>2 DEF Range, t
    <2>3. CASE i = Len(s) + 1
      BY Zenon, <1>1, <2>1, <2>3 DEF t
    <2>4. QED
      BY <1>1, <2>2, <2>3
  <1>3. ASSUME NEW y \in Range(s) PROVE y \in Range(t)
    <2>1. PICK i \in 1 .. Len(s) : y = s[i]
      BY Zenon, <1>1, <1>3 DEF Range
    <2>2. i \in DOMAIN t /\ t[i] = y
      BY <1>1, <2>1 DEF t
    <2>3. QED
      BY Zenon, <2>2 DEF Range
  <1>4. x \in Range(t)
    <2>1. Len(s) + 1 \in DOMAIN t /\ t[Len(s) + 1] = x
      BY <1>1 DEF t
    <2>2. QED
      BY Zenon, <2>1 DEF Range
  <1>5. QED
    BY Zenon, <1>2, <1>3, <1>4 DEF t

(* A command adds its number to its key and leaves the other keys alone. *)
LEMMA ApplyAdds ==
  ASSUME NEW d \in Values, NEW e \in Commands, e.key \in Keys, e.id # 0
  PROVE  /\ Range(Apply(d, e)[e.key]) = Range(d[e.key]) \cup {e.id}
         /\ \A k \in Keys : k # e.key => Apply(d, e)[k] = d[k]
         /\ \A k \in Keys : Range(d[k]) \subseteq Range(Apply(d, e)[k])
  <1>1. d[e.key] \in Seq(1 .. MaxCmds) /\ e.id \in 1 .. MaxCmds
    BY ReplicationAssumption DEF Values, Commands
  <1>2. Apply(d, e)[e.key] = Append(d[e.key], e.id)
    BY Zenon DEF Apply, Values
  <1>3. \A k \in Keys : k # e.key => Apply(d, e)[k] = d[k]
    BY Zenon DEF Apply, Values
  <1>4. Range(Apply(d, e)[e.key]) = Range(d[e.key]) \cup {e.id}
    <2> DEFINE S == 1 .. MaxCmds
    <2>1. d[e.key] \in Seq(S) /\ e.id \in S
      BY Zenon, <1>1
    <2> HIDE DEF S
    <2>2. Range(Append(d[e.key], e.id)) = Range(d[e.key]) \cup {e.id}
      BY <2>1, RangeAppend
    <2>3. QED
      BY Zenon, <1>2, <2>2
  <1>5. ASSUME NEW k \in Keys PROVE Range(d[k]) \subseteq Range(Apply(d, e)[k])
    <2>1. CASE k = e.key
      BY Zenon, <1>4, <2>1
    <2>2. CASE k # e.key
      BY Zenon, <1>3, <2>2
    <2>3. QED
      BY Zenon, <2>1, <2>2
  <1>6. QED
    BY Zenon, <1>3, <1>4, <1>5

(* The master's part: what it has was fed or is about to be.  It fails     *)
(* only when a key expires.                                                *)
LEMMA MasterKeeps ==
  ASSUME Events \subseteq {"lose", "promote"}, LinkInv, MasterInv, [Next]_vars
  PROVE  MasterInv'
  <1> USE DEF master, psync, link, replica
  <1>1. ASSUME UNCHANGED <<mdb, cur, gone, stream>> PROVE MasterInv'
    BY Zenon, <1>1 DEF MasterInv, CurKnown, StreamKnown, Accounted
  <1>2. ASSUME NEW c \in Clients, NEW k \in Keys, Handle(c, k) PROVE MasterInv'
    <2> DEFINE e == [key |-> k, id |-> issued + 1]
    <2>1. /\ e \in Commands /\ e.key = k /\ e.id # 0 /\ e # Nothing
          /\ mdb \in Values /\ mdb' = Apply(mdb, e) /\ cur[c] = Nothing
          /\ cur \in [Clients -> Commands] /\ cur' = [cur EXCEPT ![c] = e]
          /\ UNCHANGED <<gone, stream>> /\ Len(stream) \in Nat
      BY SMTT(30), <1>2, ReplicationAssumption DEF Handle, LinkInv, TypeOK, Commands, Nothing
    <2> HIDE DEF e
    <2>2. /\ Range(mdb'[k]) = Range(mdb[k]) \cup {e.id}
          /\ \A q \in Keys : q # k => mdb'[q] = mdb[q]
          /\ \A q \in Keys : Range(mdb[q]) \subseteq Range(mdb'[q])
      BY Zenon, <2>1, ApplyAdds
    <2>3. CurKnown'
      BY Zenon, <2>1, <2>2 DEF MasterInv, CurKnown
    <2>4. StreamKnown'
      BY Zenon, <2>1 DEF MasterInv, StreamKnown
    <2>5. Has(stream', Len(stream'), mdb')
      BY Zenon, <2>1, <2>2 DEF MasterInv, StreamKnown, Has
    <2>6. Accounted'
      <3> SUFFICES ASSUME NEW q \in Keys, NEW x \in Range(mdb'[q])
                   PROVE  \/ \E b \in Clients : cur'[b] = [key |-> q, id |-> x]
                          \/ \E j \in 1 .. Len(stream') : stream'[j] = [key |-> q, id |-> x]
        BY Zenon DEF Accounted
      <3>1. CASE q = k /\ x = e.id
        <4>1. cur'[c] = [key |-> q, id |-> x]
          BY Zenon, <2>1, <3>1 DEF e
        <4>2. QED
          BY Zenon, <4>1
      <3>2. CASE ~(q = k /\ x = e.id)
        <4>1. x \in Range(mdb[q])
          BY Zenon, <2>2, <3>2
        <4>2. CASE \E j \in 1 .. Len(stream) : stream[j] = [key |-> q, id |-> x]
          BY Zenon, <2>1, <4>2
        <4>3. CASE \E b \in Clients : cur[b] = [key |-> q, id |-> x]
          <5>1. PICK b \in Clients : cur[b] = [key |-> q, id |-> x]
            BY Zenon, <4>3
          <5>2. cur[b].key = q
            BY <5>1
          <5>3. b # c
            BY <2>1, <5>2, ReplicationAssumption DEF Nothing
          <5>4. cur'[b] = cur[b]
            BY Zenon, <2>1, <5>3
          <5>5. QED
            BY Zenon, <5>1, <5>4
        <4>4. QED
          BY Zenon, <4>1, <4>2, <4>3 DEF MasterInv, Accounted
      <3>3. QED
        BY Zenon, <3>1, <3>2
    <2>7. QED
      BY Zenon, <2>1, <2>3, <2>4, <2>5, <2>6 DEF MasterInv
  <1>3. ASSUME NEW c \in Clients, Feed(c) PROVE MasterInv'
    <2>1. /\ cur[c] # Nothing /\ cur[c] \in Commands /\ stream \in Seq(Commands)
          /\ stream' = Append(stream, cur[c]) /\ cur \in [Clients -> Commands]
          /\ cur' = [cur EXCEPT ![c] = Nothing] /\ UNCHANGED <<mdb, gone>>
      BY Zenon, <1>3 DEF Feed, FeedCommand, LinkInv, TypeOK
    <2>2. /\ Len(stream) \in Nat /\ Len(stream') = Len(stream) + 1
          /\ stream'[Len(stream) + 1] = cur[c]
          /\ \A i \in 1 .. Len(stream) : stream'[i] = stream[i]
      BY <2>1, PutBehind
    <2>3. cur[c].key \in Keys /\ cur[c].id # 0 /\ cur[c].id \in Range(mdb[cur[c].key])
      BY Zenon, <2>1 DEF MasterInv, CurKnown
    <2>4. CurKnown'
      BY ZenonT(40), <2>1 DEF MasterInv, CurKnown
    <2>5. StreamKnown'
      <3> SUFFICES ASSUME NEW j \in 1 .. Len(stream')
                   PROVE  stream'[j].key \in Keys /\ stream'[j].id # 0
        BY Zenon DEF StreamKnown
      <3>1. j \in 1 .. Len(stream) \/ j = Len(stream) + 1
        BY SMTT(30), <2>2
      <3>2. CASE j \in 1 .. Len(stream)
        BY ZenonT(40), <2>2, <3>2 DEF MasterInv, StreamKnown
      <3>3. CASE j = Len(stream) + 1
        BY ZenonT(40), <2>2, <2>3, <3>3
      <3>4. QED
        BY Zenon, <3>1, <3>2, <3>3
    <2>6. Has(stream', Len(stream'), mdb')
      BY <2>1, <2>2, <2>3 DEF MasterInv, Has
    <2>7. Accounted'
      <3> SUFFICES ASSUME NEW q \in Keys, NEW x \in Range(mdb[q])
                   PROVE  \/ \E b \in Clients : cur'[b] = [key |-> q, id |-> x]
                          \/ \E j \in 1 .. Len(stream') : stream'[j] = [key |-> q, id |-> x]
        BY Zenon, <2>1 DEF Accounted
      <3>1. CASE \E j \in 1 .. Len(stream) : stream[j] = [key |-> q, id |-> x]
        <4>1. PICK j \in 1 .. Len(stream) : stream[j] = [key |-> q, id |-> x]
          BY Zenon, <3>1
        <4>2. j \in 1 .. Len(stream') /\ stream'[j] = stream[j]
          BY <2>2, <4>1
        <4>3. QED
          BY Zenon, <4>1, <4>2
      <3>2. CASE \E b \in Clients : cur[b] = [key |-> q, id |-> x]
        <4>1. PICK b \in Clients : cur[b] = [key |-> q, id |-> x]
          BY Zenon, <3>2
        <4>2. CASE b = c
          <5>1. Len(stream) + 1 \in 1 .. Len(stream') /\ stream'[Len(stream) + 1] = [key |-> q, id |-> x]
            BY <2>2, <4>1, <4>2
          <5>2. QED
            BY Zenon, <5>1
        <4>3. CASE b # c
          <5>1. cur'[b] = cur[b]
            BY Zenon, <2>1, <4>3
          <5>2. QED
            BY Zenon, <4>1, <5>1
        <4>4. QED
          BY Zenon, <4>2, <4>3
      <3>3. QED
        BY Zenon, <3>1, <3>2 DEF MasterInv, Accounted
    <2>8. QED
      BY Zenon, <2>1, <2>4, <2>5, <2>6, <2>7 DEF MasterInv
  <1>4. ~notifyExpired
    BY Zenon DEF MasterInv, notifyExpired
  <1>5. \A k \in Keys : ~Expire(k)
    BY Zenon DEF Expire, Event
  <1>6. ASSUME NEW k \in Keys, LocalWrite(k) \/ LocalExpire(k) \/ SnapshotShard(k) PROVE MasterInv'
    BY Zenon, <1>1, <1>6 DEF LocalWrite, LocalExpire, SnapshotShard
  <1>7. CASE PSyncPartial \/ PSyncFull \/ PSyncReply \/ Send \/ HangUp \/ Lose
    BY Zenon, <1>1, <1>7 DEF PSyncPartial, PSyncFull, PSyncReply, Send, HangUp, Lose
  <1>8. CASE ReplicaStep \/ StopReplication \/ StartReplicationClient
    BY Zenon, <1>1, <1>8 DEF ReplicaStep, Dial, RecvFull, RecvContinue, RecvRdb, Check, RecvCommand, Eof,
                      StopReplication, StartReplicationClient
  <1>9. CASE UNCHANGED vars
    BY Zenon, <1>1, <1>9 DEF vars
  <1>10. QED
    BY Zenon, <1>2, <1>3, <1>4, <1>5, <1>6, <1>7, <1>8, <1>9 DEF Next, MasterStep

(* The snapshot that HandlePSync takes: nothing is fed while it does. *)
LEMMA SnapKeeps ==
  ASSUME Events \subseteq {"lose", "promote"}, LinkInv, MasterInv, SnapHas, [Next]_vars
  PROVE  SnapHas'
  <1> USE DEF master, psync, link, replica
  <1>1. ASSUME UNCHANGED <<mlocked, snapTodo, snap, stream>> PROVE SnapHas'
    BY Zenon, <1>1 DEF SnapHas
  <1>2. ASSUME ~mlocked, UNCHANGED mlocked PROVE SnapHas'
    BY Zenon, <1>2 DEF SnapHas
  <1>3. ASSUME NEW c \in Clients, NEW k \in Keys, Handle(c, k) PROVE SnapHas'
    BY Zenon, <1>1, <1>3 DEF Handle
  <1>4. ASSUME NEW c \in Clients, Feed(c) PROVE SnapHas'
    BY Zenon, <1>2, <1>4 DEF Feed, FeedCommand
  <1>5. CASE notifyExpired
    BY Zenon, <1>2, <1>5 DEF notifyExpired, FeedCommand
  <1>6. ASSUME NEW k \in Keys, Expire(k) \/ LocalWrite(k) \/ LocalExpire(k) PROVE SnapHas'
    BY Zenon, <1>1, <1>6 DEF Expire, LocalWrite, LocalExpire
  <1>7. CASE PSyncFull
    BY Zenon, <1>7 DEF PSyncFull, SnapHas
  <1>8. CASE PSyncReply
    BY Zenon, <1>8 DEF PSyncReply, SnapHas
  <1>9. ASSUME NEW k \in Keys, SnapshotShard(k) PROVE SnapHas'
    <2>1. /\ snap \in Values /\ snap' = [snap EXCEPT ![k] = mdb[k]] /\ snapTodo' = snapTodo \ {k}
          /\ mlocked /\ UNCHANGED stream
      BY Zenon, <1>9 DEF SnapshotShard, LinkInv, TypeOK
    <2>2. snap'[k] = mdb[k] /\ \A q \in Keys : q # k => snap'[q] = snap[q]
      BY Zenon, <2>1 DEF Values
    <2>3. ASSUME NEW q \in Keys \ snapTodo', NEW j \in 1 .. Len(stream), stream[j].key = q
          PROVE  stream[j].id \in Range(snap'[q])
      <3>1. CASE q = k
        BY Zenon, <2>2, <2>3, <3>1 DEF MasterInv, Has
      <3>2. CASE q # k
        <4>1. q \in Keys \ snapTodo
          BY Zenon, <2>1, <3>2
        <4>2. stream[j].id \in Range(snap[q])
          BY Zenon, <2>1, <2>3, <4>1 DEF SnapHas
        <4>3. QED
          BY Zenon, <2>2, <3>2, <4>2
      <3>3. QED
        BY Zenon, <3>1, <3>2
    <2>4. QED
      BY Zenon, <2>1, <2>3 DEF SnapHas
  <1>10. CASE PSyncPartial \/ Send \/ HangUp \/ Lose
    BY Zenon, <1>1, <1>10 DEF PSyncPartial, Send, HangUp, Lose
  <1>11. CASE ReplicaStep \/ StopReplication \/ StartReplicationClient
    BY Zenon, <1>1, <1>11 DEF ReplicaStep, Dial, RecvFull, RecvContinue, RecvRdb, Check, RecvCommand, Eof,
                       StopReplication, StartReplicationClient
  <1>12. CASE UNCHANGED vars
    BY Zenon, <1>1, <1>12 DEF vars
  <1>13. QED
    BY Zenon, <1>3, <1>4, <1>5, <1>6, <1>7, <1>8, <1>9, <1>10, <1>11, <1>12 DEF Next, MasterStep

(* A step that leaves the link and the replica alone. *)
LEMMA ReplicaSame ==
  ASSUME ReplicaInv, UNCHANGED <<stream, mlocked, sess, queue, net, rdb, rid, roff, req, loop>>
  PROVE  ReplicaInv'
  BY Zenon DEF ReplicaInv, FullHas, LoadHas, OffsetHas, AskedOffset, Resumes, Place

(* Feeding: the stream grows behind everything the replica is promised. *)
LEMMA ReplicaFeed ==
  ASSUME LinkInv, MasterInv, ReplicaInv, NEW e \in Commands, FeedCommand(e),
         UNCHANGED <<mlocked, net, rdb, rid, roff, req, loop>>
  PROVE  ReplicaInv'
  <1>1. /\ stream \in Seq(Commands) /\ queue \in Seq(Commands) /\ net \in Seq(Messages)
        /\ stream' = Append(stream, e) /\ roff \in Nat
    BY Zenon DEF LinkInv, TypeOK, FeedCommand
  <1>2. /\ Len(stream) \in Nat /\ Len(queue) \in Nat /\ Len(net) \in Nat
        /\ Len(stream') = Len(stream) + 1
        /\ \A i \in 1 .. Len(stream) : stream'[i] = stream[i]
    BY <1>1, PutBehind
  <1>3. ASSUME NEW n \in Int, n <= Len(stream), NEW d, Has(stream, n, d) PROVE Has(stream', n, d)
    <2>1. \A j \in 1 .. n : stream'[j] = stream[j]
      BY SMTT(30), <1>2, <1>3
    <2>2. QED
      BY Zenon, <1>3, <2>1 DEF Has
  <1>4. FullHas'
    <2> SUFFICES ASSUME loop = "reply", net # << >>, net[1].type = "full"
                 PROVE  net[1].off <= Len(stream') /\ Has(stream', net[1].off, net[2].db)
      BY Zenon DEF FullHas
    <2>1. net[1] \in Messages
      BY <1>1, TakeOff, ElementOfSeq
    <2>2. net[1].off \in Nat
      BY Zenon, <2>1, MessageFields
    <2>3. net[1].off <= Len(stream) /\ Has(stream, net[1].off, net[2].db)
      BY Zenon DEF ReplicaInv, FullHas
    <2>4. QED
      BY <1>2, <1>3, <2>2, <2>3
  <1>5. LoadHas'
    BY SMTT(30), <1>1, <1>2, <1>3 DEF ReplicaInv, LoadHas
  <1>6. OffsetHas'
    BY <1>1, <1>2, <1>3 DEF ReplicaInv, OffsetHas
  <1>7. AskedOffset'
    BY Zenon DEF ReplicaInv, AskedOffset
  <1>8. ASSUME sess' = "live", ~mlocked
        PROVE  Resumes'
    <2>1. sess = "live" /\ queue' = Append(queue, e)
      BY Zenon, <1>8 DEF FeedCommand
    <2>2. Len(queue') = Len(queue) + 1
      BY Zenon, <1>1, <2>1, PutBehind
    <2>3. Place' = Place /\ Place \in Int /\ Place <= Len(stream)
      BY <1>2, <2>2 DEF Place
    <2>4. Has(stream, Place, rdb) => Has(stream', Place, rdb)
      BY Zenon, <1>3, <2>3
    <2>5. QED
      BY Zenon, <1>8, <2>1, <2>3, <2>4 DEF ReplicaInv, Resumes
  <1>9. Resumes'
    BY Zenon, <1>8 DEF Resumes
  <1>10. QED
    BY Zenon, <1>4, <1>5, <1>6, <1>7, <1>9 DEF ReplicaInv

(* The answers to PSYNC, and the sender. *)
LEMMA ReplicaServed ==
  ASSUME LinkInv, MasterInv, SnapHas, ReplicaInv
  PROVE  /\ PSyncPartial => ReplicaInv'
         /\ PSyncFull => ReplicaInv'
         /\ PSyncReply => ReplicaInv'
         /\ Send => ReplicaInv'
  <1> USE DEF master, psync, replica
  <1>1. ASSUME PSyncPartial PROVE ReplicaInv'
    <2>1. /\ Len(stream) \in Nat /\ req.off \in 0 .. Len(stream)
          /\ Len(net') = Len(stream) - req.off + 1 /\ net'[1].type = "continue"
      BY Zenon, <1>1, PartialAnswer DEF LinkInv
    <2>2. /\ queue' = << >> /\ loop = "reply" /\ req.id = "master"
          /\ UNCHANGED <<stream, rdb, rid, roff, req, loop>>
      BY Zenon, <1>1 DEF PSyncPartial, Asked
    <2>3. rid = "master" /\ req.off = roff
      BY Zenon, <2>2 DEF ReplicaInv, AskedOffset
    <2>4. Place' + 1 = roff
      BY <2>1, <2>2, <2>3 DEF Place
    <2>5. Resumes'
      BY Zenon, <2>1, <2>2, <2>3, <2>4 DEF Resumes
    <2>6. QED
      BY Zenon, <2>1, <2>2, <2>5 DEF ReplicaInv, FullHas, LoadHas, OffsetHas, AskedOffset
  <1>2. ASSUME PSyncFull PROVE ReplicaInv'
    <2>1. mlocked' /\ UNCHANGED <<stream, net, rdb, rid, roff, req, loop>>
      BY Zenon, <1>2 DEF PSyncFull
    <2>2. QED
      BY Zenon, <2>1 DEF ReplicaInv, FullHas, LoadHas, OffsetHas, AskedOffset, Resumes
  <1>3. ASSUME PSyncReply PROVE ReplicaInv'
    <2>1. /\ mlocked /\ snapTodo = {} /\ queue = << >> /\ loop = "reply" /\ Len(stream) \in Nat
          /\ UNCHANGED <<stream, sess, queue, rdb, rid, roff, req, loop>>
      BY <1>3 DEF PSyncReply, LinkInv, Phases, TypeOK
    <2>2. /\ Len(net') = 2 /\ net'[1].type = "full" /\ net'[1].off = Len(stream) /\ net'[2].db = snap
      BY Zenon, <1>3 DEF PSyncReply, Header
    <2>3. Has(stream, Len(stream), snap)
      BY Zenon, <2>1 DEF SnapHas, MasterInv, StreamKnown, Has
    <2>4. FullHas'
      BY <2>1, <2>2, <2>3 DEF FullHas
    <2>5. Place' + 2 = Len(stream)
      BY <2>1, <2>2 DEF Place
    <2>6. Resumes'
      BY Zenon, <2>1, <2>2, <2>5 DEF Resumes
    <2>7. QED
      BY Zenon, <2>1, <2>4, <2>6 DEF ReplicaInv, LoadHas, OffsetHas, AskedOffset
  <1>4. ASSUME Send PROVE ReplicaInv'
    <2>1. /\ queue \in Seq(Commands) /\ queue # << >> /\ net \in Seq(Messages) /\ Len(stream) \in Nat
          /\ queue' = Tail(queue) /\ net' = Append(net, Command(Head(queue)))
          /\ sess # "none" /\ ~mlocked /\ conn = "up"
          /\ UNCHANGED <<stream, mlocked, sess, rdb, rid, roff, req, loop>>
      BY <1>4 DEF Send, LinkInv, TypeOK
    <2>2. Len(queue) \in Nat /\ Len(queue') = Len(queue) - 1
      BY Zenon, <2>1, TakeOff
    <2>3. Command(Head(queue)) \in Messages
      BY Zenon, <2>1, HeadTailProperties, MessagesBuilt
    <2>4. /\ Len(net) \in Nat /\ Len(net') = Len(net) + 1 /\ net' # << >>
          /\ \A i \in 1 .. Len(net) : net'[i] = net[i]
      BY <2>1, <2>3, PutBehind
    <2>5. Place' = Place
      BY <2>1, <2>2, <2>4 DEF Place
    <2>6. ASSUME loop \in {"reply", "rdb"} PROVE net # << >> /\ net'[1] = net[1]
      <3>1. net # << >>
        BY Zenon, <2>1, <2>6 DEF LinkInv, Phases
      <3>2. Len(net) >= 1
        BY Zenon, <2>1, <3>1, TakeOff
      <3>3. QED
        BY <2>4, <3>1, <3>2
    <2>7. ASSUME loop = "reply", net[1].type = "full" PROVE net'[2] = net[2]
      <3>1. Len(net) >= 2
        BY Zenon, <2>6, <2>7 DEF LinkInv, Shape, ReplyShape
      <3>2. QED
        BY <2>4, <3>1
    <2>8. FullHas'
      BY Zenon, <2>1, <2>6, <2>7 DEF ReplicaInv, FullHas
    <2>9. LoadHas'
      BY Zenon, <2>1, <2>4, <2>6 DEF ReplicaInv, LoadHas
    <2>10. OffsetHas' /\ AskedOffset'
      BY Zenon, <2>1 DEF ReplicaInv, OffsetHas, AskedOffset
    <2>11. Resumes'
      BY Zenon, <2>1, <2>5, <2>6 DEF ReplicaInv, Resumes
    <2>12. QED
      BY Zenon, <2>8, <2>9, <2>10, <2>11 DEF ReplicaInv
  <1>5. QED
    BY Zenon, <1>1, <1>2, <1>3, <1>4

(* What is under way was fed. *)
LEMMA WireKeeps ==
  ASSUME Events \subseteq {"lose", "promote"}, LinkInv, MasterInv, WireKnown, [Next]_vars
  PROVE  WireKnown'
  <1> USE DEF master, psync, link, replica
  <1>1. ASSUME UNCHANGED <<queue, net>> PROVE WireKnown'
    BY Zenon, <1>1 DEF WireKnown
  <1>2. ASSUME queue' = queue \/ queue' = << >>, net' = net \/ net' = << >> PROVE WireKnown'
    BY <1>2 DEF WireKnown
  <1>3. ASSUME NEW c \in Clients, NEW k \in Keys, Handle(c, k) PROVE WireKnown'
    BY Zenon, <1>1, <1>3 DEF Handle
  <1>4. ASSUME NEW c \in Clients, Feed(c) PROVE WireKnown'
    <2>1. /\ cur[c] # Nothing /\ cur[c] \in Commands /\ queue \in Seq(Commands) /\ UNCHANGED net
          /\ queue' = queue \/ queue' = Append(queue, cur[c])
      BY Zenon, <1>4 DEF Feed, FeedCommand, LinkInv, TypeOK
    <2>2. cur[c].key \in Keys /\ cur[c].id # 0
      BY Zenon, <2>1 DEF MasterInv, CurKnown
    <2>3. CASE queue' = Append(queue, cur[c])
      <3>1. /\ Len(queue) \in Nat /\ Len(queue') = Len(queue) + 1 /\ queue'[Len(queue) + 1] = cur[c]
            /\ \A i \in 1 .. Len(queue) : queue'[i] = queue[i]
        BY <2>1, <2>3, PutBehind
      <3>2. QED
        BY SMTT(30), <2>1, <2>2, <3>1 DEF WireKnown
    <2>4. QED
      BY Zenon, <1>1, <2>1, <2>3
  <1>5. ~notifyExpired
    BY Zenon DEF MasterInv, notifyExpired
  <1>6. ASSUME NEW k \in Keys, Expire(k) \/ LocalWrite(k) \/ LocalExpire(k) \/ SnapshotShard(k)
        PROVE  WireKnown'
    BY Zenon, <1>1, <1>6 DEF Expire, LocalWrite, LocalExpire, SnapshotShard
  <1>7. ASSUME PSyncPartial PROVE WireKnown'
    <2>1. /\ Len(stream) \in Nat /\ req.off \in 0 .. Len(stream)
          /\ Len(net') = Len(stream) - req.off + 1 /\ net'[1].type = "continue"
          /\ \A i \in 2 .. Len(net') : net'[i].type = "cmd" /\ net'[i].cmd = stream[req.off + i - 1]
      BY Zenon, <1>7, PartialAnswer DEF LinkInv
    <2>2. queue' = << >>
      BY Zenon, <1>7 DEF PSyncPartial
    <2>3. ASSUME NEW i \in 2 .. Len(net') PROVE net'[i].cmd.key \in Keys /\ net'[i].cmd.id # 0
      <3> DEFINE n == Len(stream) o == req.off
      <3>1. n \in Nat /\ o \in 0 .. n /\ i \in 2 .. (n - o + 1)
        BY Zenon, <2>1
      <3> HIDE DEF n, o
      <3>2. o + i - 1 \in 1 .. n
        BY <3>1
      <3>3. QED
        BY Zenon, <2>1, <3>2 DEF MasterInv, StreamKnown, n, o
    <2>4. ASSUME NEW i \in 1 .. Len(net'), net'[i].type = "cmd" PROVE i \in 2 .. Len(net')
      BY SMTT(30), <2>1, <2>4
    <2>5. QED
      BY <2>2, <2>3, <2>4 DEF WireKnown
  <1>8. CASE PSyncReply
    <2>1. Len(net') = 2 /\ net'[1].type = "full" /\ net'[2].type = "rdb" /\ UNCHANGED queue
      BY Zenon, <1>8 DEF PSyncReply, Header
    <2>2. QED
      BY <2>1 DEF WireKnown
  <1>9. ASSUME Send PROVE WireKnown'
    <2>1. /\ queue \in Seq(Commands) /\ queue # << >> /\ net \in Seq(Messages)
          /\ queue' = Tail(queue) /\ net' = Append(net, Command(Head(queue)))
      BY Zenon, <1>9 DEF Send, LinkInv, TypeOK
    <2>2. /\ Len(queue) \in Nat /\ Len(queue) >= 1 /\ Len(queue') = Len(queue) - 1
          /\ Head(queue) = queue[1] /\ \A i \in 1 .. Len(queue) - 1 : queue'[i] = queue[i + 1]
      BY Zenon, <2>1, TakeOff
    <2>3. Head(queue) \in Commands
      BY Zenon, <2>1, HeadTailProperties
    <2>4. Command(Head(queue)) \in Messages /\ Command(Head(queue)).cmd = queue[1]
      BY Zenon, <2>2, <2>3, MessagesBuilt
    <2>5. /\ Len(net) \in Nat /\ Len(net') = Len(net) + 1 /\ net'[Len(net) + 1] = Command(Head(queue))
          /\ \A i \in 1 .. Len(net) : net'[i] = net[i]
      BY SMTT(30), <2>1, <2>4, PutBehind
    <2>6. \A i \in 1 .. Len(queue') : queue'[i].key \in Keys /\ queue'[i].id # 0
      BY SMTT(30), <2>2 DEF WireKnown
    <2>7. \A i \in 1 .. Len(net') : net'[i].type = "cmd" => net'[i].cmd.key \in Keys /\ net'[i].cmd.id # 0
      BY SMTT(60), <2>2, <2>4, <2>5 DEF WireKnown
    <2>8. QED
      BY Zenon, <2>6, <2>7 DEF WireKnown
  <1>10. CASE PSyncFull \/ HangUp \/ Lose \/ Dial \/ Eof
    BY Zenon, <1>2, <1>10 DEF PSyncFull, HangUp, Lose, Dial, Eof
  <1>11. ASSUME Received, UNCHANGED <<stream, mlocked, sess, queue, conn>> PROVE WireKnown'
    <2>1. /\ Len(net) >= 1 /\ Len(net') = Len(net) - 1
          /\ \A i \in 1 .. Len(net) - 1 : net'[i] = net[i + 1]
      BY Zenon, <1>11, LinkReceive
    <2>2. Len(net) \in Nat
      BY DEF LinkInv, TypeOK
    <2>3. QED
      BY <1>11, <2>1, <2>2 DEF WireKnown
  <1>12. CASE RecvFull \/ RecvContinue \/ RecvRdb \/ RecvCommand
    BY Zenon, <1>11, <1>12 DEF RecvFull, RecvContinue, RecvRdb, RecvCommand, Arrives
  <1>13. CASE Check
    BY Zenon, <1>2, <1>13 DEF Check
  <1>14. CASE StopReplication \/ StartReplicationClient
    BY Zenon, <1>1, <1>14 DEF StopReplication, StartReplicationClient
  <1>15. CASE UNCHANGED vars
    BY Zenon, <1>1, <1>15 DEF vars
  <1>16. QED
    BY Zenon, <1>3, <1>4, <1>5, <1>6, <1>7, <1>8, <1>9, <1>10, <1>12, <1>13, <1>14, <1>15
    DEF Next, MasterStep, ReplicaStep

(* The replica takes a message off the connection. *)
LEMMA ReplicaReceives ==
  ASSUME LinkInv, MasterInv, WireKnown, ReplicaInv
  PROVE  /\ RecvFull => ReplicaInv'
         /\ RecvContinue => ReplicaInv'
         /\ RecvRdb => ReplicaInv'
         /\ RecvCommand => ReplicaInv'
  <1> USE DEF master, psync
  <1>0. ASSUME Received, UNCHANGED <<stream, mlocked, sess, queue, conn>>
        PROVE  /\ Head(net) = net[1] /\ net # << >> /\ Len(net) \in Nat /\ Len(net) >= 1
               /\ Len(net') = Len(net) - 1
               /\ Place \in Int /\ Place' = Place + 1 /\ Len(stream) \in Nat /\ roff \in Nat
               /\ \A i \in 1 .. Len(net) - 1 : net'[i] = net[i + 1]
    <2>1. /\ Len(net) >= 1 /\ Len(net') = Len(net) - 1 /\ Head(net) = net[1]
          /\ \A i \in 1 .. Len(net) - 1 : net'[i] = net[i + 1]
      BY Zenon, <1>0, LinkReceive
    <2>2. /\ Len(net) \in Nat /\ Len(stream) \in Nat /\ Len(queue) \in Nat /\ roff \in Nat
      BY SMTT(30) DEF LinkInv, TypeOK
    <2>3. QED
      BY <1>0, <2>1, <2>2 DEF Place, Received
  <1>1. ASSUME RecvFull PROVE ReplicaInv'
    <2>1. /\ Received /\ loop = "reply" /\ Head(net).type = "full" /\ rid' = "master"
          /\ roff' = Head(net).off /\ loop' = "rdb" /\ UNCHANGED <<stream, mlocked, sess, queue, conn, rdb>>
      BY Zenon, <1>1 DEF RecvFull, Arrives
    <2>2. /\ net[1].type = "full" /\ net # << >> /\ roff' = net[1].off
          /\ Len(net') = Len(net) - 1 /\ Place \in Int /\ Place' = Place + 1
          /\ \A i \in 1 .. Len(net) - 1 : net'[i] = net[i + 1]
      BY Zenon, <1>0, <2>1
    <2>3. Len(net) >= 2 /\ Len(net) \in Nat
      BY <2>1, <2>2 DEF LinkInv, Shape, ReplyShape, TypeOK
    <2>4. net' # << >> /\ net'[1] = net[2]
      BY <2>2, <2>3
    <2>5. roff' <= Len(stream) /\ Has(stream, roff', net'[1].db)
      BY Zenon, <2>1, <2>2, <2>4 DEF ReplicaInv, FullHas
    <2>6. LoadHas'
      BY Zenon, <2>1, <2>4, <2>5 DEF LoadHas
    <2>7. Resumes'
      BY <2>1, <2>2 DEF ReplicaInv, Resumes
    <2>8. QED
      BY Zenon, <2>1, <2>6, <2>7 DEF ReplicaInv, FullHas, OffsetHas, AskedOffset
  <1>2. ASSUME RecvContinue PROVE ReplicaInv'
    <2>1. /\ Received /\ loop = "reply" /\ Head(net).type = "continue" /\ loop' = "check"
          /\ UNCHANGED <<stream, mlocked, sess, queue, conn, rdb, rid, roff>>
      BY Zenon, <1>2 DEF RecvContinue, Arrives
    <2>2. net[1].type = "continue" /\ Place' = Place + 1
      BY Zenon, <1>0, <2>1
    <2>3. Resumes'
      <3> SUFFICES ASSUME sess = "live", ~mlocked PROVE Has(stream, Place', rdb)
        BY Zenon, <2>1 DEF Resumes
      <3>1. rid = "master" /\ Place' = roff
        BY Zenon, <2>1, <2>2 DEF ReplicaInv, Resumes
      <3>2. QED
        BY Zenon, <2>1, <3>1 DEF ReplicaInv, OffsetHas
    <2>4. QED
      BY Zenon, <2>1, <2>3 DEF ReplicaInv, FullHas, LoadHas, OffsetHas, AskedOffset
  <1>3. ASSUME RecvRdb PROVE ReplicaInv'
    <2>1. /\ Received /\ loop = "rdb" /\ rdb' = Head(net).db /\ loop' = "check"
          /\ UNCHANGED <<stream, mlocked, sess, queue, conn, rid, roff>>
      BY Zenon, <1>3 DEF RecvRdb, Arrives
    <2>2. rdb' = net[1].db /\ Place' = Place + 1
      BY Zenon, <1>0, <2>1
    <2>3. roff <= Len(stream) /\ Has(stream, roff, rdb')
      BY Zenon, <2>1, <2>2 DEF ReplicaInv, LoadHas
    <2>4. Resumes'
      BY Zenon, <2>1, <2>2, <2>3 DEF ReplicaInv, Resumes
    <2>5. QED
      BY Zenon, <2>1, <2>3, <2>4 DEF ReplicaInv, FullHas, LoadHas, OffsetHas, AskedOffset
  <1>4. ASSUME RecvCommand PROVE ReplicaInv'
    <2>1. /\ Received /\ loop = "read" /\ Head(net).type = "cmd" /\ rdb' = Apply(rdb, Head(net).cmd)
          /\ loop' = "check" /\ UNCHANGED <<stream, mlocked, sess, queue, conn, rid, roff>>
      BY Zenon, <1>4 DEF RecvCommand, Arrives
    <2>2. /\ net # << >> /\ Head(net) = net[1] /\ Len(net) \in Nat /\ Len(net) >= 1
          /\ Place \in Int /\ Place' = Place + 1 /\ Len(stream) \in Nat /\ roff \in Nat
      BY Zenon, <1>0, <2>1
    <2>3. ASSUME sess = "live", ~mlocked
          PROVE  Place + 1 \in 1 .. Len(stream) /\ net[1].cmd = stream[Place + 1]
      <3>1. Sent - (Len(net) - 1) >= 1 /\ net[1].cmd = stream[Sent - (Len(net) - 1)]
        BY SMTT(30), <2>1, <2>2, <2>3 DEF LinkInv, NetIsEnd
      <3>2. Len(queue) \in Nat
        BY DEF LinkInv, TypeOK
      <3>3. Sent - (Len(net) - 1) = Place + 1 /\ Place + 1 <= Len(stream)
        BY <2>2, <3>2 DEF Sent, Place
      <3>4. QED
        BY SMTT(30), <2>2, <3>1, <3>3
    <2>4. ASSUME NEW e \in Commands, e.key \in Keys, e.id # 0, rdb' = Apply(rdb, e),
                 NEW n \in Int, n <= Len(stream), Has(stream, n, rdb)
          PROVE  Has(stream, n, rdb')
      <3>1. rdb \in Values
        BY Zenon DEF LinkInv, TypeOK
      <3>2. \A k \in Keys : Range(rdb[k]) \subseteq Range(rdb'[k])
        BY Zenon, <2>4, <3>1, ApplyAdds
      <3>3. \A j \in 1 .. n : stream[j].key \in Keys
        BY SMTT(30), <2>2, <2>4 DEF MasterInv, StreamKnown
      <3>4. QED
        BY Zenon, <2>4, <3>2, <3>3 DEF Has
    <2>5. net[1].cmd \in Commands /\ net[1].cmd.key \in Keys /\ net[1].cmd.id # 0
      <3>1. net[1] \in Messages
        BY SMTT(60), <2>2, ElementOfSeq DEF LinkInv, TypeOK
      <3>2. QED
        BY SMTT(30), <2>1, <2>2, <3>1, MessageFields DEF WireKnown
    <2>6. OffsetHas'
      BY <2>1, <2>2, <2>4, <2>5 DEF ReplicaInv, OffsetHas
    <2>7. ASSUME sess = "live", ~mlocked PROVE Has(stream, Place + 1, rdb')
      <3>1. Place + 1 \in 1 .. Len(stream) /\ net[1].cmd = stream[Place + 1]
        BY Zenon, <2>3, <2>7
      <3>2. Has(stream, Place, rdb)
        BY Zenon, <2>1, <2>7 DEF ReplicaInv, Resumes
      <3>3. Has(stream, Place, rdb')
        BY SMTT(30), <2>1, <2>2, <2>4, <2>5, <3>1, <3>2
      <3>4. rdb \in Values
        BY ZenonT(40) DEF LinkInv, TypeOK
      <3>5. Range(rdb'[net[1].cmd.key]) = Range(rdb[net[1].cmd.key]) \cup {net[1].cmd.id}
        BY SMTT(30), <2>1, <2>2, <2>5, <3>4, ApplyAdds
      <3>6. stream[Place + 1].id \in Range(rdb'[stream[Place + 1].key])
        BY Zenon, <3>1, <3>5
      <3>7. \A j \in 1 .. Place + 1 : j \in 1 .. Place \/ j = Place + 1
        BY <2>2
      <3>8. QED
        BY Zenon, <3>3, <3>6, <3>7 DEF Has
    <2>8. Resumes'
      BY Zenon, <2>1, <2>2, <2>7 DEF Resumes
    <2>9. QED
      BY Zenon, <2>1, <2>6, <2>8 DEF ReplicaInv, FullHas, LoadHas, AskedOffset
  <1>5. QED
    BY Zenon, <1>1, <1>2, <1>3, <1>4

(* DataInv is inductive when connections break only after the snapshot has *)
(* arrived and neither side expires or writes on its own.                  *)
LEMMA DataStep ==
  ASSUME Events \subseteq {"lose", "promote"}
  PROVE  LinkInv /\ DataInv /\ [Next]_vars => DataInv'
  <1> SUFFICES ASSUME LinkInv, MasterInv, SnapHas, WireKnown, ReplicaInv, [Next]_vars PROVE ReplicaInv'
    BY Zenon, MasterKeeps, SnapKeeps, WireKeeps DEF DataInv
  <1> USE DEF master, psync, link, replica
  <1>1. ASSUME NEW c \in Clients, NEW k \in Keys, Handle(c, k) PROVE ReplicaInv'
    BY Zenon, <1>1, ReplicaSame DEF Handle
  <1>2. ASSUME NEW c \in Clients, Feed(c) PROVE ReplicaInv'
    <2>1. cur[c] \in Commands
      BY Zenon DEF LinkInv, TypeOK
    <2>2. QED
      BY Zenon, <1>2, <2>1, ReplicaFeed DEF Feed
  <1>3. ~notifyExpired
    BY Zenon DEF MasterInv, notifyExpired
  <1>4. \A k \in Keys : ~Expire(k) /\ ~LocalWrite(k) /\ ~LocalExpire(k)
    BY Zenon DEF Expire, LocalWrite, LocalExpire, Event
  <1>5. ASSUME NEW k \in Keys, SnapshotShard(k) PROVE ReplicaInv'
    BY Zenon, <1>5, ReplicaSame DEF SnapshotShard
  <1>6. CASE HangUp
    <2>1. sess' = "none" /\ UNCHANGED <<stream, net, rdb, rid, roff, req, loop>>
      BY Zenon, <1>6 DEF HangUp
    <2>2. QED
      BY Zenon, <2>1 DEF ReplicaInv, FullHas, LoadHas, OffsetHas, AskedOffset, Resumes
  <1>7. CASE Lose
    <2>1. /\ sess' = "none" /\ net' = << >> /\ loop # "rdb"
          /\ UNCHANGED <<stream, rdb, rid, roff, req, loop>>
      BY Zenon, <1>7 DEF Lose, Event
    <2>2. QED
      BY Zenon, <2>1 DEF ReplicaInv, FullHas, LoadHas, OffsetHas, AskedOffset, Resumes
  <1>8. CASE Dial
    <2>1. /\ loop = "dial" /\ sess = "none" /\ net = << >> /\ loop' \in {"stopped", "reply"}
          /\ UNCHANGED <<stream, sess, net, rdb, rid, roff>>
      BY Zenon, <1>8 DEF Dial, LinkInv, Phases
    <2>2. loop' = "reply" => req' = [id |-> rid, off |-> roff]
      BY Zenon, <1>8 DEF Dial
    <2>3. AskedOffset'
      BY <2>1, <2>2 DEF AskedOffset
    <2>4. QED
      BY Zenon, <2>1, <2>3 DEF ReplicaInv, FullHas, LoadHas, OffsetHas, Resumes
  <1>9. CASE Check
    <2>1. loop = "check" /\ UNCHANGED <<stream, mlocked, rdb, rid, roff>>
      BY Zenon, <1>9 DEF Check
    <2>2. \/ loop' = "stopped" /\ sess' = "none"
          \/ loop' = "read" /\ UNCHANGED <<sess, queue, net>>
      BY Zenon, <1>9 DEF Check
    <2>3. QED
      BY Zenon, <2>1, <2>2 DEF ReplicaInv, FullHas, LoadHas, OffsetHas, AskedOffset, Resumes, Place
  <1>10. CASE Eof
    <2>1. /\ loop' = "dial" /\ net = << >> /\ conn # "up" /\ UNCHANGED <<stream, sess, rdb, rid, roff>>
      BY Zenon, <1>10 DEF Eof
    <2>2. sess = "none" /\ loop # "rdb"
      BY Zenon, <2>1 DEF LinkInv, Phases, ReplicaInv, LoadHas
    <2>3. QED
      BY Zenon, <2>1, <2>2 DEF ReplicaInv, FullHas, LoadHas, OffsetHas, AskedOffset, Resumes
  <1>11. CASE StopReplication
    BY Zenon, <1>11, ReplicaSame DEF StopReplication
  <1>12. CASE StartReplicationClient
    <2>1. loop = "stopped" /\ loop' = "dial" /\ UNCHANGED <<stream, sess, rdb, rid, roff>>
      BY Zenon, <1>12 DEF StartReplicationClient
    <2>2. QED
      BY Zenon, <2>1 DEF ReplicaInv, FullHas, LoadHas, OffsetHas, AskedOffset, Resumes
  <1>13. CASE UNCHANGED vars
    BY Zenon, <1>13, ReplicaSame DEF vars
  <1>14. QED
    BY ZenonT(40), <1>1, <1>2, <1>3, <1>4, <1>5, <1>6, <1>7, <1>8, <1>9, <1>10, <1>11, <1>12, <1>13,
       ReplicaServed, ReplicaReceives DEF Next, MasterStep, ReplicaStep

(* At the start nothing was written. *)
LEMMA DataInit == Init => DataInv
  <1> SUFFICES ASSUME Init PROVE DataInv
    OBVIOUS
  <1>1. /\ Len(stream) = 0 /\ Len(queue) = 0 /\ Len(net) = 0 /\ loop = "dial" /\ rid = "own"
        /\ ~mlocked /\ sess = "none" /\ gone = None /\ \A c \in Clients : cur[c] = Nothing
    BY Zenon DEF Init
  <1>2. \A k \in Keys : Range(mdb[k]) = {}
    BY SMTT(30) DEF Init, NoKeys, Range
  <1>3. MasterInv
    BY SMTT(30), <1>1, <1>2 DEF MasterInv, CurKnown, StreamKnown, Has, Accounted
  <1>4. SnapHas /\ WireKnown /\ ReplicaInv
    BY <1>1 DEF SnapHas, WireKnown, ReplicaInv, FullHas, LoadHas, OffsetHas, AskedOffset, Resumes
  <1>5. QED
    BY Zenon, <1>3, <1>4 DEF DataInv

(* A replica that has caught up has every command of its master, however   *)
(* often the connection broke while commands were streamed, the queue ran  *)
(* full or the replica was promoted and demoted: it never silently         *)
(* diverges (manager.go:107-110).  The assumption is needed: a connection  *)
(* that breaks while the snapshot is loaded, and keys that expire, lose    *)
(* commands.                                                               *)
THEOREM CaughtUpIsComplete ==
  ASSUME Events \subseteq {"lose", "promote"}
  PROVE  Spec => []CaughtUpHasAll
  <1>1. LinkInv /\ DataInv => CaughtUpHasAll
    <2> SUFFICES ASSUME LinkInv, DataInv, CaughtUp, NEW k \in Keys, NEW x \in Range(mdb[k])
                 PROVE  x \in Range(rdb[k])
      BY Zenon DEF CaughtUpHasAll
    <2>1. /\ sess = "live" /\ ~mlocked /\ loop = "read" /\ net = << >> /\ queue = << >>
          /\ \A c \in Clients : cur[c] = Nothing
      BY Zenon DEF CaughtUp
    <2>2. Place = Len(stream)
      BY <2>1 DEF Place, LinkInv, TypeOK
    <2>3. Has(stream, Len(stream), rdb)
      BY Zenon, <2>1, <2>2 DEF DataInv, ReplicaInv, Resumes
    <2>4. ~ \E c \in Clients : cur[c] = [key |-> k, id |-> x]
      <3> SUFFICES ASSUME NEW c \in Clients, cur[c] = [key |-> k, id |-> x] PROVE FALSE
        OBVIOUS
      <3>1. cur[c].key = k /\ Nothing.key = None
        BY DEF Nothing
      <3>2. QED
        BY Zenon, <2>1, <3>1, ReplicationAssumption
    <2>5. PICK j \in 1 .. Len(stream) : stream[j] = [key |-> k, id |-> x]
      BY Zenon, <2>4 DEF DataInv, MasterInv, Accounted
    <2>6. stream[j].key = k /\ stream[j].id = x
      BY <2>5
    <2>7. QED
      BY Zenon, <2>3, <2>6 DEF Has
  <1>2. QED
    BY <1>1, LinkInit, LinkStep, DataInit, DataStep, PTL DEF Spec
=============================================================================
