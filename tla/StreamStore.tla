------------------------------ MODULE StreamStore ------------------------------
(***************************************************************************)
(* One stream and the calls its clients make, in any order: the methods of *)
(* Stream as the handlers of commands/stream.go call them.  Every method   *)
(* holds the mutex of the stream throughout, and XADD and XTRIM MINID hold *)
(* the stripe of the key across the two they call, so a call is one step.  *)
(*                                                                         *)
(* The subject is what the chunks, the flags, the counters and the second  *)
(* copy of the pending list make of the promise in StreamLog.              *)
(***************************************************************************)
EXTENDS StreamData

CONSTANTS
  Scripts,  \* name -> the calls its clients choose from
  Backward, \* whether they name an ID below the last one once the stream is empty
  MaxCalls, \* how many calls
  MaxClock  \* how late it gets, in milliseconds

VARIABLES
  script, \* which calls, chosen once
  st,     \* the stream
  clock,
  op,     \* the last call and its answer
  calls,
  seen    \* history: group -> consumer -> the IDs it has been given

vars == <<script, st, clock, op, calls, seen>>

Init ==
  /\ script \in DOMAIN Scripts
  /\ st = NewStream
  /\ clock = 1
  /\ op = [call |-> [name |-> "none"], error |-> FALSE]
  /\ calls = 0
  /\ seen = NoGroups

\* A call by one of the clients, what it leaves and what it answers.
Called(c, new) ==
  /\ calls < MaxCalls
  /\ calls' = calls + 1
  /\ st' = new
  /\ UNCHANGED <<script, clock>>

Answers(c, reply) == op' = [call |-> c, reply |-> reply]
Fails(c)          == op' = [call |-> c, error |-> TRUE]

\* History: what group g gave consumer c, on top of what it had.
SeenBy(g, c, ids) ==
  LET old == IF c \in DOMAIN seen[g] THEN seen[g][c] ELSE {}
  IN seen' = [seen EXCEPT ![g] = IF ids = {} THEN @ ELSE (c :> (old \cup ids)) @@ @]

------------------------------------------------------------------------------

\* XADD once the stream is there: ParseID, AddRaw, then MINID.
XAdd(c) ==
  LET id    == ParseID(c.spec, st.last, clock)
      added == Add(st, id, [val |-> c.val, size |-> c.size], c.maxLen, c.approx)
  IN /\ c.name = "add"
     /\ Backward \/ st.length > 0 \/ Compare(id, st.last) > 0
     /\ IF Refused(st, id) THEN Called(c, st) /\ Fails(c)
        ELSE /\ Called(c, IF c.minID = ZeroID THEN added ELSE trimBelowMinID(added, c.minID))
             /\ Answers(c, id)
     /\ UNCHANGED seen

XTrim(c) ==
  LET new == IF c.name = "trim" THEN Trim(st, c.maxLen, c.approx) ELSE trimBelowMinID(st, c.minID)
  IN /\ c.name \in {"trim", "minid"}
     /\ Called(c, new) /\ Answers(c, st.length - new.length)
     /\ UNCHANGED seen

XDel(c) ==
  /\ c.name = "del"
  /\ Called(c, Delete(st, c.ids)) /\ Answers(c, st.length - Delete(st, c.ids).length)
  /\ UNCHANGED seen

XLen(c) ==
  /\ c.name = "len"
  /\ Called(c, st) /\ Answers(c, st.length)
  /\ UNCHANGED seen

XRange(c) ==
  /\ c.name \in {"range", "revrange"}
  /\ Called(c, st)
  /\ Answers(c, StreamRange(st, c.start, c.end, c.count, c.name = "revrange"))
  /\ UNCHANGED seen

\* The fetch of XREAD asks for one entry more than it wants, since the range
\* includes its start, and drops that one.
XRead(c) ==
  LET got == StreamRange(st, c.start, MaxID, c.count + 1, FALSE)
  IN /\ c.name = "read"
     /\ Called(c, st)
     /\ Answers(c, FirstN(SelectSeq(got, LAMBDA e : Compare(e.id, c.start) > 0), c.count))
     /\ UNCHANGED seen

------------------------------------------------------------------------------

StartOf(c) == IF c.last THEN st.last ELSE c.start

XGroupCreate(c) ==
  /\ c.name = "create"
  /\ IF HasGroup(st, c.group) THEN Called(c, st) /\ Fails(c) /\ UNCHANGED seen
     ELSE /\ Called(c, CreateGroup(st, c.group, StartOf(c)))
          /\ Answers(c, TRUE)
          /\ seen' = (c.group :> NoGroups) @@ seen

XGroupSetID(c) ==
  /\ c.name = "setid"
  /\ IF ~HasGroup(st, c.group) THEN Called(c, st) /\ Fails(c)
     ELSE Called(c, SetGroupID(st, c.group, StartOf(c))) /\ Answers(c, TRUE)
  /\ UNCHANGED seen

XGroupDestroy(c) ==
  /\ c.name = "destroy"
  /\ IF ~HasGroup(st, c.group) THEN Called(c, st) /\ Fails(c) /\ UNCHANGED seen
     ELSE /\ Called(c, DestroyGroup(st, c.group))
          /\ Answers(c, TRUE)
          /\ seen' = Restrict(seen, DOMAIN seen \ {c.group})

XReadGroup(c) ==
  LET isNew == c.name = "new"
      read  == ReadGroup(st, c.group, c.consumer, c.start, isNew, c.count, c.noAck, clock)
  IN /\ c.name \in {"new", "history"}
     /\ IF ~HasGroup(st, c.group) THEN Called(c, st) /\ Fails(c) /\ UNCHANGED seen
        ELSE /\ Called(c, read.st) /\ Answers(c, read.out)
             /\ SeenBy(c.group, c.consumer,
                       IF isNew /\ ~c.noAck THEN {e.id : e \in ToSet(read.out)} ELSE {})

\* XACK, XPENDING and XCLAIM do not tell a missing group from one with nothing
\* pending: their error is a zero or an empty answer.
XAck(c) ==
  LET new == Ack(st, c.group, SetToSeq(c.ids))
      n   == Cardinality(DOMAIN st.groups[c.group].pel)
             - Cardinality(DOMAIN new.groups[c.group].pel)
  IN /\ c.name = "ack"
     /\ IF ~HasGroup(st, c.group) THEN Called(c, st) /\ Fails(c)
        ELSE Called(c, new) /\ Answers(c, n)
     /\ UNCHANGED seen

XPending(c) ==
  /\ c.name = "pending"
  /\ Called(c, st)
  /\ IF ~HasGroup(st, c.group) THEN Fails(c)
     ELSE Answers(c, Pending(st, c.group, c.start, c.end, c.count, c.filter))
  /\ UNCHANGED seen

XClaim(c) ==
  LET claim == Claim(st, c.group, c.consumer, c.minIdle, SetToSeq(c.ids), clock)
      got   == {id \in c.ids \cap DOMAIN st.groups[c.group].pel :
                  clock - st.groups[c.group].pel[id].time >= c.minIdle}
  IN /\ c.name = "claim"
     /\ IF ~HasGroup(st, c.group) THEN Called(c, st) /\ Fails(c) /\ UNCHANGED seen
        ELSE /\ Called(c, claim.st) /\ Answers(c, claim.out)
             /\ SeenBy(c.group, c.consumer, got)

Tick ==
  /\ clock < MaxClock
  /\ clock' = clock + 1
  /\ UNCHANGED <<script, st, op, calls, seen>>

Next ==
  \/ \E c \in Scripts[script] :
       \/ XAdd(c) \/ XTrim(c) \/ XDel(c) \/ XLen(c) \/ XRange(c) \/ XRead(c)
       \/ XGroupCreate(c) \/ XGroupSetID(c) \/ XGroupDestroy(c) \/ XReadGroup(c)
       \/ XAck(c) \/ XPending(c) \/ XClaim(c)
  \/ Tick

Spec == Init /\ [][Next]_vars

------------------------------------------------------------------------------
(* Properties.                                                              *)

\* The log a stream stands for: the entries that are not deleted.
Log == INSTANCE StreamLog WITH
         log <- Unpack(Active(st.chunks)),
         top <- st.last,
         groups <- [g \in DOMAIN st.groups |->
                      [cursor |-> st.groups[g].cursor, pel |-> st.groups[g].pel,
                       seen |-> seen[g]]]

\* Every call answers, and leaves, what the log would: ranges that skip chunks,
\* trims that drop chunks whole, lengths kept in counters and two pending lists
\* cannot be told from one ordered log (XADD, XTRIM, XDEL, XRANGE, XREAD and the
\* group commands of commands/stream.go).
ImplementsLog == Log!Spec

\* The length that XLEN answers is the number of entries in the chunks, each
\* chunk counts its deleted ones, live entries lie in the order of their IDs, and
\* only a chunk that has lost its entries one by one may be empty.
ChunksAgree ==
  LET live == Active(st.chunks)
  IN /\ st.length = Len(live)
     /\ \A i \in DOMAIN st.chunks :
          LET c == st.chunks[i]
          IN /\ c.deleted = Cardinality({j \in DOMAIN c.entries : c.entries[j].gone})
             /\ Len(c.entries) \in 1 .. MaxChunkEntries /\ c.used <= ChunkArenaSize
     /\ \A i \in 1 .. Len(live) - 1 : Compare(live[i].id, live[i + 1].id) < 0

\* An entry pending in a group is in the list of the consumer that owns it: an
\* acknowledgement by ID finds both (cgroup.go keeps the two by hand).
OwnerHolds ==
  \A g \in DOMAIN st.groups : LET cg == st.groups[g] IN
    \A id \in DOMAIN cg.pel : /\ cg.pel[id].owner \in DOMAIN cg.cons
                              /\ id \in cg.cons[cg.pel[id].owner]

\* A consumer's list holds only what it owns.
OnlyOwnerHolds ==
  \A g \in DOMAIN st.groups : LET cg == st.groups[g] IN
    \A c \in DOMAIN cg.cons : \A id \in cg.cons[c] :
      id \in DOMAIN cg.pel /\ cg.pel[id].owner = c
=============================================================================
