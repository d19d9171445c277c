------------------------------- MODULE MCParts -------------------------------
(* Data structures, algorithms and the publish/subscribe hub, each on an      *)
(* instance of its own: a behaviour works on one of them, chosen at the       *)
(* start, and leaves the others in their initial state.                       *)
EXTENDS Backlog, PubSub, FiniteSets

VARIABLES
  component,
  sScript, sSt, sClock, sOp, sCalls, sSeen, \* a stream
  qNodes, qCount, qOp,                      \* a quicklist
  lBuf, lN, lOp,                            \* a listpack
  zDict, zSl, zOp,                          \* a sorted set
  gTokens, gVerdicts,                       \* a glob pattern
  cA, cB, cResult                           \* two values of LCS

------------------------------------------------------------------------------

\* IDs as a command spells them.
Max         == 5
ZeroID      == <<0, 0>>
MaxID       == <<Max, Max>>
At(ms, seq) == [kind |-> "id", id |-> <<ms, seq>>]
Auto        == [kind |-> "auto"]
AutoSeq(ms) == [kind |-> "seq", id |-> <<ms, 0>>]

AddCall(spec, maxLen, approx, minID) ==
  [name |-> "add", spec |-> spec, val |-> "a", size |-> 1, maxLen |-> maxLen,
   approx |-> approx, minID |-> minID]
RangeCall(name, start, end, count) == [name |-> name, start |-> start, end |-> end, count |-> count]
ReadCall(start, count) == [name |-> "read", start |-> start, count |-> count]

EntryCalls ==
  {AddCall(Auto, 0, FALSE, ZeroID), AddCall(Auto, 2, TRUE, ZeroID), AddCall(AutoSeq(1), 0, FALSE, ZeroID),
   AddCall(At(1, 2), 1, FALSE, ZeroID), AddCall(At(2, 0), 0, FALSE, <<1, 1>>),
   [AddCall(Auto, 0, FALSE, ZeroID) EXCEPT !.size = 2, !.val = "b"],
   [name |-> "trim", maxLen |-> 1, approx |-> TRUE], [name |-> "trim", maxLen |-> 2, approx |-> FALSE],
   [name |-> "trim", maxLen |-> -1, approx |-> FALSE], [name |-> "minid", minID |-> <<1, 1>>],
   [name |-> "del", ids |-> {<<1, 0>>}], [name |-> "del", ids |-> {<<1, 1>>, <<2, 0>>}],
   [name |-> "len"], RangeCall("range", <<1, 1>>, MaxID, 0), RangeCall("range", ZeroID, <<1, 1>>, 1),
   RangeCall("revrange", MaxID, <<1, 1>>, 0), RangeCall("revrange", <<1, 1>>, ZeroID, 1),
   ReadCall(<<1, 0>>, 1)}

GroupCall(name, start) == [name |-> name, group |-> "g", start |-> start, last |-> FALSE]
NewCall(c, count, noAck) ==
  [name |-> "new", group |-> "g", consumer |-> c, start |-> ZeroID, count |-> count, noAck |-> noAck]
GroupCalls ==
  {AddCall(Auto, 0, FALSE, ZeroID), [name |-> "del", ids |-> {<<1, 0>>}],
   GroupCall("create", ZeroID), [GroupCall("create", ZeroID) EXCEPT !.last = TRUE],
   GroupCall("setid", <<1, 0>>), GroupCall("destroy", ZeroID),
   NewCall("A", 1, FALSE), NewCall("B", 0, FALSE), NewCall("B", 1, TRUE),
   [NewCall("A", 0, FALSE) EXCEPT !.name = "history"],
   [name |-> "ack", group |-> "g", ids |-> {<<1, 0>>, <<1, 1>>}],
   [name |-> "pending", group |-> "g", start |-> ZeroID, end |-> MaxID, count |-> 10, filter |-> "A"],
   [name |-> "claim", group |-> "g", consumer |-> "B", minIdle |-> 1, ids |-> {<<1, 0>>}]}

\* XREAD without COUNT.
ReadCalls == {AddCall(Auto, 0, FALSE, ZeroID), ReadCall(ZeroID, 0)}
\* An entry that does not fit into the arena of a chunk.
LargeCalls == {[AddCall(Auto, 0, FALSE, ZeroID) EXCEPT !.size = 4], AddCall(Auto, 0, FALSE, ZeroID)}

\* Which scripts a configuration runs.
CONSTANTS StreamScripts, Backward, ZMembers, Components
Script(s) == CASE s = "entries" -> EntryCalls [] s = "groups" -> GroupCalls
               [] s = "read" -> ReadCalls [] s = "large" -> LargeCalls

S == INSTANCE StreamStore WITH
       MaxChunkEntries <- 2, ChunkArenaSize <- 3, MaxWord <- Max, MaxClock <- 2,
       Scripts <- [s \in StreamScripts |-> Script(s)],
       script <- sScript, st <- sSt, clock <- sClock, op <- sOp, calls <- sCalls, seen <- sSeen

ListCalls ==
  [name : {"lpush", "rpush"}, val : {1, 2}] \cup [name : {"lpop", "rpop"}]
  \cup [name : {"lindex"}, i : -5..4] \cup [name : {"lset"}, i : {-2, 0, 2, 3}, val : {2}]
  \cup [name : {"lrange"}, start : {-3, -1, 0, 2, 3}, stop : {-2, -1, 1, 4}]

Q == INSTANCE Quicklist WITH
       NodeCapacity <- 2, MaxElements <- 5, Calls <- ListCalls,
       nodes <- qNodes, count <- qCount, op <- qOp

\* Values of no, one, two and four bytes: with two values to a digit, the length
\* of the last one takes more than one digit.
Values == {<<>>, <<1>>, <<3, 2>>, <<2, 3, 2, 1>>}
PackCalls ==
  [name : {"rpush"}, val : Values] \cup [name : {"lindex"}, i : 0..3]
  \cup [name : {"lset"}, i : 0..2, val : Values] \cup [name : {"insert"}, i : {0, 2}, val : Values]
  \cup [name : {"cut"}, i : 0..2, n : 1..2]
  \cup [name : {"find"}, val : {<<3, 2>>}, start : {0, 1}, stride : {1, 2}]

L == INSTANCE Listpack WITH
       Base <- 2, MaxElements <- 3, Calls <- PackCalls, buf <- lBuf, n <- lN, op <- lOp

ScoreCalls ==
  [name : {"add"}, member : ZMembers, score : {0, 5}] \cup [name : {"remove", "score"}, member : ZMembers]
  \cup [name : {"rank"}, member : ZMembers, reverse : BOOLEAN]
  \cup [name : {"range"}, start : {-2, 0, 1}, stop : {-1, 1}, reverse : BOOLEAN]

Z == INSTANCE Skiplist WITH
       MaxLevel <- 2, EmptyMember <- 0, Calls <- ScoreCalls, dict <- zDict, sl <- zSl, op <- zOp

G == INSTANCE Glob WITH
       Tokens <- {"star", "any", "a", "b", "escaped", "class", "range", "not", "quoted"},
       Alphabet <- {"a", "b", "*", "]"}, MaxTokens <- 4, MaxLength <- 3, maxNesting <- 1,
       tokens <- gTokens, verdicts <- gVerdicts

C == INSTANCE Lcs WITH Alphabet <- {1, 2}, MaxLength <- 5, a <- cA, b <- cB, result <- cResult

\* One channel, and a pattern that matches it.
News == [all |-> {"news"}]

------------------------------------------------------------------------------

sVars == <<sScript, sSt, sClock, sOp, sCalls, sSeen>>
qVars == <<qNodes, qCount, qOp>>
lVars == <<lBuf, lN, lOp>>
zVars == <<zDict, zSl, zOp>>
gVars == <<gTokens, gVerdicts>>
cVars == <<cA, cB, cResult>>
MCVars == <<component, vars, sVars, qVars, lVars, zVars, gVars, cVars, hubVars>>

MCInit ==
  /\ component \in Components
  /\ Init /\ S!Init /\ Q!Init /\ L!Init /\ Z!Init /\ G!Init /\ C!Init /\ HubInit
  /\ component # "stream" => sScript = CHOOSE s \in StreamScripts : TRUE

MCNext ==
  /\ UNCHANGED component
  /\ \/ /\ component = "backlog" /\ Next
        /\ UNCHANGED <<sVars, qVars, lVars, zVars, gVars, cVars, hubVars>>
     \/ /\ component = "stream" /\ S!Next
        /\ UNCHANGED <<vars, qVars, lVars, zVars, gVars, cVars, hubVars>>
     \/ /\ component = "quicklist" /\ Q!Next
        /\ UNCHANGED <<vars, sVars, lVars, zVars, gVars, cVars, hubVars>>
     \/ /\ component = "listpack" /\ L!Next
        /\ UNCHANGED <<vars, sVars, qVars, zVars, gVars, cVars, hubVars>>
     \/ /\ component = "skiplist" /\ Z!Next
        /\ UNCHANGED <<vars, sVars, qVars, lVars, gVars, cVars, hubVars>>
     \/ /\ component = "glob" /\ G!Next
        /\ UNCHANGED <<vars, sVars, qVars, lVars, zVars, cVars, hubVars>>
     \/ /\ component = "lcs" /\ C!Next
        /\ UNCHANGED <<vars, sVars, qVars, lVars, zVars, gVars, hubVars>>
     \/ /\ component = "pubsub" /\ HubNext
        /\ UNCHANGED <<vars, sVars, qVars, lVars, zVars, gVars, cVars>>

MCSpec == MCInit /\ [][MCNext]_MCVars

------------------------------------------------------------------------------

\* Redundant state agrees with what it is derived from: the offsets of the ring, the
\* counters of stream chunks and their slots, the owner of a pending entry and its
\* list, the nodes of a quicklist and its count, the bytes of a listpack and its
\* length, levels, spans and back links of a skiplist and its order.
StructuresAgree ==
  CASE component = "backlog"   -> RingInv /\ KeepsAsMuchAsFits
    [] component = "stream"    -> S!ChunksAgree /\ S!OwnerHolds
    [] component = "quicklist" -> Q!NodesFilled
    [] component = "listpack"  -> L!BufferDecodes
    [] component = "skiplist"  -> Z!TowersAgree
    [] OTHER                   -> TRUE

\* The chunked stream of datastruct/stream answers as a log of entries would.
StreamImplementsLog == S!ImplementsLog
\* Quicklist and listpack answer as a sequence would; dictionary and skiplist
\* together answer as a map ordered by score would.
StructuresImplementSpecs == Q!ImplementsList /\ L!ImplementsList /\ Z!ImplementsZSet
\* The glob matcher accepts the names a pattern stands for; LCS finds a longest
\* common subsequence, and the ranges of LCS IDX spell it.
AlgorithmsExact ==
  /\ component = "glob" => G!MatchExact
  /\ component = "lcs" => C!LongestCommon /\ C!RangesSpellIt
\* A consumer's list holds only what belongs to it.
OnlyOwnerHolds == component = "stream" => S!OnlyOwnerHolds
=============================================================================
