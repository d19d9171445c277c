---------------------------- MODULE LockingProofs ----------------------------
(***************************************************************************)
(* The locks that command handlers hold, for any number of clients.        *)
(*                                                                         *)
(* The operation lock around XREAD BLOCK, EXEC and EVAL: XREAD gives it up *)
(* and takes it back in the middle of a handler, and yet it is held        *)
(* exactly in the sections that run under it and by nobody while a         *)
(* transaction runs.                                                       *)
(*                                                                         *)
(* The stripe locks, for any number of keys and stripes: what a handler    *)
(* has read stays current under the handlers that lock, and, as long as    *)
(* different keys lie on different stripes, no handlers wait for each      *)
(* other in a circle.                                                      *)
(***************************************************************************)
EXTENDS StreamBlock, KeyLocks, TLAPS, WellFoundedInduction

-----------------------------------------------------------------------------
(* The operation lock. *)

Sections == {"parse", "fetch", "register", "refetch", "return"}

(* Who has the lock, seen from where each client is.  The writer is the    *)
(* client that is draining or in its transaction; the sections after       *)
(* ParseIDs are reached only once RLock has returned; who queues up for    *)
(* the shared side does so behind a writer.                                *)
OpLockInv ==
  /\ MutexType /\ pc \in [Clients -> Locations] /\ inTx \in [Clients -> BOOLEAN]
  /\ OpLockPaired
  /\ \A c \in Clients : writer = c <=> inTx[c] \/ pc[c] = "drain"
  /\ \A c \in Clients : inTx[c] => locked /\ pc[c] \notin {"idle", "drain"}
  /\ \A c \in Clients : pc[c] \in {"xread", "commit"} => inTx[c]
  /\ \A c \in Clients : pc[c] \in {"fetch", "register"} /\ ~inTx[c] => c \in readers
  /\ locked => writer # None /\ readers = {}
  /\ rwait # {} => writer # None

\* At the start nobody has the lock and nobody is in a section.
LEMMA OpLockStarts == Init => OpLockInv
  <1> SUFFICES ASSUME Init PROVE OpLockInv
    OBVIOUS
  <1>1. /\ readers = {} /\ rwait = {} /\ writer = None /\ ~locked
        /\ \A c \in Clients : pc[c] = "idle" /\ ~inTx[c]
    BY Zenon DEF Init, MutexInit
  <1>2. MutexType
    BY ZenonT(60) DEF Init, MutexInit, MutexType
  <1>3. pc \in [Clients -> Locations]
    BY Zenon DEF Init, Locations
  <1>4. inTx \in [Clients -> BOOLEAN]
    BY Zenon DEF Init
  <1> QED
    BY Zenon, <1>1, <1>2, <1>3, <1>4, NoneAssumption DEF OpLockInv, OpLockPaired

\* Steps that have nothing to do with the lock: XADD, DEL and XDEL.
LEMMA SameKeeps ==
  ASSUME OpLockInv, UNCHANGED <<mutex, pc, inTx>>
  PROVE  OpLockInv'
  BY Zenon DEF OpLockInv, MutexType, OpLockPaired, mutex

\* A client moves on without touching the lock.
LEMMA MoveKeeps ==
  ASSUME OpLockInv, NEW c \in Clients, NEW l \in Locations, Goto(c, l),
         UNCHANGED <<mutex, inTx>>,
         pc[c] # "drain", l \notin {"idle", "drain", "xread", "commit"},
         ~inTx[c] => (l \in Sections <=> pc[c] \in Sections),
         l \in {"fetch", "register"} /\ ~inTx[c] => c \in readers
  PROVE  OpLockInv'
  <1>1. pc' \in [Clients -> Locations] /\ \A d \in Clients : pc'[d] = IF d = c THEN l ELSE pc[d]
    BY Zenon DEF OpLockInv, Goto
  <1>2. OpLockPaired'
    BY Zenon, <1>1 DEF OpLockInv, OpLockPaired, Sections, mutex
  <1> QED
    BY Zenon, <1>1, <1>2 DEF OpLockInv, MutexType, mutex

\* BeginOp of a client outside the sections.
LEMMA TakeKeeps ==
  ASSUME OpLockInv, NEW c \in Clients, NEW l \in {"parse", "refetch", "return"},
         Goto(c, l), TakeOp(c), UNCHANGED inTx,
         pc[c] \notin Sections \cup {"drain"}
  PROVE  OpLockInv'
  <1>1. pc' \in [Clients -> Locations] /\ \A d \in Clients : pc'[d] = IF d = c THEN l ELSE pc[d]
    BY Zenon DEF OpLockInv, Goto, Locations
  <1>2. CASE inTx[c]
    <2>1. UNCHANGED mutex
      BY Zenon, <1>2 DEF TakeOp, opLocked
    <2>2. OpLockPaired'
      BY Zenon, <1>1, <1>2, <2>1 DEF OpLockInv, OpLockPaired, mutex
    <2> QED
      BY Zenon, <1>1, <1>2, <2>1, <2>2 DEF OpLockInv, MutexType, mutex
  <1>3. CASE ~inTx[c] /\ writer = None
    <2>1. readers' = readers \cup {c} /\ UNCHANGED <<rwait, writer, locked>>
      BY Zenon, <1>3 DEF TakeOp, opLocked, BeginOp
    <2>2. OpLockPaired'
      BY Zenon, <1>1, <1>3, <2>1 DEF OpLockInv, OpLockPaired, Sections
    <2> QED
      BY Zenon, <1>1, <1>3, <2>1, <2>2 DEF OpLockInv, MutexType
  <1>4. CASE ~inTx[c] /\ writer # None
    <2>1. rwait' = rwait \cup {c} /\ UNCHANGED <<readers, writer, locked>>
      BY Zenon, <1>4 DEF TakeOp, opLocked, BeginOp
    <2>2. OpLockPaired'
      BY <1>1, <1>4, <2>1 DEF OpLockInv, OpLockPaired, Sections
    <2> QED
      BY Zenon, <1>1, <1>4, <2>1, <2>2 DEF OpLockInv, MutexType
  <1> QED
    BY Zenon, <1>2, <1>3, <1>4

\* EndOp of a client whose RLock has returned.
LEMMA DropKeeps ==
  ASSUME OpLockInv, NEW c \in Clients, NEW l \in {"park", "unpark", "commit", "idle"},
         Goto(c, l), DropOp(c), HasOp(c), UNCHANGED inTx, pc[c] \in Sections,
         l = "commit" => inTx[c], l = "idle" => ~inTx[c]
  PROVE  OpLockInv'
  <1>1. pc' \in [Clients -> Locations] /\ \A d \in Clients : pc'[d] = IF d = c THEN l ELSE pc[d]
    BY Zenon DEF OpLockInv, Goto, Locations
  <1>2. CASE inTx[c]
    <2>1. UNCHANGED mutex
      BY Zenon, <1>2 DEF DropOp, opLocked
    <2>2. OpLockPaired'
      BY Zenon, <1>1, <1>2, <2>1 DEF OpLockInv, OpLockPaired, mutex
    <2> QED
      BY Zenon, <1>1, <1>2, <2>1, <2>2 DEF OpLockInv, MutexType, mutex, Sections
  <1>3. CASE ~inTx[c]
    <2>1. readers' = readers \ {c} /\ UNCHANGED <<rwait, writer, locked>>
      BY Zenon, <1>3 DEF DropOp, opLocked, EndOp
    <2>2. c \in readers
      BY Zenon, <1>3 DEF HasOp, opLocked
    <2>3. OpLockPaired'
      BY Zenon, <1>1, <1>3, <2>1, <2>2 DEF OpLockInv, OpLockPaired
    <2> QED
      BY Zenon, <1>1, <1>3, <2>1, <2>3 DEF OpLockInv, MutexType, Sections
  <1> QED
    BY Zenon, <1>2, <1>3

\* BeginTx: announced, and granted when the last reader has gone.
LEMMA LockKeeps ==
  ASSUME OpLockInv, NEW c \in Clients, LockTx(c)
  PROVE  OpLockInv'
  <1>1. /\ pc[c] = "announce" /\ writer = None /\ writer' = c
        /\ UNCHANGED <<readers, rwait, locked, inTx>>
    BY Zenon DEF LockTx, Announce
  <1>2. pc' \in [Clients -> Locations] /\ \A d \in Clients : pc'[d] = IF d = c THEN "drain" ELSE pc[d]
    BY Zenon DEF OpLockInv, LockTx, Goto, Locations
  <1>3. ~inTx[c] /\ ~locked
    BY Zenon, <1>1, NoneAssumption DEF OpLockInv
  <1>4. OpLockPaired'
    BY Zenon, <1>1, <1>2 DEF OpLockInv, OpLockPaired
  <1> QED
    BY Zenon, <1>1, <1>2, <1>3, <1>4, NoneAssumption DEF OpLockInv, MutexType

\* The body starts when the lock is granted.
LEMMA RunKeeps ==
  ASSUME OpLockInv, NEW c \in Clients, RunTx(c), body[c] \in {"plain", "xread", "eval"}
  PROVE  OpLockInv'
  <1>1. /\ pc[c] = "drain" /\ writer = c /\ ~locked /\ readers = {} /\ locked' = TRUE
        /\ UNCHANGED <<readers, rwait, writer>> /\ inTx' = [inTx EXCEPT ![c] = TRUE]
    BY Zenon DEF RunTx, Granted
  <1>2. PICK l \in {"commit", "xread", "announce"} : Goto(c, l)
    BY Zenon DEF RunTx
  <1>3. pc' \in [Clients -> Locations] /\ \A d \in Clients : pc'[d] = IF d = c THEN l ELSE pc[d]
    BY Zenon, <1>2 DEF OpLockInv, Goto, Locations
  <1>4. inTx' \in [Clients -> BOOLEAN]
    BY Zenon, <1>1 DEF OpLockInv
  <1>5. inTx'[c] /\ \A d \in Clients \ {c} : inTx'[d] <=> inTx[d]
    BY Zenon, <1>1 DEF OpLockInv
  <1>6. MutexType' /\ locked'
    BY Zenon, <1>1 DEF OpLockInv, MutexType
  <1>7. OpLockPaired'
    BY Zenon, <1>1, <1>3, <1>5 DEF OpLockInv, OpLockPaired
  <1> QED
    BY Zenon, <1>1, <1>3, <1>4, <1>5, <1>6, <1>7, NoneAssumption DEF OpLockInv

\* EndTx lets in who has queued up.
LEMMA CommitKeeps ==
  ASSUME OpLockInv, NEW c \in Clients, Commit(c)
  PROVE  OpLockInv'
  <1>1. /\ pc[c] = "commit" /\ inTx' = [inTx EXCEPT ![c] = FALSE]
        /\ writer' = None /\ locked' = FALSE /\ readers' = rwait /\ rwait' = {}
    BY Zenon DEF Commit, EndTx
  <1>2. inTx[c] /\ writer = c /\ locked /\ readers = {}
    BY Zenon, <1>1 DEF OpLockInv
  <1>3. pc' \in [Clients -> Locations] /\ \A d \in Clients : pc'[d] = IF d = c THEN "idle" ELSE pc[d]
    BY Zenon DEF OpLockInv, Commit, Goto, Locations
  <1>4. inTx' \in [Clients -> BOOLEAN]
    BY Zenon, <1>1 DEF OpLockInv
  <1>5. \A d \in Clients : ~inTx'[d]
    BY Zenon, <1>1, <1>2 DEF OpLockInv
  <1>6. \A d \in Clients \ {c} : ~inTx[d] /\ pc[d] # "drain"
    BY Zenon, <1>2 DEF OpLockInv
  <1>7. MutexType' /\ ~locked'
    BY ZenonT(60), <1>1 DEF OpLockInv, MutexType
  <1>8. OpLockPaired'
    BY Zenon, <1>1, <1>2, <1>3, <1>5, <1>6 DEF OpLockInv, OpLockPaired
  <1>9. \A d \in Clients \ {c} : pc[d] \notin {"xread", "commit"}
    BY ZenonT(60), <1>6 DEF OpLockInv
  <1>10. \A d \in Clients : pc'[d] \in {"fetch", "register"} => d \in readers'
    BY Zenon, <1>3, <1>5, <1>8, <1>1 DEF OpLockPaired
  <1> QED
    BY Zenon, <1>1, <1>3, <1>4, <1>5, <1>6, <1>7, <1>8, <1>9, <1>10, NoneAssumption DEF OpLockInv

\* What a transaction runs.
BodyInv ==
  /\ pc \in [Clients -> Locations]
  /\ body \in [Clients -> Bodies \cup {"none"}]
  /\ \A c \in Clients : pc[c] \in {"announce", "drain"} => body[c] \in Bodies

\* A transaction that was begun has a body until it commits.
LEMMA BodyStep == BodyInv /\ [Next]_vars => BodyInv'
  <1> SUFFICES ASSUME BodyInv, [Next]_vars PROVE BodyInv'
    OBVIOUS
  <1>1. CASE UNCHANGED <<pc, body>>
    BY Zenon, <1>1 DEF BodyInv
  <1>2. ASSUME NEW c \in Clients, NEW l \in Locations, Goto(c, l), UNCHANGED body,
               l \in {"announce", "drain"} => pc[c] \in {"announce", "drain"}
        PROVE  BodyInv'
    BY Zenon, <1>2 DEF BodyInv, Goto
  <1>3. ASSUME NEW c \in Clients, NEW b \in Bodies, StartTx(c, b)
        PROVE  BodyInv'
    BY Zenon, <1>3 DEF StartTx, BodyInv, Goto, Locations
  <1>4. ASSUME NEW c \in Clients, Commit(c)
        PROVE  BodyInv'
    BY Zenon, <1>4 DEF Commit, BodyInv, Goto, Locations
  <1>5. ASSUME NEW c \in Clients,
               \/ StartRead(c) \/ Wake(c) \/ Poll(c) \/ Timeout(c) \/ ParseIDs(c)
               \/ FirstFetch(c) \/ Park(c) \/ Refetch(c) \/ Unpark(c) \/ Return(c)
        PROVE  BodyInv'
    <2>1. UNCHANGED body
      BY Zenon, <1>5 DEF StartRead, Xread, Wake, Poll, Timeout, ParseIDs, FirstFetch, Park, Refetch, Unpark, Return
    <2>2. \E l \in Locations \ {"announce", "drain"} : Goto(c, l)
      BY Zenon, <1>5 DEF StartRead, Xread, Wake, Poll, Timeout, ParseIDs, FirstFetch, Park, Refetch, Unpark, Return, Locations
    <2> QED
      BY Zenon, <1>2, <2>1, <2>2
  <1>6. ASSUME NEW c \in Clients, LockTx(c) \/ RunTx(c)
        PROVE  BodyInv'
    <2>1. UNCHANGED body /\ pc[c] \in {"announce", "drain"}
      BY Zenon, <1>6 DEF LockTx, RunTx
    <2>2. body[c] \in {"plain", "xread", "eval"}
      BY ZenonT(60), <2>1, StreamAssumption DEF BodyInv
    <2>3. \E l \in Locations : Goto(c, l)
      BY Zenon, <1>6, <2>2 DEF LockTx, RunTx, Locations
    <2> QED
      BY Zenon, <1>2, <2>1, <2>3
  <1>7. ASSUME NEW k \in Keys, Xadd(k) \/ Del(k) \/ \E id \in entries[k] : Xdel(k, id)
        PROVE  BodyInv'
    BY Zenon, <1>1, <1>7 DEF Xadd, Del, Xdel
  <1> QED
    BY Zenon, <1>1, <1>3, <1>4, <1>5, <1>6, <1>7 DEF Next, Run, vars

\* Every step of every client keeps the invariant.
LEMMA StepKeeps == OpLockInv /\ BodyInv /\ [Next]_vars => OpLockInv'
  <1> SUFFICES ASSUME OpLockInv, BodyInv, [Next]_vars PROVE OpLockInv'
    OBVIOUS
  <1>1. ASSUME NEW k \in Keys, Xadd(k) \/ Del(k) \/ \E id \in entries[k] : Xdel(k, id)
        PROVE  OpLockInv'
    BY Zenon, <1>1, SameKeeps DEF Xadd, Del, Xdel
  <1>2. CASE UNCHANGED vars
    BY Zenon, <1>2, SameKeeps DEF vars
  <1>3. ASSUME NEW c \in Clients, StartRead(c)
        PROVE  OpLockInv'
    <2>1. Goto(c, "parse") /\ TakeOp(c) /\ UNCHANGED inTx /\ pc[c] \in {"xread", "idle"}
      BY Zenon, <1>3 DEF StartRead, Xread
    <2> QED
      BY Zenon, <2>1, TakeKeeps DEF Sections
  <1>4. ASSUME NEW c \in Clients, Wake(c) \/ Poll(c) \/ Unpark(c)
        PROVE  OpLockInv'
    BY Zenon, <1>4, TakeKeeps DEF Wake, Poll, Unpark, Sections
  <1>5. ASSUME NEW c \in Clients, NEW b \in Bodies, StartTx(c, b)
        PROVE  OpLockInv'
    <2>1. ~inTx[c]
      BY Zenon, <1>5 DEF OpLockInv, StartTx
    <2> QED
      BY Zenon, <1>5, <2>1, MoveKeeps DEF StartTx, Sections, Locations
  <1>6. ASSUME NEW c \in Clients, ParseIDs(c) \/ FirstFetch(c) \/ Timeout(c)
        PROVE  OpLockInv'
    <2>1. CASE ParseIDs(c)
      BY Zenon, <2>1, MoveKeeps DEF ParseIDs, HasOp, opLocked, Sections, Locations
    <2>2. CASE FirstFetch(c)
      <3>1. PICK l \in {"return", "register"} : Goto(c, l)
        BY Zenon, <2>2 DEF FirstFetch
      <3>2. pc[c] = "fetch" /\ UNCHANGED <<mutex, inTx>>
        BY Zenon, <2>2 DEF FirstFetch
      <3>3. ~inTx[c] => c \in readers
        BY Zenon, <3>2 DEF OpLockInv
      <3> QED
        BY Zenon, <3>1, <3>2, <3>3, MoveKeeps DEF Sections, Locations
    <2>3. CASE Timeout(c)
      BY Zenon, <2>3, MoveKeeps DEF Timeout, Sections, Locations
    <2> QED
      BY Zenon, <1>6, <2>1, <2>2, <2>3
  <1>7. ASSUME NEW c \in Clients, Park(c) \/ Refetch(c) \/ Return(c)
        PROVE  OpLockInv'
    <2>1. CASE Park(c)
      <3>1. HasOp(c)
        BY Zenon, <2>1 DEF OpLockInv, Park, HasOp, opLocked
      <3> QED
        BY Zenon, <2>1, <3>1, DropKeeps DEF Park, Sections
    <2>2. CASE Refetch(c)
      <3>1. PICK l \in {"unpark", "park"} : Goto(c, l)
        BY Zenon, <2>2 DEF Refetch
      <3> QED
        BY Zenon, <2>2, <3>1, DropKeeps DEF Refetch, Sections
    <2>3. CASE Return(c)
      <3>1. PICK l \in {"commit", "idle"} : Goto(c, l) /\ (l = "commit" <=> inTx[c])
        BY Zenon, <2>3 DEF Return
      <3> QED
        BY Zenon, <2>3, <3>1, DropKeeps DEF Return, Sections
    <2> QED
      BY ZenonT(40), <1>7, <2>1, <2>2, <2>3
  <1>8. ASSUME NEW c \in Clients, RunTx(c)
        PROVE  OpLockInv'
    BY ZenonT(60), <1>8, RunKeeps, StreamAssumption DEF BodyInv, RunTx
  <1> QED
    BY Zenon, <1>1, <1>2, <1>3, <1>4, <1>5, <1>6, <1>7, <1>8, LockKeeps, CommitKeeps DEF Next, Run

\* OpLockInv is an invariant for all clients, streams and bodies of transactions.
THEOREM OpLockInvariant == Spec => []OpLockInv
  <1>1. Init => BodyInv
    BY DEF Init, BodyInv, Locations
  <1> QED
    BY <1>1, OpLockStarts, BodyStep, StepKeeps, PTL DEF Spec

\* Every RLock of Table.Execute is paired with one RUnlock although XREAD gives
\* the lock up while it is parked and takes it back in a deferred call.
THEOREM OpLockIsPaired == Spec => []OpLockPaired
  <1>1. OpLockInv => OpLockPaired
    BY Zenon DEF OpLockInv
  <1> QED
    BY <1>1, OpLockInvariant, PTL

\* While EXEC or EVAL runs its body nobody is inside an operation.
THEOREM TxRunsAlone == Spec => []TxExcludesOps
  <1>1. OpLockInv => TxExcludesOps
    BY Zenon DEF OpLockInv, TxExcludesOps, HasTx
  <1> QED
    BY <1>1, OpLockInvariant, PTL

\* Both together: the operation lock of Table.Execute, EXEC and EVAL is sound
\* whatever the transactions run, XREAD BLOCK included.
THEOREM OpLockIsSound == Spec => []OpLockSound
  BY OpLockIsPaired, TxRunsAlone, PTL DEF OpLockSound

(* Outside of transactions the lock is not held while a reader is parked.  *)
(* The assumption is needed: XREAD BLOCK inside EXEC parks with the        *)
(* exclusive side held.                                                    *)
QuietTx == \A c \in Clients : inTx[c] => pc[c] \in {"commit", "announce"}

\* A transaction without XREAD goes from its start to its commit.
LEMMA QuietStep ==
  ASSUME "xread" \notin Bodies
  PROVE  OpLockInv /\ BodyInv /\ QuietTx /\ [Next]_vars => QuietTx'
  <1> SUFFICES ASSUME OpLockInv, BodyInv, QuietTx, [Next]_vars PROVE QuietTx'
    OBVIOUS
  <1>1. CASE UNCHANGED <<pc, inTx>>
    BY Zenon, <1>1 DEF QuietTx
  <1>2. ASSUME NEW c \in Clients, NEW l, Goto(c, l), UNCHANGED inTx, ~inTx[c]
        PROVE  QuietTx'
    BY Zenon, <1>2 DEF QuietTx, OpLockInv, Goto
  <1>3. ASSUME NEW c \in Clients, Commit(c)
        PROVE  QuietTx'
    BY Zenon, <1>3 DEF Commit, QuietTx, OpLockInv, Goto
  <1>4. ASSUME NEW c \in Clients, RunTx(c)
        PROVE  QuietTx'
    <2>1. body[c] \in {"plain", "eval"}
      BY Zenon, <1>4, StreamAssumption DEF BodyInv, RunTx
    <2>2. Goto(c, "commit") \/ Goto(c, "announce")
      BY Zenon, <1>4, <2>1 DEF RunTx
    <2>3. inTx' = [inTx EXCEPT ![c] = TRUE]
      BY Zenon, <1>4 DEF RunTx
    <2> QED
      BY Zenon, <2>2, <2>3 DEF QuietTx, OpLockInv, Goto
  <1>5. ASSUME NEW c \in Clients,
               \/ StartRead(c) \/ Wake(c) \/ Poll(c) \/ Timeout(c) \/ ParseIDs(c)
               \/ FirstFetch(c) \/ Park(c) \/ Refetch(c) \/ Unpark(c) \/ Return(c)
        PROVE  QuietTx'
    <2>1. UNCHANGED inTx
      BY Zenon, <1>5 DEF StartRead, Xread, Wake, Poll, Timeout, ParseIDs, FirstFetch, Park, Refetch, Unpark, Return
    <2>2. ~inTx[c]
      BY Zenon, <1>5 DEF QuietTx, StartRead, Xread, Wake, Poll, Timeout, ParseIDs, FirstFetch, Park, Refetch, Unpark, Return
    <2>3. \E l : Goto(c, l)
      BY Zenon, <1>5 DEF StartRead, Xread, Wake, Poll, Timeout, ParseIDs, FirstFetch, Park, Refetch, Unpark, Return
    <2> QED
      BY Zenon, <1>2, <2>1, <2>2, <2>3
  <1>6. ASSUME NEW c \in Clients, LockTx(c) \/ \E b \in Bodies : StartTx(c, b)
        PROVE  QuietTx'
    <2>1. UNCHANGED inTx /\ \E l : Goto(c, l)
      BY Zenon, <1>6 DEF LockTx, StartTx
    <2>2. ~inTx[c]
      BY Zenon, <1>6, NoneAssumption DEF OpLockInv, LockTx, StartTx, Announce
    <2> QED
      BY Zenon, <1>2, <2>1, <2>2
  <1>7. ASSUME NEW k \in Keys, Xadd(k) \/ Del(k) \/ \E id \in entries[k] : Xdel(k, id)
        PROVE  QuietTx'
    BY Zenon, <1>1, <1>7 DEF Xadd, Del, Xdel
  <1> QED
    BY Zenon, <1>1, <1>3, <1>4, <1>5, <1>6, <1>7 DEF Next, Run, vars

\* "The operation lock must not be held while parked" (stream.go:583-585) holds
\* for every XREAD BLOCK that is not a command of a transaction.
THEOREM ParkedReadersHoldNoLock ==
  ASSUME "xread" \notin Bodies
  PROVE  Spec => []ParkedHoldsNoLock
  <1>1. Init => BodyInv /\ QuietTx
    BY DEF Init, BodyInv, Locations, QuietTx
  <1>2. OpLockInv /\ QuietTx => ParkedHoldsNoLock
    BY Zenon DEF OpLockInv, OpLockPaired, QuietTx, ParkedHoldsNoLock
  <1> QED
    BY <1>1, <1>2, OpLockStarts, BodyStep, StepKeeps, QuietStep, PTL DEF Spec

-----------------------------------------------------------------------------
(* The stripe locks. *)

Stripes == 0 .. NumKeyLocks - 1

\* What the command of a handler is while it works under its locks.
Shape ==
  \A p \in Procs : stage[p] \in {"lock", "write", "delsrc"} =>
    op[p] \in LockingOps /\ Len(args[p]) = IF op[p] = "rmw" THEN 1 ELSE 2

\* Nothing is held before the first LockKey or by commands that take no lock.
Idle == \A p \in Procs : stage[p] \in {"idle", "check", "loop"} => held[p] = << >>

\* held and keyLocks agree.
HeldIsMine == \A p \in Procs : \A i \in 1 .. Len(held[p]) : holder[Stripe[held[p][i]]] = p
MineIsHeld ==
  \A p \in Procs : \A s \in Stripes :
    holder[s] = p => \E i \in 1 .. Len(held[p]) : Stripe[held[p][i]] = s

\* No stripe is held twice.
Apart ==
  \A p \in Procs : \A i, j \in 1 .. Len(held[p]) : Stripe[held[p][i]] = Stripe[held[p][j]] => i = j

\* What is still wanted is ascending and lies above all that is held.
Ascends(p) ==
  /\ \A i \in 1 .. Len(held[p]), j \in 1 .. Len(want[p]) : held[p][i] < want[p][j]
  /\ \A i, j \in 1 .. Len(want[p]) : i < j => want[p][i] < want[p][j]
Ascending == \A p \in Procs : Ascends(p)

\* Every argument is locked or is going to be; from the read on it is locked.
Covers(p) ==
  \A a \in 1 .. Len(args[p]) :
    /\ stage[p] = "lock" => \/ \E i \in 1 .. Len(held[p]) : held[p][i] = args[p][a]
                            \/ \E j \in 1 .. Len(want[p]) : want[p][j] = args[p][a]
    /\ stage[p] \in {"write", "delsrc"} => \E i \in 1 .. Len(held[p]) : held[p][i] = args[p][a]
Covered == \A p \in Procs : Covers(p)

(* The inductive invariant of the stripes. *)
StripeInv == LocksTypeOK /\ Shape /\ Idle /\ HeldIsMine /\ MineIsHeld /\ Apart /\ Ascending /\ Covered

-----------------------------------------------------------------------------
(* Types. *)

(* Starting a command (the handlers' argument parsing) leaves every        *)
(* variable with its type.                                                 *)
LEMMA BeginTypes ==
  ASSUME LocksTypeOK, NEW p \in Procs, NEW o \in AllOps, NEW as \in Seq(Names), NEW ks \in Seq(Names),
         Begin(p, o, as, ks)
  PROVE  LocksTypeOK'
  <1>1. stage' \in [Procs -> {"idle", "lock", "write", "delsrc", "check", "loop", "unlock"}]
    BY Zenon DEF LocksTypeOK, Begin, Go
  <1>2. op' \in [Procs -> AllOps \cup {"none"}]
    BY Zenon DEF LocksTypeOK, Begin
  <1>3. want' \in [Procs -> Seq(Names)]
    BY Zenon DEF LocksTypeOK, Begin
  <1>4. args' \in [Procs -> Seq(Names)]
    BY ZenonT(60) DEF LocksTypeOK, Begin
  <1>5. todo' \in [Procs -> Nat]
    BY Zenon DEF LocksTypeOK, Begin
  <1>6. runs' \in 0 .. MaxRuns
    BY StripeAssumption DEF LocksTypeOK, Begin
  <1> QED
    BY ZenonT(60), <1>1, <1>2, <1>3, <1>4, <1>5, <1>6 DEF LocksTypeOK, Begin

(* The sequences of keys a command starts with: its arguments and the      *)
(* stripes it will lock (renameGeneric, copyCommand, lmoveGeneric,         *)
(* smoveCommand and the read-modify-write handlers).                       *)
LEMMA OneKey ==
  ASSUME NEW k \in Names
  PROVE  <<k>> \in Seq(Names)
  OBVIOUS

\* A two-key command wants the same two keys it was given.
LEMMA TwoKeys ==
  ASSUME NEW a \in Names, NEW b \in Names
  PROVE  <<a, b>> \in Seq(Names) /\ LockOrder(a, b) \in Seq(Names)
  BY DEF LockOrder

\* The keys of MSET, MSETNX and DEL as a sequence.
LEMMA PairIsSeq ==
  ASSUME NEW m \in Names \X Names
  PROVE  m \in Seq(Names)
  <1>1. m = <<m[1], m[2]>>
    OBVIOUS
  <1>2. m[1] \in Names /\ m[2] \in Names
    OBVIOUS
  <1>3. <<m[1], m[2]>> \in Seq(Names)
    BY SMTT(30), <1>2
  <1> QED
    BY <1>1, <1>3, Zenon

(* LockKey moves one key from the wanted to the held ones. *)
LEMMA LockTypes ==
  ASSUME LocksTypeOK, NEW p \in Procs, LockKey(p)
  PROVE  LocksTypeOK'
  <1>1. want[p] \in Seq(Names) /\ want[p] # << >> /\ held[p] \in Seq(Names)
    BY Zenon DEF LocksTypeOK, LockKey
  <1>2. Head(want[p]) \in Names /\ Tail(want[p]) \in Seq(Names)
    BY <1>1
  <1>3. Append(held[p], Head(want[p])) \in Seq(Names)
    BY <1>1, <1>2
  <1>4. holder' \in [0 .. NumKeyLocks - 1 -> Procs \cup {Nobody}]
    BY ZenonT(60), <1>2, StripeAssumption DEF LocksTypeOK, LockKey
  <1>5. held' \in [Procs -> Seq(Names)]
    BY Zenon, <1>3 DEF LocksTypeOK, LockKey
  <1>6. want' \in [Procs -> Seq(Names)]
    BY Zenon, <1>2 DEF LocksTypeOK, LockKey
  <1> QED
    BY SMTT(60), <1>4, <1>5, <1>6 DEF LocksTypeOK, LockKey

(* UnlockKey releases the last of the held keys. *)
LEMMA UnlockTypes ==
  ASSUME LocksTypeOK, NEW p \in Procs, UnlockKey(p)
  PROVE  LocksTypeOK'
  <1>1. held[p] \in Seq(Names) /\ held[p] # << >>
    BY Zenon DEF LocksTypeOK, UnlockKey
  <1>2. SubSeq(held[p], 1, Len(held[p]) - 1) \in Seq(Names)
    BY <1>1
  <1>3. holder' \in [0 .. NumKeyLocks - 1 -> Procs \cup {Nobody}]
    BY ZenonT(60) DEF LocksTypeOK, UnlockKey
  <1>4. held' \in [Procs -> Seq(Names)]
    BY Zenon, <1>2 DEF LocksTypeOK, UnlockKey
  <1> QED
    BY SMTT(60), <1>3, <1>4 DEF LocksTypeOK, UnlockKey
(* The argument a handler reads, and the one it writes, is a key. *)
LEMMA ArgIsKey ==
  ASSUME LocksTypeOK, Shape, NEW p \in Procs, stage[p] \in {"lock", "write", "delsrc"}
  PROVE  Arg(p, 1) \in Names /\ (op[p] # "rmw" => Arg(p, 2) \in Names)
  BY DEF LocksTypeOK, Shape, Arg

(* The steps that touch no stripe. *)
LEMMA ReadTypes ==
  ASSUME LocksTypeOK, Shape, NEW p \in Procs, Read(p)
  PROVE  LocksTypeOK'
  <1>1. Arg(p, 1) \in Names
    BY Zenon, ArgIsKey DEF Read
  <1>2. read' \in [Procs -> Nat]
    BY Zenon, <1>1 DEF LocksTypeOK, Read
  <1>3. stage' \in [Procs -> {"idle", "lock", "write", "delsrc", "check", "loop", "unlock"}]
    BY ZenonT(60) DEF LocksTypeOK, Read, Go
  <1> QED
    BY Zenon, <1>2, <1>3 DEF LocksTypeOK, Read

\* Storing writes the next stamp, or the value that was read.
LEMMA StoreTypes ==
  ASSUME LocksTypeOK, NEW p \in Procs, StoreResult(p)
  PROVE  LocksTypeOK'
  <1>1. stamp + 1 \in Nat /\ read[p] \in Nat
    BY DEF LocksTypeOK
  <1>2. val' \in [Names -> Nat] /\ stamp' \in Nat
    BY Zenon, <1>1 DEF LocksTypeOK, StoreResult
  <1>3. stage' \in [Procs -> {"idle", "lock", "write", "delsrc", "check", "loop", "unlock"}]
    BY ZenonT(60) DEF LocksTypeOK, StoreResult, Go
  <1> QED
    BY Zenon, <1>2, <1>3 DEF LocksTypeOK, StoreResult

\* RENAME, LMOVE and SMOVE delete their source.
LEMMA DeleteTypes ==
  ASSUME LocksTypeOK, NEW p \in Procs, DeleteSource(p)
  PROVE  LocksTypeOK'
  BY ZenonT(60) DEF LocksTypeOK, DeleteSource, Go

\* The reply ends the command.
LEMMA AnswerTypes ==
  ASSUME LocksTypeOK, NEW p \in Procs, Answer(p)
  PROVE  LocksTypeOK'
  <1>1. << >> \in Seq(Names)
    OBVIOUS
  <1>2. args' \in [Procs -> Seq(Names)]
    BY Zenon, <1>1 DEF LocksTypeOK, Answer
  <1> QED
    BY Zenon, <1>2 DEF LocksTypeOK, Answer, Go

\* One round of the first loop of MSETNX.
LEMMA CheckTypes ==
  ASSUME LocksTypeOK, NEW p \in Procs, CheckAbsent(p)
  PROVE  LocksTypeOK'
  <1>0. todo \in [Procs -> Nat] /\ todo[p] + 1 \in Nat
    BY DEF LocksTypeOK
  <1>1. todo' \in [Procs -> Nat]
    <2>1. todo' = [todo EXCEPT ![p] = 0] \/ todo' = [todo EXCEPT ![p] = todo[p] + 1]
      BY Zenon DEF CheckAbsent
    <2> QED
      BY <1>0, <2>1
  <1>2. stage' \in [Procs -> {"idle", "lock", "write", "delsrc", "check", "loop", "unlock"}]
    BY ZenonT(60) DEF LocksTypeOK, CheckAbsent, Go
  <1> QED
    BY SMTT(60), <1>1, <1>2 DEF LocksTypeOK, CheckAbsent

\* One round of the loop of DEL, MSET or MSETNX.
LEMMA LoopTypes ==
  ASSUME LocksTypeOK, NEW p \in Procs, Loop(p)
  PROVE  LocksTypeOK'
  <1>0. todo \in [Procs -> Nat] /\ todo[p] + 1 \in Nat /\ stamp + 1 \in Nat
    BY DEF LocksTypeOK
  <1>1. todo' \in [Procs -> Nat]
    <2>1. todo' = todo \/ todo' = [todo EXCEPT ![p] = todo[p] + 1]
      BY Zenon DEF Loop
    <2> QED
      BY Zenon, <1>0, <2>1
  <1>2. stage' \in [Procs -> {"idle", "lock", "write", "delsrc", "check", "loop", "unlock"}]
    BY ZenonT(60) DEF LocksTypeOK, Loop, Go
  <1>3. val' \in [Names -> Nat] /\ stamp' \in Nat
    <2> DEFINE k == Arg(p, todo[p] + 1)
    <2>1. \/ val' = val /\ stamp' = stamp
          \/ val' = [val EXCEPT ![k] = 0] /\ stamp' = stamp
          \/ val' = [val EXCEPT ![k] = stamp + 1] /\ stamp' = stamp + 1
      BY Zenon DEF Loop
    <2> QED
      BY SMTT(60), <1>0, <2>1 DEF LocksTypeOK
  <1> QED
    BY Zenon, <1>1, <1>2, <1>3 DEF LocksTypeOK, Loop
-----------------------------------------------------------------------------
(* The inductive invariant. *)

(* A step that neither locks nor unlocks leaves held and keyLocks agreeing. *)
LEMMA LocksUntouched ==
  ASSUME StripeInv, UNCHANGED <<holder, held>>
  PROVE  HeldIsMine' /\ MineIsHeld' /\ Apart'
  BY DEF StripeInv, HeldIsMine, MineIsHeld, Apart

(* A handler is not disturbed by a step that leaves its own state alone. *)
LEMMA Bystander ==
  ASSUME StripeInv, NEW q \in Procs, stage'[q] = stage[q], held'[q] = held[q], want'[q] = want[q],
         args'[q] = args[q]
  PROVE  Ascends(q)' /\ Covers(q)'
  <1>1. Ascends(q) /\ Covers(q)
    BY Zenon DEF StripeInv, Ascending, Covered
  <1> QED
    BY Zenon, <1>1 DEF Ascends, Covers

(* A command starts with nothing locked, wanting its keys in ascending     *)
(* order.                                                                  *)
LEMMA BeginInv ==
  ASSUME StripeInv, NEW p \in Procs, NEW o \in AllOps, NEW as \in Seq(Names), NEW ks \in Seq(Names),
         Begin(p, o, as, ks),
         o \in LockingOps => Len(as) = IF o = "rmw" THEN 1 ELSE 2,
         o \in LockingOps => \A a \in 1 .. Len(as) : \E j \in 1 .. Len(ks) : ks[j] = as[a],
         \A i, j \in 1 .. Len(ks) : i < j => ks[i] < ks[j]
  PROVE  StripeInv'
  <1>1. LocksTypeOK'
    BY ZenonT(60), BeginTypes DEF StripeInv
  <1>2. /\ stage' = [stage EXCEPT ![p] = IF o \in LockingOps THEN "lock" ELSE IF o = "msetnx" THEN "check" ELSE "loop"]
        /\ op' = [op EXCEPT ![p] = o] /\ args' = [args EXCEPT ![p] = as]
        /\ want' = [want EXCEPT ![p] = ks] /\ holder' = holder /\ held' = held /\ stage[p] = "idle"
    BY Zenon DEF Begin, Go
  <1>3. /\ stage \in [Procs -> {"idle", "lock", "write", "delsrc", "check", "loop", "unlock"}]
        /\ op \in [Procs -> AllOps \cup {"none"}] /\ DOMAIN args = Procs /\ DOMAIN want = Procs
    BY SMTT(60) DEF StripeInv, LocksTypeOK
  <1>4. held[p] = << >> /\ Len(held[p]) = 0
    BY <1>2 DEF StripeInv, Idle
  <1>5. Shape'
    BY ZenonT(60), <1>2, <1>3 DEF StripeInv, Shape
  <1>6. Idle'
    BY Zenon, <1>2, <1>3, <1>4 DEF StripeInv, Idle
  <1>7. want'[p] = ks /\ args'[p] = as /\ held'[p] = << >> /\ Len(held'[p]) = 0
        /\ (stage'[p] = "lock" => o \in LockingOps) /\ ~(stage'[p] \in {"write", "delsrc"})
    BY Zenon, <1>2, <1>3, <1>4
  <1>8. Ascends(p)'
    BY <1>7 DEF Ascends
  <1>9. Covers(p)'
    BY ZenonT(60), <1>7 DEF Covers
  <1>10. ASSUME NEW q \in Procs, q # p PROVE Ascends(q)' /\ Covers(q)'
    BY ZenonT(60), <1>2, <1>3, <1>10, Bystander
  <1> QED
    BY Zenon, <1>1, <1>2, <1>5, <1>6, <1>8, <1>9, <1>10, LocksUntouched DEF StripeInv, Ascending, Covered
(* Every way a command starts (LocksNext's first three disjuncts). *)
LEMMA BeginOneInv ==
  ASSUME StripeInv, NEW p \in Procs, NEW k \in Names, BeginOne(p, k)
  PROVE  StripeInv'
  <1>1. "rmw" \in AllOps /\ <<k>> \in Seq(Names)
    BY Zenon, OneKey DEF AllOps
  <1>2. Len(<<k>>) = 1
    OBVIOUS
  <1>3. \A a \in 1 .. Len(<<k>>) : \E j \in 1 .. Len(<<k>>) : <<k>>[j] = <<k>>[a]
    OBVIOUS
  <1>4. \A i, j \in 1 .. Len(<<k>>) : i < j => <<k>>[i] < <<k>>[j]
    BY <1>2
  <1> QED
    BY ZenonT(60), <1>1, <1>2, <1>3, <1>4, BeginInv DEF BeginOne

\* RENAME, COPY, LMOVE and SMOVE want two different keys, the lower first.
LEMMA BeginTwoInv ==
  ASSUME StripeInv, NEW p \in Procs, NEW o \in AllOps, NEW a \in Names, NEW b \in Names,
         BeginTwo(p, o, a, b)
  PROVE  StripeInv'
  <1> DEFINE as == <<a, b>>
             ks == LockOrder(a, b)
  <1>1. as \in Seq(Names) /\ ks \in Seq(Names)
    BY Zenon, TwoKeys
  <1>2. Len(as) = 2 /\ o # "rmw" /\ Begin(p, o, as, ks)
    BY Zenon DEF BeginTwo
  <1>3. \A i \in 1 .. Len(as) : \E j \in 1 .. Len(ks) : ks[j] = as[i]
    BY DEF LockOrder
  <1>4. a \in Nat /\ b \in Nat /\ a # b
    BY Zenon, StripeAssumption DEF BeginTwo
  <1>5. \A i, j \in 1 .. Len(ks) : i < j => ks[i] < ks[j]
    <2>1. CASE a > b
      BY <1>4, <2>1 DEF LockOrder
    <2>2. CASE ~(a > b)
      BY <1>4, <2>2 DEF LockOrder
    <2> QED
      BY Zenon, <2>1, <2>2
  <1> HIDE DEF as, ks
  <1> QED
    BY ZenonT(60), <1>1, <1>2, <1>3, <1>5, BeginInv

\* DEL, MSET and MSETNX want no key.
LEMMA BeginManyInv ==
  ASSUME StripeInv, NEW p \in Procs, NEW o \in AllOps, NEW as \in Seq(Names), BeginMany(p, o, as)
  PROVE  StripeInv'
  <1>1. << >> \in Seq(Names) /\ Len(<< >>) = 0
    OBVIOUS
  <1>2. \A i, j \in 1 .. Len(<< >>) : i < j => << >>[i] < << >>[j]
    BY <1>1
  <1>3. o \notin LockingOps /\ Begin(p, o, as, << >>)
    BY ZenonT(60) DEF BeginMany
  <1> QED
    BY ZenonT(60), <1>1, <1>2, <1>3, BeginInv

(* What is held lies on a stripe. *)
LEMMA HeldStripes ==
  ASSUME LocksTypeOK
  PROVE  \A q \in Procs : \A i \in 1 .. Len(held[q]) : Stripe[held[q][i]] \in Stripes
  <1> SUFFICES ASSUME NEW q \in Procs, NEW i \in 1 .. Len(held[q])
               PROVE  Stripe[held[q][i]] \in Stripes
    OBVIOUS
  <1>1. held[q] \in Seq(Names)
    BY Zenon DEF LocksTypeOK
  <1>2. held[q][i] \in Names
    BY <1>1
  <1> QED
    BY <1>2, StripeAssumption, Zenon DEF Stripes

(* LockKey takes the lowest wanted key, which no held stripe is the one of. *)
LEMMA LockInv ==
  ASSUME StripeInv, NEW p \in Procs, LockKey(p)
  PROVE  StripeInv'
  <1> DEFINE k == Head(want[p])
             n == Len(held[p])
             h == Append(held[p], k)
             w == Tail(want[p])
  <1>1. want[p] \in Seq(Names) /\ want[p] # << >> /\ held[p] \in Seq(Names)
    BY Zenon DEF StripeInv, LocksTypeOK, LockKey
  <1>2. k \in Names /\ Stripe[k] \in Stripes /\ n \in Nat /\ p # Nobody
    <2>1. k \in Names /\ n \in Nat
      BY <1>1
    <2> QED
      BY <2>1, StripeAssumption, Zenon DEF Stripes
  <1>3. Len(h) = n + 1 /\ h[n + 1] = k /\ \A i \in 1 .. n : h[i] = held[p][i]
    BY <1>1, <1>2
  <1>4. /\ Len(w) = Len(want[p]) - 1 /\ Len(want[p]) \in Nat /\ Len(want[p]) >= 1 /\ want[p][1] = k
        /\ \A j \in 1 .. Len(w) : w[j] = want[p][j + 1]
    BY <1>1
  <1>5. /\ held' = [held EXCEPT ![p] = h] /\ want' = [want EXCEPT ![p] = w]
        /\ holder' = [holder EXCEPT ![Stripe[k]] = p] /\ holder[Stripe[k]] = Nobody
        /\ stage' = stage /\ op' = op /\ args' = args /\ stage[p] = "lock"
    BY Zenon DEF LockKey
  <1>6. LocksTypeOK'
    BY Zenon, LockTypes DEF StripeInv
  <1>7. /\ DOMAIN held = Procs /\ DOMAIN want = Procs /\ holder \in [Stripes -> Procs \cup {Nobody}]
        /\ \A q \in Procs : \A i \in 1 .. Len(held[q]) : Stripe[held[q][i]] \in Stripes
    BY ZenonT(60), HeldStripes DEF StripeInv, LocksTypeOK, Stripes
  <1> HIDE DEF h, w, k, n
  <1>8. /\ held'[p] = h /\ want'[p] = w
        /\ \A q \in Procs : q # p => held'[q] = held[q] /\ want'[q] = want[q]
    BY Zenon, <1>5, <1>7
  <1>9. Shape'
    BY Zenon, <1>5 DEF StripeInv, Shape
  <1>10. Idle'
    BY Zenon, <1>5, <1>8 DEF StripeInv, Idle
  <1>11. HeldIsMine'
    <2> SUFFICES ASSUME NEW q \in Procs, NEW i \in 1 .. Len(held'[q])
                 PROVE  holder'[Stripe[held'[q][i]]] = q
      BY Zenon DEF HeldIsMine
    <2>1. CASE q # p
      <3>1. holder[Stripe[held[q][i]]] = q /\ held'[q] = held[q] /\ Stripe[held[q][i]] \in Stripes
        BY Zenon, <2>1, <1>7, <1>8 DEF StripeInv, HeldIsMine
      <3>2. q # Nobody
        BY Zenon, StripeAssumption
      <3> QED
        BY Zenon, <3>1, <3>2, <1>5, <1>7
    <2>2. CASE q = p /\ i \in 1 .. n
      <3>1. holder[Stripe[held[p][i]]] = p /\ Stripe[held[p][i]] \in Stripes
        BY Zenon, <2>2, <1>7 DEF StripeInv, HeldIsMine, n
      <3> QED
        BY SMTT(60), <2>2, <3>1, <1>2, <1>3, <1>5, <1>7, <1>8
    <2>3. CASE q = p /\ i = n + 1
      BY SMTT(60), <2>3, <1>2, <1>3, <1>5, <1>7, <1>8
    <2> QED
      BY SMTT(30), <2>1, <2>2, <2>3, <1>2, <1>3, <1>8
  <1>12. MineIsHeld'
    <2> SUFFICES ASSUME NEW q \in Procs, NEW s \in Stripes, holder'[s] = q
                 PROVE  \E i \in 1 .. Len(held'[q]) : Stripe[held'[q][i]] = s
      BY Zenon DEF MineIsHeld, Stripes
    <2>1. CASE s = Stripe[k]
      <3>1. q = p
        BY SMTT(60), <2>1, <1>2, <1>5, <1>7
      <3>2. n + 1 \in 1 .. Len(held'[p]) /\ Stripe[held'[p][n + 1]] = s
        BY <2>1, <1>2, <1>3, <1>8
      <3> QED
        BY Zenon, <3>1, <3>2
    <2>2. CASE s # Stripe[k]
      <3>1. holder[s] = q
        BY Zenon, <2>2, <1>5, <1>7
      <3>2. PICK i \in 1 .. Len(held[q]) : Stripe[held[q][i]] = s
        BY Zenon, <3>1 DEF StripeInv, MineIsHeld
      <3>3. CASE q = p
        BY SMTT(30), <3>2, <3>3, <1>2, <1>3, <1>8 DEF n
      <3>4. CASE q # p
        BY Zenon, <3>2, <3>4, <1>8
      <3> QED
        BY Zenon, <3>3, <3>4
    <2> QED
      BY Zenon, <2>1, <2>2
  <1>13. Apart'
    <2> SUFFICES ASSUME NEW q \in Procs, NEW i \in 1 .. Len(held'[q]), NEW j \in 1 .. Len(held'[q]),
                        Stripe[held'[q][i]] = Stripe[held'[q][j]]
                 PROVE  i = j
      BY Zenon DEF Apart
    <2>1. CASE q # p
      BY Zenon, <2>1, <1>8 DEF StripeInv, Apart
    <2>2. CASE q = p
      <3>1. \A m \in 1 .. n : Stripe[held[p][m]] # Stripe[k]
        BY ZenonT(40), <1>2, <1>5 DEF StripeInv, HeldIsMine, n
      <3>2. \A l, m \in 1 .. n : Stripe[held[p][l]] = Stripe[held[p][m]] => l = m
        BY Zenon DEF StripeInv, Apart, n
      <3> QED
        BY SMTT(60), <2>2, <3>1, <3>2, <1>2, <1>3, <1>8
    <2> QED
      BY Zenon, <2>1, <2>2
  <1>14. Ascends(p)'
    <2>0. Ascends(p)
      BY Zenon DEF StripeInv, Ascending
    <2>1. \A j \in 1 .. Len(w) : k < w[j]
      BY SMTT(30), <2>0, <1>4 DEF Ascends
    <2>2. \A i \in 1 .. n, j \in 1 .. Len(w) : held[p][i] < w[j]
      BY SMTT(30), <2>0, <1>4 DEF Ascends, n
    <2>3. \A i, j \in 1 .. Len(w) : i < j => w[i] < w[j]
      BY <2>0, <1>4 DEF Ascends
    <2>4. \A i \in 1 .. Len(h), j \in 1 .. Len(w) : h[i] < w[j]
      BY SMTT(60), <2>1, <2>2, <1>2, <1>3
    <2> QED
      BY Zenon, <2>3, <2>4, <1>8 DEF Ascends
  <1>15. Covers(p)'
    <2> SUFFICES ASSUME NEW a \in 1 .. Len(args[p])
                 PROVE  \/ \E i \in 1 .. Len(h) : h[i] = args[p][a]
                        \/ \E j \in 1 .. Len(w) : w[j] = args[p][a]
      BY <1>5, <1>8 DEF Covers
    <2>0. Covers(p)
      BY Zenon DEF StripeInv, Covered
    <2>1. CASE \E i \in 1 .. n : held[p][i] = args[p][a]
      BY <2>1, <1>2, <1>3
    <2>2. CASE \E j \in 1 .. Len(want[p]) : want[p][j] = args[p][a]
      <3>1. PICK j \in 1 .. Len(want[p]) : want[p][j] = args[p][a]
        BY Zenon, <2>2
      <3>2. CASE j = 1
        BY SMTT(60), <3>1, <3>2, <1>2, <1>3, <1>4
      <3>3. CASE j # 1
        <4>1. j - 1 \in 1 .. Len(w) /\ w[j - 1] = args[p][a]
          BY SMTT(60), <3>1, <3>3, <1>4
        <4> QED
          BY Zenon, <4>1
      <3> QED
        BY Zenon, <3>2, <3>3
    <2> QED
      BY SMTT(60), <2>0, <2>1, <2>2, <1>5 DEF Covers, n
  <1>16. ASSUME NEW q \in Procs, q # p PROVE Ascends(q)' /\ Covers(q)'
    BY SMTT(60), <1>5, <1>8, <1>16, Bystander
  <1> QED
    BY SMTT(60), <1>6, <1>9, <1>10, <1>11, <1>12, <1>13, <1>14, <1>15, <1>16 DEF StripeInv, Ascending, Covered
(* UnlockKey releases the last of the held keys, whose stripe is none of   *)
(* the others'.                                                            *)
LEMMA UnlockInv ==
  ASSUME StripeInv, NEW p \in Procs, UnlockKey(p)
  PROVE  StripeInv'
  <1> DEFINE n == Len(held[p])
             z == Stripe[held[p][n]]
             h == SubSeq(held[p], 1, n - 1)
  <1>1. held[p] \in Seq(Names) /\ held[p] # << >>
    BY Zenon DEF StripeInv, LocksTypeOK, UnlockKey
  <1>2. n \in Nat /\ n \in 1 .. Len(held[p]) /\ p # Nobody
    BY <1>1, StripeAssumption
  <1>3. Len(h) = n - 1 /\ \A i \in 1 .. n - 1 : h[i] = held[p][i]
    BY SMTT(30), <1>1, <1>2
  <1>4. /\ held' = [held EXCEPT ![p] = h] /\ holder' = [holder EXCEPT ![z] = Nobody]
        /\ stage' = stage /\ op' = op /\ args' = args /\ want' = want /\ stage[p] = "unlock"
    BY SMTT(60) DEF UnlockKey
  <1>5. LocksTypeOK'
    BY ZenonT(40), UnlockTypes DEF StripeInv
  <1>6. /\ DOMAIN held = Procs /\ holder \in [Stripes -> Procs \cup {Nobody}]
        /\ \A q \in Procs : \A i \in 1 .. Len(held[q]) : Stripe[held[q][i]] \in Stripes
    BY ZenonT(60), HeldStripes DEF StripeInv, LocksTypeOK, Stripes
  <1>7. z \in Stripes /\ holder[z] = p
    BY Zenon, <1>2, <1>6 DEF StripeInv, HeldIsMine
  <1>8. \A i \in 1 .. n - 1 : Stripe[held[p][i]] # z
    <2> SUFFICES ASSUME NEW i \in 1 .. n - 1, Stripe[held[p][i]] = z PROVE FALSE
      OBVIOUS
    <2>1. i \in 1 .. n /\ i # n
      BY <1>2
    <2>2. i = n
      BY Zenon, <2>1, <1>2 DEF StripeInv, Apart
    <2> QED
      BY Zenon, <2>1, <2>2
  <1> HIDE DEF h, z
  <1>9. held'[p] = h /\ \A q \in Procs : q # p => held'[q] = held[q]
    BY Zenon, <1>4, <1>6
  <1>10. Shape'
    BY Zenon, <1>4 DEF StripeInv, Shape
  <1>11. Idle'
    BY Zenon, <1>4, <1>9 DEF StripeInv, Idle
  <1>12. HeldIsMine'
    <2> SUFFICES ASSUME NEW q \in Procs, NEW i \in 1 .. Len(held'[q])
                 PROVE  holder'[Stripe[held'[q][i]]] = q
      BY ZenonT(40) DEF HeldIsMine
    <2>1. CASE q # p
      <3>1. holder[Stripe[held[q][i]]] = q /\ held'[q] = held[q] /\ Stripe[held[q][i]] \in Stripes
        BY SMTT(60), <2>1, <1>6, <1>9 DEF StripeInv, HeldIsMine
      <3> QED
        BY SMTT(60), <2>1, <3>1, <1>4, <1>6, <1>7
    <2>2. CASE q = p
      <3>1. i \in 1 .. n - 1 /\ i \in 1 .. Len(held[p]) /\ held'[p][i] = held[p][i]
        BY SMTT(60), <2>2, <1>2, <1>3, <1>9
      <3>2. holder[Stripe[held[p][i]]] = p /\ Stripe[held[p][i]] \in Stripes /\ Stripe[held[p][i]] # z
        BY SMTT(60), <3>1, <1>6, <1>8 DEF StripeInv, HeldIsMine
      <3> QED
        BY SMTT(60), <2>2, <3>1, <3>2, <1>4, <1>6
    <2> QED
      BY SMTT(60), <2>1, <2>2
  <1>13. MineIsHeld'
    <2> SUFFICES ASSUME NEW q \in Procs, NEW s \in Stripes, holder'[s] = q
                 PROVE  \E i \in 1 .. Len(held'[q]) : Stripe[held'[q][i]] = s
      BY ZenonT(40) DEF MineIsHeld, Stripes
    <2>1. s # z /\ holder[s] = q
      BY SMTT(60), <1>4, <1>6, <1>7, StripeAssumption
    <2>2. PICK i \in 1 .. Len(held[q]) : Stripe[held[q][i]] = s
      BY Zenon, <2>1 DEF StripeInv, MineIsHeld
    <2>3. CASE q = p
      <3>1. i # n
        BY Zenon, <2>1, <2>2, <2>3 DEF z
      <3> QED
        BY SMTT(60), <2>2, <2>3, <3>1, <1>2, <1>3, <1>9
    <2>4. CASE q # p
      BY SMTT(60), <2>2, <2>4, <1>9
    <2> QED
      BY ZenonT(40), <2>3, <2>4
  <1>14. Apart'
    <2> SUFFICES ASSUME NEW q \in Procs, NEW i \in 1 .. Len(held'[q]), NEW j \in 1 .. Len(held'[q]),
                        Stripe[held'[q][i]] = Stripe[held'[q][j]]
                 PROVE  i = j
      BY ZenonT(40) DEF Apart
    <2>1. CASE q # p
      BY SMTT(60), <2>1, <1>9 DEF StripeInv, Apart
    <2>2. CASE q = p
      <3>1. i \in 1 .. n /\ j \in 1 .. n /\ held'[p][i] = held[p][i] /\ held'[p][j] = held[p][j]
        BY SMTT(60), <2>2, <1>2, <1>3, <1>9
      <3> QED
        BY SMTT(60), <2>2, <3>1 DEF StripeInv, Apart
    <2> QED
      BY ZenonT(40), <2>1, <2>2
  <1>15. Ascends(p)'
    <2>0. Ascends(p)
      BY ZenonT(40) DEF StripeInv, Ascending
    <2> QED
      BY SMTT(60), <2>0, <1>2, <1>3, <1>4, <1>9 DEF Ascends
  <1>16. Covers(p)'
    BY Zenon, <1>4 DEF Covers
  <1>17. ASSUME NEW q \in Procs, q # p PROVE Ascends(q)' /\ Covers(q)'
    BY SMTT(60), <1>4, <1>9, <1>17, Bystander
  <1> QED
    BY Zenon, <1>5, <1>10, <1>11, <1>12, <1>13, <1>14, <1>15, <1>16, <1>17 DEF StripeInv, Ascending, Covered
(* A step of p that leaves the stripes, and the keys p holds and wants, as *)
(* they are keeps the invariant if p's own label still fits them.          *)
LEMMA QuietInv ==
  ASSUME StripeInv, LocksTypeOK', NEW p \in Procs, UNCHANGED <<holder, held, want>>,
         \A q \in Procs : q # p => stage'[q] = stage[q] /\ op'[q] = op[q] /\ args'[q] = args[q],
         stage'[p] \in {"lock", "write", "delsrc"} =>
           op'[p] \in LockingOps /\ Len(args'[p]) = IF op'[p] = "rmw" THEN 1 ELSE 2,
         stage'[p] \in {"idle", "check", "loop"} => held[p] = << >>,
         Covers(p)'
  PROVE  StripeInv'
  <1>1. Shape'
    BY Zenon DEF StripeInv, Shape
  <1>2. Idle'
    BY Zenon DEF StripeInv, Idle
  <1>3. ASSUME NEW q \in Procs PROVE Ascends(q)'
    BY Zenon DEF StripeInv, Ascending, Ascends
  <1>4. ASSUME NEW q \in Procs, q # p PROVE Covers(q)'
    BY SMTT(60), <1>4, Bystander
  <1> QED
    BY SMTT(60), <1>1, <1>2, <1>3, <1>4, LocksUntouched DEF StripeInv, Ascending, Covered

(* The read happens with every argument locked, since nothing is wanted. *)
LEMMA ReadInv ==
  ASSUME StripeInv, NEW p \in Procs, Read(p)
  PROVE  StripeInv'
  <1>1. LocksTypeOK'
    BY Zenon, ReadTypes DEF StripeInv
  <1>2. /\ stage[p] = "lock" /\ want[p] = << >> /\ Len(want[p]) = 0
        /\ stage' = [stage EXCEPT ![p] = "unlock"] \/ stage' = [stage EXCEPT ![p] = "write"]
        /\ UNCHANGED <<holder, held, want, op, args>>
    BY Zenon DEF Read, Go
  <1>3. /\ stage'[p] = "unlock" \/ stage'[p] = "write"
        /\ \A q \in Procs : q # p => stage'[q] = stage[q]
    BY SMTT(60), <1>2 DEF StripeInv, LocksTypeOK
  <1>4. op[p] \in LockingOps /\ Len(args[p]) = IF op[p] = "rmw" THEN 1 ELSE 2
    BY Zenon, <1>2 DEF StripeInv, Shape
  <1>5. Covers(p)'
    <2>1. \A a \in 1 .. Len(args[p]) : \E i \in 1 .. Len(held[p]) : held[p][i] = args[p][a]
      <3>1. Covers(p)
        BY Zenon DEF StripeInv, Covered
      <3> QED
        BY <3>1, <1>2 DEF Covers
    <2> QED
      BY ZenonT(40), <2>1, <1>2, <1>3 DEF Covers
  <1> QED
    BY Zenon, <1>1, <1>2, <1>3, <1>4, <1>5, QuietInv

(* Storing and deleting: the handler keeps its locks until it is done. *)
LEMMA StoreInv ==
  ASSUME StripeInv, NEW p \in Procs, StoreResult(p)
  PROVE  StripeInv'
  <1>1. LocksTypeOK'
    BY ZenonT(40), StoreTypes DEF StripeInv
  <1>2. /\ stage[p] = "write"
        /\ stage' = [stage EXCEPT ![p] = "unlock"] \/ stage' = [stage EXCEPT ![p] = "delsrc"]
        /\ UNCHANGED <<holder, held, want, op, args>>
    BY Zenon DEF StoreResult, Go
  <1>3. /\ stage'[p] = "unlock" \/ stage'[p] = "delsrc"
        /\ \A q \in Procs : q # p => stage'[q] = stage[q]
    BY Zenon, <1>2 DEF StripeInv, LocksTypeOK
  <1>4. op[p] \in LockingOps /\ Len(args[p]) = IF op[p] = "rmw" THEN 1 ELSE 2
    BY SMTT(60), <1>2 DEF StripeInv, Shape
  <1>5. Covers(p)'
    <2>1. Covers(p)
      BY ZenonT(40) DEF StripeInv, Covered
    <2> QED
      BY SMTT(60), <2>1, <1>2, <1>3 DEF Covers
  <1> QED
    BY SMTT(60), <1>1, <1>2, <1>3, <1>4, <1>5, QuietInv

\* Deleting the source happens under both locks.
LEMMA DeleteInv ==
  ASSUME StripeInv, NEW p \in Procs, DeleteSource(p)
  PROVE  StripeInv'
  <1>1. LocksTypeOK'
    BY ZenonT(40), DeleteTypes DEF StripeInv
  <1>2. /\ stage' = [stage EXCEPT ![p] = "unlock"]
        /\ UNCHANGED <<holder, held, want, op, args>>
    BY Zenon DEF DeleteSource, Go
  <1>3. stage'[p] = "unlock" /\ \A q \in Procs : q # p => stage'[q] = stage[q]
    BY Zenon, <1>2 DEF StripeInv, LocksTypeOK
  <1>4. Covers(p)'
    BY SMTT(60), <1>3 DEF Covers
  <1> QED
    BY SMTT(60), <1>1, <1>2, <1>3, <1>4, QuietInv

(* Answering: the handler has nothing locked any more. *)
LEMMA AnswerInv ==
  ASSUME StripeInv, NEW p \in Procs, Answer(p)
  PROVE  StripeInv'
  <1>1. LocksTypeOK'
    BY ZenonT(40), AnswerTypes DEF StripeInv
  <1>2. /\ stage' = [stage EXCEPT ![p] = "idle"] /\ op' = [op EXCEPT ![p] = "none"]
        /\ args' = [args EXCEPT ![p] = << >>] /\ held[p] = << >>
        /\ UNCHANGED <<holder, held, want>>
    BY Zenon DEF Answer, Go
  <1>3. /\ stage'[p] = "idle"
        /\ \A q \in Procs : q # p => stage'[q] = stage[q] /\ op'[q] = op[q] /\ args'[q] = args[q]
    BY SMTT(60), <1>2 DEF StripeInv, LocksTypeOK
  <1>4. Covers(p)'
    BY Zenon, <1>3 DEF Covers
  <1> QED
    BY SMTT(60), <1>1, <1>2, <1>3, <1>4, QuietInv

(* The loops of DEL, MSET and MSETNX hold no stripe. *)
LEMMA CheckInv ==
  ASSUME StripeInv, NEW p \in Procs, CheckAbsent(p)
  PROVE  StripeInv'
  <1>1. LocksTypeOK'
    BY ZenonT(40), CheckTypes DEF StripeInv
  <1>2. /\ stage[p] = "check"
        /\ stage' = stage \/ stage' = [stage EXCEPT ![p] = "unlock"] \/ stage' = [stage EXCEPT ![p] = "loop"]
        /\ UNCHANGED <<holder, held, want, op, args>>
    BY Zenon DEF CheckAbsent, Go
  <1>3. /\ stage'[p] \in {"check", "unlock", "loop"}
        /\ \A q \in Procs : q # p => stage'[q] = stage[q]
    BY SMTT(60), <1>2 DEF StripeInv, LocksTypeOK
  <1>4. Covers(p)' /\ held[p] = << >>
    <2>1. stage'[p] # "lock" /\ stage'[p] \notin {"write", "delsrc"} /\ stage[p] \in {"idle", "check", "loop"}
      BY ZenonT(40), <1>2, <1>3
    <2> QED
      BY Zenon, <2>1 DEF Covers, StripeInv, Idle
  <1> QED
    BY SMTT(60), <1>1, <1>2, <1>3, <1>4, QuietInv

\* The loop of DEL, MSET and MSETNX.
LEMMA LoopInv ==
  ASSUME StripeInv, NEW p \in Procs, Loop(p)
  PROVE  StripeInv'
  <1>1. LocksTypeOK'
    BY ZenonT(40), LoopTypes DEF StripeInv
  <1>2. /\ stage[p] = "loop"
        /\ stage' = stage \/ stage' = [stage EXCEPT ![p] = "unlock"]
        /\ UNCHANGED <<holder, held, want, op, args>>
    BY Zenon DEF Loop, Go
  <1>3. /\ stage'[p] \in {"unlock", "loop"}
        /\ \A q \in Procs : q # p => stage'[q] = stage[q]
    BY SMTT(60), <1>2 DEF StripeInv, LocksTypeOK
  <1>4. Covers(p)' /\ held[p] = << >>
    BY Zenon, <1>2, <1>3 DEF Covers, StripeInv, Idle
  <1> QED
    BY SMTT(60), <1>1, <1>2, <1>3, <1>4, QuietInv
-----------------------------------------------------------------------------
(* The theorems. *)

\* A new database has no lock held and no command running.
LEMMA InitInv == LocksInit => StripeInv
  <1> SUFFICES ASSUME LocksInit PROVE StripeInv
    OBVIOUS
  <1>1. << >> \in Seq(Names) /\ Len(<< >>) = 0
    OBVIOUS
  <1>2. LocksTypeOK
    BY <1>1, StripeAssumption DEF LocksInit, LocksTypeOK
  <1>3. \A p \in Procs : held[p] = << >> /\ want[p] = << >> /\ stage[p] = "idle" /\ args[p] = << >>
    BY SMTT(60) DEF LocksInit
  <1>4. Shape /\ Idle
    BY Zenon, <1>3 DEF Shape, Idle
  <1>5. HeldIsMine /\ Apart
    BY <1>1, <1>3 DEF HeldIsMine, Apart
  <1>6. MineIsHeld
    BY Zenon, StripeAssumption DEF LocksInit, MineIsHeld, Stripes
  <1>7. Ascending
    BY <1>1, <1>3 DEF Ascending, Ascends
  <1>8. Covered
    BY Zenon, <1>1, <1>3 DEF Covered, Covers
  <1> QED
    BY Zenon, <1>2, <1>4, <1>5, <1>6, <1>7, <1>8 DEF StripeInv

\* Every step of a handler keeps the invariant.
LEMMA NextInv == StripeInv /\ [LocksNext]_lockVars => StripeInv'
  <1> SUFFICES ASSUME StripeInv, [LocksNext]_lockVars PROVE StripeInv'
    OBVIOUS
  <1>1. CASE UNCHANGED lockVars
    <2>1. /\ holder' = holder /\ stage' = stage /\ op' = op /\ want' = want /\ held' = held /\ args' = args
          /\ read' = read /\ todo' = todo /\ val' = val /\ stamp' = stamp /\ runs' = runs
      BY <1>1, Zenon DEF lockVars
    <2>2. LocksTypeOK'
      BY <2>1, Zenon DEF StripeInv, LocksTypeOK
    <2>3. Shape' /\ Idle'
      BY <2>1, Zenon DEF StripeInv, Shape, Idle
    <2>4. \A q \in Procs : Ascends(q)' /\ Covers(q)'
      BY Zenon, <2>1, Bystander
    <2> QED
      BY Zenon, <2>1, <2>2, <2>3, <2>4, LocksUntouched DEF StripeInv, Ascending, Covered
  <1>2. ASSUME NEW p \in Procs, NEW k \in Names, BeginOne(p, k) PROVE StripeInv'
    BY Zenon, <1>2, BeginOneInv
  <1>3. ASSUME NEW p \in Procs, NEW o \in AllOps, NEW m \in Pairs, BeginTwo(p, o, m[1], m[2])
        PROVE  StripeInv'
    <2>1. m[1] \in Names /\ m[2] \in Names
      BY Zenon, StripeAssumption
    <2> QED
      BY Zenon, <1>3, <2>1, BeginTwoInv
  <1>4. ASSUME NEW p \in Procs, NEW o \in AllOps, NEW as \in Pairs \cup {<<k>> : k \in Names},
               BeginMany(p, o, as)
        PROVE  StripeInv'
    <2>1. CASE as \in Pairs
      <3>1. as \in Names \X Names
        BY <2>1, StripeAssumption, Zenon
      <3>2. as \in Seq(Names)
        BY ZenonT(60), <3>1, PairIsSeq
      <3> QED
        BY ZenonT(60), <1>4, <3>2, BeginManyInv
    <2>2. CASE as \in {<<k>> : k \in Names}
      <3>1. as \in Seq(Names)
        BY ZenonT(60), <2>2, OneKey
      <3> QED
        BY ZenonT(90), <1>4, <3>1, BeginManyInv
    <2> QED
      BY ZenonT(60), <2>1, <2>2
  <1>5. ASSUME NEW p \in Procs, Step(p) PROVE StripeInv'
    BY <1>5, LockInv, ReadInv, StoreInv, DeleteInv, UnlockInv, AnswerInv, CheckInv, LoopInv, Zenon DEF Step
  <1> QED
    BY <1>1, <1>2, <1>3, <1>4, <1>5, Zenon DEF LocksNext, Done

(* held and keyLocks agree, no stripe is held twice, what is wanted lies   *)
(* above what is held, and a handler works under all its locks: LockKey    *)
(* and UnlockKey of sharded.go as the handlers call them.                  *)
THEOREM StripeInvariant == LocksSpec => []StripeInv
  BY InitInv, NextInv, PTL DEF LocksSpec

(* Every handler step keeps every variable within its type. *)
THEOREM TypeCorrect == LocksSpec => []LocksTypeOK
  <1>1. StripeInv => LocksTypeOK
    BY Zenon DEF StripeInv
  <1> QED
    BY <1>1, StripeInvariant, PTL

(* Two handlers that work under their locks work on different keys. *)
LEMMA ArgsApart ==
  ASSUME StripeInv, NEW p \in Procs, NEW q \in Procs, p # q,
         stage[p] \in {"write", "delsrc"}, stage[q] \in {"write", "delsrc"},
         NEW a \in 1 .. Len(args[p]), NEW b \in 1 .. Len(args[q])
  PROVE  args[p][a] # args[q][b]
  <1>1. Covers(p) /\ Covers(q)
    BY SMTT(60) DEF StripeInv, Covered
  <1>2. PICK i \in 1 .. Len(held[p]) : held[p][i] = args[p][a]
    BY SMTT(60), <1>1 DEF Covers
  <1>3. PICK j \in 1 .. Len(held[q]) : held[q][j] = args[q][b]
    BY SMTT(60), <1>1 DEF Covers
  <1>4. holder[Stripe[held[p][i]]] = p /\ holder[Stripe[held[q][j]]] = q
    BY SMTT(60) DEF StripeInv, HeldIsMine
  <1> QED
    BY Zenon, <1>2, <1>3, <1>4
(* A key that a locking handler has read and not yet stored is changed by  *)
(* no other handler that locks: sharded.go's LockKey makes the sequence    *)
(* atomic against every command but DEL, MSET and MSETNX.                  *)
LEMMA StepKeepsReads ==
  ASSUME StripeInv, LocksNext, NEW p \in Procs, stage[p] \in {"write", "delsrc"},
         val'[Arg(p, 1)] # val[Arg(p, 1)]
  PROVE  stage'[p] # stage[p] \/ \E q \in Procs : stage[q] = "loop" /\ todo'[q] # todo[q]
  <1> DEFINE Goal == stage'[p] # stage[p] \/ \E q \in Procs : stage[q] = "loop" /\ todo'[q] # todo[q]
  <1>0. /\ LocksTypeOK /\ stage \in [Procs -> {"idle", "lock", "write", "delsrc", "check", "loop", "unlock"}]
        /\ todo \in [Procs -> Nat] /\ val \in [Names -> Nat] /\ val' # val
    BY SMTT(60) DEF StripeInv, LocksTypeOK
  <1>1. PICK q \in Procs : StoreResult(q) \/ DeleteSource(q) \/ Loop(q)
    BY <1>0, ZenonT(60) DEF LocksNext, Step, Begin, BeginOne, BeginTwo, BeginMany, LockKey, Read, UnlockKey,
       Answer, CheckAbsent, Done, lockVars
  <1>2. CASE Loop(q)
    <2>1. todo' = [todo EXCEPT ![q] = todo[q] + 1] /\ stage[q] = "loop"
      BY <1>0, <1>2, Zenon DEF Loop
    <2>2. todo'[q] # todo[q]
      BY SMTT(60), <1>0, <2>1
    <2> QED
      BY Zenon, <2>1, <2>2
  <1>3. CASE q = p /\ (StoreResult(q) \/ DeleteSource(q))
    <2>1. \/ stage[p] = "write" /\ (stage' = [stage EXCEPT ![p] = "unlock"] \/ stage' = [stage EXCEPT ![p] = "delsrc"])
          \/ stage[p] = "delsrc" /\ stage' = [stage EXCEPT ![p] = "unlock"]
      BY Zenon, <1>3 DEF StoreResult, DeleteSource, Go
    <2>2. stage'[p] # stage[p]
      BY Zenon, <1>0, <2>1
    <2> QED
      BY SMTT(60), <2>2
  <1>4. CASE q # p /\ (StoreResult(q) \/ DeleteSource(q))
    <2>1. stage[q] \in {"write", "delsrc"} /\ Shape
      BY Zenon, <1>4 DEF StoreResult, DeleteSource, StripeInv
    <2>2. 1 \in 1 .. Len(args[p]) /\ 1 \in 1 .. Len(args[q])
          /\ (op[q] # "rmw" => 2 \in 1 .. Len(args[q]))
      BY SMTT(30), <2>1 DEF Shape
    <2>3. Arg(p, 1) # Arg(q, 1) /\ (op[q] # "rmw" => Arg(p, 1) # Arg(q, 2))
      BY SMTT(60), <1>4, <2>1, <2>2, ArgsApart DEF Arg
    <2>4. \/ \E v : val' = [val EXCEPT ![Arg(q, 1)] = v]
          \/ op[q] # "rmw" /\ \E v : val' = [val EXCEPT ![Arg(q, 2)] = v]
      BY Zenon, <1>4 DEF StoreResult, DeleteSource
    <2>5. Arg(p, 1) \in Names
      BY SMTT(60), <1>0, <2>1, ArgIsKey
    <2>6. val'[Arg(p, 1)] = val[Arg(p, 1)]
      BY Zenon, <1>0, <2>3, <2>4, <2>5
    <2> QED
      BY SMTT(60), <2>6
  <1> QED
    BY SMTT(60), <1>1, <1>2, <1>3, <1>4

(* The value a handler has read under its locks stays current until it has *)
(* stored its result, for any keys, any stripes and any number of clients: *)
(* the guarantee of sharded.go:51-54, DEL, MSET and MSETNX excepted.       *)
THEOREM ReadsStayCurrent == LocksSpec => ReadStaysCurrent
  <1> DEFINE Kept == \A p \in Procs :
        stage[p] \in {"write", "delsrc"} /\ val'[Arg(p, 1)] # val[Arg(p, 1)] =>
          stage'[p] # stage[p] \/ \E q \in Procs : stage[q] = "loop" /\ todo'[q] # todo[q]
  <1>1. StripeInv /\ [LocksNext]_lockVars => [Kept]_lockVars
    BY Zenon, StepKeepsReads
  <1>2. LocksSpec => []StripeInv /\ [][LocksNext]_lockVars
    BY StripeInvariant, PTL DEF LocksSpec
  <1> QED
    BY <1>1, <1>2, PTL DEF ReadStaysCurrent
-----------------------------------------------------------------------------
(* No circular wait. *)

\* The order of the keys, as the order in which the handlers lock them.
Below == {ss \in Nat \X Nat : ss[1] < ss[2]}

(* The library's ordering of the naturals. *)
LEMMA BelowIsLess == OpToRel(<, Nat) = Below
  BY Zenon DEF OpToRel, Below

(* A non-empty set of naturals has a smallest element, and a bounded one a *)
(* largest: of several waiting handlers, one waits for the highest key.    *)
LEMMA Smallest ==
  ASSUME NEW T \in SUBSET Nat, T # {}
  PROVE  \E m \in T : \A t \in T : m <= t
  <1>0. IsWellFoundedOn(Below, Nat)
    BY ZenonT(60), NatLessThanWellFounded, BelowIsLess
  <1>1. PICK m \in T : \A t \in T : ~ (<<t, m>> \in Below)
    BY ZenonT(60), <1>0, WFMin
  <1>2. ASSUME NEW t \in T PROVE m <= t
    <2>1. m \in Nat /\ t \in Nat
      OBVIOUS
    <2>2. ~ (<<t, m>> \in Below)
      BY Zenon, <1>1
    <2>3. ~ (t < m)
      BY <2>1, <2>2, Zenon DEF Below
    <2> QED BY <2>1, <2>3
  <1> QED BY Zenon, <1>2

\* The largest element, from the smallest distance to the bound.
LEMMA Largest ==
  ASSUME NEW T \in SUBSET Nat, NEW u \in T, NEW n \in Nat, \A t \in T : t <= n
  PROVE  \E m \in T : \A t \in T : t <= m
  <1> DEFINE D == {n - t : t \in T}
  <1>1. D \in SUBSET Nat
    OBVIOUS
  <1>2. n - u \in D
    OBVIOUS
  <1>3. PICK d \in D : \A e \in D : d <= e
    BY ZenonT(60), <1>1, <1>2, Smallest
  <1>4. PICK m \in T : d = n - m
    OBVIOUS
  <1>5. ASSUME NEW t \in T PROVE t <= m
    <2>1. n - t \in D
      OBVIOUS
    <2>2. d <= n - t
      BY Zenon, <1>3, <2>1
    <2> QED BY <2>2, <1>4
  <1> QED BY Zenon, <1>5

(* Different keys on different stripes: two of a command's keys never      *)
(* share a mutex, which the 1,024 stripes of keyLocks make likely but  *)
(* do not guarantee.                                                       *)
NoCollision == \A k, l \in Names : Stripe[k] = Stripe[l] => k = l

(* A handler that waits for another waits for a lower key than that one    *)
(* does, if that one waits too.                                            *)
LEMMA WaitsAscend ==
  ASSUME StripeInv, NoCollision, NEW p \in Procs, NEW q \in Procs, Waiting(p), Waiting(q),
         holder[Wanted(p)] = q
  PROVE  Head(want[p]) < Head(want[q])
  <1>1. want[p] \in Seq(Names) /\ want[q] \in Seq(Names) /\ want[p] # << >> /\ want[q] # << >>
    BY Zenon DEF StripeInv, LocksTypeOK, Waiting
  <1>2. /\ Head(want[p]) \in Names /\ Head(want[q]) = want[q][1] /\ 1 \in 1 .. Len(want[q])
    BY <1>1
  <1>3. Wanted(p) \in Stripes
    BY <1>2, StripeAssumption, Zenon DEF Stripes, Wanted
  <1>4. PICK i \in 1 .. Len(held[q]) : Stripe[held[q][i]] = Wanted(p)
    BY Zenon, <1>3 DEF StripeInv, MineIsHeld
  <1>5. held[q] \in Seq(Names)
    BY Zenon DEF StripeInv, LocksTypeOK
  <1>6. held[q][i] \in Names
    BY <1>5
  <1>7. held[q][i] = Head(want[p])
    BY <1>2, <1>4, <1>6, Zenon DEF NoCollision, Wanted
  <1>8. Ascends(q)
    BY Zenon DEF StripeInv, Ascending
  <1>9. held[q][i] < want[q][1]
    BY Zenon, <1>2, <1>8 DEF Ascends
  <1> QED
    BY Zenon, <1>2, <1>7, <1>9

(* The stripes cannot deadlock while no two keys share one: LMOVE, SMOVE,  *)
(* RENAME and COPY lock in the order of the names, "so two mirrored LMOVEs *)
(* cannot deadlock" (list_ops.go:288), whatever else runs.                 *)
THEOREM NoDeadlock ==
  ASSUME NoCollision, NEW top \in Nat, \A k \in Names : k <= top
  PROVE  LocksSpec => []NoCircularWait
  <1>1. ASSUME StripeInv PROVE NoCircularWait
    <2> SUFFICES ASSUME NEW S \in SUBSET Procs, S # {},
                        \A p \in S : Waiting(p) /\ holder[Wanted(p)] \in S
                 PROVE  FALSE
      BY Zenon DEF NoCircularWait
    <2> DEFINE T == {Head(want[p]) : p \in S}
    <2>1. \A p \in S : Head(want[p]) \in Names
      <3> TAKE p \in S
      <3>1. want[p] \in Seq(Names) /\ want[p] # << >>
        BY Zenon, <1>1 DEF StripeInv, LocksTypeOK, Waiting
      <3> QED
        BY <3>1
    <2>2. T \in SUBSET Nat /\ \A t \in T : t <= top
      BY ZenonT(60), <2>1, StripeAssumption
    <2>3. PICK u \in T : TRUE
      OBVIOUS
    <2>4. PICK m \in T : \A t \in T : t <= m
      BY ZenonT(60), <2>2, <2>3, Largest
    <2>5. PICK p \in S : m = Head(want[p])
      OBVIOUS
    <2> DEFINE q == holder[Wanted(p)]
    <2>6. q \in S /\ Waiting(p) /\ Waiting(q)
      OBVIOUS
    <2>7. Head(want[p]) < Head(want[q])
      BY Zenon, <1>1, <2>6, WaitsAscend
    <2>8. Head(want[q]) \in T /\ Head(want[q]) \in Nat /\ m \in Nat
      BY Zenon, <2>2, <2>6
    <2> QED
      BY SMTT(60), <2>4, <2>5, <2>7, <2>8
  <1> QED
    BY <1>1, StripeInvariant, PTL
=============================================================================
