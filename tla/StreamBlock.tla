----------------------------- MODULE StreamBlock -----------------------------
(***************************************************************************)
(* XREAD BLOCK (commands/stream.go:473-629) together with what it waits    *)
(* for and what waits for it: XADD and DEL of its streams, the waiter list *)
(* of a stream object, the operation lock it gives up while it is parked,  *)
(* and EXEC and EVAL, which take that lock exclusively.                    *)
(*                                                                         *)
(* An entry is its ID.  IDs come from the clock, so a stream that is       *)
(* deleted and created again continues above its old IDs.  A stream object *)
(* is identified by the ID of its first entry.                             *)
(***************************************************************************)
EXTENDS RWMutex, Integers, Sequences, FiniteSets

CONSTANTS
  Keys,
  ReadLists,  \* the lists of keys XREAD is called with
  Counts,     \* the COUNT options it is called with; 0: none given
  Blocks,     \* subset of {"never", "forever", "timed"}: no BLOCK, BLOCK 0 and BLOCK n
  Bodies,     \* what EXEC and EVAL run: subset of {"plain", "xread", "eval"}
  MaxId       \* bound: entries ever added

ASSUME StreamAssumption ==
  /\ ReadLists \subseteq Seq(Keys) \ {<< >>}
  /\ Counts \subseteq Nat /\ MaxId \in Nat
  /\ Blocks \subseteq {"never", "forever", "timed"}
  /\ Bodies \subseteq {"plain", "xread", "eval"}

VARIABLES
  entries,   \* Stream: the IDs of the entries at each key
  lastID,    \* Stream.lastID
  obj,       \* which Stream object is stored at each key; 0: none
  clock,     \* the last ID handed out
  pc,
  inTx,      \* Context.InTxExecution
  body,      \* what the transaction runs
  keys, start, count, block,    \* locals of xreadCommand
  reg,       \* the Stream object the client's waiter is registered on, or 0
  wake       \* whether the waiter's WakeCh holds a token

streams == <<entries, lastID, obj, clock>>
call    == <<keys, start, count, block>>
vars    == <<mutex, streams, pc, inTx, body, call, reg, wake>>

Init ==
  /\ MutexInit
  /\ entries = [k \in Keys |-> {}]
  /\ lastID = [k \in Keys |-> 0]
  /\ obj = [k \in Keys |-> 0]
  /\ clock = 0
  /\ pc = [c \in Clients |-> "idle"]
  /\ inTx = [c \in Clients |-> FALSE]
  /\ body = [c \in Clients |-> "none"]
  /\ keys = [c \in Clients |-> << >>]
  /\ start = [c \in Clients |-> << >>]
  /\ count = [c \in Clients |-> 0]
  /\ block = [c \in Clients |-> "none"]
  /\ reg = [c \in Clients |-> 0]
  /\ wake = [c \in Clients |-> FALSE]

Goto(c, l) == pc' = [pc EXCEPT ![c] = l]

(* opLocked in the code: a command run by EXEC or EVAL has no operation    *)
(* lock of its own to take or give up.                                     *)
opLocked(c) == ~inTx[c]
TakeOp(c) == IF opLocked(c) THEN BeginOp(c) ELSE UNCHANGED mutex
DropOp(c) == IF opLocked(c) THEN EndOp(c) ELSE UNCHANGED mutex
HasOp(c) == opLocked(c) => c \in readers

-----------------------------------------------------------------------------
(* The other clients.  Each command takes effect in one critical section   *)
(* of the stream, inside an operation lock that nobody may be claiming     *)
(* exclusively.                                                            *)
notifyWaiters(o) ==
  wake' = [c \in Clients |-> wake[c] \/ reg[c] = o]

Xadd(k) ==
  /\ writer = None /\ clock < MaxId
  /\ LET id == clock + 1
         o == IF obj[k] = 0 THEN id ELSE obj[k]
     IN /\ clock' = id
        /\ obj' = [obj EXCEPT ![k] = o]
        /\ entries' = [entries EXCEPT ![k] = @ \cup {id}]
        /\ lastID' = [lastID EXCEPT ![k] = id]
        /\ notifyWaiters(o)
  /\ UNCHANGED <<mutex, pc, inTx, body, call, reg>>

Del(k) ==
  /\ writer = None /\ obj[k] # 0
  /\ obj' = [obj EXCEPT ![k] = 0]
  /\ entries' = [entries EXCEPT ![k] = {}]
  /\ lastID' = [lastID EXCEPT ![k] = 0]
  /\ UNCHANGED <<mutex, clock, pc, inTx, body, call, reg, wake>>

(* XDEL marks one entry deleted; the last ID stays. *)
Xdel(k, id) ==
  /\ writer = None /\ id \in entries[k]
  /\ entries' = [entries EXCEPT ![k] = @ \ {id}]
  /\ UNCHANGED <<mutex, lastID, obj, clock, pc, inTx, body, call, reg, wake>>

-----------------------------------------------------------------------------
(* Stream.Range from lo upwards: the first n entries not below lo. *)
Range(k, lo, n) ==
  {id \in entries[k] :
     id >= lo /\ Cardinality({e \in entries[k] : lo <= e /\ e <= id}) <= n}

(* The closure fetch: Range is inclusive, so it is asked for one entry     *)
(* more than COUNT and what is not above the start is dropped.             *)
Fetch(c) ==
  {i \in DOMAIN keys[c] :
     \E id \in Range(keys[c][i], start[c][i], count[c] + 1) : id > start[c][i]}

Xread(c, ks, dollar, n, b) ==
  /\ pc[c] = IF inTx[c] THEN "xread" ELSE "idle"
  /\ keys' = [keys EXCEPT ![c] = ks]
  /\ start' = [start EXCEPT ![c] = [i \in DOMAIN ks |-> IF dollar THEN -1 ELSE 0]]
  /\ count' = [count EXCEPT ![c] = n]
  /\ block' = [block EXCEPT ![c] = b]
  /\ Goto(c, "parse")
  /\ TakeOp(c)
  /\ UNCHANGED <<streams, inTx, body, reg, wake>>

(* "$" stands for the last ID of the stream, if it exists. *)
ParseIDs(c) ==
  /\ pc[c] = "parse" /\ HasOp(c)
  /\ start' = [start EXCEPT ![c] =
                 [i \in DOMAIN @ |-> IF @[i] = -1 THEN lastID[keys[c][i]] ELSE @[i]]]
  /\ Goto(c, "fetch")
  /\ UNCHANGED <<mutex, streams, inTx, body, keys, count, block, reg, wake>>

FirstFetch(c) ==
  /\ pc[c] = "fetch"
  /\ Goto(c, IF Fetch(c) # {} \/ block[c] = "never" THEN "return" ELSE "register")
  /\ UNCHANGED <<mutex, streams, inTx, body, call, reg, wake>>

\* Mutant: the operation lock is kept while parked.
ParkLocked(c) ==
  /\ pc[c] = "register"
  /\ reg' = [reg EXCEPT ![c] = obj[keys[c][1]]]
  /\ wake' = [wake EXCEPT ![c] = FALSE]
  /\ Goto(c, "park")
  /\ UNCHANGED <<mutex, streams, inTx, body, call>>

(* RegisterWaiter on the stream at keys[0], if there is one; then EndOp. *)
Park(c) ==
  /\ pc[c] = "register"
  /\ reg' = [reg EXCEPT ![c] = obj[keys[c][1]]]
  /\ wake' = [wake EXCEPT ![c] = FALSE]
  /\ DropOp(c)
  /\ Goto(c, "park")
  /\ UNCHANGED <<streams, inTx, body, call>>

(* The select: the waiter's channel, the poll ticker, the timer. *)
Polls(c) == reg[c] = 0 \/ Len(keys[c]) > 1

Wake(c) ==
  /\ pc[c] = "park" /\ wake[c]
  /\ wake' = [wake EXCEPT ![c] = FALSE]
  /\ TakeOp(c)
  /\ Goto(c, "refetch")
  /\ UNCHANGED <<streams, inTx, body, call, reg>>

Poll(c) ==
  /\ pc[c] = "park" /\ Polls(c)
  /\ TakeOp(c)
  /\ Goto(c, "refetch")
  /\ UNCHANGED <<streams, inTx, body, call, reg, wake>>

\* Mutant: the timer is only set up when the poll ticker is not.
TimeoutUnlessPolling(c) ==
  /\ pc[c] = "park" /\ block[c] = "timed" /\ ~Polls(c)
  /\ Goto(c, "unpark")
  /\ UNCHANGED <<mutex, streams, inTx, body, call, reg, wake>>

Timeout(c) ==
  /\ pc[c] = "park" /\ block[c] = "timed"
  /\ Goto(c, "unpark")
  /\ UNCHANGED <<mutex, streams, inTx, body, call, reg, wake>>

\* Mutant: only the stream the waiter is on is looked at again.
RefetchFirst(c) ==
  /\ pc[c] = "refetch" /\ HasOp(c)
  /\ DropOp(c)
  /\ Goto(c, IF 1 \in Fetch(c) THEN "unpark" ELSE "park")
  /\ UNCHANGED <<streams, inTx, body, call, reg, wake>>

(* lockedFetch, its deferred EndOp included. *)
Refetch(c) ==
  /\ pc[c] = "refetch" /\ HasOp(c)
  /\ DropOp(c)
  /\ Goto(c, IF Fetch(c) # {} THEN "unpark" ELSE "park")
  /\ UNCHANGED <<streams, inTx, body, call, reg, wake>>

\* Mutant: the lock given up by Park is not taken back.
UnparkUnlocked(c) ==
  /\ pc[c] = "unpark"
  /\ Goto(c, "return")
  /\ UNCHANGED <<mutex, streams, inTx, body, call, reg, wake>>

(* The deferred BeginOp that pairs up with the EndOp of Table.Execute. *)
Unpark(c) ==
  /\ pc[c] = "unpark"
  /\ TakeOp(c)
  /\ Goto(c, "return")
  /\ UNCHANGED <<streams, inTx, body, call, reg, wake>>

(* UnregisterWaiter, and back in Table.Execute: EndOp, or on with EXEC. *)
Return(c) ==
  /\ pc[c] = "return" /\ HasOp(c)
  /\ reg' = [reg EXCEPT ![c] = 0]
  /\ wake' = [wake EXCEPT ![c] = FALSE]
  /\ keys' = [keys EXCEPT ![c] = << >>]
  /\ start' = [start EXCEPT ![c] = << >>]
  /\ count' = [count EXCEPT ![c] = 0]
  /\ block' = [block EXCEPT ![c] = "none"]
  /\ DropOp(c)
  /\ Goto(c, IF inTx[c] THEN "commit" ELSE "idle")
  /\ UNCHANGED <<streams, inTx, body>>

-----------------------------------------------------------------------------
(* EXEC and EVAL: BeginTx, the body with InTxExecution set, EndTx.  A body *)
(* that is itself an EVAL calls BeginTx once more.                         *)
StartTx(c, b) ==
  /\ pc[c] = "idle"
  /\ body' = [body EXCEPT ![c] = b]
  /\ Goto(c, "announce")
  /\ UNCHANGED <<mutex, streams, inTx, call, reg, wake>>

LockTx(c) ==
  /\ pc[c] = "announce"
  /\ Announce(c)
  /\ Goto(c, "drain")
  /\ UNCHANGED <<streams, inTx, body, call, reg, wake>>

RunTx(c) ==
  /\ pc[c] = "drain"
  /\ Granted(c)
  /\ inTx' = [inTx EXCEPT ![c] = TRUE]
  /\ Goto(c, CASE body[c] = "plain" -> "commit"
               [] body[c] = "xread" -> "xread"
               [] body[c] = "eval" -> "announce")
  /\ UNCHANGED <<streams, body, call, reg, wake>>

Commit(c) ==
  /\ pc[c] = "commit"
  /\ EndTx
  /\ inTx' = [inTx EXCEPT ![c] = FALSE]
  /\ body' = [body EXCEPT ![c] = "none"]
  /\ Goto(c, "idle")
  /\ UNCHANGED <<streams, call, reg, wake>>

-----------------------------------------------------------------------------
StartRead(c) ==
  \E ks \in ReadLists, dollar \in BOOLEAN, n \in Counts, b \in Blocks :
    Xread(c, ks, dollar, n, b)

(* What a command does without waiting for anything but the lock. *)
Run(c) ==
  \/ ParseIDs(c) \/ FirstFetch(c) \/ Park(c) \/ Refetch(c) \/ Unpark(c)
  \/ Return(c) \/ LockTx(c) \/ RunTx(c) \/ Commit(c)

Next ==
  \/ \E k \in Keys : Xadd(k) \/ Del(k) \/ \E id \in entries[k] : Xdel(k, id)
  \/ \E c \in Clients :
       \/ StartRead(c)
       \/ \E b \in Bodies : StartTx(c, b)
       \/ Run(c) \/ Wake(c) \/ Poll(c) \/ Timeout(c)

(* The scheduler runs every goroutine that can run; a select whose channel *)
(* stays ready fires; RWMutex lets no waiting writer starve.  Nothing says *)
(* that a client ever sends another command; what EXEC has queued it runs. *)
Fairness ==
  \A c \in Clients :
    /\ WF_vars(Run(c) \/ (inTx[c] /\ StartRead(c))) /\ SF_vars(LockTx(c))
    /\ WF_vars(Wake(c) \/ Poll(c)) /\ SF_vars(Timeout(c))

Spec == Init /\ [][Next]_vars /\ Fairness

-----------------------------------------------------------------------------
Locations ==
  {"idle", "parse", "fetch", "register", "park", "refetch", "unpark",
   "return", "announce", "drain", "xread", "commit"}

(* Every variable has its type, and start IDs are below the clock. *)
TypeOK ==
  /\ MutexType
  /\ clock \in 0..MaxId
  /\ entries \in [Keys -> SUBSET (1..clock)]
  /\ lastID \in [Keys -> 0..clock] /\ obj \in [Keys -> 0..clock]
  /\ pc \in [Clients -> Locations]
  /\ inTx \in [Clients -> BOOLEAN]
  /\ body \in [Clients -> Bodies \cup {"none"}]
  /\ keys \in [Clients -> ReadLists \cup {<< >>}]
  /\ \A c \in Clients : start[c] \in [DOMAIN keys[c] -> -1..clock]
  /\ count \in [Clients -> Counts \cup {0}]
  /\ block \in [Clients -> Blocks \cup {"none"}]
  /\ reg \in [Clients -> 0..clock] /\ wake \in [Clients -> BOOLEAN]

(* The RLock of Table.Execute is paired with exactly one RUnlock although  *)
(* XREAD gives the lock up and takes it back: a client holds or awaits the *)
(* shared side exactly in the sections that run under it, so no EndOp      *)
(* unlocks an RWMutex that is not held, and no answer leaves it held.      *)
OpLockPaired ==
  /\ readers \cap rwait = {}
  /\ \A c \in Clients :
       c \in readers \cup rwait <=>
         ~inTx[c] /\ pc[c] \in {"parse", "fetch", "register", "refetch", "return"}

(* While EXEC or EVAL runs its body nobody is inside an operation, parked  *)
(* readers included: whoever is parked has to queue up behind it.          *)
TxExcludesOps ==
  \A c \in Clients : inTx[c] => HasTx(c) /\ readers = {}

(* The operation lock is sound: paired, and exclusive to a transaction     *)
(* (sharded.go:515-530, stream.go:583-592).                                *)
OpLockSound == OpLockPaired /\ TxExcludesOps

(* "The operation lock must not be held while parked" (stream.go:583-585). *)
ParkedHoldsNoLock ==
  \A c \in Clients : pc[c] = "park" => c \notin readers /\ writer # c

Newer(c) ==
  {i \in DOMAIN keys[c] :
     \E id \in entries[keys[c][i]] : id > start[c][i]}

(* "Exclusive range > startID" (stream.go:540): whenever fetch is called,  *)
(* it reports every stream that has an entry above its start ID.           *)
FetchSeesNewer ==
  \A c \in Clients :
    pc[c] \in {"fetch", "refetch"} => Fetch(c) = Newer(c)

(* A reader that parks while one of its streams has something for it       *)
(* answers, unless the entry goes away again or XREAD is given a timeout   *)
(* that fires first.  Nobody has to add another entry for that to happen.  *)
ReaderServed ==
  \A c \in Clients :
    (pc[c] = "park" /\ Newer(c) # {}) ~> (pc[c] \in {"unpark", "idle"} \/ Newer(c) = {})

(* XREAD with BLOCK n > 0 comes back, whatever the other clients do, and   *)
(* EXEC and EVAL finish, however many readers are parked (stream.go:583).  *)
WaitsEnd ==
  \A c \in Clients : (block[c] = "timed" \/ pc[c] = "announce") ~> pc[c] = "idle"
=============================================================================
