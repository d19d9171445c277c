------------------------------- MODULE RWMutex -------------------------------
(***************************************************************************)
(* sync.RWMutex as ShardedDB.txMu uses it (sharded.go:514-532): BeginOp is *)
(* RLock, EndOp is RUnlock, BeginTx is Lock, EndTx is Unlock.  A writer    *)
(* announces itself, which keeps new readers out, and then waits for the   *)
(* readers that are inside; when it unlocks, the readers that queued up    *)
(* meanwhile are let in before the next writer.  It is not reentrant.      *)
(***************************************************************************)
CONSTANTS Clients, None

ASSUME NoneAssumption == None \notin Clients

VARIABLES
  readers,   \* who holds the shared side
  rwait,     \* who is blocked in RLock
  writer,    \* who has announced a Lock, or None
  locked     \* whether that Lock has returned

mutex == <<readers, rwait, writer, locked>>

MutexInit ==
  readers = {} /\ rwait = {} /\ writer = None /\ locked = FALSE

\* RLock has returned when c \in readers.
BeginOp(c) ==
  /\ IF writer = None
     THEN readers' = readers \cup {c} /\ UNCHANGED rwait
     ELSE rwait' = rwait \cup {c} /\ UNCHANGED readers
  /\ UNCHANGED <<writer, locked>>

EndOp(c) == readers' = readers \ {c} /\ UNCHANGED <<rwait, writer, locked>>

\* Lock in two steps; it has returned when HasTx(c).
Announce(c) ==
  writer = None /\ writer' = c /\ UNCHANGED <<readers, rwait, locked>>
Granted(c) ==
  /\ writer = c /\ ~locked /\ readers = {}
  /\ locked' = TRUE /\ UNCHANGED <<readers, rwait, writer>>
HasTx(c) == writer = c /\ locked

EndTx ==
  writer' = None /\ locked' = FALSE /\ readers' = rwait /\ rwait' = {}

MutexType ==
  /\ readers \subseteq Clients /\ rwait \subseteq Clients
  /\ writer \in Clients \cup {None} /\ locked \in BOOLEAN
=============================================================================
