------------------------------ MODULE KeyLocks ------------------------------
(***************************************************************************)
(* The per-key stripe locks of db/sharded.go and the handlers that use     *)
(* them, or do not: read-modify-write commands on one key (INCR, APPEND,   *)
(* HINCRBY, SETRANGE, ...), commands that move a value between two keys    *)
(* (RENAME, COPY, LMOVE, SMOVE), and DEL, MSET and MSETNX, which reach the *)
(* shards without a stripe.  Every handler runs under the shared side of   *)
(* txMu, so nothing but the stripes orders two of them.                    *)
(*                                                                         *)
(* A value is the stamp of the write that stored it; 0 is "no such key".   *)
(***************************************************************************)
EXTENDS Integers, Sequences, FiniteSets

CONSTANTS
  Procs,     \* goroutines executing a command
  Names,     \* the keys, numbered in the byte order of their names
  Stripe,    \* fnv32(key) % NumKeyLocks
  NumKeyLocks,
  Pairs,     \* the <<src, dst>> two-key commands are called with
  Ops,       \* commands called, out of AllOps
  Nobody,
  MaxRuns    \* bound: commands executed in a run

\* rmw: one key; move: RENAME, RENAMENX, LMOVE, SMOVE; copy: COPY
AllOps == {"rmw", "move", "copy", "del", "mset", "msetnx"}
LockingOps == {"rmw", "move", "copy"}

ASSUME StripeAssumption ==
  /\ Names \subseteq Nat /\ NumKeyLocks \in Nat
  /\ Stripe \in [Names -> 0 .. NumKeyLocks - 1]
  /\ Pairs \subseteq Names \X Names /\ Ops \subseteq AllOps
  /\ Nobody \notin Procs /\ MaxRuns \in Nat

VARIABLES
  holder,    \* keyLocks: who holds each stripe
  stage, op,
  want,      \* keys whose stripes are still to be locked, in that order
  held,      \* keys whose stripes are locked, in the order of locking
  args,      \* the command's keys, source first
  read,      \* the value the handler has read
  todo,      \* how many of args a loop has visited
  val,       \* the keyspace
  stamp,     \* stamp of the last write
  runs

lockVars == <<holder, stage, op, want, held, args, read, todo, val, stamp, runs>>

LocksInit ==
  /\ holder = [s \in 0 .. NumKeyLocks - 1 |-> Nobody]
  /\ stage = [p \in Procs |-> "idle"]
  /\ op = [p \in Procs |-> "none"]
  /\ want = [p \in Procs |-> << >>]
  /\ held = [p \in Procs |-> << >>]
  /\ args = [p \in Procs |-> << >>]
  /\ read = [p \in Procs |-> 0]
  /\ todo = [p \in Procs |-> 0]
  /\ val = [k \in Names |-> 0]
  /\ stamp = 0
  /\ runs = 0

Go(p, l) == stage' = [stage EXCEPT ![p] = l]
Arg(p, i) == args[p][i]

\* Mutant: source first, as the command names them.
LockOrderArgs(a, b) == <<a, b>>

(* The order in which renameGeneric, copyCommand, lmoveGeneric and         *)
(* smoveCommand lock their two keys: by name.                              *)
LockOrder(a, b) == IF a > b THEN <<b, a>> ELSE <<a, b>>

Begin(p, o, as, ks) ==
  /\ stage[p] = "idle" /\ o \in Ops /\ runs < MaxRuns
  /\ runs' = runs + 1
  /\ op' = [op EXCEPT ![p] = o]
  /\ args' = [args EXCEPT ![p] = as]
  /\ want' = [want EXCEPT ![p] = ks]
  /\ todo' = [todo EXCEPT ![p] = 0]
  /\ Go(p, IF o \in LockingOps THEN "lock" ELSE IF o = "msetnx" THEN "check" ELSE "loop")
  /\ UNCHANGED <<holder, held, read, val, stamp>>

\* Mutant: a read-modify-write that does not lock its key.
BeginOneUnlocked(p, k) == Begin(p, "rmw", <<k>>, << >>)

BeginOne(p, k) == Begin(p, "rmw", <<k>>, <<k>>)
BeginTwo(p, o, a, b) ==
  o \in {"move", "copy"} /\ a # b /\ Begin(p, o, <<a, b>>, LockOrder(a, b))
BeginMany(p, o, as) == o \in AllOps \ LockingOps /\ Begin(p, o, as, << >>)

(* LockKey: the mutex is not reentrant, its own holder waits like any other. *)
LockKey(p) ==
  /\ stage[p] = "lock" /\ want[p] # << >>
  /\ LET k == Head(want[p])
     IN /\ holder[Stripe[k]] = Nobody
        /\ holder' = [holder EXCEPT ![Stripe[k]] = p]
        /\ held' = [held EXCEPT ![p] = Append(@, k)]
  /\ want' = [want EXCEPT ![p] = Tail(@)]
  /\ UNCHANGED <<stage, op, args, read, todo, val, stamp, runs>>

\* Mutant: a missing source is waited for instead of answered.
ReadRetries(p) ==
  /\ stage[p] = "lock" /\ want[p] = << >>
  /\ read' = [read EXCEPT ![p] = val[Arg(p, 1)]]
  /\ Go(p, IF op[p] # "rmw" /\ val[Arg(p, 1)] = 0 THEN "lock" ELSE "write")
  /\ UNCHANGED <<holder, op, want, held, args, todo, val, stamp, runs>>

(* With its keys locked the handler reads the (source) key.  A two-key     *)
(* command ends here when the source is missing, or when the destination   *)
(* exists and it was told not to overwrite it.                             *)
Read(p) ==
  /\ stage[p] = "lock" /\ want[p] = << >>
  /\ read' = [read EXCEPT ![p] = val[Arg(p, 1)]]
  /\ \/ Go(p, IF op[p] # "rmw" /\ val[Arg(p, 1)] = 0 THEN "unlock" ELSE "write")
     \/ op[p] # "rmw" /\ val[Arg(p, 2)] # 0 /\ Go(p, "unlock")
  /\ UNCHANGED <<holder, op, want, held, args, todo, val, stamp, runs>>

(* What it computed from the value read is stored: under the same key, or  *)
(* under the destination, after which a move deletes the source.           *)
StoreResult(p) ==
  /\ stage[p] = "write"
  /\ IF op[p] = "rmw"
     THEN /\ val' = [val EXCEPT ![Arg(p, 1)] = stamp + 1]
          /\ stamp' = stamp + 1
          /\ Go(p, "unlock")
     ELSE /\ val' = [val EXCEPT ![Arg(p, 2)] = read[p]]
          /\ stamp' = stamp
          /\ Go(p, IF op[p] = "move" THEN "delsrc" ELSE "unlock")
  /\ UNCHANGED <<holder, op, want, held, args, read, todo, runs>>

DeleteSource(p) ==
  /\ stage[p] = "delsrc"
  /\ val' = [val EXCEPT ![Arg(p, 1)] = 0]
  /\ Go(p, "unlock")
  /\ UNCHANGED <<holder, op, want, held, args, read, todo, stamp, runs>>

(* The deferred UnlockKey calls, second key first. *)
UnlockKey(p) ==
  /\ stage[p] = "unlock" /\ held[p] # << >>
  /\ LET n == Len(held[p])
     IN /\ holder' = [holder EXCEPT ![Stripe[held[p][n]]] = Nobody]
        /\ held' = [held EXCEPT ![p] = SubSeq(@, 1, n - 1)]
  /\ UNCHANGED <<stage, op, want, args, read, todo, val, stamp, runs>>

Answer(p) ==
  /\ stage[p] = "unlock" /\ held[p] = << >>
  /\ Go(p, "idle")
  /\ op' = [op EXCEPT ![p] = "none"]
  /\ args' = [args EXCEPT ![p] = << >>]
  /\ read' = [read EXCEPT ![p] = 0]
  /\ todo' = [todo EXCEPT ![p] = 0]
  /\ UNCHANGED <<holder, want, held, val, stamp, runs>>

(* MSETNX looks at its keys one by one and gives up at the first that      *)
(* exists.                                                                 *)
CheckAbsent(p) ==
  /\ stage[p] = "check"
  /\ IF todo[p] = Len(args[p])
     THEN Go(p, "loop") /\ todo' = [todo EXCEPT ![p] = 0]
     ELSE /\ todo' = [todo EXCEPT ![p] = @ + 1]
          /\ IF val[Arg(p, todo[p] + 1)] # 0 THEN Go(p, "unlock") ELSE UNCHANGED stage
  /\ UNCHANGED <<holder, op, want, held, args, read, val, stamp, runs>>

(* DEL, MSET and the second loop of MSETNX, one key at a time. *)
Loop(p) ==
  /\ stage[p] = "loop"
  /\ IF todo[p] = Len(args[p])
     THEN Go(p, "unlock") /\ UNCHANGED <<todo, val, stamp>>
     ELSE /\ todo' = [todo EXCEPT ![p] = @ + 1]
          /\ LET k == Arg(p, todo[p] + 1)
             IN IF op[p] = "del"
                THEN val' = [val EXCEPT ![k] = 0] /\ UNCHANGED stamp
                ELSE val' = [val EXCEPT ![k] = stamp + 1] /\ stamp' = stamp + 1
          /\ UNCHANGED stage
  /\ UNCHANGED <<holder, op, want, held, args, read, runs>>

Step(p) ==
  \/ LockKey(p) \/ Read(p) \/ StoreResult(p) \/ DeleteSource(p)
  \/ UnlockKey(p) \/ Answer(p) \/ CheckAbsent(p) \/ Loop(p)

Done == runs = MaxRuns /\ (\A p \in Procs : stage[p] = "idle") /\ UNCHANGED lockVars

LocksNext ==
  \/ \E p \in Procs :
       \/ \E k \in Names : BeginOne(p, k)
       \/ \E o \in AllOps, m \in Pairs : BeginTwo(p, o, m[1], m[2])
       \/ \E o \in AllOps, as \in Pairs \cup {<<k>> : k \in Names} : BeginMany(p, o, as)
       \/ Step(p)
  \/ Done

(* A goroutine that can move does, and sync.Mutex hands a lock to a waiter *)
(* that keeps finding it taken (its starvation mode).                      *)
LocksFairness == \A p \in Procs : SF_lockVars(LockKey(p)) /\ WF_lockVars(Step(p))

LocksSpec == LocksInit /\ [][LocksNext]_lockVars /\ LocksFairness

-----------------------------------------------------------------------------
(* Every variable has its type: a stripe has one holder or none, and no    *)
(* handler stores anything but a stamp.                                    *)
LocksTypeOK ==
  /\ holder \in [0 .. NumKeyLocks - 1 -> Procs \cup {Nobody}]
  /\ stage \in [Procs -> {"idle", "lock", "write", "delsrc", "check", "loop", "unlock"}]
  /\ op \in [Procs -> AllOps \cup {"none"}]
  /\ want \in [Procs -> Seq(Names)] /\ held \in [Procs -> Seq(Names)]
  /\ args \in [Procs -> Seq(Names)]
  /\ read \in [Procs -> Nat] /\ todo \in [Procs -> Nat]
  /\ val \in [Names -> Nat] /\ stamp \in Nat /\ runs \in 0 .. MaxRuns

(* p is blocked in LockKey, and by whom. *)
Wanted(p) == Stripe[Head(want[p])]
Waiting(p) == stage[p] = "lock" /\ want[p] # << >> /\ holder[Wanted(p)] # Nobody

(* No set of handlers waits for stripes held within the set, a handler     *)
(* that waits for itself included: LMOVE, SMOVE, RENAME and COPY order     *)
(* their locks "so two mirrored LMOVEs cannot deadlock" (list_ops.go:288). *)
NoCircularWait ==
  \A S \in (SUBSET Procs) \ {{}} :
    \E p \in S : ~(Waiting(p) /\ holder[Wanted(p)] \in S)

(* The stripes order the handlers that take them: from the moment one has  *)
(* read its key until it has stored the result or deleted the source, only *)
(* a command that takes no stripe (DEL, MSET, MSETNX) changes that key     *)
(* under it (sharded.go:51-54).                                            *)
ReadStaysCurrent ==
  [][\A p \in Procs :
       stage[p] \in {"write", "delsrc"} /\ val'[Arg(p, 1)] # val[Arg(p, 1)] =>
         stage'[p] # stage[p] \/ \E q \in Procs : stage[q] = "loop" /\ todo'[q] # todo[q]]_lockVars

(* The value a read-modify-write or a move stores was computed from the    *)
(* value its key still has: LockKey makes the sequence "atomic against     *)
(* other clients" (sharded.go:51-54).                                      *)
RMWAtomic ==
  [][\A p \in Procs :
       stage[p] \in {"write", "delsrc"} /\ stage'[p] # stage[p] =>
         val[Arg(p, 1)] = read[p]]_lockVars

(* MSETNX overwrites no key: "All or nothing: if any key exists, nothing   *)
(* is written." (string.go:556)                                            *)
MsetnxNeverOverwrites ==
  [][\A p \in Procs :
       stage[p] = "loop" /\ op[p] = "msetnx" /\ todo[p] < Len(args[p]) /\ todo'[p] # todo[p] =>
         val[Arg(p, todo[p] + 1)] = 0]_lockVars

(* "Lock the lower stripe first" (keyspace.go:153): the stripes a handler  *)
(* holds were locked in ascending order.                                   *)
LowerStripeFirst ==
  \A p \in Procs : \A i, j \in DOMAIN held[p] :
    i < j => Stripe[held[p][i]] < Stripe[held[p][j]]

(* Every command answers. *)
EveryCommandAnswers == \A p \in Procs : stage[p] # "idle" ~> stage[p] = "idle"
=============================================================================
