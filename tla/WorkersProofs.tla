---------------------------- MODULE WorkersProofs ----------------------------
(***************************************************************************)
(* The Lua engine for any number of connections, scripts and interpreters, *)
(* and the memory limit for any number of clients, keys and sizes.         *)
(*                                                                         *)
(* The pool is clean because EVAL holds the transaction lock from before   *)
(* getVM until after putVM, so that at most one caller has an interpreter  *)
(* at any time (EngineInv).  The counter is exact because whoever changes  *)
(* an entry holds the lock of its shard from the first to the last change  *)
(* of the counter; the limit holds because every client that may still add *)
(* to the counter passed the check when it was at most the limit           *)
(* (MemoryInv).                                                            *)
(***************************************************************************)
EXTENDS Scripting, Eviction, TLAPS, FiniteSetTheorems, WellFoundedInduction

-----------------------------------------------------------------------------
(* The pool of interpreters. *)

\* The engine starts without interpreters and without callers.
LEMMA InitEstablishes == Init => EngineInv
  BY DEF Init, EngineInv, TypeOK, InUse, NoVM

\* Taking the lock and remembering the script disturbs no interpreter.
LEMMA Enters ==
  ASSUME EngineInv, NEW c \in Callers, NEW s \in Scripts,
         pc[c] = "idle", tx = {}, tx' = {c}, Goto(c, "get"),
         job' = [job EXCEPT ![c] = [@ EXCEPT !.script = s]],
         UNCHANGED <<pool, live, deadline, exec>>
  PROVE  EngineInv'
  <1>1. TypeOK'
    BY DEF EngineInv, TypeOK, Goto
  <1>2. \A d \in Callers : job'[d].vm = job[d].vm
    BY DEF EngineInv, TypeOK
  <1>3. InUse' = InUse
    BY Zenon, <1>2 DEF InUse
  <1>4. \A d \in Callers : pc'[d] = IF d = c THEN "get" ELSE pc[d]
    BY DEF EngineInv, TypeOK, Goto
  <1>5. \A d \in Callers : pc[d] = "idle"
    BY Zenon DEF EngineInv
  <1> QED
    BY Zenon, <1>1, <1>2, <1>3, <1>4, <1>5 DEF EngineInv, NoVM

\* EVAL, EVALSHA and SCRIPT LOAD, which only enter or change the cache.
LEMMA CallsKeep ==
  ASSUME EngineInv, NEW c \in Callers, NEW s \in Scripts,
         Eval(c, s) \/ EvalSHA(c, s) \/ LoadScript(c, s)
  PROVE  EngineInv'
  <1> DEFINE Same == UNCHANGED <<pool, live, deadline, exec, tx, pc, job>>
  <1>1. Same => EngineInv'
    BY DEF EngineInv, TypeOK, InUse
  <1>2. CASE Eval(c, s)
    BY Zenon, <1>1, <1>2, Enters DEF Eval
  <1>3. CASE EvalSHA(c, s)
    BY Zenon, <1>1, <1>3, Enters DEF EvalSHA, engine
  <1>4. CASE LoadScript(c, s)
    BY Zenon, <1>1, <1>4 DEF LoadScript
  <1> QED
    BY Zenon, <1>2, <1>3, <1>4

\* FlushScripts destroys the interpreters of the pool, which serve nobody.
LEMMA FlushKeeps ==
  ASSUME EngineInv, FlushScripts, UNCHANGED <<deadline, exec, tx, pc, job>>
  PROVE  EngineInv'
  <1>1. TypeOK'
    BY Zenon DEF EngineInv, TypeOK, FlushScripts
  <1>2. InUse' = InUse
    BY Zenon DEF InUse
  <1>3. live' = pool' \cup InUse' /\ pool' \cap InUse' = {}
    BY Zenon, <1>2 DEF EngineInv, FlushScripts
  <1> QED
    BY Zenon, <1>1, <1>3 DEF EngineInv

\* getVM: while c is between the lock and getVM nobody has an interpreter, so
\* an interpreter of the pool, or a new one, becomes the only one in use.
LEMMA GetKeeps ==
  ASSUME EngineInv, NEW c \in Callers, GetVM(c)
  PROVE  EngineInv'
  <1>1. tx = {c} /\ \A d \in Callers \ {c} : pc[d] = "idle"
    BY DEF EngineInv, GetVM
  <1>2. \A d \in Callers : job[d].vm = NoVM
    BY Zenon, <1>1 DEF EngineInv, GetVM
  <1>3. InUse = {} /\ live = pool
    BY <1>2 DEF EngineInv, InUse
  <1>4. exec = {} /\ \A v \in VMs : deadline[v] = "none"
    BY Zenon, <1>1 DEF EngineInv, GetVM
  <1> DEFINE Takes(v) == job' = [job EXCEPT ![c] = [@ EXCEPT !.vm = v]]
             Gets(v)  == Takes(v) /\ v \notin pool' /\ live' = pool' \cup {v} /\ pool' \subseteq VMs
             new      == CHOOSE w \in VMs \ live : TRUE
  <1>5. PICK v \in VMs : Gets(v)
    <2>0. \/ \E w \in pool : pool' = pool \ {w} /\ Takes(w) /\ UNCHANGED live
          \/ pool = {} /\ UNCHANGED pool /\ live' = live \cup {new} /\ Takes(new)
      BY Zenon DEF GetVM
    <2> HIDE DEF Takes
    <2>1. CASE \E w \in pool : pool' = pool \ {w} /\ Takes(w) /\ UNCHANGED live
      BY <2>1, <1>3 DEF EngineInv, TypeOK
    <2>2. CASE pool = {} /\ UNCHANGED pool /\ live' = live \cup {new} /\ Takes(new)
      <3>1. \E w \in VMs \ live : TRUE
        BY Zenon, <2>2, <1>3, VMsAssumption
      <3>2. new \in VMs \ live
        BY <3>1, Zenon
      <3> HIDE DEF new
      <3> QED
        BY Zenon, <3>2, <2>2, <1>3
    <2> QED
      BY Zenon, <2>0, <2>1, <2>2
  <1> HIDE DEF new
  <1>6. TypeOK'
    BY SMTT(30), <1>5 DEF EngineInv, TypeOK, GetVM, Goto
  <1>7. \A d \in Callers : job'[d].vm = IF d = c THEN v ELSE NoVM
    BY <1>2, <1>5 DEF EngineInv, TypeOK
  <1>8. InUse' = {v}
    BY Zenon, <1>7, VMsAssumption DEF InUse
  <1>9. \A d \in Callers : pc'[d] = IF d = c THEN "function" ELSE "idle"
    BY <1>1 DEF EngineInv, TypeOK, GetVM, Goto
  <1> QED
    BY SMTT(30), <1>1, <1>4, <1>5, <1>6, <1>7, <1>8, <1>9, VMsAssumption DEF EngineInv, GetVM

\* A caller past getVM is the only one with an interpreter, and the only one
\* whose interpreter can have a deadline or an executor.
LEMMA Alone ==
  ASSUME EngineInv, NEW c \in Callers, pc[c] \notin {"idle", "get"}
  PROVE  /\ tx = {c} /\ \A d \in Callers \ {c} : pc[d] = "idle" /\ job[d].vm = NoVM
         /\ job[c].vm \in VMs /\ InUse = {job[c].vm}
         /\ \A v \in VMs : deadline[v] # "none" => v = job[c].vm /\ pc[c] \in {"run", "reset"}
         /\ \A v \in exec : v = job[c].vm /\ pc[c] \in {"arm", "run", "reset"}
  <1>1. tx = {c} /\ \A d \in Callers \ {c} : pc[d] = "idle"
    BY DEF EngineInv
  <1>2. \A d \in Callers \ {c} : job[d].vm = NoVM
    BY Zenon, <1>1 DEF EngineInv
  <1>3. job[c].vm \in VMs
    BY DEF EngineInv, TypeOK
  <1>4. InUse = {job[c].vm}
    BY Zenon, <1>2, <1>3, VMsAssumption DEF InUse
  <1> QED
    BY ZenonT(40), <1>1, <1>2, <1>3, <1>4 DEF EngineInv

\* A step of that caller which keeps its interpreter.
LEMMA Moves ==
  ASSUME EngineInv, NEW c \in Callers, pc[c] \notin {"idle", "get"},
         NEW l \in {"arm", "run", "reset", "put", "offer", "destroy"}, Goto(c, l),
         TypeOK', \A d \in Callers : job'[d].vm = job[d].vm, UNCHANGED <<pool, live, tx>>,
         \A v \in VMs : deadline'[v] # "none" => v = job[c].vm /\ l \in {"run", "reset"},
         \A v \in exec' : v = job[c].vm /\ l \in {"arm", "run", "reset"}
  PROVE  EngineInv'
  <1>1. \A d \in Callers : pc'[d] = IF d = c THEN l ELSE "idle"
    BY Alone DEF EngineInv, TypeOK, Goto
  <1>2. InUse' = InUse
    BY Zenon DEF InUse
  <1>3. job[c].vm \in VMs /\ tx = {c} /\ \A d \in Callers \ {c} : job[d].vm = NoVM
    BY Zenon, Alone
  <1> QED
    BY <1>1, <1>2, <1>3, VMsAssumption DEF EngineInv

\* The steps from the function to putVM's look at the context.
LEMMA RunKeeps ==
  ASSUME EngineInv, NEW c \in Callers,
         Function(c) \/ Arm(c) \/ Return(c) \/ Reset(c) \/ PutVM(c)
  PROVE  EngineInv'
  <1>0. pc[c] \notin {"idle", "get"}
    BY Zenon DEF Function, Arm, Return, Reset, PutVM
  <1> DEFINE v == job[c].vm
  <1>a. /\ v \in VMs
        /\ \A w \in VMs : deadline[w] # "none" => w = v /\ pc[c] \in {"run", "reset"}
        /\ \A w \in exec : w = v /\ pc[c] \in {"arm", "run", "reset"}
    BY Zenon, <1>0, Alone
  <1>1. CASE Function(c)
    <2>1. /\ UNCHANGED <<pool, live, tx, job, deadline>>
          /\ \/ Goto(c, "put") /\ UNCHANGED exec
             \/ Goto(c, "arm") /\ exec' = exec \cup {v}
      BY Zenon, <1>1 DEF Function
    <2>2. TypeOK'
      BY <2>1, <1>a DEF EngineInv, TypeOK, Goto
    <2>3. CASE Goto(c, "put") /\ UNCHANGED exec
      BY Zenon, <2>1, <2>2, <2>3, <1>0, <1>1, <1>a, Moves DEF Function
    <2>4. CASE Goto(c, "arm") /\ exec' = exec \cup {v}
      BY Zenon, <2>1, <2>2, <2>4, <1>0, <1>1, <1>a, Moves DEF Function
    <2> QED
      BY Zenon, <2>1, <2>3, <2>4
  <1>2. CASE Arm(c)
    <2>1. /\ deadline' = [deadline EXCEPT ![v] = "armed"]
          /\ job' = [job EXCEPT ![c] = [@ EXCEPT !.late = "no"]]
          /\ Goto(c, "run") /\ UNCHANGED <<pool, live, tx, exec>>
      BY Zenon, <1>2 DEF Arm
    <2>2. TypeOK'
      <3>1. job' \in [Callers -> [script : Scripts \cup {"none"}, vm : VMs \cup {NoVM}, late : {"no", "yes"}]]
        BY <2>1 DEF EngineInv, TypeOK
      <3>2. deadline' \in [VMs -> {"none", "armed", "late"}]
        BY Zenon, <2>1, <1>a DEF EngineInv, TypeOK
      <3> QED
        BY Zenon, <2>1, <3>1, <3>2 DEF EngineInv, TypeOK, Goto
    <2>3. \A d \in Callers : job'[d].vm = job[d].vm
      BY <2>1 DEF EngineInv, TypeOK
    <2>4. \A w \in VMs : deadline'[w] # "none" => w = v
      BY ZenonT(40), <2>1, <1>a DEF EngineInv, TypeOK
    <2> QED
      BY Zenon, <2>1, <2>2, <2>3, <2>4, <1>0, <1>a, Moves
  <1>3. CASE Return(c)
    <2>1. Goto(c, "reset") /\ UNCHANGED <<pool, live, tx, job, exec, deadline>> /\ pc[c] = "run"
      BY Zenon, <1>3 DEF Return, engine
    <2>2. TypeOK'
      BY Zenon, <2>1 DEF EngineInv, TypeOK, Goto
    <2> QED
      BY Zenon, <2>1, <2>2, <1>0, <1>a, Moves
  <1>4. CASE Reset(c)
    <2>1. /\ deadline' = [deadline EXCEPT ![v] = "none"] /\ exec' = exec \ {v}
          /\ Goto(c, "put") /\ UNCHANGED <<pool, live, tx, job>>
      BY Zenon, <1>4 DEF Reset
    <2>2. TypeOK'
      BY ZenonT(60), <2>1 DEF EngineInv, TypeOK, Goto
    <2>3. exec' = {} /\ \A w \in VMs : deadline'[w] = "none"
      BY <2>1, <1>a DEF EngineInv, TypeOK
    <2> QED
      BY Zenon, <2>1, <2>2, <2>3, <1>0, Moves
  <1>5. CASE PutVM(c)
    <2>1. UNCHANGED <<pool, live, tx, job, exec, deadline>> /\ pc[c] = "put"
      BY Zenon, <1>5 DEF PutVM, engine
    <2>2. PICK l \in {"offer", "destroy"} : Goto(c, l)
      BY Zenon, <1>5 DEF PutVM
    <2>3. TypeOK'
      BY Zenon, <2>1, <2>2 DEF EngineInv, TypeOK, Goto
    <2> QED
      BY Zenon, <2>1, <2>2, <2>3, <1>0, <1>a, Moves
  <1> QED
    BY Zenon, <1>1, <1>2, <1>3, <1>4, <1>5

\* A caller leaves with its interpreter in the pool or destroyed.
LEMMA Leaves ==
  ASSUME EngineInv, NEW c \in Callers, pc[c] \in {"offer", "destroy"}, Leave(c),
         pool' \subseteq VMs, live' = pool', UNCHANGED <<deadline, exec>>
  PROVE  EngineInv'
  <1>1. exec = {} /\ \A v \in VMs : deadline[v] = "none"
    BY Zenon, Alone
  <1>2. \A d \in Callers : pc'[d] = "idle" /\ job'[d].vm = NoVM
    BY Alone DEF EngineInv, TypeOK, Leave, Goto
  <1>3. InUse' = {}
    BY Zenon, <1>2 DEF InUse
  <1>4. TypeOK'
    BY Zenon DEF EngineInv, TypeOK, Leave, Goto
  <1> QED
    BY Zenon, <1>1, <1>2, <1>3, <1>4 DEF EngineInv

\* putVM's offer to the pool and destroyVM.
LEMMA PutKeeps ==
  ASSUME EngineInv, NEW c \in Callers, Offer(c) \/ DestroyVM(c)
  PROVE  EngineInv'
  <1> DEFINE v == job[c].vm
  <1>0. pc[c] \in {"offer", "destroy"}
    BY Zenon DEF Offer, DestroyVM
  <1>1. v \in VMs /\ live = pool \cup {v} /\ v \notin pool
    BY <1>0, Alone DEF EngineInv
  <1>2. CASE Offer(c) /\ pool' = pool \cup {v} /\ Leave(c)
    BY Zenon, <1>0, <1>1, <1>2, Leaves DEF Offer, EngineInv, TypeOK
  <1>3. CASE Offer(c) /\ Goto(c, "destroy") /\ UNCHANGED <<pool, tx, job>>
    <2>1. TypeOK'
      BY Zenon, <1>3 DEF EngineInv, TypeOK, Offer, Goto
    <2>2. exec' = {} /\ \A w \in VMs : deadline'[w] = "none"
      BY Zenon, <1>0, <1>3, Alone DEF Offer
    <2> QED
      BY Zenon, <1>0, <1>3, <2>1, <2>2, Moves DEF Offer
  <1>4. CASE DestroyVM(c)
    BY SMTT(30), <1>0, <1>1, <1>4, Leaves DEF DestroyVM, EngineInv, TypeOK
  <1> QED
    BY Zenon, <1>2, <1>3, <1>4 DEF Offer

\* The passing of a deadline.
LEMMA ExpireKeeps ==
  ASSUME EngineInv, NEW c \in Callers, Expire(c)
  PROVE  EngineInv'
  <1> DEFINE v == job[c].vm
  <1>1. /\ deadline' = [deadline EXCEPT ![v] = "late"]
        /\ job' = [job EXCEPT ![c] = [@ EXCEPT !.late = "yes"]]
        /\ pc[c] \in {"run", "reset"} /\ UNCHANGED <<pool, live, exec, tx, pc>>
    BY Zenon DEF Expire
  <1>2. v \in VMs
    BY Zenon, <1>1, Alone
  <1>3. TypeOK'
    <2>1. job' \in [Callers -> [script : Scripts \cup {"none"}, vm : VMs \cup {NoVM}, late : {"no", "yes"}]]
      BY <1>1 DEF EngineInv, TypeOK
    <2>2. deadline' \in [VMs -> {"none", "armed", "late"}]
      BY Zenon, <1>1 DEF EngineInv, TypeOK
    <2> QED
      BY Zenon, <1>1, <2>1, <2>2 DEF EngineInv, TypeOK
  <1>4. \A d \in Callers : job'[d].vm = job[d].vm
    BY <1>1 DEF EngineInv, TypeOK
  <1>5. \A w \in VMs : w # v => deadline'[w] = deadline[w]
    BY ZenonT(40), <1>1 DEF EngineInv, TypeOK
  <1>6. InUse' = InUse
    BY Zenon, <1>4 DEF InUse
  <1> QED
    BY <1>1, <1>2, <1>3, <1>4, <1>5, <1>6 DEF EngineInv

\* Every step of the callers and of the watchdog keeps the invariant.
LEMMA StepKeeps == EngineInv /\ [Next]_vars => EngineInv'
  <1> SUFFICES ASSUME EngineInv, [Next]_vars PROVE EngineInv'
    OBVIOUS
  <1> DEFINE Same == UNCHANGED <<pool, live, deadline, exec, tx, pc, job>>
  <1>1. Same => EngineInv'
    BY DEF EngineInv, TypeOK, InUse
  <1>2. ASSUME NEW c \in Callers, NEW s \in Scripts, Eval(c, s) \/ EvalSHA(c, s) \/ LoadScript(c, s)
        PROVE  EngineInv'
    BY Zenon, <1>2, CallsKeep
  <1>3. ASSUME NEW c \in Callers, Flush(c) \/ CallFlush(c)
        PROVE  EngineInv'
    BY Zenon, <1>3, FlushKeeps DEF Flush, CallFlush
  <1>4. ASSUME NEW c \in Callers, Step(c)
        PROVE  EngineInv'
    BY SMTT(60), <1>4, GetKeeps, RunKeeps, PutKeeps DEF Step
  <1>5. CASE Watchdog
    BY ZenonT(60), <1>1, <1>5 DEF Watchdog, Tick, Look, Cancel, Sleep, engine
  <1>6. CASE UNCHANGED vars
    BY Zenon, <1>1, <1>6 DEF vars, engine
  <1> QED
    BY Zenon, <1>2, <1>3, <1>4, <1>5, <1>6, ExpireKeeps DEF Next

\* EngineInv is an invariant of the engine for all callers, scripts and
\* interpreters: evalProto has an interpreter from getVM to putVM, and arms and
\* clears what it put on it.
THEOREM EngineInvariant == Spec => []EngineInv
  BY InitEstablishes, StepKeeps, PTL DEF Spec

\* The pool holds interpreters that serve nobody and none leaks: what putVM
\* returns has no deadline and no executor, and every live interpreter is in the
\* pool or in use, whatever the watchdog does in between.
THEOREM PoolStaysClean == Spec => []PoolClean
  <1>1. EngineInv => PoolClean
    <2> SUFFICES ASSUME EngineInv, NEW v \in pool PROVE deadline[v] = "none" /\ v \notin exec
      BY Zenon DEF EngineInv, PoolClean
    <2>1. \A c \in Callers : job[c].vm # v
      BY VMsAssumption DEF EngineInv, TypeOK, InUse
    <2> QED
      BY <2>1 DEF EngineInv, TypeOK
  <1> QED
    BY <1>1, EngineInvariant, PTL

-----------------------------------------------------------------------------
(* The memory limit. *)

\* Where a worker can be, and what it carries.
Places == {"idle", "free", "loop", "choose", "evict", "recheck", "write", "add", "flush"}
Jobs == [at : Places, kind : {"none", "set", "setex", "keep"}, k : Keys \cup {NoKey}, size : 0 .. MaxSize,
         victim : Keys \cup {NoKey}, todo : SUBSET Range(ShardOf)]

MemoryTypeOK ==
  /\ mix \in Mixes /\ used \in Int
  /\ DOMAIN entries \subseteq Keys /\ entries \in [DOMAIN entries -> 0 .. MaxSize]
  /\ doing \in [Workers -> Jobs]
  /\ \A c \in Clients : doing[c].at \in {"idle", "flush"} \/ doing[c].k \in Keys

\* The clients that have passed the check and may still add to the counter.
Writing == {c \in Clients : doing[c].at \in {"recheck", "write", "add"}}

\* Each of them has room for one value: whoever passes the check does so when
\* the counter is at most the limit.
RoomLeft ==
  "keep" \notin mix.kinds =>
    used + Cardinality(Writing) * MaxSize <= maxMemory + Cardinality(Clients) * MaxSize

\* The clients between the two changes of the counter hold the lock of the shard
\* of their key, each of a shard of its own, and their value is published.
Publishing == {c \in Clients : doing[c].at = "add"}
LocksHeld ==
  /\ \A c \in Publishing : /\ ShardOf[doing[c].k] \in held
                           /\ doing[c].k \in DOMAIN entries /\ entries[doing[c].k] = doing[c].size
  /\ \A c, d \in Publishing : c # d => ShardOf[doing[c].k] # ShardOf[doing[d].k]

NoDrift == mix.kinds \cap {"grow", "flush"} = {}
CounterExact ==
  /\ \A w \in Workers : doing[w].at = "flush" => "flush" \in mix.kinds
  /\ NoDrift => LocksHeld /\ UsedIsEstimate

MemoryInv == MemoryTypeOK /\ RoomLeft /\ CounterExact

-----------------------------------------------------------------------------
(* Sums over the keys. *)

(* The order of the naturals, as the library's well-founded relation. *)
Below == {ss \in Nat \X Nat : ss[1] < ss[2]}

(* It is the library's. *)
LEMMA BelowIsLess == OpToRel(<, Nat) = Below
BY Zenon DEF OpToRel, Below

(* What holds at 0 and is passed on from n to n + 1 holds up to any bound. *)
LEMMA UpTo ==
  ASSUME NEW S, NEW n \in Nat, 0 \in S, \A i \in 0 .. n - 1 : i \in S => i + 1 \in S
  PROVE  \A i \in 0 .. n : i \in S
<1> SUFFICES ASSUME NEW j \in 0 .. n, j \notin S
             PROVE  FALSE
  BY Zenon
<1> DEFINE T == {i \in Nat : i \in 0 .. n /\ i \notin S}
<1>1. IsWellFoundedOn(Below, Nat)
  BY ZenonT(60), NatLessThanWellFounded, BelowIsLess
<1>2. T \subseteq Nat /\ j \in T
  BY SMT
<1> HIDE DEF T
<1>3. PICK m \in T : \A t \in T : ~ (<<t, m>> \in Below)
  BY Zenon, <1>1, <1>2, WFMin
<1>4. m \in Nat /\ m \in 0 .. n /\ m \notin S /\ m # 0
  BY Zenon, <1>3 DEF T
<1>5. m - 1 \in 0 .. n - 1 /\ m - 1 + 1 = m /\ m - 1 \in Nat /\ m - 1 < m /\ m - 1 \in 0 .. n
  BY <1>4
<1>6. m - 1 \notin S
  BY Zenon, <1>4, <1>5
<1>7. m - 1 \in T
  BY Zenon, <1>5, <1>6 DEF T
<1>8. <<m - 1, m>> \in Below
  BY Zenon, <1>4, <1>5 DEF Below
<1> QED
  BY Zenon, <1>3, <1>7, <1>8

(* The sums satisfy the recursion that defines them. *)
LEMMA SumsStep ==
  ASSUME NEW f
  PROVE  /\ Sums(f)[0] = 0
         /\ \A n \in 1 .. NumKeys : Sums(f)[n] = Sums(f)[n - 1] + f[n]
<1> DEFINE Fits(m, g) == g = [n \in 0 .. m |-> IF n = 0 THEN 0 ELSE g[n - 1] + f[n]]
           S == {m \in 0 .. NumKeys : \E g : Fits(m, g)}
<1>0. NumKeys \in Nat
  BY Zenon, EvictionAssumption
<1>1. 0 \in S
  <2> DEFINE g == [n \in 0 .. 0 |-> 0]
  <2>1. Fits(0, g)
    OBVIOUS
  <2>2. 0 \in 0 .. NumKeys
    BY <1>0
  <2> QED
    BY Zenon, <2>1, <2>2
<1>2. ASSUME NEW m \in 0 .. NumKeys - 1, m \in S
      PROVE  m + 1 \in S
  <2>1. PICK g : Fits(m, g)
    BY Zenon, <1>2
  <2> DEFINE h == [n \in 0 .. m + 1 |-> IF n <= m THEN g[n] ELSE g[m] + f[m + 1]]
  <2>2. ASSUME NEW n \in 0 .. m + 1
        PROVE  h[n] = IF n = 0 THEN 0 ELSE h[n - 1] + f[n]
    <3>1. CASE n = 0
      <4>1. g[0] = 0
        BY <2>1
      <4> QED
        BY <3>1, <4>1
    <3>2. CASE n # 0 /\ n <= m
      <4>1. n - 1 \in 0 .. m + 1 /\ n - 1 <= m /\ n \in 0 .. m
        BY <3>2
      <4>2. g[n] = g[n - 1] + f[n]
        BY Zenon, <2>1, <3>2, <4>1
      <4>3. h[n] = g[n] /\ h[n - 1] = g[n - 1]
        BY Zenon, <3>2, <4>1
      <4> QED
        BY Zenon, <3>2, <4>2, <4>3
    <3>3. CASE n = m + 1
      <4>1. n # 0 /\ n - 1 = m /\ n - 1 \in 0 .. m + 1 /\ n - 1 <= m /\ ~(n <= m)
        BY <3>3
      <4>2. h[n] = g[m] + f[m + 1] /\ h[n - 1] = g[n - 1]
        BY Zenon, <4>1
      <4> QED
        BY Zenon, <3>3, <4>1, <4>2
    <3> QED
      BY SMTT(30), <3>1, <3>2, <3>3
  <2>3. Fits(m + 1, h)
    <3> HIDE DEF h
    <3>1. h = [n \in 0 .. m + 1 |-> h[n]]
      BY Zenon DEF h
    <3> QED
      BY Zenon, <2>2, <3>1
  <2>4. m + 1 \in 0 .. NumKeys
    BY <1>0
  <2> QED
    BY Zenon, <2>3, <2>4
<1>3. NumKeys \in S
  <2> HIDE DEF S
  <2>1. \A m \in 0 .. NumKeys : m \in S
    BY Zenon, <1>0, <1>1, <1>2, UpTo
  <2> QED
    BY <1>0, <2>1
<1>4. Fits(NumKeys, Sums(f))
  BY Zenon, <1>3 DEF Sums
<1>5. ASSUME NEW n \in 0 .. NumKeys
      PROVE  Sums(f)[n] = IF n = 0 THEN 0 ELSE Sums(f)[n - 1] + f[n]
  BY Zenon, <1>4
<1>6. 0 \in 0 .. NumKeys /\ \A n \in 1 .. NumKeys : n \in 0 .. NumKeys /\ n # 0
  BY <1>0
<1> QED
  BY Zenon, <1>5, <1>6

(* When the estimate of one key changes, the total changes by as much. *)
LEMMA TotalChanges ==
  ASSUME NEW f \in [Keys -> Int], NEW g \in [Keys -> Int], NEW k \in Keys,
         \A j \in Keys : j # k => g[j] = f[j]
  PROVE  Total(f) \in Int /\ Total(g) = Total(f) + g[k] - f[k]
<1> DEFINE D(n) == IF n < k THEN 0 ELSE g[k] - f[k]
           S == {n \in 0 .. NumKeys : Sums(f)[n] \in Int /\ Sums(g)[n] = Sums(f)[n] + D(n)}
<1>0. NumKeys \in Nat /\ k \in 1 .. NumKeys /\ f[k] \in Int /\ g[k] \in Int
  BY Zenon, EvictionAssumption DEF Keys
<1>1. 0 \in S
  BY <1>0, SumsStep
<1>2. ASSUME NEW n \in 0 .. NumKeys - 1, n \in S
      PROVE  n + 1 \in S
  <2>1. n + 1 \in 1 .. NumKeys /\ n + 1 \in Keys /\ n + 1 - 1 = n /\ n + 1 \in 0 .. NumKeys
    BY <1>0 DEF Keys
  <2>2. Sums(f)[n + 1] = Sums(f)[n] + f[n + 1] /\ Sums(g)[n + 1] = Sums(g)[n] + g[n + 1]
    BY <2>1, SumsStep
  <2>3. f[n + 1] \in Int /\ g[n + 1] \in Int /\ (n + 1 # k => g[n + 1] = f[n + 1])
    BY Zenon, <2>1
  <2> QED
    BY SMTT(30), <1>0, <1>2, <2>1, <2>2, <2>3
<1>3. \A n \in 0 .. NumKeys : n \in S
  <2> HIDE DEF S
  <2> QED
    BY Zenon, <1>0, <1>1, <1>2, UpTo
<1>4. NumKeys \in S
  BY <1>0, <1>3
<1> QED
  BY <1>0, <1>4 DEF Total

(* A total of integers is an integer, and the total of nothing is zero. *)
LEMMA TotalOfZeros ==
  ASSUME NEW f \in [Keys -> {0}]
  PROVE  Total(f) = 0
<1> DEFINE S == {n \in 0 .. NumKeys : Sums(f)[n] = 0}
<1>0. NumKeys \in Nat
  BY Zenon, EvictionAssumption
<1>1. 0 \in S
  BY <1>0, SumsStep
<1>2. ASSUME NEW n \in 0 .. NumKeys - 1, n \in S
      PROVE  n + 1 \in S
  <2>1. n + 1 \in 1 .. NumKeys /\ n + 1 \in Keys /\ n + 1 - 1 = n /\ n + 1 \in 0 .. NumKeys
    BY <1>0 DEF Keys
  <2>2. Sums(f)[n + 1] = Sums(f)[n] + f[n + 1]
    BY <2>1, SumsStep
  <2> QED
    BY <1>2, <2>1, <2>2
<1>3. \A n \in 0 .. NumKeys : n \in S
  <2> HIDE DEF S
  <2> QED
    BY Zenon, <1>0, <1>1, <1>2, UpTo
<1> QED
  BY <1>0, <1>3 DEF Total

-----------------------------------------------------------------------------
(* Numbers of clients. *)

(* Some of the clients are at most all of them. *)
LEMMA Room ==
  ASSUME NEW S \in SUBSET Clients
  PROVE  /\ IsFiniteSet(S) /\ Cardinality(S) \in Nat /\ Cardinality(Clients) \in Nat
         /\ Cardinality(S) * MaxSize \in Nat /\ Cardinality(Clients) * MaxSize \in Nat
         /\ Cardinality(S) * MaxSize <= Cardinality(Clients) * MaxSize
<1>1. IsFiniteSet(S) /\ Cardinality(S) <= Cardinality(Clients)
  BY Zenon, EvictionAssumption, FS_Subset
<1>2. Cardinality(S) \in Nat /\ Cardinality(Clients) \in Nat
  BY Zenon, <1>1, EvictionAssumption, FS_CardinalityType
<1>3. \A a, b, m \in Nat : a * m \in Nat /\ (a <= b => a * m <= b * m)
  BY SMT
<1> QED
  BY Zenon, <1>1, <1>2, <1>3, EvictionAssumption

(* The room of fewer clients is less. *)
LEMMA LessRoom ==
  ASSUME NEW S \in SUBSET Clients, NEW T \in SUBSET S
  PROVE  Cardinality(T) * MaxSize <= Cardinality(S) * MaxSize
<1>1. Cardinality(T) <= Cardinality(S) /\ Cardinality(T) \in Nat /\ Cardinality(S) \in Nat
  BY Zenon, Room, FS_Subset
<1>2. \A a, b, m \in Nat : a <= b => a * m <= b * m
  BY SMT
<1> QED
  BY Zenon, <1>1, <1>2, EvictionAssumption

(* A client that is done takes its room with it. *)
LEMMA OneLess ==
  ASSUME NEW S \in SUBSET Clients, NEW c \in S
  PROVE  Cardinality(S \ {c}) * MaxSize = Cardinality(S) * MaxSize - MaxSize
<1>1. Cardinality(S \ {c}) = Cardinality(S) - 1 /\ Cardinality(S) \in Nat
  BY Zenon, Room, FS_RemoveElement
<1>2. \A a, m \in Nat : (a - 1) * m = a * m - m
  BY SMT
<1> QED
  BY Zenon, <1>1, <1>2, EvictionAssumption
-----------------------------------------------------------------------------
(* What a step may do to the counter and to the clients that are writing. *)

(* The limit is kept when the counter does not rise and nobody begins to     *)
(* write, when it is below the limit, and when a client adds its value.      *)
LEMMA RoomKept ==
  ASSUME MemoryTypeOK, used' \in Int, RoomLeft, mix' = mix,
         "keep" \notin mix.kinds =>
           \/ used' <= used /\ Writing' \subseteq Writing
           \/ used' <= maxMemory
           \/ \E c \in Writing : Writing' = Writing \ {c} /\ used' <= used + MaxSize
  PROVE  RoomLeft'
<1> SUFFICES ASSUME "keep" \notin mix.kinds
             PROVE  used' + Cardinality(Writing') * MaxSize <= maxMemory + Cardinality(Clients) * MaxSize
  BY Zenon DEF RoomLeft
<1>1. used + Cardinality(Writing) * MaxSize <= maxMemory + Cardinality(Clients) * MaxSize
  BY Zenon DEF RoomLeft
<1>2. Writing \in SUBSET Clients /\ Writing' \in SUBSET Clients
  BY Zenon DEF Writing
<1>3. /\ Cardinality(Writing) * MaxSize \in Nat /\ Cardinality(Writing') * MaxSize \in Nat
      /\ Cardinality(Clients) * MaxSize \in Nat
      /\ Cardinality(Writing') * MaxSize <= Cardinality(Clients) * MaxSize
  BY Zenon, <1>2, Room
<1>4. used \in Int /\ maxMemory \in Nat /\ MaxSize \in Nat
  BY Zenon, EvictionAssumption DEF MemoryTypeOK
<1>5. CASE used' <= used /\ Writing' \subseteq Writing
  <2>1. Cardinality(Writing') * MaxSize <= Cardinality(Writing) * MaxSize
    BY Zenon, <1>2, <1>5, LessRoom
  <2> QED
    BY SMTT(30), <1>1, <1>3, <1>4, <1>5, <2>1
<1>6. CASE used' <= maxMemory
  BY <1>3, <1>4, <1>6
<1>7. CASE \E c \in Writing : Writing' = Writing \ {c} /\ used' <= used + MaxSize
  <2>1. Cardinality(Writing') * MaxSize = Cardinality(Writing) * MaxSize - MaxSize
    BY Zenon, <1>2, <1>7, OneLess
  <2> QED
    BY <1>1, <1>3, <1>4, <1>7, <2>1
<1> QED
  BY Zenon, <1>5, <1>6, <1>7

(* What a worker carries has its type. *)
LEMMA JobShape ==
  ASSUME MemoryTypeOK, NEW w \in Workers
  PROVE  /\ doing[w] \in Jobs /\ doing[w].at \in Places /\ doing[w].size \in 0 .. MaxSize
         /\ doing[w].k \in Keys \cup {NoKey} /\ doing[w].todo \in SUBSET Range(ShardOf)
         /\ doing[w].kind \in {"none", "set", "setex", "keep"} /\ doing[w].victim \in Keys \cup {NoKey}
<1>1. doing[w] \in Jobs
  BY Zenon DEF MemoryTypeOK
<1> QED
  BY Zenon, <1>1 DEF Jobs

(* The idle worker. *)
LEMMA IdleShape == Idle \in Jobs /\ Idle.at = "idle"
BY EvictionAssumption DEF Idle, Jobs, Places, NoKey

(* A worker goes from one place to another. *)
LEMMA GoesShape ==
  ASSUME MemoryTypeOK, NEW w \in Workers, NEW j \in Jobs, Goes(w, j)
  PROVE  /\ doing' \in [Workers -> Jobs]
         /\ doing'[w] = j /\ \A v \in Workers : v # w => doing'[v] = doing[v]
BY Zenon DEF MemoryTypeOK, Goes

(* No worker moves between the writing and the other places. *)
LEMMA WritingKept ==
  ASSUME MemoryTypeOK, NEW w \in Workers, NEW j \in Jobs, Goes(w, j),
         j.at \notin {"recheck", "write", "add"} \/ doing[w].at \in {"recheck", "write", "add"}
  PROVE  Writing' \subseteq Writing
<1>1. /\ doing'[w] = j /\ \A v \in Workers : v # w => doing'[v] = doing[v]
  BY Zenon, GoesShape
<1> QED
  BY Zenon, <1>1 DEF Writing, Workers

(* Nobody begins or ends to publish. *)
LEMMA PublishingKept ==
  ASSUME MemoryTypeOK, NEW w \in Workers, NEW j \in Jobs, Goes(w, j),
         doing[w].at # "add", j.at # "add"
  PROVE  Publishing' = Publishing /\ \A c \in Publishing : doing'[c] = doing[c]
<1>1. /\ doing'[w] = j /\ \A v \in Workers : v # w => doing'[v] = doing[v]
  BY Zenon, GoesShape
<1> QED
  BY Zenon, <1>1 DEF Publishing, Workers

(* A step that changes neither the entries nor the counter nor the locks. *)
LEMMA Elsewhere ==
  ASSUME MemoryInv, NEW w \in Workers, NEW j \in Jobs, Goes(w, j),
         doing[w].at # "add", j.at # "add", UNCHANGED <<mix, entries, used, held>>,
         j.at = "flush" => "flush" \in mix.kinds,
         w \in Clients => j.at \in {"idle", "flush"} \/ j.k \in Keys,
         j.at \notin {"recheck", "write", "add"} \/ doing[w].at \in {"recheck", "write", "add"}
           \/ ("keep" \notin mix.kinds => used <= maxMemory)
  PROVE  MemoryInv'
<1>1. /\ doing' \in [Workers -> Jobs]
      /\ doing'[w] = j /\ \A v \in Workers : v # w => doing'[v] = doing[v]
  BY Zenon, GoesShape DEF MemoryInv
<1>2. MemoryTypeOK'
  BY Zenon, <1>1 DEF MemoryTypeOK, MemoryInv, Workers
<1>3. RoomLeft'
  BY RoomKept, WritingKept DEF MemoryInv, MemoryTypeOK
<1>4. Publishing' = Publishing /\ \A c \in Publishing : doing'[c] = doing[c]
  BY Zenon, PublishingKept DEF MemoryInv
<1>5. Counted' = Counted
  <2>1. \A k \in Keys : (\E c \in Clients : doing'[c].at = "add" /\ doing'[c].k = k)
                         <=> \E c \in Clients : doing[c].at = "add" /\ doing[c].k = k
    BY Zenon, <1>4 DEF Publishing
  <2>2. \A k \in Keys : SizeOf(k)' = SizeOf(k)
    BY Zenon DEF SizeOf
  <2> QED
    BY Zenon, <2>1, <2>2 DEF Counted
<1>6. CounterExact'
  <2>1. \A v \in Workers : doing'[v].at = "flush" => "flush" \in mix'.kinds
    BY Zenon, <1>1 DEF MemoryInv, CounterExact
  <2>2. LocksHeld => LocksHeld'
    BY <1>4 DEF LocksHeld
  <2>3. UsedIsEstimate => UsedIsEstimate'
    BY Zenon, <1>5 DEF UsedIsEstimate
  <2> QED
    BY Zenon, <2>1, <2>2, <2>3 DEF MemoryInv, CounterExact, NoDrift
<1> QED
  BY Zenon, <1>2, <1>3, <1>6 DEF MemoryInv
(* The estimates that count are integers. *)
LEMMA CountedShape ==
  ASSUME MemoryTypeOK
  PROVE  Counted \in [Keys -> Int] /\ \A k : SizeOf(k) \in 0 .. MaxSize
<1>1. \A k : SizeOf(k) \in 0 .. MaxSize
  BY EvictionAssumption DEF MemoryTypeOK, SizeOf
<1> QED
  BY <1>1 DEF Counted

(* A key goes, and its size with it, while nobody holds the lock of its shard. *)
LEMMA Removes ==
  ASSUME MemoryInv, NEW k, Free(k), used' = used - SizeOf(k), entries' = Without(entries, k),
         UNCHANGED <<mix, held>>, Publishing' = Publishing, \A c \in Publishing : doing'[c] = doing[c]
  PROVE  /\ used' \in Int /\ used' <= used
         /\ DOMAIN entries' \subseteq Keys /\ entries' \in [DOMAIN entries' -> 0 .. MaxSize]
         /\ NoDrift' => LocksHeld' /\ UsedIsEstimate'
<1>1. SizeOf(k) \in 0 .. MaxSize /\ used \in Int /\ Counted \in [Keys -> Int]
  BY Zenon, CountedShape DEF MemoryInv, MemoryTypeOK
<1>2. /\ DOMAIN entries' = DOMAIN entries \ {k}
      /\ \A j \in DOMAIN entries \ {k} : entries'[j] = entries[j]
      /\ entries' = [j \in DOMAIN entries \ {k} |-> entries[j]]
  BY Zenon DEF Without, Restrict
<1>3. DOMAIN entries' \subseteq Keys /\ entries' \in [DOMAIN entries' -> 0 .. MaxSize]
  BY Zenon, <1>2 DEF MemoryInv, MemoryTypeOK
<1>4. used' \in Int /\ used' <= used
  BY <1>1
<1>5. ASSUME NoDrift
      PROVE  LocksHeld' /\ UsedIsEstimate'
  <2>1. LocksHeld /\ used = Total(Counted)
    BY Zenon, <1>5 DEF MemoryInv, CounterExact, UsedIsEstimate
  <2>2. \A c \in Publishing : doing[c].k # k
    BY Zenon, <2>1 DEF LocksHeld, Free
  <2>3. LocksHeld'
    BY <1>2, <2>1, <2>2 DEF LocksHeld
  <2>4. \A j \in Keys : (\E c \in Clients : doing'[c].at = "add" /\ doing'[c].k = j)
                         <=> \E c \in Clients : doing[c].at = "add" /\ doing[c].k = j
    BY Zenon DEF Publishing
  <2>5. \A j \in Keys : j # k => SizeOf(j)' = SizeOf(j)
    BY Zenon, <1>2 DEF SizeOf
  <2>6. Counted' \in [Keys -> Int] /\ \A j \in Keys : j # k => Counted'[j] = Counted[j]
    <3>1. \A j \in Keys : SizeOf(j)' \in Int
      BY <1>3 DEF SizeOf
    <3> QED
      BY <2>4, <2>5, <3>1 DEF Counted
  <2>7. CASE k \in Keys
    <3>1. SizeOf(k)' = 0
      BY Zenon, <1>2 DEF SizeOf
    <3>2. Counted[k] = SizeOf(k)
      BY Zenon, <2>2, <2>7 DEF Counted, Publishing
    <3>3. Counted'[k] = 0
      BY Zenon, <2>7, <3>1 DEF Counted
    <3>4. Total(Counted) \in Int /\ Total(Counted') = Total(Counted) + Counted'[k] - Counted[k]
      BY Zenon, <1>1, <2>6, <2>7, TotalChanges
    <3>5. used' = Total(Counted')
      BY SMTT(30), <1>1, <2>1, <3>2, <3>3, <3>4
    <3> QED
      BY Zenon, <2>3, <3>5 DEF UsedIsEstimate
  <2>8. CASE k \notin Keys
    <3>1. SizeOf(k) = 0
      BY Zenon, <2>8 DEF SizeOf, MemoryInv, MemoryTypeOK
    <3>2. Counted' = Counted
      BY SMTT(30), <1>1, <2>6, <2>8
    <3>3. used' = Total(Counted')
      BY SMTT(30), <1>1, <2>1, <3>1, <3>2
    <3> QED
      BY ZenonT(40), <2>3, <3>3 DEF UsedIsEstimate
  <2> QED
    BY Zenon, <2>7, <2>8
<1> QED
  BY Zenon, <1>3, <1>4, <1>5 DEF NoDrift

-----------------------------------------------------------------------------
(* The steps. *)

(* DEL and the expiry cycle of the cron. *)
LEMMA DelKeeps ==
  ASSUME MemoryInv, NEW k, Free(k), used' = used - SizeOf(k), entries' = Without(entries, k),
         UNCHANGED <<mix, held, doing>>
  PROVE  MemoryInv'
<1>1. Publishing' = Publishing /\ Writing' = Writing /\ \A c \in Publishing : doing'[c] = doing[c]
  BY Zenon DEF Publishing, Writing
<1>2. /\ used' \in Int /\ used' <= used
      /\ DOMAIN entries' \subseteq Keys /\ entries' \in [DOMAIN entries' -> 0 .. MaxSize]
      /\ NoDrift' => LocksHeld' /\ UsedIsEstimate'
  BY Zenon, <1>1, Removes
<1>3. MemoryTypeOK'
  BY Zenon, <1>2 DEF MemoryInv, MemoryTypeOK
<1>4. RoomLeft'
  BY Zenon, <1>1, <1>2, RoomKept DEF MemoryInv
<1>5. CounterExact'
  BY Zenon, <1>2 DEF MemoryInv, CounterExact
<1> QED
  BY Zenon, <1>3, <1>4, <1>5 DEF MemoryInv

(* The evictor removes what it chose. *)
LEMMA EvictKeeps ==
  ASSUME MemoryInv, NEW w \in Workers, Evict(w)
  PROVE  MemoryInv'
<1> DEFINE k == doing[w].victim
           j == [doing[w] EXCEPT !.at = "loop", !.victim = NoKey]
<1>1. /\ doing[w].at = "evict" /\ Free(k) /\ used' = used - SizeOf(k) /\ entries' = Without(entries, k)
      /\ Goes(w, j) /\ UNCHANGED <<mix, held>>
  BY Zenon DEF Evict, BackToLoop
<1>2. j \in Jobs /\ j.at = "loop" /\ j.k = doing[w].k
  BY Zenon, JobShape DEF MemoryInv, Jobs, Places
<1> HIDE DEF k, j
<1>3. Publishing' = Publishing /\ \A c \in Publishing : doing'[c] = doing[c]
  BY Zenon, <1>1, <1>2, PublishingKept DEF MemoryInv
<1>4. Writing' \subseteq Writing
  BY Zenon, <1>1, <1>2, WritingKept DEF MemoryInv
<1>5. /\ used' \in Int /\ used' <= used
      /\ DOMAIN entries' \subseteq Keys /\ entries' \in [DOMAIN entries' -> 0 .. MaxSize]
      /\ NoDrift' => LocksHeld' /\ UsedIsEstimate'
  BY Zenon, <1>1, <1>3, Removes
<1>6. /\ doing' \in [Workers -> Jobs]
      /\ doing'[w] = j /\ \A v \in Workers : v # w => doing'[v] = doing[v]
  BY Zenon, <1>1, <1>2, GoesShape DEF MemoryInv
<1>7. MemoryTypeOK'
  BY Zenon, <1>1, <1>2, <1>5, <1>6 DEF MemoryInv, MemoryTypeOK, Workers
<1>8. RoomLeft'
  BY Zenon, <1>1, <1>4, <1>5, RoomKept DEF MemoryInv
<1>9. CounterExact'
  BY Zenon, <1>1, <1>2, <1>5, <1>6 DEF MemoryInv, CounterExact
<1> QED
  BY Zenon, <1>7, <1>8, <1>9 DEF MemoryInv
(* The old size goes off the counter and the value is published. *)
LEMMA WriteKeeps ==
  ASSUME MemoryInv, NEW c \in Clients, Write(c)
  PROVE  MemoryInv'
<1> DEFINE k == doing[c].k
           size == doing[c].size
           j == [doing[c] EXCEPT !.at = "add"]
<1>1. /\ doing[c].at = "write" /\ Free(k) /\ used' = used - SizeOf(k) /\ entries' = With(entries, k, size)
      /\ Goes(c, j) /\ held' = held \cup {ShardOf[k]} /\ mix' = mix
  BY Zenon DEF Write
<1>2. c \in Workers /\ j \in Jobs /\ j.at = "add" /\ j.k = k /\ j.size = size /\ size \in 0 .. MaxSize
  BY Zenon, JobShape DEF MemoryInv, Jobs, Places, Workers
<1>3. k \in Keys
  BY Zenon, <1>1 DEF MemoryInv, MemoryTypeOK
<1> HIDE DEF k, size, j
<1>4. /\ doing' \in [Workers -> Jobs]
      /\ doing'[c] = j /\ \A v \in Workers : v # c => doing'[v] = doing[v]
  BY Zenon, <1>1, <1>2, GoesShape DEF MemoryInv
<1>5. SizeOf(k) \in 0 .. MaxSize /\ used \in Int /\ Counted \in [Keys -> Int]
  BY Zenon, CountedShape DEF MemoryInv, MemoryTypeOK
<1>6. used' \in Int /\ used' <= used
  BY <1>1, <1>5
<1>7. /\ DOMAIN entries' = DOMAIN entries \cup {k} /\ entries'[k] = size
      /\ \A i \in DOMAIN entries : i # k => entries'[i] = entries[i]
      /\ entries' = [i \in DOMAIN entries \cup {k} |-> IF i = k THEN size ELSE entries[i]]
  BY Zenon, <1>1 DEF With
<1>8. DOMAIN entries' \subseteq Keys /\ entries' \in [DOMAIN entries' -> 0 .. MaxSize]
  BY Zenon, <1>2, <1>3, <1>7 DEF MemoryInv, MemoryTypeOK
<1>9. MemoryTypeOK'
  BY Zenon, <1>1, <1>2, <1>3, <1>4, <1>6, <1>8 DEF MemoryInv, MemoryTypeOK, Workers
<1>10. Writing' \subseteq Writing
  BY Zenon, <1>1, <1>2, WritingKept DEF MemoryInv
<1>11. RoomLeft'
  BY Zenon, <1>1, <1>6, <1>10, RoomKept DEF MemoryInv
<1>12. ASSUME NoDrift
       PROVE  LocksHeld' /\ UsedIsEstimate'
  <2>1. LocksHeld /\ used = Total(Counted)
    BY Zenon, <1>12 DEF MemoryInv, CounterExact, UsedIsEstimate
  <2>2. \A d \in Publishing : doing[d].k # k /\ ShardOf[doing[d].k] # ShardOf[k]
    BY Zenon, <1>1, <2>1 DEF LocksHeld, Free
  <2>3. Publishing' = Publishing \cup {c} /\ c \notin Publishing
        /\ \A d \in Publishing : doing'[d] = doing[d]
    BY ZenonT(40), <1>1, <1>2, <1>4 DEF Publishing, Workers
  <2>4. LocksHeld'
    BY SMTT(30), <1>1, <1>2, <1>4, <1>7, <2>1, <2>2, <2>3 DEF LocksHeld
  <2>5. \A i \in Keys : i # k => ((\E d \in Clients : doing'[d].at = "add" /\ doing'[d].k = i)
                                  <=> \E d \in Clients : doing[d].at = "add" /\ doing[d].k = i)
    BY Zenon, <1>1, <1>2, <1>4 DEF Workers
  <2>6. \A i \in Keys : i # k => SizeOf(i)' = SizeOf(i)
    BY Zenon, <1>7 DEF SizeOf
  <2>7. Counted' \in [Keys -> Int] /\ \A i \in Keys : i # k => Counted'[i] = Counted[i]
    <3>1. \A i \in Keys : SizeOf(i)' \in Int
      BY <1>8 DEF SizeOf
    <3> QED
      BY SMTT(30), <2>5, <2>6, <3>1 DEF Counted
  <2>8. Counted[k] = SizeOf(k)
    BY Zenon, <1>3, <2>2 DEF Counted, Publishing
  <2>9. Counted'[k] = 0
    BY Zenon, <1>2, <1>3, <1>4 DEF Counted
  <2>10. Total(Counted) \in Int /\ Total(Counted') = Total(Counted) + Counted'[k] - Counted[k]
    BY ZenonT(40), <1>3, <1>5, <2>7, TotalChanges
  <2>11. used' = Total(Counted')
    BY SMTT(30), <1>1, <1>5, <2>1, <2>8, <2>9, <2>10
  <2> QED
    BY Zenon, <2>4, <2>11 DEF UsedIsEstimate
<1>13. CounterExact'
  BY Zenon, <1>1, <1>2, <1>4, <1>12 DEF MemoryInv, CounterExact, NoDrift
<1> QED
  BY Zenon, <1>9, <1>11, <1>13 DEF MemoryInv

(* The new size goes on the counter. *)
LEMMA AddMemKeeps ==
  ASSUME MemoryInv, NEW c \in Clients, AddMem(c)
  PROVE  MemoryInv'
<1> DEFINE k == doing[c].k
           size == doing[c].size
<1>1. /\ doing[c].at = "add" /\ used' = used + size /\ held' = held \ {ShardOf[k]}
      /\ Goes(c, Idle) /\ UNCHANGED <<mix, entries>>
  BY Zenon DEF AddMem, Ends
<1>2. c \in Workers /\ size \in 0 .. MaxSize /\ k \in Keys
  BY Zenon, <1>1, JobShape DEF MemoryInv, Workers, MemoryTypeOK
<1> HIDE DEF k, size
<1>4. /\ doing' \in [Workers -> Jobs]
      /\ doing'[c] = Idle /\ \A v \in Workers : v # c => doing'[v] = doing[v]
  BY ZenonT(40), <1>1, <1>2, GoesShape, IdleShape DEF MemoryInv
<1>5. used \in Int /\ Counted \in [Keys -> Int] /\ used' \in Int /\ used' <= used + MaxSize
  BY SMTT(30), <1>1, <1>2, CountedShape, EvictionAssumption DEF MemoryInv, MemoryTypeOK
<1>6. MemoryTypeOK'
  BY Zenon, <1>1, <1>4, <1>5, IdleShape DEF MemoryInv, MemoryTypeOK, Workers
<1>7. c \in Writing /\ Writing' = Writing \ {c}
  BY Zenon, <1>1, <1>4, IdleShape DEF Writing, Workers
<1>8. RoomLeft'
  BY Zenon, <1>1, <1>5, <1>7, RoomKept DEF MemoryInv
<1>9. ASSUME NoDrift
      PROVE  LocksHeld' /\ UsedIsEstimate'
  <2>1. LocksHeld /\ used = Total(Counted)
    BY ZenonT(40), <1>9 DEF MemoryInv, CounterExact, UsedIsEstimate
  <2>2. c \in Publishing /\ Publishing' = Publishing \ {c} /\ \A d \in Publishing \ {c} : doing'[d] = doing[d]
    BY Zenon, <1>1, <1>4, IdleShape DEF Publishing, Workers
  <2>3. \A d \in Publishing \ {c} : doing[d].k # k /\ ShardOf[doing[d].k] # ShardOf[k]
    BY ZenonT(40), <2>1, <2>2 DEF LocksHeld, k
  <2>4. LocksHeld'
    BY SMTT(30), <1>1, <2>1, <2>2, <2>3 DEF LocksHeld
  <2>5. \A i \in Keys : i # k => ((\E d \in Clients : doing'[d].at = "add" /\ doing'[d].k = i)
                                  <=> \E d \in Clients : doing[d].at = "add" /\ doing[d].k = i)
    BY Zenon, <1>1, <1>4, IdleShape DEF Workers, k
  <2>6. \A i \in Keys : SizeOf(i)' = SizeOf(i)
    BY Zenon, <1>1 DEF SizeOf
  <2>7. Counted' \in [Keys -> Int] /\ \A i \in Keys : i # k => Counted'[i] = Counted[i]
    <3>1. \A i \in Keys : SizeOf(i)' \in Int
      BY <2>6, CountedShape DEF MemoryInv
    <3> QED
      BY <2>5, <2>6, <3>1 DEF Counted
  <2>8. Counted[k] = 0
    BY Zenon, <1>1, <1>2 DEF Counted, k
  <2>9. Counted'[k] = size
    <3>1. SizeOf(k) = size
      BY Zenon, <2>1, <2>2 DEF LocksHeld, SizeOf, k, size
    <3>2. ~ \E d \in Clients : doing'[d].at = "add" /\ doing'[d].k = k
      BY Zenon, <2>2, <2>3 DEF Publishing
    <3> QED
      BY Zenon, <1>2, <2>6, <3>1, <3>2 DEF Counted
  <2>10. Total(Counted) \in Int /\ Total(Counted') = Total(Counted) + Counted'[k] - Counted[k]
    BY Zenon, <1>2, <1>5, <2>7, TotalChanges
  <2>11. used' = Total(Counted')
    BY SMTT(30), <1>1, <1>2, <1>5, <2>1, <2>8, <2>9, <2>10
  <2> QED
    BY ZenonT(40), <2>4, <2>11 DEF UsedIsEstimate
<1>10. CounterExact'
  BY Zenon, <1>1, <1>4, <1>9, IdleShape DEF MemoryInv, CounterExact, NoDrift
<1> QED
  BY ZenonT(40), <1>6, <1>8, <1>10 DEF MemoryInv
(* FLUSHALL and growth in place make the counter drift, never upwards. *)
LEMMA DriftKeeps ==
  ASSUME MemoryInv, NEW c \in Clients,
         FlushShard(c) \/ FlushCounter(c) \/ \E k \in mix.keys, size \in mix.sizes : Grow(c, k, size)
  PROVE  MemoryInv'
<1>0. c \in Workers /\ mix \in Mixes
  BY Zenon DEF Workers, MemoryInv, MemoryTypeOK
<1>1. CASE FlushShard(c)
  <2> DEFINE shard == CHOOSE s \in doing[c].todo : \A t \in doing[c].todo : s <= t
             gone  == {k \in Keys : ShardOf[k] = shard}
             j == [doing[c] EXCEPT !.todo = @ \ {shard}]
  <2>1. /\ doing[c].at = "flush" /\ entries' = Restrict(entries, DOMAIN entries \ gone)
        /\ Goes(c, j) /\ UNCHANGED <<mix, used, held>>
    BY Zenon, <1>1 DEF FlushShard
  <2>2. j \in Jobs /\ j.at = "flush"
    BY Zenon, <1>0, <2>1, JobShape DEF MemoryInv, Jobs
  <2> HIDE DEF j, gone
  <2>3. /\ doing' \in [Workers -> Jobs]
        /\ doing'[c] = j /\ \A v \in Workers : v # c => doing'[v] = doing[v]
    BY Zenon, <1>0, <2>1, <2>2, GoesShape DEF MemoryInv
  <2>4. DOMAIN entries' \subseteq Keys /\ entries' \in [DOMAIN entries' -> 0 .. MaxSize]
    BY Zenon, <2>1 DEF Restrict, MemoryInv, MemoryTypeOK
  <2>5. MemoryTypeOK'
    BY Zenon, <1>0, <2>1, <2>2, <2>3, <2>4 DEF MemoryInv, MemoryTypeOK, Workers
  <2>6. Writing' \subseteq Writing
    BY Zenon, <1>0, <2>1, <2>2, WritingKept DEF MemoryInv
  <2>7. RoomLeft'
    BY <2>1, <2>6, RoomKept DEF MemoryInv, MemoryTypeOK
  <2>8. CounterExact'
    BY Zenon, <1>0, <2>1, <2>3 DEF MemoryInv, CounterExact, NoDrift
  <2> QED
    BY Zenon, <2>5, <2>7, <2>8 DEF MemoryInv
<1>2. CASE FlushCounter(c)
  <2>1. doing[c].at = "flush" /\ used' = 0 /\ Goes(c, Idle) /\ UNCHANGED <<mix, entries, held>>
    BY Zenon, <1>2 DEF FlushCounter
  <2>2. /\ doing' \in [Workers -> Jobs]
        /\ doing'[c] = Idle /\ \A v \in Workers : v # c => doing'[v] = doing[v]
    BY Zenon, <1>0, <2>1, GoesShape, IdleShape DEF MemoryInv
  <2>3. MemoryTypeOK'
    BY SMTT(30), <1>0, <2>1, <2>2, IdleShape DEF MemoryInv, MemoryTypeOK, Workers
  <2>4. RoomLeft'
    BY <2>1, RoomKept, EvictionAssumption DEF MemoryInv
  <2>5. CounterExact'
    BY Zenon, <1>0, <2>1, <2>2, IdleShape DEF MemoryInv, CounterExact, NoDrift
  <2> QED
    BY ZenonT(40), <2>3, <2>4, <2>5 DEF MemoryInv
<1>3. CASE \E k \in mix.keys, size \in mix.sizes : Grow(c, k, size)
  <2>1. PICK k \in mix.keys, size \in mix.sizes : Grow(c, k, size)
    BY Zenon, <1>3
  <2>2. /\ "grow" \in mix.kinds /\ k \in DOMAIN entries /\ entries' = [entries EXCEPT ![k] = size]
        /\ UNCHANGED <<mix, used, held, doing>>
    BY Zenon, <2>1 DEF Grow
  <2>3. size \in 0 .. MaxSize
    BY <1>0, EvictionAssumption
  <2>4. DOMAIN entries' \subseteq Keys /\ entries' \in [DOMAIN entries' -> 0 .. MaxSize]
    BY Zenon, <2>2, <2>3 DEF MemoryInv, MemoryTypeOK
  <2>5. MemoryTypeOK'
    BY Zenon, <2>2, <2>4 DEF MemoryInv, MemoryTypeOK
  <2>6. Writing' = Writing
    BY Zenon, <2>2 DEF Writing
  <2>7. RoomLeft'
    BY <2>2, <2>6, RoomKept DEF MemoryInv, MemoryTypeOK
  <2>8. CounterExact'
    BY Zenon, <2>2 DEF MemoryInv, CounterExact, NoDrift
  <2> QED
    BY Zenon, <2>5, <2>7, <2>8 DEF MemoryInv
<1> QED
  BY Zenon, <1>1, <1>2, <1>3

(* A write begins, and passes or fails the first look at the limit. *)
LEMMA BeginKeeps ==
  ASSUME MemoryInv, NEW c \in Clients, NEW k \in mix.keys,
         NEW kind \in {"set", "setex", "keep"}, NEW size \in mix.sizes, Begin(c, kind, k, size)
  PROVE  MemoryInv'
<1> DEFINE at(name) == [Idle EXCEPT !.at = name, !.kind = kind, !.k = k, !.size = size]
           j == IF kind # "keep" /\ used + size > maxMemory THEN at("free") ELSE at("write")
<1>1. /\ doing[c] = Idle /\ kind \in mix.kinds /\ Goes(c, j) /\ UNCHANGED <<mix, entries, used, held>>
  BY Zenon DEF Begin
<1>2. c \in Workers /\ mix \in Mixes /\ used \in Int
  BY Zenon DEF MemoryInv, MemoryTypeOK, Workers
<1>3. k \in Keys /\ size \in 0 .. MaxSize /\ MaxSize \in Nat /\ maxMemory \in Nat
  BY <1>2, EvictionAssumption
<1>4. at("free") \in Jobs /\ at("write") \in Jobs /\ at("free").k = k /\ at("write").k = k
      /\ at("free").at = "free" /\ at("write").at = "write"
  BY Zenon, <1>3 DEF Jobs, Idle, Places
<1>5. j \in Jobs /\ j.k = k /\ j.at \in {"free", "write"}
      /\ (j.at = "write" => kind = "keep" \/ used + size <= maxMemory)
  BY SMTT(30), <1>2, <1>3, <1>4
<1>6. j.at = "write" => ("keep" \notin mix.kinds => used <= maxMemory)
  BY SMTT(30), <1>1, <1>2, <1>3, <1>5
<1> HIDE DEF j
<1> QED
  BY Zenon, <1>1, <1>2, <1>3, <1>5, <1>6, IdleShape, Elsewhere

(* A worker changes its place and nothing else of what it carries. *)
LEMMA MovesKeep ==
  ASSUME MemoryInv, NEW w \in Workers, NEW place \in {"loop", "choose", "recheck", "write"},
         Goes(w, [doing[w] EXCEPT !.at = place]),
         doing[w].at \notin {"idle", "flush", "add"}, UNCHANGED <<mix, entries, used, held>>,
         place = "recheck" => used <= maxMemory,
         place = "write" => doing[w].at = "recheck"
  PROVE  MemoryInv'
<1> DEFINE j == [doing[w] EXCEPT !.at = place]
<1>1. j \in Jobs /\ j.at = place /\ j.k = doing[w].k
  BY Zenon, JobShape DEF MemoryInv, Jobs, Places
<1> HIDE DEF j
<1>2. Goes(w, j)
  BY Zenon DEF j
<1>3. w \in Clients => j.k \in Keys
  BY Zenon, <1>1 DEF MemoryInv, MemoryTypeOK
<1> QED
  BY Zenon, <1>1, <1>2, <1>3, Elsewhere

(* A worker gives up. *)
LEMMA EndsKeeps ==
  ASSUME MemoryInv, NEW w \in Workers, Goes(w, Idle), doing[w].at # "add",
         UNCHANGED <<mix, entries, used, held>>
  PROVE  MemoryInv'
BY Zenon, IdleShape, Elsewhere
(* The evictor's own steps, of a client or of the cron. *)
LEMMA EvictorKeeps ==
  ASSUME MemoryInv, NEW w \in Workers, Loop(w) \/ Choose(w) \/ Evict(w)
  PROVE  MemoryInv'
<1>0. used \in Int /\ maxMemory \in Nat
  BY Zenon, EvictionAssumption DEF MemoryInv, MemoryTypeOK
<1>1. CASE Loop(w)
  <2>1. doing[w].at = "loop" /\ UNCHANGED <<mix, entries, used, held>>
    BY Zenon, <1>1 DEF Loop
  <2>2. CASE used > maxMemory
    <3>1. Goes(w, [doing[w] EXCEPT !.at = "choose"])
      BY Zenon, <1>1, <2>2 DEF Loop
    <3> QED
      BY Zenon, <2>1, <3>1, MovesKeep
  <2>3. CASE ~(used > maxMemory) /\ w = Cron
    <3>1. Goes(w, Idle)
      BY Zenon, <1>1, <2>3 DEF Loop
    <3> QED
      BY Zenon, <2>1, <3>1, EndsKeeps
  <2>4. CASE ~(used > maxMemory) /\ w # Cron
    <3>1. Goes(w, [doing[w] EXCEPT !.at = "recheck"]) /\ used <= maxMemory
      BY <1>0, <1>1, <2>4 DEF Loop
    <3> QED
      BY Zenon, <2>1, <3>1, MovesKeep
  <2> QED
    BY Zenon, <2>2, <2>3, <2>4
<1>2. CASE Choose(w)
  <2>1. doing[w].at = "choose" /\ UNCHANGED <<mix, entries, used, held>>
    BY Zenon, <1>2 DEF Choose, NothingFound, Refuse
  <2>2. CASE Goes(w, Idle)
    BY Zenon, <2>1, <2>2, EndsKeeps
  <2>3. CASE \E k \in Candidates : Goes(w, [doing[w] EXCEPT !.at = "evict", !.victim = k])
    <3>1. PICK k \in Candidates : Goes(w, [doing[w] EXCEPT !.at = "evict", !.victim = k])
      BY Zenon, <2>3
    <3> DEFINE j == [doing[w] EXCEPT !.at = "evict", !.victim = k]
    <3>2. k \in Keys
      BY Zenon DEF Candidates, MemoryInv, MemoryTypeOK
    <3>3. j \in Jobs /\ j.at = "evict" /\ j.k = doing[w].k
      BY Zenon, <3>2, JobShape DEF MemoryInv, Jobs, Places
    <3> HIDE DEF j
    <3>4. Goes(w, j)
      BY Zenon, <3>1 DEF j
    <3>5. w \in Clients => j.k \in Keys
      BY Zenon, <2>1, <3>3 DEF MemoryInv, MemoryTypeOK
    <3> QED
      BY Zenon, <2>1, <3>3, <3>4, <3>5, Elsewhere
  <2>4. Goes(w, Idle) \/ \E k \in Candidates : Goes(w, [doing[w] EXCEPT !.at = "evict", !.victim = k])
    BY Zenon, <1>2 DEF Choose, NothingFound, Refuse, Ends
  <2> QED
    BY Zenon, <2>2, <2>3, <2>4
<1>3. CASE Evict(w)
  BY Zenon, <1>3, EvictKeeps
<1> QED
  BY Zenon, <1>1, <1>2, <1>3

(* The steps of a client around the evictor: the look at the limit before it *)
(* and after it.                                                             *)
LEMMA ChecksKeep ==
  ASSUME MemoryInv, NEW c \in Clients, FreeMemoryIfNeeded(c) \/ Recheck(c)
  PROVE  MemoryInv'
<1>0. c \in Workers
  BY Zenon DEF Workers
<1>1. CASE FreeMemoryIfNeeded(c)
  <2>1. doing[c].at = "free" /\ UNCHANGED <<mix, entries, used, held>>
    BY Zenon, <1>1 DEF FreeMemoryIfNeeded, Refuse
  <2>2. \/ used <= maxMemory /\ Goes(c, [doing[c] EXCEPT !.at = "recheck"])
        \/ Goes(c, Idle)
        \/ Goes(c, [doing[c] EXCEPT !.at = "loop"])
    BY Zenon, <1>1 DEF FreeMemoryIfNeeded, Refuse, Ends
  <2> QED
    BY Zenon, <1>0, <2>1, <2>2, MovesKeep, EndsKeeps
<1>2. CASE Recheck(c)
  <2>1. doing[c].at = "recheck" /\ UNCHANGED <<mix, entries, used, held>>
    BY Zenon, <1>2 DEF Recheck, Refuse
  <2>2. Goes(c, Idle) \/ Goes(c, [doing[c] EXCEPT !.at = "write"])
    BY Zenon, <1>2 DEF Recheck, Refuse, Ends
  <2> QED
    BY Zenon, <1>0, <2>1, <2>2, MovesKeep, EndsKeeps
<1> QED
  BY Zenon, <1>1, <1>2

(* A FLUSHALL begins, or a tick of the cron. *)
LEMMA StartsKeep ==
  ASSUME MemoryInv, CronFree \/ \E c \in Clients : FlushAll(c)
  PROVE  MemoryInv'
<1>1. CASE CronFree
  <2> DEFINE j == [Idle EXCEPT !.at = "loop"]
  <2>1. j \in Jobs /\ j.at = "loop"
    BY EvictionAssumption DEF Jobs, Idle, Places
  <2>2. doing[Cron] = Idle /\ Goes(Cron, j) /\ UNCHANGED <<mix, entries, used, held>>
    BY Zenon, <1>1 DEF CronFree
  <2>3. Cron \in Workers /\ Cron \notin Clients
    BY Zenon, EvictionAssumption DEF Workers
  <2> HIDE DEF j
  <2> QED
    BY Zenon, <2>1, <2>2, <2>3, IdleShape, Elsewhere
<1>2. CASE \E c \in Clients : FlushAll(c)
  <2>1. PICK c \in Clients : FlushAll(c)
    BY Zenon, <1>2
  <2> DEFINE j == [Idle EXCEPT !.at = "flush", !.todo = Range(ShardOf)]
  <2>2. j \in Jobs /\ j.at = "flush"
    <3>1. 0 \in 0 .. MaxSize /\ "flush" \in Places /\ Range(ShardOf) \in SUBSET Range(ShardOf)
      BY EvictionAssumption DEF Places
    <3>2. Idle \in Jobs
      BY Zenon, IdleShape
    <3> QED
      BY Zenon, <3>1, <3>2 DEF Jobs
  <2>3. doing[c] = Idle /\ "flush" \in mix.kinds /\ Goes(c, j) /\ UNCHANGED <<mix, entries, used, held>>
    BY Zenon, <2>1 DEF FlushAll
  <2>4. c \in Workers
    BY Zenon DEF Workers
  <2> HIDE DEF j
  <2> QED
    BY Zenon, <2>2, <2>3, <2>4, IdleShape, Elsewhere
<1> QED
  BY Zenon, <1>1, <1>2

(* The store starts empty, with the counter at zero. *)
LEMMA MemoryStarts == MemoryInit => MemoryInv
<1> SUFFICES ASSUME MemoryInit
             PROVE  MemoryInv
  OBVIOUS
<1>1. \A w \in Workers : doing[w] = Idle
  BY Zenon DEF MemoryInit
<1>2. MemoryTypeOK
  BY <1>1, IdleShape DEF MemoryInit, MemoryTypeOK, Workers
<1>3. RoomLeft
  <2>1. Writing = {}
    BY Zenon, <1>1, IdleShape DEF Writing, Workers
  <2>2. Cardinality(Writing) * MaxSize <= Cardinality(Clients) * MaxSize
        /\ Cardinality(Writing) * MaxSize \in Nat /\ Cardinality(Clients) * MaxSize \in Nat
    BY Zenon, <2>1, Room
  <2> QED
    BY <2>2, EvictionAssumption DEF RoomLeft, MemoryInit
<1>4. Publishing = {}
  BY Zenon, <1>1, IdleShape DEF Publishing, Workers
<1>5. UsedIsEstimate
  <2>1. \A k : SizeOf(k) = 0
    BY Zenon DEF SizeOf, MemoryInit
  <2>2. Counted \in [Keys -> {0}]
    BY Zenon, <2>1 DEF Counted
  <2> QED
    BY Zenon, <2>2, TotalOfZeros DEF UsedIsEstimate, MemoryInit
<1>6. CounterExact
  BY Zenon, <1>1, <1>4, <1>5, IdleShape DEF CounterExact, LocksHeld
<1> QED
  BY Zenon, <1>2, <1>3, <1>6 DEF MemoryInv

(* Every step keeps the room of the writers and the counter. *)
LEMMA MemoryStepKeeps == MemoryInv /\ [MemoryNext]_memoryVars => MemoryInv'
<1> SUFFICES ASSUME MemoryInv, [MemoryNext]_memoryVars
             PROVE  MemoryInv'
  OBVIOUS
<1>1. CASE UNCHANGED memoryVars
  BY Zenon, <1>1 DEF memoryVars, MemoryInv, MemoryTypeOK, RoomLeft, Writing, CounterExact, NoDrift, LocksHeld,
              Publishing, UsedIsEstimate, Counted, SizeOf
<1>2. ASSUME NEW c \in Clients, NEW k \in mix.keys, NEW kind \in {"set", "setex", "keep"},
             NEW size \in mix.sizes, Begin(c, kind, k, size)
      PROVE  MemoryInv'
  BY Zenon, <1>2, BeginKeeps
<1>3. ASSUME NEW c \in Clients, NEW k \in mix.keys, Del(c, k)
      PROVE  MemoryInv'
  <2>1. /\ Free(k) /\ used' = used - SizeOf(k) /\ entries' = Without(entries, k)
        /\ UNCHANGED <<mix, held, doing>>
    BY Zenon, <1>3 DEF Del, SizeOf
  <2> QED
    BY Zenon, <2>1, DelKeeps
<1>4. ASSUME NEW c \in Clients, FlushAll(c)
      PROVE  MemoryInv'
  BY Zenon, <1>4, StartsKeep
<1>5. ASSUME NEW c \in Clients, NEW k \in mix.keys, NEW size \in mix.sizes, Grow(c, k, size)
      PROVE  MemoryInv'
  BY Zenon, <1>5, DriftKeeps
<1>6. CASE CronFree
  BY Zenon, <1>6, StartsKeep
<1>7. ASSUME NEW k \in Keys, ActiveExpireCycle(k)
      PROVE  MemoryInv'
  <2>1. /\ Free(k) /\ used' = used - SizeOf(k) /\ entries' = Without(entries, k)
        /\ UNCHANGED <<mix, held, doing>>
    BY Zenon, <1>7 DEF ActiveExpireCycle
  <2> QED
    BY Zenon, <2>1, DelKeeps
<1>8. ASSUME NEW w \in Workers, WorkerStep(w)
      PROVE  MemoryInv'
  <2>1. CASE Loop(w) \/ Choose(w) \/ Evict(w)
    BY Zenon, <2>1, EvictorKeeps
  <2>2. CASE w \in Clients /\ (FreeMemoryIfNeeded(w) \/ Recheck(w))
    BY Zenon, <2>2, ChecksKeep
  <2>3. CASE w \in Clients /\ Write(w)
    BY Zenon, <2>3, WriteKeeps
  <2>4. CASE w \in Clients /\ AddMem(w)
    BY Zenon, <2>4, AddMemKeeps
  <2>5. CASE w \in Clients /\ (FlushShard(w) \/ FlushCounter(w))
    BY ZenonT(40), <2>5, DriftKeeps
  <2> QED
    BY Zenon, <1>8, <2>1, <2>2, <2>3, <2>4, <2>5 DEF WorkerStep
<1> QED
  BY Zenon, <1>1, <1>2, <1>3, <1>4, <1>5, <1>6, <1>7, <1>8 DEF MemoryNext

(* The inductive invariant of the memory limit. *)
THEOREM MemoryInvariant == MemorySpec => []MemoryInv
<1> QED
  BY MemoryStarts, MemoryStepKeeps, PTL DEF MemorySpec

(* However many clients write, delete and evict beside the cron, usedMemory  *)
(* stays the sum of the sizes of what is stored: no value is subtracted      *)
(* twice, and none that was not removed.                                     *)
THEOREM CounterIsExact == MemorySpec => []UsedIsSum
<1>1. MemoryInv => UsedIsSum
  BY Zenon DEF MemoryInv, CounterExact, NoDrift, UsedIsSum
<1> QED
  BY <1>1, MemoryInvariant, PTL

(* Memory in use exceeds the limit by at most one value for every client, for *)
(* any number of clients, keys and sizes, as long as all writers check it.    *)
THEOREM LimitHolds == MemorySpec => []MemoryBounded
<1>1. MemoryInv => MemoryBounded
  <2> SUFFICES ASSUME MemoryInv, "keep" \notin mix.kinds
               PROVE  used <= maxMemory + Cardinality(Clients) * MaxSize
    BY Zenon DEF MemoryBounded
  <2>1. used + Cardinality(Writing) * MaxSize <= maxMemory + Cardinality(Clients) * MaxSize
    BY Zenon DEF MemoryInv, RoomLeft
  <2>2. Cardinality(Writing) * MaxSize \in Nat /\ Cardinality(Clients) * MaxSize \in Nat
    BY Zenon, Room DEF Writing
  <2> QED
    BY SMTT(30), <2>1, <2>2, EvictionAssumption DEF MemoryInv, MemoryTypeOK
<1> QED
  BY <1>1, MemoryInvariant, PTL
=============================================================================
