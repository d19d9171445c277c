------------------------------ MODULE Scripting ------------------------------
(***************************************************************************)
(* The Lua engine (scripting/engine.go) as EVAL, EVALSHA and SCRIPT        *)
(* (commands/script.go) use it: the cache of compiled scripts, the pool of *)
(* interpreters, and the watchdog that cancels a script which runs past    *)
(* its deadline.  EVAL holds the transaction lock, so one script runs at a *)
(* time; the watchdog runs beside it under a lock of its own.  What a      *)
(* script computes is left out: it ends, or never does, or flushes the     *)
(* cache while it runs, or does not compile.                               *)
(***************************************************************************)
EXTENDS Integers, FiniteSets

CONSTANTS
  Callers,   \* connections that call EVAL, EVALSHA and SCRIPT
  Scripts,   \* subset of {"short", "endless", "flush", "broken"}
  VMs,       \* names for the interpreters
  maxPooledVMs

VARIABLES
  scripts,   \* Engine.scripts, protoCache and textHashes
  pool, live,
  fns,       \* vm.fns: the functions compiled on every interpreter
  deadline,  \* vm.deadline: "none", "armed", or "late" once it has passed
  canceled,  \* the interpreters whose context is cancelled
  exec,      \* the interpreters that hold an executor (vm.ud.Value)
  tx,        \* who holds the transaction lock
  pc,
  job,       \* the script of every caller and the interpreter it got
  wd,        \* the watchdog's pass: what was late at the tick, what it has yet to see
  answer     \* how the last script of every caller ended

engine == <<scripts, pool, live, fns, deadline, canceled, exec>>
vars   == <<engine, tx, pc, job, wd, answer>>

NoVM    == 0
ASSUME VMsAssumption == VMs # {} /\ NoVM \notin VMs

Asleep  == [at |-> "asleep"]
InUse   == {job[c].vm : c \in Callers} \ {NoVM}

Init ==
  /\ scripts = {} /\ pool = {} /\ live = {}
  /\ fns = [v \in VMs |-> {}] /\ deadline = [v \in VMs |-> "none"]
  /\ canceled = {} /\ exec = {} /\ tx = {}
  /\ pc = [c \in Callers |-> "idle"]
  /\ job = [c \in Callers |-> [script |-> "none", vm |-> NoVM, late |-> "no"]]
  /\ wd = Asleep
  /\ answer = [c \in Callers |-> "none"]

Goto(c, l) == pc' = [pc EXCEPT ![c] = l]
Replies(c, a) == answer' = [answer EXCEPT ![c] = a]
\* liveMu is free: the watchdog holds it during its pass.
LiveFree == wd = Asleep

\* EVAL: BeginTx, then CompileOrGet, which caches what compiles.
Eval(c, s) ==
  /\ pc[c] = "idle" /\ tx = {}
  /\ IF s = "broken" THEN Replies(c, "error") /\ UNCHANGED <<scripts, tx, pc, job>>
     ELSE /\ scripts' = scripts \cup {s} /\ tx' = {c}
          /\ Goto(c, "get") /\ job' = [job EXCEPT ![c] = [@ EXCEPT !.script = s]]
          /\ Replies(c, "none")
  /\ UNCHANGED <<pool, live, fns, deadline, canceled, exec, wd>>

EvalSHA(c, s) ==
  /\ pc[c] = "idle" /\ tx = {}
  /\ IF s \notin scripts THEN Replies(c, "noscript") /\ UNCHANGED <<tx, pc, job>>
     ELSE /\ tx' = {c} /\ Goto(c, "get")
          /\ job' = [job EXCEPT ![c] = [@ EXCEPT !.script = s]]
          /\ Replies(c, "none")
  /\ UNCHANGED <<engine, wd>>

\* SCRIPT LOAD answers the hash whether the script compiles or not.
LoadScript(c, s) ==
  /\ pc[c] = "idle" /\ tx = {} /\ s # "broken"
  /\ scripts' = scripts \cup {s}
  /\ UNCHANGED <<pool, live, fns, deadline, canceled, exec, tx, pc, job, wd, answer>>

\* FlushScripts: the caches, then every interpreter of the pool.
FlushScripts ==
  /\ LiveFree \/ pool = {}
  /\ scripts' = {}
  /\ live' = live \ pool
  /\ pool' = {} /\ canceled' = canceled \ pool
  /\ fns' = [v \in VMs |-> IF v \in pool THEN {} ELSE fns[v]]

\* SCRIPT FLUSH of a connection waits for the script that runs.
Flush(c) ==
  /\ pc[c] = "idle" /\ tx = {}
  /\ FlushScripts
  /\ UNCHANGED <<deadline, exec, tx, pc, job, wd, answer>>

\* getVM: one from the pool, or a new one.
GetVM(c) ==
  /\ pc[c] = "get"
  /\ \/ \E v \in pool :
          /\ pool' = pool \ {v} /\ job' = [job EXCEPT ![c] = [@ EXCEPT !.vm = v]]
          /\ UNCHANGED live
     \/ /\ pool = {} /\ LiveFree
        /\ LET v == CHOOSE w \in VMs \ live : TRUE
           IN live' = live \cup {v} /\ job' = [job EXCEPT ![c] = [@ EXCEPT !.vm = v]]
        /\ UNCHANGED pool
  /\ Goto(c, "function")
  /\ UNCHANGED <<scripts, fns, deadline, canceled, exec, tx, wd, answer>>

\* vm.function: the wrapper chunk runs on first use, and fails on an interpreter
\* that is cancelled.  Then the executor is set.
Function(c) ==
  LET v == job[c].vm
  IN /\ pc[c] = "function"
     /\ IF job[c].script \notin fns[v] /\ v \in canceled
        THEN Replies(c, "error") /\ Goto(c, "put") /\ UNCHANGED <<fns, exec>>
        ELSE /\ fns' = [fns EXCEPT ![v] = @ \cup {job[c].script}]
             /\ exec' = exec \cup {v} /\ Goto(c, "arm") /\ UNCHANGED answer
     /\ UNCHANGED <<scripts, pool, live, deadline, canceled, tx, job, wd>>

\* Mutant: the deadline is not armed.
ArmNever(c) ==
  /\ pc[c] = "arm"
  /\ Goto(c, "run")
  /\ UNCHANGED <<engine, tx, job, wd, answer>>

\* A watchdog pass that began before has an older time than this deadline.
Arm(c) ==
  /\ pc[c] = "arm"
  /\ deadline' = [deadline EXCEPT ![job[c].vm] = "armed"]
  /\ wd' = IF wd = Asleep THEN wd ELSE [wd EXCEPT !.late = @ \ {job[c].vm}]
  /\ job' = [job EXCEPT ![c] = [@ EXCEPT !.late = "no"]]
  /\ Goto(c, "run")
  /\ UNCHANGED <<scripts, pool, live, fns, canceled, exec, tx, answer>>

\* redis.call("script", "flush") inside a script.
CallFlush(c) ==
  /\ pc[c] = "run" /\ job[c].script = "flush" /\ job[c].vm \notin canceled
  /\ FlushScripts
  /\ UNCHANGED <<deadline, exec, tx, pc, job, wd, answer>>

\* PCall returns: the script ended, or its context was cancelled.
Return(c) ==
  /\ pc[c] = "run"
  /\ IF job[c].vm \in canceled THEN Replies(c, "busy")
     ELSE job[c].script # "endless" /\ Replies(c, "done")
  /\ Goto(c, "reset")
  /\ UNCHANGED <<engine, tx, job, wd>>

\* Mutant: the deadline of the script stays when its interpreter is put back.
ResetKeepsDeadline(c) ==
  /\ pc[c] = "reset"
  /\ exec' = exec \ {job[c].vm}
  /\ Goto(c, "put")
  /\ UNCHANGED <<scripts, pool, live, fns, deadline, canceled, tx, job, wd, answer>>

Reset(c) ==
  /\ pc[c] = "reset"
  /\ deadline' = [deadline EXCEPT ![job[c].vm] = "none"]
  /\ exec' = exec \ {job[c].vm}
  /\ Goto(c, "put")
  /\ UNCHANGED <<scripts, pool, live, fns, canceled, tx, job, wd, answer>>

\* putVM looks at the context, then offers the interpreter to the pool.
PutVM(c) ==
  /\ pc[c] = "put"
  /\ Goto(c, IF job[c].vm \in canceled THEN "destroy" ELSE "offer")
  /\ UNCHANGED <<engine, tx, job, wd, answer>>

Leave(c) == /\ tx' = {} /\ Goto(c, "idle")
            /\ job' = [job EXCEPT ![c] = [script |-> "none", vm |-> NoVM, late |-> "no"]]

Offer(c) ==
  /\ pc[c] = "offer"
  /\ IF Cardinality(pool) < maxPooledVMs
     THEN pool' = pool \cup {job[c].vm} /\ Leave(c)
     ELSE Goto(c, "destroy") /\ UNCHANGED <<pool, tx, job>>
  /\ UNCHANGED <<scripts, live, fns, deadline, canceled, exec, wd, answer>>

DestroyVM(c) ==
  LET v == job[c].vm
  IN /\ pc[c] = "destroy" /\ LiveFree
     /\ live' = live \ {v} /\ canceled' = canceled \ {v}
     /\ fns' = [fns EXCEPT ![v] = {}]
     /\ Leave(c)
     /\ UNCHANGED <<scripts, pool, deadline, exec, wd, answer>>

\* Time passes: the script has used up ScriptTimeout.
Expire(c) ==
  /\ pc[c] \in {"run", "reset"} /\ deadline[job[c].vm] = "armed"
  /\ deadline' = [deadline EXCEPT ![job[c].vm] = "late"]
  /\ job' = [job EXCEPT ![c] = [@ EXCEPT !.late = "yes"]]
  /\ UNCHANGED <<scripts, pool, live, fns, canceled, exec, tx, pc, wd, answer>>

\* The watchdog: a tick, and for every live interpreter a look at the deadline
\* and, when it has passed, the cancellation.
Tick ==
  /\ wd = Asleep
  /\ wd' = [at |-> "pass", late |-> {v \in VMs : deadline[v] = "late"}, todo |-> live, hit |-> {}]
  /\ UNCHANGED <<engine, tx, pc, job, answer>>

Look ==
  /\ wd # Asleep /\ wd.hit = {}
  /\ \E v \in wd.todo :
       wd' = [wd EXCEPT !.todo = @ \ {v},
                        !.hit = IF v \in wd.late /\ deadline[v] = "late" THEN {v} ELSE {}]
  /\ UNCHANGED <<engine, tx, pc, job, answer>>

Cancel ==
  /\ wd # Asleep /\ wd.hit # {}
  /\ canceled' = canceled \cup wd.hit
  /\ wd' = [wd EXCEPT !.hit = {}]
  /\ UNCHANGED <<scripts, pool, live, fns, deadline, exec, tx, pc, job, answer>>

Sleep ==
  /\ wd # Asleep /\ wd.hit = {} /\ wd.todo = {}
  /\ wd' = Asleep
  /\ UNCHANGED <<engine, tx, pc, job, answer>>

Step(c) == \/ GetVM(c) \/ Function(c) \/ Arm(c) \/ Return(c) \/ Reset(c)
           \/ PutVM(c) \/ Offer(c) \/ DestroyVM(c)
Watchdog == Tick \/ Look \/ Cancel \/ Sleep

Next ==
  \/ \E c \in Callers, s \in Scripts : Eval(c, s) \/ EvalSHA(c, s) \/ LoadScript(c, s)
  \/ \E c \in Callers : Flush(c) \/ CallFlush(c) \/ Expire(c) \/ Step(c)
  \/ Watchdog

\* The goroutines run and time passes.  A step of the caller can wait for the
\* watchdog's lock again and again, which a mutex of Go does not let happen.
Fairness ==
  /\ WF_vars(Watchdog)
  /\ \A c \in Callers : SF_vars(Step(c)) /\ WF_vars(Expire(c))
Spec == Init /\ [][Next]_vars /\ Fairness

------------------------------------------------------------------------------

\* An interpreter of the pool serves nobody: no deadline, no executor, no
\* caller.  Every live one is in the pool or in use, so none leaks.
PoolClean ==
  /\ \A v \in pool : deadline[v] = "none" /\ v \notin exec
  /\ pool \cap InUse = {}
  /\ live = pool \cup InUse

TypeOK ==
  /\ pool \subseteq VMs /\ live \subseteq VMs /\ exec \subseteq VMs /\ tx \subseteq Callers
  /\ deadline \in [VMs -> {"none", "armed", "late"}]
  /\ pc \in [Callers -> {"idle", "get", "function", "arm", "run", "reset", "put", "offer", "destroy"}]
  /\ job \in [Callers -> [script : Scripts \cup {"none"}, vm : VMs \cup {NoVM}, late : {"no", "yes"}]]

\* Why the pool is clean: one script runs at a time, a caller has an interpreter
\* from getVM to putVM, and only the interpreter of a caller that is running its
\* script has a deadline or an executor.
EngineInv ==
  /\ TypeOK
  /\ \A c \in Callers : pc[c] # "idle" => tx = {c}
  /\ \A c \in Callers : job[c].vm = NoVM <=> pc[c] \in {"idle", "get"}
  /\ \A v \in VMs : deadline[v] # "none" =>
       \E c \in Callers : job[c].vm = v /\ pc[c] \in {"run", "reset"}
  /\ \A v \in exec : \E c \in Callers : job[c].vm = v /\ pc[c] \in {"arm", "run", "reset"}
  /\ pool \cap InUse = {} /\ live = pool \cup InUse

\* ScriptTimeout: a script that never ends is cancelled and gives the
\* transaction lock back.
ScriptsEnd == \A c \in Callers : pc[c] = "run" ~> pc[c] = "idle"

\* The watchdog cancels scripts that have run past ScriptTimeout, as its comment
\* says, and no others.
KilledOnlyWhenLate ==
  [][\A c \in Callers : pc[c] = "run" /\ answer'[c] = "busy" => job[c].late = "yes"]_vars
=============================================================================
