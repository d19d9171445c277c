------------------------------ MODULE MCWorkers ------------------------------
(* Eviction and the Lua engine, side by side: a behaviour works on one of     *)
(* them, chosen at the start.  The properties are those of the two modules.   *)
EXTENDS Scripting, Eviction

CONSTANTS
  Components,
  MixNames    \* the mixes of operations that eviction is checked with

VARIABLE component

------------------------------------------------------------------------------

\* Keys 1 and 2 are in one shard, key 3 in another.
Shards == [k \in 1..3 |-> IF k = 3 THEN 2 ELSE 1]

Mix(m) ==
  CASE m = "three"  -> [kinds |-> {"set", "cron"}, keys |-> {1, 2, 3}, sizes |-> {2}]
    [] m = "writes" -> [kinds |-> {"set", "setex", "del", "keep"}, keys |-> {1, 3}, sizes |-> {1, 2}]
    [] m = "expiry" -> [kinds |-> {"set", "setex", "cron"}, keys |-> {1, 3}, sizes |-> {1}]
    [] m = "flush"  -> [kinds |-> {"set", "grow", "flush"}, keys |-> {1}, sizes |-> {1, 2}]

NamedMixes == {Mix(m) : m \in MixNames}

------------------------------------------------------------------------------

MCVars == <<component, memoryVars, vars>>

MCInit ==
  /\ component \in Components
  /\ MemoryInit /\ Init
  /\ component # "eviction" =>
       policy = "noeviction" /\ mix = Mix(CHOOSE m \in MixNames : TRUE)

InEviction  == component = "eviction" /\ UNCHANGED <<component, vars>>
InScripting == component = "scripting" /\ UNCHANGED <<component, memoryVars>>

\* The bound on its operations stops eviction.
MCNext ==
  \/ InEviction /\ (MemoryNext \/ UNCHANGED memoryVars)
  \/ InScripting /\ Next

\* The fairness of the component at work.
MCFairness ==
  /\ \A w \in Workers : WF_MCVars(InEviction /\ WorkerStep(w))
  /\ WF_MCVars(InScripting /\ Watchdog)
  /\ \A c \in Callers : SF_MCVars(InScripting /\ Step(c)) /\ WF_MCVars(InScripting /\ Expire(c))

MCSpec == MCInit /\ [][MCNext]_MCVars /\ MCFairness
=============================================================================
