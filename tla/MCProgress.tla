------------------------------ MODULE MCProgress ------------------------------
(* The stripe locks, and the append-only file without the rarer events: what  *)
(* must eventually happen in them.  A behaviour works on one of the two,      *)
(* chosen at the start.                                                       *)
EXTENDS Aof, KeyLocks

CONSTANT Components

\* Key names in the order of their stripes: what the lock order relies on.
OrderedStripes == [k \in Names |-> k - 1]
\* Two keys on one stripe.
SharedStripe == [k \in Names |-> 0]
\* Names 1 < 2 < 3 < 4 on stripes 0, 1, 0, 1.
AlternatingStripes == [k \in Names |-> (k - 1) % 2]

EveryPair == {m \in Names \X Names : m[1] # m[2]}
RenamePairs == {<<1, 4>>, <<2, 3>>}

VARIABLE component
MCVars == <<component, lockVars, vars>>

MCInit ==
  /\ component \in Components /\ LocksInit /\ Init
  /\ component # "aof" => policy = "always"

InLocks == component = "locks" /\ UNCHANGED <<component, vars>>
InAof   == component = "aof" /\ UNCHANGED <<component, lockVars>>

\* The bounds on commands and crashes stop the file.
MCNext ==
  \/ InLocks /\ LocksNext
  \/ InAof /\ (Next \/ UNCHANGED vars)

\* The fairness of the component at work.
MCFairness ==
  /\ \A p \in Procs : SF_MCVars(InLocks /\ LockKey(p)) /\ WF_MCVars(InLocks /\ Step(p))
  /\ \A c \in Clients : WF_MCVars(InAof /\ ClientStep(c))
  /\ WF_MCVars(InAof /\ FlusherTick) /\ WF_MCVars(InAof /\ SyncTick)

MCSpec == MCInit /\ [][MCNext]_MCVars /\ MCFairness
=============================================================================
