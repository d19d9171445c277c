------------------------------ MODULE MCTxWatch ------------------------------
(* Instances of TxWatch for TLC. *)
EXTENDS TxWatch, TLC

Symmetry == Permutations(Clients) \cup Permutations(Keys)

EveryOp == AllOps
SomeTrackedOps == {"push", "flush", "badcmd"}
UnwatchOps == {"set", "unwatch"}
LmoveOps == {"set", "lmove"}
DeniedOps == {"set", "deny"}
DropOps == {"set", "drop"}
=============================================================================
