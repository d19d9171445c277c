-------------------------------- MODULE MCAof --------------------------------
(* The append-only file with every event; its clients are interchangeable.   *)
EXTENDS Aof, TLC

Symmetry == Permutations(Clients)
=============================================================================
