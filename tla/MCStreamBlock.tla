---------------------------- MODULE MCStreamBlock ----------------------------
EXTENDS StreamBlock, TLC

CONSTANTS s1, s2

BothStreams == {<<s1, s2>>}
OneStream   == {<<s1>>}

Symmetry == Permutations(Clients)
=============================================================================
