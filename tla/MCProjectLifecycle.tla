------------------------- MODULE MCProjectLifecycle -------------------------
EXTENDS ProjectLifecycle, TLC

CONSTANTS p1, blank, a, b, main, c1, c2

MCZeroProject == [id |-> blank, root |-> a]
ClientSymmetry == Permutations(Clients)
=============================================================================
