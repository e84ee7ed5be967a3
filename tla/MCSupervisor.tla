---------------------------- MODULE MCSupervisor ----------------------------
EXTENDS Supervisor, TLC

Symmetric == Permutations(Callers) \cup Permutations(Ids)
=============================================================================
