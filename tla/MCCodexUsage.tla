----------------------------- MODULE MCCodexUsage -----------------------------
EXTENDS CodexUsage, TLC

Symmetry == Permutations(Sessions) \cup Permutations(Callers)
=============================================================================
