-------------------------- MODULE MCProjectRegistry --------------------------
EXTENDS ProjectRegistry
=============================================================================
