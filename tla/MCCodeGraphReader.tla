-------------------------- MODULE MCCodeGraphReader --------------------------
EXTENDS CodeGraphReader
=============================================================================
