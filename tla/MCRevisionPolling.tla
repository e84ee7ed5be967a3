-------------------------- MODULE MCRevisionPolling --------------------------
EXTENDS RevisionPolling
=============================================================================
