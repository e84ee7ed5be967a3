------------------------------- MODULE MCWatcher -------------------------------
EXTENDS Watcher
=============================================================================
