---------------------------- MODULE MCGitService ----------------------------
EXTENDS GitService
=============================================================================
