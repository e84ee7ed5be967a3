------------------------------ MODULE GitService ------------------------------
(***************************************************************************)
(* What the process does with Git repositories: the snapshots of           *)
(* internal/gitstate/inspector.go (GitSnapshot), its pushes (GitPush), and *)
(* the diffs that internal/api/git.go serves from a cache (GitCache).      *)
(* They share nothing but the slots of the inspector, whose shortage is    *)
(* part of GitSnapshot, and the snapshots a push stores, which are part of *)
(* GitCache, so a behaviour here is one of snapshots, of pushes or of      *)
(* diffs.                                                                  *)
(***************************************************************************)
EXTENDS GitSnapshot

CONSTANTS
    Branches, Refs, Pushers, MaxCommits,   \* of GitPush
    Roots, Reqs, MaxEntries, MaxTreeEdits, MaxRecreates   \* of GitCache

VARIABLES
    serving,  \* "snapshots", "pushes" or "diffs"
    \* of GitPush, whose head is checkedOut here and req push
    commits, tip, checkedOut, detached, upstream, remote, push,
    \* of GitCache, whose edits are treeEdits here
    content, treeEdits, root, gen, rev, hash, taken, entries, req, since, crossed

pushVars == <<commits, tip, checkedOut, detached, upstream, remote, push>>
cacheVars ==
    <<content, treeEdits, root, gen, rev, hash, taken, entries, req, since, crossed>>
serviceVars == <<serving, vars, pushVars, cacheVars>>

Pushes == INSTANCE GitPush WITH head <- checkedOut, req <- push, Reqs <- Pushers
Diffs == INSTANCE GitCache WITH edits <- treeEdits, MaxEdits <- MaxTreeEdits

ASSUME PushAssumption ==
    /\ MaxCommits \in Nat /\ Branches # {}
    /\ None \notin Branches \cup Refs \cup Pushes!Errors \cup {"pushed"}
ASSUME CacheAssumption ==
    /\ MaxEntries \in Nat /\ MaxTreeEdits \in Nat /\ MaxRecreates \in Nat
    /\ Roots # {} /\ None \notin Diffs!Trees

\* Where the services that are not asked for stand still.
NoSnapshots == Init /\ head = 0 /\ Of("untracked") = {} /\ \A t \in Trees : tree[t] = "clean"
NoPushes == Pushes!Init /\ checkedOut = (CHOOSE b \in Branches : TRUE)
                        /\ upstream = [b \in Branches |-> None]
NoDiffs == Diffs!Init /\ root = (CHOOSE r \in Roots : TRUE)

ServiceInit ==
    \/ serving = "snapshots" /\ Init /\ NoPushes /\ NoDiffs
    \/ serving = "pushes" /\ Pushes!Init /\ NoSnapshots /\ NoDiffs
    \/ serving = "diffs" /\ Diffs!Init /\ NoSnapshots /\ NoPushes

Snapshotting(action) ==
    serving = "snapshots" /\ action /\ UNCHANGED <<serving, pushVars, cacheVars>>
Diffing(action) ==
    serving = "diffs" /\ action /\ UNCHANGED <<serving, vars, pushVars>>

ServiceNext ==
    \/ Snapshotting(Next)
    \/ serving = "pushes" /\ Pushes!Next /\ UNCHANGED <<serving, vars, cacheVars>>
    \/ Diffing(Diffs!Next)

\* The fairness of GitSnapshot and of GitCache.
ServiceFairness ==
    /\ \A s \in Snaps : WF_serviceVars(Snapshotting(Proceed(s)))
    /\ \A r \in Reqs : WF_serviceVars(Diffing(Diffs!Serve(r)))

ServiceSpec == ServiceInit /\ [][ServiceNext]_serviceVars /\ ServiceFairness

-----------------------------------------------------------------------------
(* Properties, beside those of GitSnapshot *)

\* When the answer is that the branch was pushed, its upstream has everything
\* the branch had when the request came, unless another one was checked out
\* in between (inspector.go:369-427, git.go:139-150).
PushedIsThere == Pushes!TypeOK /\ Pushes!PushedIsThere

\* Every entry of the cache without an answer has exactly one request that
\* loads it, and a request waits only for one that will answer it
\* (git_cache.go:20).
OneLoad == Diffs!OneLoad

\* A request is answered with a tree that the project has had since the snapshot
\* was read that gave it its revision, never with an older one and never with
\* one of an earlier registration, and the bound of the cache is exceeded only
\* by loads under way (git_cache.go:21, 83-100).  Edits that keep the line counts
\* or are undone before the next snapshot give no new revision (git.go:97-104),
\* so that an answer may be that old.  Left out are the keys under which a
\* request loads whose project moved to another root after it was read.
AnswersAreFresh == Diffs!AnswersAreFresh

\* Every request for a diff ends.
RequestsEnd == Diffs!RequestsEnd

=============================================================================
