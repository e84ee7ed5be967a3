------------------------------- MODULE Indexing -------------------------------
(***************************************************************************)
(* The two halves of indexing: how scans, interleaved with changes, fill   *)
(* the cache (IndexCache), or what the scans find (TrellisScan).  A        *)
(* behaviour is one of the first or one of the second.                     *)
(***************************************************************************)
EXTENDS IndexCache

CONSTANTS Names, MaxMonth, Statuses, Targets, Manifests, NSessions, MaxTime,
          RunTexts, Linked, MaxChanges  \* of TrellisScan

VARIABLES
    scanning,  \* is it one of TrellisScan
    tree, changes, index, unseen  \* of TrellisScan

scanVars == <<tree, changes, index, unseen>>
indexVars == <<scanning, vars, scanVars>>

Scans == INSTANCE TrellisScan

ASSUME ScanAssumption ==
    /\ MaxMonth \in Nat /\ NSessions \in Nat /\ MaxTime \in Nat
    /\ None \notin Scans!Dirs \cup Scans!Sessions
    /\ None \notin [name : Names, digest : Scans!Dirs \cup {None}]

IndexingInit == scanning \in BOOLEAN /\ Init /\ Scans!Init

Caching(action) == ~scanning /\ action /\ UNCHANGED <<scanning, scanVars>>
Scanning(action) == scanning /\ action /\ UNCHANGED <<scanning, vars>>

IndexingNext == Caching(Next) \/ Scanning(Scans!Next)

\* The fairness of IndexCache.
IndexingFairness ==
    /\ WF_indexVars(Caching(WorkerStep)) /\ WF_indexVars(Caching(PushStore))
    /\ SF_indexVars(Caching(RescanTimer)) /\ SF_indexVars(Caching(RefreshGit))

-----------------------------------------------------------------------------
(* Properties, beside those of IndexCache *)

\* Tasks never share a key, and an active task has the name of its directory
\* as key, through any sequence of full and incremental scans, of tasks
\* archived, restored, deleted and made anew (scanner.go:264-287).
KeysAreUnique == Scans!KeysAreUnique

\* What incremental scans and revalidation have pieced together is what a full
\* scan would find, but for the keys that a deletion sets free (README.md:122).
IncrementalAgrees == Scans!IncrementalAgrees

\* The facts of IndexCache converge, in the behaviours that are its own.
FactsComeTrue == scanning \/ FactsConverge

=============================================================================
