--------------------------- MODULE RevisionedStore ---------------------------
(***************************************************************************)
(* What the cache promises its readers (README, "Polling": clients poll    *)
(* revisions and reload what changed): no view of a project changes unless *)
(* a revision that covers the view goes up, and revisions never go down.   *)
(* IndexCache keeps the promise; the pages of RevisionPolling depend on it *)
(* through the same table.                                                 *)
(***************************************************************************)
EXTENDS Naturals

CONSTANTS
    Views,      \* what readers see of a project
    Resources   \* what has a revision

VARIABLES content, revision

\* The revisions that announce a change of a view: one of them goes up.  A
\* transaction for sessions changes the runtime state of tasks as well.
Covers ==
    [facts |-> {"tasks"}, context |-> {"tasks"}, flow |-> {"tasks"},
     runtime |-> {"tasks", "sessions"}, sessions |-> {"sessions"},
     specs |-> {"specs"}, health |-> {"activity", "specs"},
     activity |-> {"activity"}, git |-> {"git"}, day |-> {"day"}]

Init == revision \in [Resources -> Nat]

\* One transaction: any views change, each announced by a revision.
Publish ==
    /\ \A r \in Resources : revision'[r] >= revision[r]
    /\ \A v \in Views :
          \/ content'[v] = content[v]
          \/ \E r \in Covers[v] : revision'[r] > revision[r]

Spec == Init /\ [][Publish]_<<content, revision>>

=============================================================================
