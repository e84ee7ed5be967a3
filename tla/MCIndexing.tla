----------------------------- MODULE MCIndexing -----------------------------
EXTENDS Indexing, TLC

\* Where the files start: every task may be there, the rest is fixed.
Cached ==
    /\ scanning = FALSE
    /\ disk \in [task : [Tasks -> {1, None}], ref : {TRUE}, flow : {1},
                 sess : {None} \cup [task : Tasks, run : {None}], specs : {1}, git : {1}]
    /\ tree = [task |-> [d \in Scans!Dirs |-> None], kind |-> [t \in Targets |-> None],
               session |-> [s \in Scans!Sessions |-> None]]

Line(alias, type) == [target |-> "f", alias |-> alias, type |-> type, well |-> TRUE]
MCManifests ==
    {<<>>, <<Line(FALSE, "file"), Line(TRUE, "file")>>,
     <<Line(FALSE, "directory"), Line(TRUE, "file")>>}

MCRunTexts == {<<>>, <<None, "checking", "blocked">>}

\* Where the tree starts: with manifests, or with a session.
TreesWith(manifests, files) ==
    [task : [Scans!Dirs -> [status : Statuses, lines : manifests] \cup {None}],
     kind : [Targets -> {None}],
     session : {[s \in Scans!Sessions |-> IF s = 1 THEN f ELSE None] : f \in files}]

Scanned ==
    /\ scanning = TRUE
    /\ disk = [task |-> [t \in Tasks |-> None], ref |-> TRUE, flow |-> 1, sess |-> None,
               specs |-> 1, git |-> 1]
    /\ tree \in TreesWith(Manifests, {None}) \cup TreesWith({<<>>}, Scans!SessionFiles)

MCInit == (Cached \/ Scanned) /\ IndexingInit
MCSpec == MCInit /\ [][IndexingNext]_indexVars /\ IndexingFairness
=============================================================================
