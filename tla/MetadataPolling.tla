--------------------------- MODULE MetadataPolling ---------------------------
(***************************************************************************)
(* The metadata polling of internal/watcher/watcher.go, which stands in    *)
(* for file events on macOS and the BSDs: a first walk of the tree         *)
(* (streamwalk.Walk), then one Lstat for each path the walk found, and     *)
(* another walk only when a directory or its type changed.  Files are      *)
(* written, created, removed and renamed at any moment of a poll.          *)
(*                                                                         *)
(* A stamp is the type and the time of a path; two changes of a path never *)
(* leave it with the same time.                                            *)
(***************************************************************************)
EXTENDS Naturals, FiniteSets

CONSTANTS
    None,
    MaxEdits,   \* bound on the changes
    MaxFaults   \* bound on the I/O errors

VARIABLES
    disk, edits,
    phase,     \* of RunWithPollTrigger
    previous,  \* the stamps of the last complete poll
    current,   \* the stamps found by the poll under way
    todo,      \* the paths it has yet to look at
    dirs,      \* the directories its walk has yet to read
    fallback, failed,
    faults

tree == <<disk, edits>>
vars == <<tree, phase, previous, current, todo, dirs, fallback, failed, faults>>

\* workflow.md and tasks, a directory in tasks and a file in that one.
Paths == {"flow", "tasks", "d", "f"}
Optional == {"flow", "tasks"}
Parent == [d |-> "tasks", f |-> "d"]
Usual == [flow |-> "file", tasks |-> "dir", d |-> "dir", f |-> "file"]

Stamps == [kind : {"file", "dir"}, time : 0 .. MaxEdits]

Ancestors(p) ==
    CASE p \in Optional -> {} [] p = "d" -> {"tasks"} [] p = "f" -> {"d", "tasks"}

IsDir(stamp) == stamp # None /\ stamp.kind = "dir"

Within(p) == {p} \cup {q \in Paths : p \in Ancestors(q)}

-----------------------------------------------------------------------------
(* The project's files *)

\* An entry of the parent changed, and with it the time of the parent.
Entry(p, d) ==
    IF p \in Optional THEN d
    ELSE [d EXCEPT ![Parent[p]].time = edits + 1]

Edit(d) ==
    /\ edits < MaxEdits /\ edits' = edits + 1
    /\ disk' = d
    /\ UNCHANGED <<phase, previous, current, todo, dirs, fallback, failed, faults>>

WriteFile(p) ==
    /\ disk[p] # None /\ disk[p].kind = "file"
    /\ Edit([disk EXCEPT ![p].time = edits + 1])

Create(p, kind) ==
    /\ disk[p] = None
    /\ p \notin Optional => IsDir(disk[Parent[p]])
    /\ Edit(Entry(p, [disk EXCEPT ![p] = [kind |-> kind, time |-> edits + 1]]))

\* A file is removed, or a directory is moved away.
Remove(p) ==
    /\ disk[p] # None
    /\ Edit(Entry(p, [q \in Paths |-> IF q \in Within(p) THEN None ELSE disk[q]]))

-----------------------------------------------------------------------------
(* A poll *)

\* Lstat under a path that is not a directory fails with ENOTDIR, which is
\* not os.ErrNotExist.
NotADirectory(p) == \E a \in Ancestors(p) : disk[a] # None /\ disk[a].kind = "file"

With(p, stamp) == [q \in DOMAIN current \cup {p} |-> IF q = p THEN stamp ELSE current[q]]

Nothing == [p \in {} |-> None]

StartWalk(ph) ==
    /\ phase' = ph /\ current' = Nothing /\ todo' = Optional /\ dirs' = {}
    /\ fallback' = FALSE /\ failed' = FALSE

\* Mutant: a directory that is still one does not matter.
MustWalkKind(old, stamp) == IsDir(old) # IsDir(stamp)

\* A known path calls for a walk when it is gone or has become, was or is a
\* directory with another stamp.
MustWalk(old, stamp) == stamp # old /\ (stamp = None \/ IsDir(old) \/ IsDir(stamp))

\* A tick of the refresh timer that blockedUntil does not swallow.
PollBegin ==
    /\ phase = "idle"
    /\ phase' = "known" /\ current' = Nothing /\ todo' = DOMAIN previous
    /\ UNCHANGED <<tree, previous, dirs, fallback, failed, faults>>

\* One of the workers of pollKnownMetadata.
StatKnown(p) ==
    /\ phase = "known" /\ p \in todo
    /\ todo' = todo \ {p}
    /\ IF NotADirectory(p)
       THEN failed' = TRUE /\ UNCHANGED <<current, fallback>>
       ELSE /\ current' = With(p, disk[p])
            /\ fallback' = (fallback \/ MustWalk(previous[p], disk[p]))
            /\ UNCHANGED failed
    /\ UNCHANGED <<tree, phase, previous, dirs, faults>>

FallBack ==
    /\ phase = "known" /\ todo = {} /\ ~failed /\ fallback
    /\ StartWalk("walk")
    /\ UNCHANGED <<tree, previous, faults>>

\* record: a missing optional path leaves a sentinel, a vanished entry is an
\* error; directories are read later.
StatEntry(p) ==
    /\ phase \in {"first", "walk"} /\ p \in todo
    /\ todo' = todo \ {p}
    /\ IF disk[p] = None /\ p \notin Optional
       THEN failed' = TRUE /\ UNCHANGED <<current, dirs>>
       ELSE /\ current' = With(p, disk[p])
            /\ dirs' = IF IsDir(disk[p]) THEN dirs \cup {p} ELSE dirs
            /\ UNCHANGED failed
    /\ UNCHANGED <<tree, phase, previous, fallback, faults>>

\* The walk opens a directory and reads its entries.
ReadDir(d) ==
    /\ phase \in {"first", "walk"} /\ todo = {} /\ ~failed /\ d \in dirs
    /\ dirs' = dirs \ {d}
    /\ IF IsDir(disk[d])
       THEN /\ todo' = {p \in Paths \ Optional : Parent[p] = d /\ disk[p] # None}
            /\ UNCHANGED failed
       ELSE failed' = TRUE /\ UNCHANGED todo
    /\ UNCHANGED <<tree, phase, previous, current, fallback, faults>>

IOFails ==
    /\ phase # "idle" /\ phase # "gone" /\ ~failed
    /\ faults < MaxFaults /\ faults' = faults + 1
    /\ failed' = TRUE
    /\ UNCHANGED <<tree, phase, previous, current, todo, dirs, fallback>>

Rest ==
    /\ current' = Nothing /\ todo' = {} /\ dirs' = {}
    /\ fallback' = FALSE /\ failed' = FALSE

\* Mutant: a poll without a walk leaves the stamps as they were.
PollDoneKeeping ==
    /\ ~failed /\ todo = {}
    /\ \/ phase = "known" /\ ~fallback /\ UNCHANGED previous
       \/ phase \in {"first", "walk"} /\ dirs = {} /\ previous' = current
    /\ phase' = "idle" /\ Rest
    /\ UNCHANGED <<tree, faults>>

\* The differences between previous and current go to onChange.
PollDone ==
    /\ ~failed /\ todo = {}
    /\ \/ phase = "known" /\ ~fallback
       \/ phase \in {"first", "walk"} /\ dirs = {}
    /\ previous' = current /\ phase' = "idle" /\ Rest
    /\ UNCHANGED <<tree, faults>>

\* An error is logged and the next tick tries again; after an error of the
\* first poll the watcher exits.
PollFails ==
    /\ failed /\ (phase = "known" => todo = {})
    /\ phase' = IF phase = "first" THEN "gone" ELSE "idle"
    /\ Rest
    /\ UNCHANGED <<tree, previous, faults>>

-----------------------------------------------------------------------------
Init ==
    /\ disk = [p \in Paths |-> [kind |-> Usual[p], time |-> 0]] /\ edits = 0
    /\ phase = "first" /\ previous = Nothing
    /\ current = Nothing /\ todo = Optional /\ dirs = {}
    /\ fallback = FALSE /\ failed = FALSE /\ faults = 0

Edits ==
    \E p \in Paths :
        \/ WriteFile(p) \/ Remove(p)
        \/ \E kind \in {"file", "dir"} : Create(p, kind)

Poll ==
    \/ PollBegin \/ FallBack \/ PollDone \/ PollFails
    \/ \E p \in Paths : StatKnown(p) \/ StatEntry(p) \/ ReadDir(p)

Next == Edits \/ Poll \/ IOFails

Spec == Init /\ [][Next]_vars

\* Ticks keep coming and a poll goes on.
FairSpec == Spec /\ WF_vars(Poll)

-----------------------------------------------------------------------------
IsMetadata(m) ==
    DOMAIN m \subseteq Paths /\ \A p \in DOMAIN m : m[p] \in Stamps \cup {None}

TypeOK ==
    /\ disk \in [Paths -> Stamps \cup {None}] /\ edits \in 0 .. MaxEdits
    /\ phase \in {"first", "idle", "known", "walk", "gone"}
    /\ IsMetadata(previous) /\ IsMetadata(current)
    /\ phase \notin {"first", "gone"} => Optional \subseteq DOMAIN previous
    /\ todo \subseteq Paths /\ dirs \subseteq Paths
    /\ fallback \in BOOLEAN /\ failed \in BOOLEAN /\ faults \in 0 .. MaxFaults

\* A path the last poll did not know of is announced by a directory above it
\* whose stamp it knew and which has changed since: looking at the known paths
\* alone overlooks nothing (watcher.go:551).
UnknownIsAnnounced ==
    phase \notin {"first", "gone"} =>
        \A p \in Paths :
            disk[p] # None /\ p \notin DOMAIN previous =>
                \E a \in Ancestors(p) \cap DOMAIN previous : previous[a] # disk[a]

\* What the polls know of the tree.
Known == [p \in {q \in Paths : disk[q] # None} \cup Optional |-> disk[p]]

\* Every change has been reported, unless the first poll failed, or a file
\* took the place of a directory of the last complete poll.
AllReported ==
    phase = "gone" \/ previous = Known \/ \E p \in DOMAIN previous : NotADirectory(p)

=============================================================================
