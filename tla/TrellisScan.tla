----------------------------- MODULE TrellisScan -----------------------------
(***************************************************************************)
(* What the scanner makes of a .trellis directory (internal/trellis): the  *)
(* keys of the tasks, their context entries, and the sessions with the     *)
(* runtime state they give to tasks; as a full scan computes it, and as    *)
(* the incremental scans and the revalidation piece it together.  How a    *)
(* scan interleaves with changes and what the store writes of its result   *)
(* is IndexCache's.                                                        *)
(*                                                                         *)
(* A task is its directory: a name below tasks/, or below a month of the   *)
(* archive.  Session numbers are in the order of the file names.  The text *)
(* of a run is the phase phaseFromRunText finds in it.                     *)
(***************************************************************************)
EXTENDS Naturals, FiniteSets, SequencesExt

CONSTANTS
    Names,       \* of task directories
    MaxMonth,    \* months of the archive
    Statuses,    \* what the status of an active task derives: phases
    Targets,     \* what manifests refer to
    Manifests,   \* sequences of Lines
    NSessions, MaxTime,
    RunTexts,    \* sequences of phases or None: the fields of a current_run
    None,
    Linked,      \* is .trellis a symbolic link into the project
    MaxChanges   \* bound on the changes made to the tree

VARIABLES
    tree,     \* the files
    changes,
    index,    \* what the scans have found
    unseen    \* what changed in the tree since it was scanned

scanVars == <<tree, changes, index, unseen>>

Dirs == [name : Names, month : 0 .. MaxMonth]
Archived(d) == d.month # 0

Kinds == {"file", "directory"}

\* A line names a target, maybe through a symbolic link, with a type.  One
\* that is not well formed has a reason or a type that is no string: its entry
\* has the type "file".
Lines == [target : Targets, alias : BOOLEAN, type : Kinds, well : BOOLEAN]

Sessions == 1 .. NSessions

\* A session may name a task, tell when it was last seen (0 when not), and
\* what it runs.
SessionFiles == [task : Dirs \cup {None}, seen : 0 .. MaxTime, run : RunTexts]

Trees == [task : [Dirs -> [status : Statuses, lines : Manifests] \cup {None}],
          kind : [Targets -> Kinds \cup {None}],
          session : [Sessions -> SessionFiles \cup {None}]]

Existing == {d \in Dirs : tree.task[d] # None}

-----------------------------------------------------------------------------
(* Keys *)

\* Mutant: the archive comes first.
ArchiveFirst(d, e) == d.month > e.month

\* assignUniqueTaskKeys takes active tasks first, then the order of the paths;
\* in one month names differ and tasks do not compete.
Precedes(d, e) == d.month < e.month

\* The key of a task is the name of its directory, with a digest of the path
\* when the name is used.
PlainKey(d) == [name |-> d.name, digest |-> None]
PathKey(d) == [name |-> d.name, digest |-> d]

GiveKey(keys, dirs, d) ==
    LET used == {keys[e] : e \in {e \in dirs : Precedes(e, d)}}
    IN  IF PlainKey(d) \in used THEN PathKey(d) ELSE PlainKey(d)

AssignKeys(dirs) ==
    LET keys[d \in dirs] == GiveKey(keys, dirs, d)
    IN  keys

-----------------------------------------------------------------------------
(* Context entries *)

AsDuplicate(entry) == [entry EXCEPT !.valid = FALSE, !.duplicate = TRUE]

\* The first of the valid entries of a target stays so.
MarkDuplicates(entries) ==
    [i \in DOMAIN entries |->
        IF /\ entries[i].valid
           /\ \E j \in 1 .. i - 1 : /\ entries[j].valid
                                    /\ entries[j].target = entries[i].target
        THEN AsDuplicate(entries[i])
        ELSE entries[i]]

ParseLine(line) ==
    [target |-> line.target, type |-> line.type,
     valid |-> line.well /\ tree.kind[line.target] = line.type,
     duplicate |-> FALSE]

ScanManifest(d) ==
    MarkDuplicates([i \in DOMAIN tree.task[d].lines |-> ParseLine(tree.task[d].lines[i])])

\* Mutant: what was a duplicate is one for good.
CheckUnlessDuplicate(entry) ==
    IF entry.duplicate THEN entry
    ELSE [entry EXCEPT !.valid = tree.kind[entry.target] = entry.type]

\* RevalidateContextEntries: an entry is checked again from what is stored.
CheckEntry(entry) ==
    [entry EXCEPT !.valid = tree.kind[entry.target] = entry.type, !.duplicate = FALSE]

RevalidateEntries(entries) == MarkDuplicates([i \in DOMAIN entries |-> CheckEntry(entries[i])])

-----------------------------------------------------------------------------
(* Sessions *)

\* phaseFromCurrentRun: a failure anywhere, or else the first phase.
PhaseFromRun(run) ==
    LET known == SelectSeq(run, LAMBDA phase : phase # None)
    IN  IF "blocked" \in ToSet(run) THEN "blocked"
        ELSE IF known = <<>> THEN None ELSE Head(known)

DerivePhase(d, status) == IF Archived(d) THEN "completed" ELSE status

\* Where a task's directory really is, and where its source path says.
RealDirectory(d) == <<Linked, d>>
SourceDirectory(d) == <<FALSE, d>>

\* scanSessions, where keyAt maps directories to keys of tasks.
ScanSessionFiles(keyAt) ==
    [s \in {s \in Sessions : tree.session[s] # None} |->
        LET d == tree.session[s].task
            found == d \in Existing /\ RealDirectory(d) \in DOMAIN keyAt
        IN  [file |-> tree.session[s],
             task |-> IF found THEN keyAt[RealDirectory(d)] ELSE None,
             stale |-> d # None /\ ~found]]

\* newerSession; no time is before any time.
Newer(sessions, s, t) ==
    \/ sessions[s].file.seen > sessions[t].file.seen
    \/ sessions[s].file.seen = sessions[t].file.seen /\ s > t

Attached(sessions, key) == {s \in DOMAIN sessions : sessions[s].task = key}

\* The loop keeps a session until a newer one comes.
Latest(sessions, key) ==
    LET mine == Attached(sessions, key)
    IN  IF mine = {} THEN None
        ELSE CHOOSE s \in mine : \A t \in mine \ {s} : Newer(sessions, s, t)

\* The runtime state of a task that has this phase by itself.
RuntimeState(sessions, key, phase) ==
    LET latest == Latest(sessions, key)
        run == IF latest = None THEN None ELSE PhaseFromRun(sessions[latest].file.run)
    IN  [active |-> Cardinality(Attached(sessions, key)),
         phase |-> IF run = None THEN phase ELSE run]

-----------------------------------------------------------------------------
(* Scans *)

\* Scan: everything at once.
Scan ==
    LET keys == AssignKeys(Existing)
        keyAt == [p \in {RealDirectory(d) : d \in Existing} |-> keys[p[2]]]
        sessions == ScanSessionFiles(keyAt)
    IN  [task |-> [d \in Existing |->
                     [key |-> keys[d], status |-> tree.task[d].status,
                      entries |-> ScanManifest(d),
                      runtime |-> RuntimeState(sessions, keys[d],
                                               DerivePhase(d, tree.task[d].status))]],
         session |-> sessions]

Nothing == [dirs |-> {}, sessions |-> FALSE, targets |-> FALSE]

Init ==
    /\ tree \in Trees /\ changes = 0
    /\ index = Scan /\ unseen = Nothing

Change(dirs, sessions, targets) ==
    /\ changes < MaxChanges /\ changes' = changes + 1
    /\ unseen' = [dirs |-> unseen.dirs \cup dirs, sessions |-> unseen.sessions \/ sessions,
                  targets |-> unseen.targets \/ targets]
    /\ UNCHANGED index

\* What a task says changes; its directory appears or goes.  Sessions may
\* refer to it.
ChangeTask(d, task) ==
    /\ task # tree.task[d]
    /\ tree' = [tree EXCEPT !.task[d] = task]
    /\ Change({d}, TRUE, FALSE)

\* A task is archived or restored: its directory moves.
MoveTask(d, e) ==
    /\ d.name = e.name /\ tree.task[d] # None /\ tree.task[e] = None
    /\ tree' = [tree EXCEPT !.task[d] = None, !.task[e] = tree.task[d]]
    /\ Change({d, e}, TRUE, FALSE)

ChangeSession(s, file) ==
    /\ tree' = [tree EXCEPT !.session[s] = file]
    /\ Change({}, TRUE, FALSE)

ChangeTarget(target, kind) ==
    /\ tree' = [tree EXCEPT !.kind[target] = kind]
    /\ Change({}, FALSE, TRUE)

FullScan ==
    /\ unseen' = Nothing
    /\ index' = Scan
    /\ UNCHANGED <<tree, changes>>

Known == DOMAIN index.task

\* ScanTask: the key and the runtime state of active sessions are kept.
RescanTask(d) ==
    LET old == index.task[d]
        phase == DerivePhase(d, tree.task[d].status)
    IN  [key |-> old.key, status |-> tree.task[d].status, entries |-> ScanManifest(d),
         runtime |-> IF old.runtime.active > 0 THEN old.runtime
                     ELSE [active |-> 0, phase |-> phase]]

\* An incremental scan of the changed tasks.  matchChangedTasks leaves it to a
\* full scan when one of the changed directories is not known.
ScanTasks ==
    /\ unseen.dirs # {} /\ unseen.dirs \subseteq Known
    /\ index' = [index EXCEPT !.task =
                    [d \in Known \ (unseen.dirs \ Existing) |->
                        IF d \in unseen.dirs THEN RescanTask(d) ELSE @[d]]]
    /\ unseen' = [unseen EXCEPT !.dirs = {}]
    /\ UNCHANGED <<tree, changes>>

\* ScanSessions, after the changed tasks.
ScanSessions ==
    LET keyAt == [p \in {SourceDirectory(d) : d \in Known} |-> index.task[p[2]].key]
        sessions == ScanSessionFiles(keyAt)
    IN  /\ unseen.dirs = {} /\ unseen.sessions
        /\ index' = [session |-> sessions,
                     task |-> [d \in Known |->
                        [index.task[d] EXCEPT !.runtime =
                            RuntimeState(sessions, index.task[d].key,
                                         DerivePhase(d, index.task[d].status))]]]
        /\ unseen' = [unseen EXCEPT !.sessions = FALSE]
        /\ UNCHANGED <<tree, changes>>

\* The entries of all tasks are checked again after a change of Git's status.
RevalidateContext ==
    /\ unseen.targets
    /\ index' = [index EXCEPT !.task =
                    [d \in Known |->
                        [index.task[d] EXCEPT !.entries = RevalidateEntries(@)]]]
    /\ unseen' = [unseen EXCEPT !.targets = FALSE]
    /\ UNCHANGED <<tree, changes>>

Next ==
    \/ \E d \in Dirs :
          \/ \E task \in [status : Statuses, lines : Manifests] \cup {None} : ChangeTask(d, task)
          \/ \E e \in Dirs : MoveTask(d, e)
    \/ \E s \in Sessions, file \in SessionFiles \cup {None} : ChangeSession(s, file)
    \/ \E target \in Targets, kind \in Kinds \cup {None} : ChangeTarget(target, kind)
    \/ FullScan \/ ScanTasks \/ ScanSessions \/ RevalidateContext

-----------------------------------------------------------------------------
(* Properties *)

TasksOf(found, s) == {d \in DOMAIN found.task : found.task[d].key = found.session[s].task}

\* Tasks never share a key, under which the store keeps one row, and an active
\* task has the name of its directory as key: through any sequence of full and
\* incremental scans, of tasks archived, restored, deleted and made anew
\* (scanner.go:264-287).
KeysAreUnique ==
    /\ \A d, e \in Known : index.task[d].key = index.task[e].key => d = e
    /\ \A d \in Known : ~Archived(d) => index.task[d].key = PlainKey(d)

\* The runtime state of a task, said of the files alone.
LastSeenDecides ==
    \A d \in Known :
        LET mine == {s \in Sessions : tree.session[s] # None /\ tree.session[s].task = d}
            seen(s) == tree.session[s].seen
            last == {s \in mine : \A t \in mine :
                        seen(t) < seen(s) \/ (seen(t) = seen(s) /\ t <= s)}
            phases == {PhaseFromRun(tree.session[s].run) : s \in last} \ {None}
        IN  /\ index.task[d].runtime.active = Cardinality(mine)
            /\ index.task[d].runtime.phase \in
                  (IF phases = {} THEN {DerivePhase(d, tree.task[d].status)} ELSE phases)

\* What the incremental scans and the revalidation have pieced together is
\* what a full scan would find (README.md:122), but for the keys that a
\* deletion sets free: the tasks and their entries, which session runs which
\* task, how many run it, and the phase the last seen of them gives it.
IncrementalAgrees ==
    LET full == Scan
    IN  /\ unseen.dirs = {} => Known = DOMAIN full.task
        /\ \A d \in Known \ unseen.dirs :
              /\ index.task[d].status = full.task[d].status
              /\ ~unseen.targets => index.task[d].entries = full.task[d].entries
              /\ unseen = Nothing => index.task[d].runtime = full.task[d].runtime
        /\ unseen = Nothing =>
              /\ DOMAIN index.session = DOMAIN full.session
              /\ \A s \in DOMAIN full.session :
                    /\ index.session[s].stale = full.session[s].stale
                    /\ TasksOf(index, s) = TasksOf(full, s)
        /\ unseen = Nothing => LastSeenDecides
=============================================================================
