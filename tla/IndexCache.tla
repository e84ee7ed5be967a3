----------------------------- MODULE IndexCache -----------------------------
(***************************************************************************)
(* The cache of one project and the worker that keeps it in line with the  *)
(* .trellis directory: full scans, incremental scans and Git refreshes of  *)
(* internal/app/supervisor.go, what internal/trellis reads for them, and   *)
(* the transactions of internal/store/snapshot.go that write it.           *)
(*                                                                         *)
(* A task is its key; the content of its directory is a version, which     *)
(* also stands for the phase its status derives.  One file outside         *)
(* .trellis is referenced by the context manifest of every task.  There is *)
(* at most one session.                                                    *)
(***************************************************************************)
EXTENDS Naturals, FiniteSets

CONSTANTS
    Tasks, Versions, Runs, None,
    NoHash,       \* index_hash = '', and a resource without a stored hash
    Incremental,  \* the unique hash touchResourceState stores
    MaxEdits,   \* bound on the changes made to the disk
    MaxFaults   \* bound on the scans that fail or are cancelled

VARIABLES
    disk,      \* the files
    edits, faults,
    pending,   \* runner.pending: what the watcher reported
    rows,      \* tasks, with their context entries
    flowRow,   \* workflow_states
    sessRow,   \* runtime_sessions
    specsRow,  \* the specs hash is all the cache holds of the specs
    gitRow,    \* git_snapshots
    hash,      \* resource_states: the hashes of tasks and sessions
    rev,       \* resource_revisions
    failed,    \* projects.index_error is set
    job,       \* where the worker is
    left,      \* what the scan in progress still has to do
    snap,      \* what the job in progress has read
    pushed     \* the snapshot an API Git push is about to store

cacheVars == <<rows, flowRow, sessRow, specsRow, gitRow, hash, rev, failed>>
workVars == <<job, left, snap>>
vars == <<disk, edits, faults, pending, cacheVars, workVars, pushed>>

Parts == {"flow", "sess", "specs"}
Resources == {"tasks", "sessions", "specs", "git", "activity"}
Phases == Versions \cup Runs
FullJobs == {"readTasks", "readFlow", "readSessions", "readSpecs", "commit"}
GitJobs == {"storeGit", "validate"}

-----------------------------------------------------------------------------
(* Values *)

\* A session file names a task and carries the phase of its run, or none.
SessionFiles == [task : Tasks, run : Runs \cup {None}]
\* What the index keeps of it: stale means the task was not found.
SessionRows == [file : SessionFiles, stale : BOOLEAN]

\* What a scan reads of a task; also its index_hash, which covers exactly that.
Facts == [src : Versions, valid : BOOLEAN]

TaskRows == [fact : Facts, ihash : Facts \cup {NoHash}, phase : Phases, active : BOOLEAN]
Snapshots == [task : [Tasks -> Facts \cup {None}], flow : Versions]

ASSUME IndexAssumption ==
    /\ MaxEdits \in Nat /\ MaxFaults \in Nat
    /\ None \notin Versions \cup Runs \cup Facts \cup TaskRows \cup SessionFiles \cup SessionRows
    /\ Versions # {} /\ Runs \cap Versions = {}
    /\ {NoHash, Incremental} \cap (Facts \cup Snapshots \cup SessionRows \cup {None}) = {}
    /\ Tasks \cap Parts = {}

FactOnDisk(t) ==
    IF disk.task[t] = None THEN None ELSE [src |-> disk.task[t], valid |-> disk.ref]

\* scanSessions: known is the set of tasks whose directories resolve to a key.
SessionOnDisk(known) ==
    IF disk.sess = None THEN None
    ELSE [file |-> disk.sess,
          stale |-> ~(disk.sess.task \in known /\ disk.task[disk.sess.task] # None)]

Attached(s, t) == s # None /\ ~s.stale /\ s.file.task = t

\* The runtime state of a task with source version v under session s.
RunPhase(s, t, v) ==
    IF Attached(s, t) /\ s.file.run # None THEN s.file.run ELSE v

NewRow(t, f, s) ==
    [fact |-> f, ihash |-> f, phase |-> RunPhase(s, t, f.src), active |-> Attached(s, t)]

Present == {t \in Tasks : rows[t] # None}

NoSnap == [task |-> [t \in Tasks |-> None], flow |-> None, sess |-> None,
           specs |-> None, git |-> None]

Disks ==
    [task : [Tasks -> Versions \cup {None}], ref : BOOLEAN, flow : Versions,
     sess : SessionFiles \cup {None}, specs : Versions, git : Versions]

Init ==
    /\ disk \in Disks
    /\ edits = 0 /\ faults = 0 /\ pending = {}
    /\ rows = [t \in Tasks |-> None]
    /\ flowRow = None /\ sessRow = None /\ specsRow = None /\ gitRow = None
    /\ hash = [tasks |-> NoHash, sessions |-> NoHash]
    /\ rev = [r \in Resources |-> 0]
    /\ failed = FALSE
    /\ job = "readTasks" /\ left = Tasks /\ snap = NoSnap /\ pushed = None

-----------------------------------------------------------------------------
(* The disk.  The watcher reports a change under .trellis, or misses it.   *)

Edit(part) ==
    /\ edits < MaxEdits /\ edits' = edits + 1
    /\ \/ pending' = pending \cup part
       \/ UNCHANGED pending
    /\ UNCHANGED <<faults, cacheVars, workVars, pushed>>

EditTask(t, v) ==
    /\ v # disk.task[t]
    /\ disk' = [disk EXCEPT !.task[t] = v]
    /\ Edit({t})

EditFlow(v) == v # disk.flow /\ disk' = [disk EXCEPT !.flow = v] /\ Edit({"flow"})
EditSession(s) == s # disk.sess /\ disk' = [disk EXCEPT !.sess = s] /\ Edit({"sess"})
EditSpecs(v) == v # disk.specs /\ disk' = [disk EXCEPT !.specs = v] /\ Edit({"specs"})

\* The referenced file appears or disappears; Git status shows it unless the
\* file is ignored.
EditRef(g) == disk' = [disk EXCEPT !.ref = ~@, !.git = g] /\ Edit({})

\* Other changes to the working tree.
EditGit(g) == g # disk.git /\ disk' = [disk EXCEPT !.git = g] /\ Edit({})

-----------------------------------------------------------------------------
(* The worker between jobs *)

BeginFull == job' = "readTasks" /\ left' = Tasks /\ snap' = NoSnap

\* The rescan timer, or a manual rescan.
RescanTimer ==
    /\ job = "idle"
    /\ BeginFull
    /\ UNCHANGED <<disk, edits, faults, pending, cacheVars, pushed>>

\* runner.dirty: takeChanges empties the pending set before the scan.  A task
\* without a row sends the changes to a full scan.
TakeChanges ==
    /\ job = "idle" /\ pending # {}
    /\ pending' = {}
    /\ \/ (pending \cap Tasks) \ Present # {} /\ BeginFull
       \/ /\ (pending \cap Tasks) \subseteq Present
          /\ job' = "incremental" /\ left' = pending
          /\ UNCHANGED snap
    /\ UNCHANGED <<disk, edits, faults, cacheVars, pushed>>

-----------------------------------------------------------------------------
(* Full scan *)

ReadTask(t) ==
    /\ job = "readTasks" /\ t \in left
    /\ snap' = [snap EXCEPT !.task[t] = FactOnDisk(t)]
    /\ left' = left \ {t}
    /\ job' = IF left = {t} THEN "readFlow" ELSE job
    /\ UNCHANGED <<disk, edits, faults, pending, cacheVars, pushed>>

ReadFlow ==
    /\ job = "readFlow" /\ job' = "readSessions"
    /\ snap' = [snap EXCEPT !.flow = disk.flow]
    /\ UNCHANGED <<disk, edits, faults, pending, cacheVars, left, pushed>>

ReadSessions ==
    /\ job = "readSessions" /\ job' = "readSpecs"
    /\ snap' = [snap EXCEPT !.sess = SessionOnDisk({t \in Tasks : snap.task[t] # None})]
    /\ UNCHANGED <<disk, edits, faults, pending, cacheVars, left, pushed>>

ReadSpecs ==
    /\ job = "readSpecs" /\ job' = "commit"
    /\ snap' = [snap EXCEPT !.specs = disk.specs]
    /\ UNCHANGED <<disk, edits, faults, pending, cacheVars, left, pushed>>

TasksHash == [task |-> snap.task, flow |-> snap.flow]

\* Revisions go up by one for the resources in the set.
Bump(set) == rev' = [r \in Resources |-> IF r \in set THEN rev[r] + 1 ELSE rev[r]]

\* The rows of a snapshot: a row with the same index hash is left alone.
SnapshotRows ==
    [t \in Tasks |->
        IF hash.tasks = TasksHash THEN rows[t]
        ELSE IF snap.task[t] = None THEN None
        ELSE IF rows[t] # None /\ rows[t].ihash = snap.task[t] THEN rows[t]
        ELSE NewRow(t, snap.task[t], snap.sess)]

\* reconcileSessions: rows take over the runtime state that the scan derived;
\* source(t) is the version the scan derived it from.
Reconciled(old, s, source) ==
    [t \in Tasks |->
        IF old[t] = None \/ source[t] = None THEN old[t]
        ELSE [old[t] EXCEPT !.phase = RunPhase(s, t, source[t]), !.active = Attached(s, t)]]

\* ReplaceTrellisSnapshot, one transaction.  The initial and the manual scan
\* go on to refresh Git, the others do not.
Commit ==
    LET sources == [t \in Tasks |->
                       IF snap.task[t] = None THEN None ELSE snap.task[t].src]
        sessChanged == hash.sessions # snap.sess
        taskRows == SnapshotRows
        newRows == IF sessChanged THEN Reconciled(taskRows, snap.sess, sources) ELSE taskRows
        newFlow == IF hash.tasks = TasksHash THEN flowRow ELSE snap.flow
        newSess == IF sessChanged THEN snap.sess ELSE sessRow
        tasksBump == taskRows # rows \/ newFlow # flowRow
        sessBump == newSess # sessRow \/ newRows # taskRows
        specsBump == specsRow # snap.specs
    IN  /\ job = "commit" /\ job' \in {"idle", "git"}
        /\ rows' = newRows /\ flowRow' = newFlow /\ sessRow' = newSess
        /\ specsRow' = snap.specs
        /\ hash' = [tasks |-> TasksHash, sessions |-> snap.sess]
        /\ failed' = FALSE
        /\ Bump((IF tasksBump THEN {"tasks", "activity"} ELSE {}) \cup
                (IF sessBump THEN {"sessions", "activity"} ELSE {}) \cup
                (IF specsBump THEN {"specs"} ELSE {}) \cup
                (IF failed THEN {"activity"} ELSE {}))
        /\ snap' = NoSnap
        /\ UNCHANGED <<disk, edits, faults, pending, gitRow, left, pushed>>

\* A file cannot be read or parsed: the error is recorded.
ScanFails ==
    /\ job \in FullJobs \ {"commit"}
    /\ faults < MaxFaults /\ faults' = faults + 1
    /\ failed' = TRUE
    /\ Bump(IF failed THEN {} ELSE {"activity"})
    /\ job' = "idle" /\ left' = {} /\ snap' = NoSnap
    /\ UNCHANGED <<disk, edits, pending, rows, flowRow, sessRow, specsRow, gitRow, hash, pushed>>

\* The scan is cancelled, or its transaction fails: nothing is recorded.
ScanLost ==
    /\ job \in FullJobs
    /\ faults < MaxFaults /\ faults' = faults + 1
    /\ job' = "idle" /\ left' = {} /\ snap' = NoSnap
    /\ UNCHANGED <<disk, edits, pending, cacheVars, pushed>>

-----------------------------------------------------------------------------
(* Incremental scan: tasks, workflow, sessions and specs in this order,    *)
(* each with a transaction of its own.                                     *)

\* Mutant: only the activity is announced.
WroteQuietly(resource) == failed' = FALSE /\ Bump({"activity"})

\* finishIncrementalIndex after a change: the index error is cleared.
Wrote(resource) == failed' = FALSE /\ Bump({resource, "activity"})
NothingWritten == UNCHANGED <<failed, rev>>

Did(part) ==
    /\ left' = left \ {part}
    /\ job' = IF left = {part} THEN "idle" ELSE "incremental"
    /\ UNCHANGED <<disk, edits, faults, pending, snap, pushed>>

\* ScanTask keeps the runtime state of a task with an active session.
RescannedRow(t, f) ==
    [fact |-> f, ihash |-> f, active |-> rows[t].active,
     phase |-> IF rows[t].active THEN rows[t].phase ELSE f.src]

\* ScanTask, then ReplaceTaskBundle or DeleteTask.
ScanTask(t) ==
    LET f == FactOnDisk(t)
    IN  /\ job = "incremental" /\ t \in left \cap Tasks
        /\ \/ /\ f # None /\ rows[t].ihash = f
              /\ NothingWritten /\ UNCHANGED <<rows, hash>>
           \/ /\ f = None \/ rows[t].ihash # f
              /\ rows' = [rows EXCEPT ![t] = IF f = None THEN None ELSE RescannedRow(t, f)]
              /\ hash' = [hash EXCEPT !.tasks = Incremental]
              /\ Wrote("tasks")
        /\ Did(t)
        /\ UNCHANGED <<flowRow, sessRow, specsRow, gitRow>>

ScanWorkflowStates ==
    /\ job = "incremental" /\ left \cap Tasks = {} /\ "flow" \in left
    /\ \/ /\ flowRow = disk.flow
          /\ NothingWritten /\ UNCHANGED <<flowRow, hash>>
       \/ /\ flowRow # disk.flow
          /\ flowRow' = disk.flow
          /\ hash' = [hash EXCEPT !.tasks = Incremental]
          /\ Wrote("tasks")
    /\ Did("flow")
    /\ UNCHANGED <<rows, sessRow, specsRow, gitRow>>

ScanSessions ==
    LET s == SessionOnDisk(Present)
        newRows == Reconciled(rows, s, [t \in Tasks |->
                       IF rows[t] = None THEN None ELSE rows[t].fact.src])
    IN  /\ job = "incremental" /\ left \cap (Tasks \cup {"flow"}) = {} /\ "sess" \in left
        /\ \/ /\ hash.sessions = s
              /\ NothingWritten /\ UNCHANGED <<rows, sessRow, hash>>
           \/ /\ hash.sessions # s
              /\ hash' = [hash EXCEPT !.sessions = s]
              /\ rows' = newRows /\ sessRow' = s
              /\ IF newRows = rows /\ s = sessRow THEN NothingWritten ELSE Wrote("sessions")
        /\ Did("sess")
        /\ UNCHANGED <<flowRow, specsRow, gitRow>>

\* The specs revision goes up without an activity event.
ScanSpecsHash ==
    /\ job = "incremental" /\ left = {"specs"}
    /\ \/ specsRow = disk.specs /\ NothingWritten /\ UNCHANGED specsRow
       \/ /\ specsRow # disk.specs
          /\ specsRow' = disk.specs
          /\ failed' = FALSE /\ Bump({"specs"})
    /\ Did("specs")
    /\ UNCHANGED <<rows, flowRow, sessRow, gitRow, hash>>

\* An error ends the incremental scan: the changes it had not reached are
\* dropped and no index error is recorded.
IncrementalFails ==
    /\ job = "incremental"
    /\ faults < MaxFaults /\ faults' = faults + 1
    /\ job' = "idle" /\ left' = {}
    /\ UNCHANGED <<disk, edits, pending, cacheVars, snap, pushed>>

-----------------------------------------------------------------------------
(* Git *)

\* Mutant: Git is asked after scans only.
RefreshGitAfterScans ==
    /\ job = "git" /\ job' = "storeGit"
    /\ snap' = [NoSnap EXCEPT !.git = disk.git]
    /\ UNCHANGED <<disk, edits, faults, pending, cacheVars, left, pushed>>

\* refreshGit: Git is asked first, what it said is stored later.
RefreshGit ==
    /\ job \in {"idle", "git"} /\ job' = "storeGit"
    /\ snap' = [NoSnap EXCEPT !.git = disk.git]
    /\ UNCHANGED <<disk, edits, faults, pending, cacheVars, left, pushed>>

\* ReplaceGitSnapshot.
StoreSnapshot(g) ==
    /\ gitRow' = g
    /\ IF g = gitRow THEN UNCHANGED rev ELSE Bump({"git", "activity"})
    /\ UNCHANGED <<rows, flowRow, sessRow, specsRow, hash, failed>>

\* The context entries are validated again only when the snapshot differs
\* from the stored one.
StoreGit ==
    /\ job = "storeGit" /\ job' = IF snap.git = gitRow THEN "idle" ELSE "validate"
    /\ StoreSnapshot(snap.git)
    /\ snap' = NoSnap
    /\ UNCHANGED <<disk, edits, faults, pending, left, pushed>>

\* pushGit of the API: the push changes what Git reports, the handler takes a
\* snapshot and stores it at any time later.  It never validates entries.
PushBegin(g) ==
    /\ pushed = None /\ edits < MaxEdits /\ edits' = edits + 1
    /\ disk' = [disk EXCEPT !.git = g] /\ pushed' = g
    /\ UNCHANGED <<faults, pending, cacheVars, workVars>>

PushStore ==
    /\ pushed # None /\ pushed' = None
    /\ StoreSnapshot(pushed)
    /\ UNCHANGED <<disk, edits, faults, pending, workVars>>

Outdated == {t \in Present : rows[t].fact.valid # disk.ref}

\* Mutant: the hashes stay.
RevalidateInPlace ==
    /\ job = "validate" /\ job' = "idle"
    /\ rows' = [t \in Tasks |->
                  IF t \in Outdated THEN [rows[t] EXCEPT !.fact.valid = disk.ref] ELSE rows[t]]
    /\ IF Outdated = {} THEN NothingWritten ELSE Wrote("tasks")
    /\ UNCHANGED <<disk, edits, faults, pending, flowRow, sessRow, specsRow, gitRow, hash,
                   left, snap, pushed>>

\* RevalidateContextEntries and ReplaceContextValidity: the index hash of a
\* task whose entries changed is emptied.
Revalidate ==
    /\ job = "validate" /\ job' = "idle"
    /\ \/ Outdated = {} /\ NothingWritten /\ UNCHANGED <<rows, hash>>
       \/ /\ Outdated # {}
          /\ rows' = [t \in Tasks |->
                        IF t \in Outdated
                        THEN [rows[t] EXCEPT !.fact.valid = disk.ref, !.ihash = NoHash]
                        ELSE rows[t]]
          /\ hash' = [hash EXCEPT !.tasks = Incremental]
          /\ Wrote("tasks")
    /\ UNCHANGED <<disk, edits, faults, pending, flowRow, sessRow, specsRow, gitRow, left, snap, pushed>>

\* Git, the validation or a transaction fails.
GitFails ==
    /\ job \in GitJobs /\ job' = "idle"
    /\ faults < MaxFaults /\ faults' = faults + 1
    /\ snap' = NoSnap
    /\ UNCHANGED <<disk, edits, pending, cacheVars, left, pushed>>

-----------------------------------------------------------------------------
Environment ==
    \/ \E t \in Tasks, v \in Versions \cup {None} : EditTask(t, v)
    \/ \E v \in Versions :
          EditFlow(v) \/ EditSpecs(v) \/ EditRef(v) \/ EditGit(v) \/ PushBegin(v)
    \/ \E s \in SessionFiles \cup {None} : EditSession(s)
    \/ PushStore

FullStep ==
    \/ \E t \in Tasks : ReadTask(t)
    \/ ReadFlow \/ ReadSessions \/ ReadSpecs \/ Commit

IncrementalStep ==
    \/ \E t \in Tasks : ScanTask(t)
    \/ ScanWorkflowStates \/ ScanSessions \/ ScanSpecsHash

GitStep == RefreshGit \/ StoreGit \/ Revalidate

WorkerStep == FullStep \/ IncrementalStep \/ TakeChanges \/ GitStep

Fault == ScanFails \/ ScanLost \/ IncrementalFails \/ GitFails

Next == Environment \/ WorkerStep \/ RescanTimer \/ Fault

Spec == Init /\ [][Next]_vars

\* The worker does not stop in the middle of a job; the rescan timer and the
\* refresh ticker are cases the worker's select picks from at random; a push
\* handler runs to its end.
Fairness ==
    /\ WF_vars(WorkerStep) /\ WF_vars(PushStore)
    /\ SF_vars(RescanTimer) /\ SF_vars(RefreshGit)

FairSpec == Spec /\ Fairness

-----------------------------------------------------------------------------
TypeOK ==
    /\ disk \in Disks
    /\ edits \in 0 .. MaxEdits /\ faults \in 0 .. MaxFaults
    /\ pending \subseteq Tasks \cup Parts
    /\ rows \in [Tasks -> TaskRows \cup {None}]
    /\ flowRow \in Versions \cup {None}
    /\ sessRow \in SessionRows \cup {None}
    /\ specsRow \in Versions \cup {None}
    /\ gitRow \in Versions \cup {None}
    /\ hash \in [tasks : Snapshots \cup {NoHash, Incremental},
                 sessions : SessionRows \cup {None, NoHash}]
    /\ rev \in [Resources -> Nat]
    /\ failed \in BOOLEAN
    /\ job \in FullJobs \cup GitJobs \cup {"idle", "incremental", "git"}
    /\ left \subseteq Tasks \cup Parts
    /\ snap \in [task : [Tasks -> Facts \cup {None}], flow : Versions \cup {None},
                 sess : SessionRows \cup {None}, specs : Versions \cup {None},
                 git : Versions \cup {None}]
    /\ pushed \in Versions \cup {None}

\* The hashes that let a scan skip work describe what the cache holds: a tasks
\* hash of a snapshot is that of the rows, a row's index hash is that of its
\* facts, the sessions hash is that of the session row.  Otherwise no later
\* scan, full ones included, would repair the cache.
HashesDescribeCache ==
    /\ TypeOK
    /\ hash.tasks \notin {NoHash, Incremental} =>
          /\ flowRow = hash.tasks.flow
          /\ \A t \in Tasks :
                IF rows[t] = None THEN hash.tasks.task[t] = None
                ELSE hash.tasks.task[t] = rows[t].fact
    /\ \A t \in Present : rows[t].ihash # NoHash => rows[t].ihash = rows[t].fact
    /\ hash.sessions # NoHash => sessRow = hash.sessions

-----------------------------------------------------------------------------
(* The refinement: what readers see is announced by revisions.             *)

Views == {"facts", "context", "flow", "runtime", "sessions", "specs", "git", "health"}

content ==
    [facts |-> [t \in Tasks |-> IF rows[t] = None THEN None ELSE rows[t].fact.src],
     context |-> [t \in Tasks |-> IF rows[t] = None THEN None ELSE rows[t].fact.valid],
     flow |-> flowRow,
     runtime |-> [t \in Tasks |-> IF rows[t] = None THEN None
                                  ELSE <<rows[t].phase, rows[t].active>>],
     sessions |-> sessRow,
     specs |-> specsRow,
     git |-> gitRow,
     health |-> failed]

Published == INSTANCE RevisionedStore WITH revision <- rev

\* The cache implements RevisionedStore.
ChangesAreAnnounced == Published!Spec

-----------------------------------------------------------------------------
FactsCurrent ==
    /\ \A t \in Tasks : IF rows[t] = None THEN FactOnDisk(t) = None
                        ELSE FactOnDisk(t) = rows[t].fact
    /\ flowRow = disk.flow /\ specsRow = disk.specs /\ gitRow = disk.git
    /\ sessRow = SessionOnDisk(Tasks)

\* When the files stop changing and scans stop failing, the cache comes to
\* show exactly what is on disk and no index error, whatever the watcher
\* missed and the incremental scans dropped (README.md:122).
FactsConverge == <>[](FactsCurrent /\ ~failed)

=============================================================================
