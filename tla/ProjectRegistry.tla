--------------------------- MODULE ProjectRegistry ---------------------------
(***************************************************************************)
(* Where the registered projects are kept: the SQLite file with its WAL,   *)
(* and the sidecar file <database>.projects.json that survives the loss of *)
(* the database (internal/store/project_registry.go, store.go).  A         *)
(* mutation writes the sidecar and then commits; opening the store brings  *)
(* the two in line.  Processes are killed, machines lose power, the        *)
(* database files are deleted.                                             *)
(***************************************************************************)
EXTENDS Naturals, Sequences

CONSTANTS
    Ids, Roots, Nothing,
    Absent,     \* the file does not exist
    MaxOps,     \* bound on the mutations
    MaxFailures   \* bound on the writes that fail

VARIABLES
    main,      \* the projects in the database file
    wal,       \* the states committed since the last checkpoint
    sidecar,
    durable,   \* the sidecar that a power loss cannot take away
    phase,     \* of the process
    op,        \* the mutation that holds registryMu, or the restore of Open
    answer,    \* of the last mutation
    ops, failures

files == <<main, wal, sidecar, durable>>
registryVars == <<files, phase, op, answer, ops, failures>>

\* The root of each project; roots are unique.
Registries ==
    {r \in [Ids -> Roots \cup {Nothing}] :
        \A a, b \in Ids : a # b /\ r[a] = r[b] => r[a] = Nothing}

NoProjects == [i \in Ids |-> Nothing]

Last(s, default) == IF s = <<>> THEN default ELSE s[Len(s)]

\* What SQLite answers: the WAL counts, a missing file is an empty database.
db == Last(wal, IF main = Absent THEN NoProjects ELSE main)

Steps == {"write", "sync", "commit", "undo", "syncUndo"}
Ops == [prev : Registries, next : Registries, step : Steps]

NothingIsNoRegistry == Nothing \notin Registries \cup Ops /\ Absent \notin Registries
Bounds == MaxOps \in Nat /\ MaxFailures \in Nat

ASSUME RegistryAssumption == NothingIsNoRegistry /\ Bounds

RegistryInit ==
    /\ main \in Registries \cup {Absent} /\ wal = <<>>
    /\ sidecar = Absent /\ durable = Absent
    /\ phase = "down" /\ op = Nothing /\ answer = "none"
    /\ ops = 0 /\ failures = 0

-----------------------------------------------------------------------------
(* Open *)

\* A project is registered at two different roots.
Conflict(a, b) ==
    /\ a # Absent /\ b # Absent
    /\ \E i \in Ids : a[i] # Nothing /\ b[i] # Nothing /\ a[i] # b[i]

\* ValidateStoredProjectLocations opens the file as immutable: it sees the
\* database without its WAL.
Preflight ==
    /\ phase = "down"
    /\ phase' = IF Conflict(main, sidecar) THEN "refused" ELSE "opening"
    /\ UNCHANGED <<files, op, answer, ops, failures>>

\* The projects restoreProjectsFromRegistry leaves in the database.
Restored == IF sidecar = Absent THEN db ELSE sidecar

RestoreBegin ==
    /\ phase = "opening"
    /\ \/ /\ Conflict(db, sidecar)
          /\ phase' = "refused" /\ UNCHANGED op
       \/ /\ ~Conflict(db, sidecar)
          /\ phase' = "restoring"
          /\ op' = [prev |-> db, next |-> Restored, step |-> "write"]
    /\ UNCHANGED <<files, answer, ops, failures>>

\* The operator removes the files of the database; the sidecar has
\* been there since the store was first opened.
LoseDatabase ==
    /\ durable # Absent
    /\ phase \in {"down", "refused"} /\ phase' = "down"
    /\ main' = Absent /\ wal' = <<>>
    /\ UNCHANGED <<sidecar, durable, op, answer, ops, failures>>

-----------------------------------------------------------------------------
(* Mutations.  registryMu admits one at a time.                            *)

Ask(next) ==
    /\ phase = "up" /\ op = Nothing
    /\ ops < MaxOps /\ ops' = ops + 1
    /\ op' = [prev |-> db, next |-> next, step |-> "write"]
    /\ answer' = "none"
    /\ UNCHANGED <<files, phase, failures>>

\* UpsertProject refuses another root for a registered project, and SQLite
\* refuses a root twice, before anything is written.
UpsertProject(i, root) ==
    /\ db[i] \in {Nothing, root}
    /\ \A j \in Ids \ {i} : db[j] # root
    /\ Ask([db EXCEPT ![i] = root])

DeleteProject(i) == db[i] # Nothing /\ Ask([db EXCEPT ![i] = Nothing])

At(step) == op # Nothing /\ op.step = step
GoTo(step) == op' = [op EXCEPT !.step = step] /\ UNCHANGED <<phase, answer>>

\* The mutation, or the restore, is over.
End(success) ==
    /\ op' = Nothing
    /\ \/ /\ phase = "up" /\ UNCHANGED phase
          /\ answer' = IF success THEN "ok" ELSE "failed"
       \/ /\ phase = "restoring" /\ UNCHANGED answer
          /\ phase' = IF success THEN "up" ELSE "down"

\* Mutant: the new sidecar stays after a failure.
UndoNothing == End(FALSE)

\* A failed mutation puts the sidecar back; Open gives up.
Undo == IF phase = "up" THEN GoTo("undo") ELSE End(FALSE)

\* writeProjectRegistry: rename, then make the rename durable.
WriteSidecar ==
    /\ At("write") /\ GoTo("sync")
    /\ sidecar' = op.next
    /\ UNCHANGED <<main, wal, durable, ops, failures>>

SyncSidecar ==
    /\ At("sync") /\ GoTo("commit")
    /\ durable' = sidecar
    /\ UNCHANGED <<main, wal, sidecar, ops, failures>>

CommitMutation ==
    /\ At("commit") /\ End(TRUE)
    /\ wal' = IF op.next = Last(wal, main) THEN wal ELSE Append(wal, op.next)
    /\ UNCHANGED <<main, sidecar, durable, ops, failures>>

UndoSidecar ==
    /\ At("undo") /\ GoTo("syncUndo")
    /\ sidecar' = op.prev
    /\ UNCHANGED <<main, wal, durable, ops, failures>>

SyncUndo ==
    /\ At("syncUndo") /\ End(FALSE)
    /\ durable' = sidecar
    /\ UNCHANGED <<main, wal, sidecar, ops, failures>>

StepFails ==
    /\ op # Nothing
    /\ failures < MaxFailures /\ failures' = failures + 1
    /\ IF op.step \in {"undo", "syncUndo"} THEN End(FALSE) ELSE Undo
    /\ UNCHANGED <<files, ops>>

-----------------------------------------------------------------------------
(* SQLite moves commits from the WAL to the file, at the latest when the   *)
(* last connection closes.                                                 *)

Checkpoint ==
    /\ phase \in {"up", "restoring"}
    /\ \E k \in 1 .. Len(wal) :
          /\ main' = wal[k]
          /\ wal' = SubSeq(wal, k + 1, Len(wal))
    /\ UNCHANGED <<sidecar, durable, phase, op, answer, ops, failures>>

Close ==
    /\ phase = "up" /\ op = Nothing
    /\ phase' = "down" /\ answer' = "none"
    /\ main' = Last(wal, main) /\ wal' = <<>>
    /\ UNCHANGED <<sidecar, durable, op, ops, failures>>

Halt == phase # "refused" /\ phase' = "down" /\ op' = Nothing /\ answer' = "none"

\* The process is killed.
Crash ==
    /\ phase # "down" /\ Halt
    /\ UNCHANGED <<files, ops, failures>>

\* With synchronous=NORMAL the commits at the end of the WAL may be lost.
PowerLoss ==
    /\ Halt
    /\ \E k \in 0 .. Len(wal) : wal' = SubSeq(wal, 1, k)
    /\ sidecar' \in {sidecar, durable} /\ durable' = sidecar'
    /\ UNCHANGED <<main, ops, failures>>

-----------------------------------------------------------------------------
Mutation ==
    \/ \E i \in Ids, root \in Roots : UpsertProject(i, root)
    \/ \E i \in Ids : DeleteProject(i)

Write ==
    \/ WriteSidecar \/ SyncSidecar \/ CommitMutation \/ UndoSidecar \/ SyncUndo \/ StepFails

RegistryNext ==
    \/ Preflight \/ RestoreBegin \/ LoseDatabase
    \/ Mutation \/ Write
    \/ Checkpoint \/ Close \/ Crash \/ PowerLoss

RegistrySpec == RegistryInit /\ [][RegistryNext]_registryVars

-----------------------------------------------------------------------------
RegistryTypeOK ==
    /\ main \in Registries \cup {Absent} /\ wal \in Seq(Registries)
    /\ sidecar \in Registries \cup {Absent} /\ durable \in Registries \cup {Absent}
    /\ phase \in {"down", "refused", "opening", "restoring", "up"}
    /\ op \in Ops \cup {Nothing}
    /\ phase = "restoring" => op # Nothing
    /\ op # Nothing => phase \in {"restoring", "up"}
    /\ answer \in {"none", "ok", "failed"}
    /\ ops \in 0 .. MaxOps /\ failures \in 0 .. MaxFailures

\* What a sidecar says, on a disk that may not have one yet.
Disk(file) == IF file = Absent THEN db ELSE file

\* The projects a running store serves, or those the next one will restore; a
\* renamed sidecar is undecided until it is durable.
projects ==
    IF phase # "up" THEN Disk(durable) ELSE IF op = Nothing THEN db ELSE op.prev

undecided ==
    IF phase # "up" THEN (IF Disk(sidecar) = Disk(durable) THEN Nothing ELSE Disk(sidecar))
    ELSE IF op = Nothing THEN Nothing ELSE op.next

Promise == INSTANCE RegistryPromise WITH pending <- undecided, None <- Nothing

\* The registry keeps its promise through crashes, power losses, one failed
\* write and the loss of the database (README.md:103, and
\* project_registry.go:234: a failed request must not take effect after a
\* restart); its files hold what the types say, no root twice.
KeepsPromise == []RegistryTypeOK /\ Promise!Spec

=============================================================================
