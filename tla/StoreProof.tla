------------------------------ MODULE StoreProof ------------------------------
(***************************************************************************)
(* Machine-checked proofs about internal/store: the index cache and the    *)
(* project registry.                                                       *)
(*                                                                         *)
(* The hashes of the cache describe its rows, and the cache implements     *)
(* RevisionedStore, for every number of tasks, versions, changes and       *)
(* failures.  A hash is stored in the transaction that stores what it      *)
(* covers, or is emptied by it; what has to be carried from a scan's reads *)
(* to its commit is that the job has read what it needs (ReadInv).  The    *)
(* refinement goes view by view: a transaction that changes one raises a   *)
(* revision the view is covered by (each Wrote names its resource), and    *)
(* Reconciled keeps what it does not announce.                             *)
(*                                                                         *)
(* Scans give every task a key of its own and piece together what a full   *)
(* scan finds, for every tree.  The loop of AssignKeys ends with a key for *)
(* every task (KeysGiven), and the keys it gives differ (KeysUnique); that *)
(* steps keep keys is KeyInv.  What rows and sessions owe to the files but *)
(* for the changes still to be scanned is ScanInv; that the keys differ is *)
(* what lets it say which sessions are a task's.                           *)
(*                                                                         *)
(* The registry implements RegistryPromise, for every number of projects,  *)
(* mutations, crashes and power losses.  At each step of a mutation, and   *)
(* of the restore at Open, the sidecar and what of it is durable are what  *)
(* the mutation found or what it makes (MutationInv, RestoreInv), so that  *)
(* whatever survives the process is one of the two.                        *)
(***************************************************************************)
EXTENDS Indexing, ProjectRegistry, TLAPS, WellFoundedInduction, FiniteSetTheorems

CacheSpec == IndexingInit /\ [][IndexingNext]_indexVars

\* What the job in progress has read by the time it needs it; the tasks that
\* an incremental scan has still to look at have a row.
ReadInv ==
    /\ job \in {"readSessions", "readSpecs", "commit"} => snap.flow \in Versions
    /\ job = "incremental" => left \cap Tasks \subseteq Present

\* The second part of HashesDescribeCache, for the tasks hash of a snapshot.
TasksHashInv ==
    hash.tasks \notin {NoHash, Incremental} =>
        /\ flowRow = hash.tasks.flow
        /\ \A t \in Tasks : IF rows[t] = None THEN hash.tasks.task[t] = None
                            ELSE hash.tasks.task[t] = rows[t].fact

RowHashInv == \A t \in Present : rows[t].ihash # NoHash => rows[t].ihash = rows[t].fact

SessionHashInv == hash.sessions # NoHash => sessRow = hash.sessions

IndexInv == TypeOK /\ ReadInv /\ TasksHashInv /\ RowHashInv /\ SessionHashInv

-----------------------------------------------------------------------------
(* The values a scan makes are those of the types.                         *)

LEMMA FactType ==
    ASSUME disk \in Disks, NEW t \in Tasks
    PROVE  FactOnDisk(t) \in Facts \cup {None}
  BY DEF Disks, FactOnDisk, Facts

LEMMA SessionType ==
    ASSUME disk \in Disks, NEW known \in SUBSET Tasks
    PROVE  SessionOnDisk(known) \in SessionRows \cup {None}
  BY DEF Disks, SessionOnDisk, SessionRows

LEMMA PhaseType ==
    ASSUME NEW s \in SessionRows \cup {None}, NEW t \in Tasks, NEW v \in Versions
    PROVE  RunPhase(s, t, v) \in Phases /\ Attached(s, t) \in BOOLEAN
  BY DEF RunPhase, Attached, Phases, SessionRows, SessionFiles

LEMMA NewRowType ==
    ASSUME NEW s \in SessionRows \cup {None}, NEW t \in Tasks, NEW f \in Facts
    PROVE  /\ NewRow(t, f, s) \in TaskRows
           /\ NewRow(t, f, s).fact = f /\ NewRow(t, f, s).ihash = f
<1>1. f.src \in Versions BY DEF Facts
<1>2. RunPhase(s, t, f.src) \in Phases /\ Attached(s, t) \in BOOLEAN BY <1>1, PhaseType
<1> QED BY <1>2 DEF NewRow, TaskRows

\* Reconciling keeps a row, its facts and its index hash.
LEMMA ReconciledKeeps ==
    ASSUME NEW old \in [Tasks -> TaskRows \cup {None}],
           NEW s \in SessionRows \cup {None},
           NEW source \in [Tasks -> Versions \cup {None}]
    PROVE  /\ Reconciled(old, s, source) \in [Tasks -> TaskRows \cup {None}]
           /\ \A t \in Tasks :
                 /\ Reconciled(old, s, source)[t] = None <=> old[t] = None
                 /\ old[t] # None =>
                       /\ Reconciled(old, s, source)[t].fact = old[t].fact
                       /\ Reconciled(old, s, source)[t].ihash = old[t].ihash
<1>1. ASSUME NEW t \in Tasks, old[t] # None, source[t] # None
      PROVE  LET row == [old[t] EXCEPT !.phase = RunPhase(s, t, source[t]),
                                       !.active = Attached(s, t)]
             IN  row \in TaskRows /\ row.fact = old[t].fact /\ row.ihash = old[t].ihash
  <2>1. source[t] \in Versions /\ old[t] \in TaskRows BY <1>1
  <2>2. RunPhase(s, t, source[t]) \in Phases /\ Attached(s, t) \in BOOLEAN BY <2>1, PhaseType
  <2> QED BY <2>1, <2>2 DEF TaskRows
<1>2. None \notin TaskRows BY IndexAssumption
<1> QED BY <1>1, <1>2 DEF Reconciled

\* Revisions are numbers.
LEMMA BumpType ==
    ASSUME rev \in [Resources -> Nat], NEW set, Bump(set)
    PROVE  rev' \in [Resources -> Nat]
  BY DEF Bump

LEMMA WroteType ==
    ASSUME rev \in [Resources -> Nat], failed \in BOOLEAN,
           NEW resource, Wrote(resource) \/ NothingWritten
    PROVE  rev' \in [Resources -> Nat] /\ failed' \in BOOLEAN
<1>1. CASE Wrote(resource)
  <2>1. Bump({resource, "activity"}) /\ failed' = FALSE BY <1>1 DEF Wrote
  <2> QED BY <2>1, BumpType
<1>2. CASE NothingWritten BY <1>2 DEF NothingWritten
<1> QED BY <1>1, <1>2

-----------------------------------------------------------------------------
(* The invariant *)

USE IndexAssumption

LEMMA InitIndexInv == Init => IndexInv
<1> SUFFICES ASSUME Init PROVE IndexInv
  OBVIOUS
<1>1. TypeOK
  <2>1. rev \in [Resources -> Nat] BY DEF Init
  <2>2. hash \in [tasks : Snapshots \cup {NoHash, Incremental},
                 sessions : SessionRows \cup {None, NoHash}]
    BY DEF Init
  <2>3. NoSnap \in [task : [Tasks -> Facts \cup {None}], flow : Versions \cup {None},
                   sess : SessionRows \cup {None}, specs : Versions \cup {None},
                   git : Versions \cup {None}]
    BY DEF NoSnap
  <2>4. rows \in [Tasks -> TaskRows \cup {None}] BY DEF Init
  <2>5. edits \in 0 .. MaxEdits /\ faults \in 0 .. MaxFaults BY DEF Init
  <2>6. disk \in Disks /\ snap = NoSnap /\ job \in FullJobs BY DEF Init, FullJobs
  <2>7. pending \subseteq Tasks \cup Parts /\ left \subseteq Tasks \cup Parts BY DEF Init
  <2>8. failed \in BOOLEAN BY DEF Init
  <2> QED BY <2>1, <2>2, <2>3, <2>4, <2>5, <2>6, <2>7, <2>8 DEF Init, TypeOK
<1> QED BY <1>1 DEF IndexInv, Init, ReadInv, TasksHashInv, RowHashInv, SessionHashInv, Present

\* Changes of the disk, and a push of the API.
LEMMA EnvironmentIndexInv == IndexInv /\ Environment => IndexInv'
<1> SUFFICES ASSUME IndexInv, Environment PROVE IndexInv'
  OBVIOUS
<1> USE DEF IndexInv
<1>1. ASSUME UNCHANGED <<cacheVars, workVars>>
      PROVE  (ReadInv /\ TasksHashInv /\ RowHashInv /\ SessionHashInv)'
  BY <1>1 DEF cacheVars, workVars, ReadInv, TasksHashInv, RowHashInv, SessionHashInv, Present
<1>2. ASSUME NEW part \in SUBSET (Tasks \cup Parts), Edit(part), disk' \in Disks
      PROVE  IndexInv'
  <2>1. TypeOK' BY <1>2 DEF Edit, TypeOK, cacheVars, workVars
  <2> QED BY <1>1, <1>2, <2>1 DEF Edit
<1>3. ASSUME NEW t \in Tasks, NEW v \in Versions \cup {None}, EditTask(t, v) PROVE IndexInv'
  <2>1. disk' \in Disks BY <1>3 DEF EditTask, TypeOK, Disks
  <2> QED BY <1>2, <1>3, <2>1 DEF EditTask
<1>4. ASSUME NEW v \in Versions, EditFlow(v) \/ EditSpecs(v) \/ EditRef(v) \/ EditGit(v)
      PROVE  IndexInv'
  <2>1. disk' \in Disks
    <3>1. CASE EditFlow(v) BY <3>1 DEF EditFlow, TypeOK, Disks
    <3>2. CASE EditSpecs(v) BY <3>2 DEF EditSpecs, TypeOK, Disks
    <3>3. CASE EditRef(v) BY <3>3 DEF EditRef, TypeOK, Disks
    <3>4. CASE EditGit(v) BY <3>4 DEF EditGit, TypeOK, Disks
    <3> QED BY <1>4, <3>1, <3>2, <3>3, <3>4
  <2> QED BY <1>2, <1>4, <2>1 DEF EditFlow, EditSpecs, EditRef, EditGit, Parts
<1>5. ASSUME NEW s \in SessionFiles \cup {None}, EditSession(s) PROVE IndexInv'
  <2>1. disk' \in Disks BY <1>5 DEF EditSession, TypeOK, Disks
  <2> QED BY <1>2, <1>5, <2>1 DEF EditSession, Parts
<1>6. ASSUME NEW g \in Versions, PushBegin(g) PROVE IndexInv'
  <2>1. disk' \in Disks BY <1>6 DEF PushBegin, TypeOK, Disks
  <2>2. TypeOK' BY <1>6, <2>1 DEF PushBegin, TypeOK, cacheVars, workVars
  <2> QED BY <1>1, <1>6, <2>2 DEF PushBegin
<1>7. ASSUME PushStore PROVE IndexInv'
  <2>1. TypeOK' BY <1>7 DEF PushStore, StoreSnapshot, Bump, TypeOK, workVars, Resources
  <2> QED BY <1>7, <2>1 DEF PushStore, StoreSnapshot, workVars, ReadInv, TasksHashInv,
                            RowHashInv, SessionHashInv, Present
<1> QED BY <1>3, <1>4, <1>5, <1>6, <1>7 DEF Environment

\* The steps of a full scan before its transaction.
LEMMA ReadIndexInv ==
    IndexInv /\ ((\E t \in Tasks : ReadTask(t)) \/ ReadFlow \/ ReadSessions \/ ReadSpecs)
        => IndexInv'
<1> SUFFICES ASSUME IndexInv,
                    (\E t \in Tasks : ReadTask(t)) \/ ReadFlow \/ ReadSessions \/ ReadSpecs
             PROVE  IndexInv'
  OBVIOUS
<1> USE DEF IndexInv
<1>1. ASSUME UNCHANGED <<disk, edits, faults, pending, cacheVars, pushed>>,
             ReadInv', job' \in FullJobs, left' \subseteq Tasks \cup Parts,
             snap' \in [task : [Tasks -> Facts \cup {None}], flow : Versions \cup {None},
                        sess : SessionRows \cup {None}, specs : Versions \cup {None},
                        git : Versions \cup {None}]
      PROVE  IndexInv'
  BY <1>1 DEF TypeOK, cacheVars, TasksHashInv, RowHashInv, SessionHashInv, Present
<1>2. ASSUME NEW t \in Tasks, ReadTask(t) PROVE IndexInv'
  <2>1. FactOnDisk(t) \in Facts \cup {None} BY FactType DEF TypeOK
  <2>2. snap' \in [task : [Tasks -> Facts \cup {None}], flow : Versions \cup {None},
                   sess : SessionRows \cup {None}, specs : Versions \cup {None},
                   git : Versions \cup {None}]
    BY <1>2, <2>1 DEF ReadTask, TypeOK
  <2>3. job' \in FullJobs /\ left' \subseteq Tasks \cup Parts
    BY <1>2 DEF ReadTask, TypeOK, FullJobs
  <2>4. ReadInv' BY <1>2 DEF ReadTask, ReadInv
  <2> QED BY <1>1, <1>2, <2>2, <2>3, <2>4 DEF ReadTask
<1>3. ASSUME ReadFlow PROVE IndexInv'
  <2>1. /\ disk.flow \in Versions
        /\ snap' \in [task : [Tasks -> Facts \cup {None}], flow : Versions \cup {None},
                      sess : SessionRows \cup {None}, specs : Versions \cup {None},
                      git : Versions \cup {None}]
    BY <1>3 DEF ReadFlow, TypeOK, Disks
  <2>2. ReadInv' BY <1>3, <2>1 DEF ReadFlow, ReadInv, TypeOK
  <2> QED BY <1>1, <1>3, <2>1, <2>2 DEF ReadFlow, FullJobs, TypeOK
<1>4. ASSUME ReadSessions PROVE IndexInv'
  <2> DEFINE known == {t \in Tasks : snap.task[t] # None}
  <2>1. SessionOnDisk(known) \in SessionRows \cup {None}
    BY SessionType DEF TypeOK
  <2>2. snap' = [snap EXCEPT !.sess = SessionOnDisk(known)] BY <1>4 DEF ReadSessions
  <2> HIDE DEF known
  <2>3. /\ snap' \in [task : [Tasks -> Facts \cup {None}], flow : Versions \cup {None},
                      sess : SessionRows \cup {None}, specs : Versions \cup {None},
                      git : Versions \cup {None}]
        /\ snap'.flow = snap.flow
    BY <2>1, <2>2 DEF TypeOK
  <2>4. ReadInv' BY <1>4, <2>3 DEF ReadSessions, ReadInv
  <2> QED BY <1>1, <1>4, <2>3, <2>4 DEF ReadSessions, FullJobs, TypeOK
<1>5. ASSUME ReadSpecs PROVE IndexInv'
  <2>1. /\ snap' \in [task : [Tasks -> Facts \cup {None}], flow : Versions \cup {None},
                      sess : SessionRows \cup {None}, specs : Versions \cup {None},
                      git : Versions \cup {None}]
        /\ snap'.flow = snap.flow
    BY <1>5 DEF ReadSpecs, TypeOK, Disks
  <2>2. ReadInv' BY <1>5, <2>1 DEF ReadSpecs, ReadInv
  <2> QED BY <1>1, <1>5, <2>1, <2>2 DEF ReadSpecs, FullJobs, TypeOK
<1> QED BY <1>2, <1>3, <1>4, <1>5

\* The rows a full scan makes of the old ones.
LEMMA SnapshotRowsType ==
    ASSUME IndexInv, job = "commit"
    PROVE  /\ TasksHash \in Snapshots
           /\ SnapshotRows \in [Tasks -> TaskRows \cup {None}]
           /\ \A t \in Tasks :
                 IF SnapshotRows[t] = None THEN snap.task[t] = None
                 ELSE /\ snap.task[t] = SnapshotRows[t].fact
                      /\ SnapshotRows[t].ihash # NoHash
                            => SnapshotRows[t].ihash = SnapshotRows[t].fact
           /\ hash.tasks = TasksHash => SnapshotRows = rows /\ flowRow = snap.flow
<1> USE DEF IndexInv
<1>1. TasksHash \in Snapshots BY DEF TypeOK, ReadInv, TasksHash, Snapshots
<1>2. None \notin TaskRows /\ None \notin Facts OBVIOUS
<1>3. CASE hash.tasks = TasksHash
  <2>1. SnapshotRows = rows BY <1>3 DEF SnapshotRows, TypeOK
  <2>2. hash.tasks \notin {NoHash, Incremental} BY <1>1, <1>3
  <2>3. hash.tasks.flow = snap.flow /\ hash.tasks.task = snap.task BY <1>3 DEF TasksHash
  <2> QED BY <1>1, <2>1, <2>2, <2>3 DEF TasksHashInv, RowHashInv, Present, TypeOK
<1>4. CASE hash.tasks # TasksHash
  <2>1. ASSUME NEW t \in Tasks
        PROVE  /\ SnapshotRows[t] \in TaskRows \cup {None}
               /\ IF SnapshotRows[t] = None THEN snap.task[t] = None
                  ELSE /\ snap.task[t] = SnapshotRows[t].fact
                       /\ SnapshotRows[t].ihash # NoHash
                             => SnapshotRows[t].ihash = SnapshotRows[t].fact
    <3>1. CASE snap.task[t] = None BY <1>4, <3>1 DEF SnapshotRows
    <3>2. CASE snap.task[t] # None /\ rows[t] # None /\ rows[t].ihash = snap.task[t]
      <4>1. SnapshotRows[t] = rows[t] BY <1>4, <3>2 DEF SnapshotRows
      <4>2. snap.task[t] \in Facts BY <3>2 DEF TypeOK
      <4>3. rows[t].ihash # NoHash BY <3>2, <4>2
      <4>4. rows[t].fact = snap.task[t] BY <3>2, <4>3 DEF RowHashInv, Present
      <4> QED BY <3>2, <4>1, <4>4 DEF TypeOK
    <3>3. CASE snap.task[t] # None /\ ~(rows[t] # None /\ rows[t].ihash = snap.task[t])
      <4>1. SnapshotRows[t] = NewRow(t, snap.task[t], snap.sess)
        BY <1>4, <3>3 DEF SnapshotRows
      <4>2. snap.task[t] \in Facts /\ snap.sess \in SessionRows \cup {None}
        BY <3>3 DEF TypeOK
      <4>3. /\ SnapshotRows[t] \in TaskRows
            /\ SnapshotRows[t].fact = snap.task[t] /\ SnapshotRows[t].ihash = snap.task[t]
        BY <4>1, <4>2, NewRowType
      <4> QED BY <1>2, <4>3
    <3> QED BY <3>1, <3>2, <3>3
  <2> QED BY <1>1, <1>4, <2>1 DEF SnapshotRows
<1> QED BY <1>3, <1>4

\* What the transaction of a full scan makes of the cache.
LEMMA Committed ==
    ASSUME IndexInv, Commit
    PROVE  /\ rows' \in [Tasks -> TaskRows \cup {None}]
           /\ \A t \in Tasks :
                 /\ rows'[t] = None <=> SnapshotRows[t] = None
                 /\ SnapshotRows[t] # None =>
                       /\ rows'[t].fact = SnapshotRows[t].fact
                       /\ rows'[t].ihash = SnapshotRows[t].ihash
           /\ hash.sessions = snap.sess => rows' = SnapshotRows
           /\ flowRow' = snap.flow
           /\ sessRow' = snap.sess
<1> USE DEF IndexInv
<1> DEFINE sources == [t \in Tasks |-> IF snap.task[t] = None THEN None ELSE snap.task[t].src]
<1>0. job = "commit" BY DEF Commit
<1>1. SnapshotRows \in [Tasks -> TaskRows \cup {None}] BY <1>0, SnapshotRowsType
<1>2. snap.sess \in SessionRows \cup {None} BY DEF TypeOK
<1>3. sources \in [Tasks -> Versions \cup {None}] BY DEF TypeOK, Facts
<1>4. rows' = IF hash.sessions # snap.sess
              THEN Reconciled(SnapshotRows, snap.sess, sources) ELSE SnapshotRows
  BY DEF Commit
<1>5. flowRow' = snap.flow
  BY <1>0, SnapshotRowsType DEF Commit
<1>6. sessRow' = snap.sess
  <2>1. sessRow' = IF hash.sessions # snap.sess THEN snap.sess ELSE sessRow BY DEF Commit
  <2>2. snap.sess # NoHash BY <1>2
  <2> QED BY <2>1, <2>2 DEF SessionHashInv
<1> HIDE DEF sources
<1>7. /\ Reconciled(SnapshotRows, snap.sess, sources) \in [Tasks -> TaskRows \cup {None}]
      /\ \A t \in Tasks :
            /\ Reconciled(SnapshotRows, snap.sess, sources)[t] = None
                  <=> SnapshotRows[t] = None
            /\ SnapshotRows[t] # None =>
                  /\ Reconciled(SnapshotRows, snap.sess, sources)[t].fact
                        = SnapshotRows[t].fact
                  /\ Reconciled(SnapshotRows, snap.sess, sources)[t].ihash
                        = SnapshotRows[t].ihash
  BY <1>1, <1>2, <1>3, ReconciledKeeps
<1> QED BY <1>1, <1>4, <1>5, <1>6, <1>7

LEMMA CommitIndexInv == IndexInv /\ Commit => IndexInv'
<1> SUFFICES ASSUME IndexInv, Commit PROVE IndexInv'
  OBVIOUS
<1> USE DEF IndexInv
<1>0. job = "commit" BY DEF Commit
<1>1. /\ TasksHash \in Snapshots
      /\ \A t \in Tasks :
            IF SnapshotRows[t] = None THEN snap.task[t] = None
            ELSE /\ snap.task[t] = SnapshotRows[t].fact
                 /\ SnapshotRows[t].ihash # NoHash
                       => SnapshotRows[t].ihash = SnapshotRows[t].fact
  BY <1>0, SnapshotRowsType
<1>2. /\ rows' \in [Tasks -> TaskRows \cup {None}]
      /\ \A t \in Tasks :
            /\ rows'[t] = None <=> SnapshotRows[t] = None
            /\ SnapshotRows[t] # None =>
                  /\ rows'[t].fact = SnapshotRows[t].fact
                  /\ rows'[t].ihash = SnapshotRows[t].ihash
      /\ flowRow' = snap.flow /\ sessRow' = snap.sess
  BY Committed
<1>3. hash' = [tasks |-> TasksHash, sessions |-> snap.sess] BY DEF Commit
<1>4. TypeOK'
  <2>1. rev' \in [Resources -> Nat] BY DEF Commit, Bump, TypeOK
  <2>2. NoSnap \in [task : [Tasks -> Facts \cup {None}], flow : Versions \cup {None},
                    sess : SessionRows \cup {None}, specs : Versions \cup {None},
                    git : Versions \cup {None}]
    BY DEF NoSnap
  <2>3. snap' = NoSnap /\ specsRow' = snap.specs /\ failed' = FALSE /\ job' \in {"idle", "git"}
    BY DEF Commit
  <2>4. UNCHANGED <<disk, edits, faults, pending, gitRow, left, pushed>> BY DEF Commit
  <2>5. hash' \in [tasks : Snapshots \cup {NoHash, Incremental},
                   sessions : SessionRows \cup {None, NoHash}]
    BY <1>1, <1>3 DEF TypeOK
  <2>6. flowRow' \in Versions \cup {None} /\ sessRow' \in SessionRows \cup {None}
        /\ specsRow' \in Versions \cup {None}
    BY <1>2, <2>3 DEF TypeOK
  <2> QED BY <1>2, <2>1, <2>2, <2>3, <2>4, <2>5, <2>6 DEF TypeOK
<1>5. ReadInv' BY DEF Commit, ReadInv
<1>6. TasksHashInv'
  <2>1. hash'.tasks.flow = snap.flow /\ hash'.tasks.task = snap.task
    BY <1>3 DEF TasksHash
  <2> QED BY <1>1, <1>2, <2>1 DEF TasksHashInv
<1>7. RowHashInv' BY <1>1, <1>2 DEF RowHashInv, Present
<1>8. SessionHashInv' BY <1>2, <1>3 DEF SessionHashInv
<1> QED BY <1>4, <1>5, <1>6, <1>7, <1>8

\* The steps of an incremental scan.
LEMMA IncrementalIndexInv == IndexInv /\ IncrementalStep => IndexInv'
<1> SUFFICES ASSUME IndexInv, IncrementalStep PROVE IndexInv'
  OBVIOUS
<1> USE DEF IndexInv
<1>0. None \notin TaskRows /\ None \notin Facts OBVIOUS
\* Every step writes or leaves the revisions and the index error, and takes
\* its part off the list.
<1>1. ASSUME NEW part, Did(part), rev' \in [Resources -> Nat], failed' \in BOOLEAN,
             rows' \in [Tasks -> TaskRows \cup {None}],
             flowRow' \in Versions \cup {None}, sessRow' \in SessionRows \cup {None},
             specsRow' \in Versions \cup {None}, gitRow' = gitRow,
             hash' \in [tasks : Snapshots \cup {NoHash, Incremental},
                        sessions : SessionRows \cup {None, NoHash}]
      PROVE  TypeOK'
  BY <1>1 DEF Did, TypeOK
<1>2. rev \in [Resources -> Nat] /\ failed \in BOOLEAN BY DEF TypeOK
<1>3. ASSUME NEW part, Did(part), job = "incremental",
             \A t \in Tasks \ {part} : rows[t] # None => rows'[t] # None
      PROVE  ReadInv'
  BY <1>3 DEF Did, ReadInv, Present
<1>4. ASSUME NEW t \in Tasks, ScanTask(t) PROVE IndexInv'
  <2> DEFINE f == FactOnDisk(t)
             row == IF f = None THEN None ELSE RescannedRow(t, f)
  <2>1. f \in Facts \cup {None} BY FactType DEF TypeOK
  <2>2. t \in Present /\ rows[t] \in TaskRows
    BY <1>4 DEF ScanTask, ReadInv, TypeOK, Present
  <2>3. row \in TaskRows \cup {None} /\ (row # None => row.fact = f /\ row.ihash = f)
    BY <2>1, <2>2, <1>0 DEF RescannedRow, TaskRows, Facts, Phases
  <2>4. Did(t) /\ UNCHANGED <<flowRow, sessRow, specsRow, gitRow>> BY <1>4 DEF ScanTask
  <2>5. CASE NothingWritten /\ UNCHANGED <<rows, hash>>
    <3>1. TypeOK' BY <1>1, <1>2, <2>4, <2>5 DEF NothingWritten, TypeOK
    <3>2. ReadInv' BY <1>3, <1>4, <2>4, <2>5 DEF ScanTask
    <3> QED BY <2>4, <2>5, <3>1, <3>2 DEF TasksHashInv, RowHashInv, SessionHashInv, Present
  <2>6. CASE /\ rows' = [rows EXCEPT ![t] = row]
             /\ hash' = [hash EXCEPT !.tasks = Incremental]
             /\ Wrote("tasks")
    <3> HIDE DEF row
    <3>1. rows' \in [Tasks -> TaskRows \cup {None}] BY <2>3, <2>6 DEF TypeOK
    <3>2. rev' \in [Resources -> Nat] /\ failed' \in BOOLEAN
      BY <1>2, <2>6, WroteType
    <3>3. hash' \in [tasks : Snapshots \cup {NoHash, Incremental},
                     sessions : SessionRows \cup {None, NoHash}]
      BY <2>6 DEF TypeOK
    <3>4. TypeOK' BY <1>1, <2>4, <3>1, <3>2, <3>3 DEF TypeOK
    <3>5. \A u \in Tasks \ {t} : rows'[u] = rows[u] BY <2>6 DEF TypeOK
    <3>6. ReadInv' BY <1>3, <1>4, <2>4, <3>5 DEF ScanTask
    <3>7. TasksHashInv' BY <2>6, <3>3 DEF TasksHashInv, TypeOK
    <3>8. RowHashInv'
      <4>1. rows'[t] = row BY <2>6 DEF TypeOK
      <4> QED BY <2>3, <3>5, <4>1 DEF RowHashInv, Present
    <3>9. SessionHashInv' BY <2>4, <2>6 DEF SessionHashInv, TypeOK
    <3> QED BY <3>4, <3>6, <3>7, <3>8, <3>9
  <2> QED BY <1>4, <2>5, <2>6 DEF ScanTask
<1>5. ASSUME ScanWorkflowStates PROVE IndexInv'
  <2>1. Did("flow") /\ UNCHANGED <<rows, sessRow, specsRow, gitRow>> /\ job = "incremental"
    BY <1>5 DEF ScanWorkflowStates
  <2>2. disk.flow \in Versions BY DEF TypeOK, Disks
  <2>3. ReadInv' BY <1>3, <2>1
  <2>4. CASE NothingWritten /\ UNCHANGED <<flowRow, hash>>
    <3>1. TypeOK' BY <1>1, <1>2, <2>1, <2>4 DEF NothingWritten, TypeOK
    <3> QED BY <2>1, <2>3, <2>4, <3>1 DEF TasksHashInv, RowHashInv, SessionHashInv, Present
  <2>5. CASE /\ flowRow' = disk.flow /\ hash' = [hash EXCEPT !.tasks = Incremental]
             /\ Wrote("tasks")
    <3>1. rev' \in [Resources -> Nat] /\ failed' \in BOOLEAN
      BY <1>2, <2>5, WroteType
    <3>2. hash' \in [tasks : Snapshots \cup {NoHash, Incremental},
                     sessions : SessionRows \cup {None, NoHash}]
      BY <2>5 DEF TypeOK
    <3>3. TypeOK' BY <1>1, <2>1, <2>2, <2>5, <3>1, <3>2 DEF TypeOK
    <3>4. TasksHashInv' /\ SessionHashInv'
      BY <2>1, <2>5 DEF TasksHashInv, SessionHashInv, TypeOK
    <3> QED BY <2>1, <2>3, <3>3, <3>4 DEF RowHashInv, Present
  <2> QED BY <1>5, <2>4, <2>5 DEF ScanWorkflowStates
<1>6. ASSUME ScanSessions PROVE IndexInv'
  <2> DEFINE s == SessionOnDisk(Present)
             source == [t \in Tasks |-> IF rows[t] = None THEN None ELSE rows[t].fact.src]
             new == Reconciled(rows, s, source)
  <2>1. s \in SessionRows \cup {None} BY SessionType DEF TypeOK, Present
  <2>2. source \in [Tasks -> Versions \cup {None}] BY DEF TypeOK, TaskRows, Facts
  <2>3. /\ new \in [Tasks -> TaskRows \cup {None}]
        /\ \A t \in Tasks : /\ new[t] = None <=> rows[t] = None
                            /\ rows[t] # None => /\ new[t].fact = rows[t].fact
                                                 /\ new[t].ihash = rows[t].ihash
    <3> HIDE DEF s, source
    <3> QED BY <2>1, <2>2, ReconciledKeeps DEF TypeOK
  <2>4. Did("sess") /\ UNCHANGED <<flowRow, specsRow, gitRow>> /\ job = "incremental"
    BY <1>6 DEF ScanSessions
  <2>5. CASE NothingWritten /\ UNCHANGED <<rows, sessRow, hash>>
    <3>1. TypeOK' BY <1>1, <1>2, <2>4, <2>5 DEF NothingWritten, TypeOK
    <3>2. ReadInv' BY <1>3, <2>4, <2>5
    <3> QED BY <2>4, <2>5, <3>1, <3>2 DEF TasksHashInv, RowHashInv, SessionHashInv, Present
  <2>6. CASE /\ hash' = [hash EXCEPT !.sessions = s]
             /\ rows' = new /\ sessRow' = s
             /\ NothingWritten \/ Wrote("sessions")
    <3> HIDE DEF s, new
    <3>1. rev' \in [Resources -> Nat] /\ failed' \in BOOLEAN
      BY <1>2, <2>6, WroteType
    <3>2. /\ hash' \in [tasks : Snapshots \cup {NoHash, Incremental},
                        sessions : SessionRows \cup {None, NoHash}]
          /\ hash'.tasks = hash.tasks /\ hash'.sessions = s
      BY <2>1, <2>6 DEF TypeOK
    <3>3. TypeOK' BY <1>1, <2>1, <2>3, <2>4, <2>6, <3>1, <3>2 DEF TypeOK
    <3>4. ReadInv' BY <1>3, <2>3, <2>4, <2>6
    <3>5. TasksHashInv' BY <2>3, <2>4, <2>6, <3>2 DEF TasksHashInv
    <3>6. RowHashInv' BY <2>3, <2>6 DEF RowHashInv, Present
    <3>7. SessionHashInv' BY <2>6, <3>2 DEF SessionHashInv
    <3> QED BY <3>3, <3>4, <3>5, <3>6, <3>7
  <2> QED BY <1>6, <2>5, <2>6 DEF ScanSessions
<1>7. ASSUME ScanSpecsHash PROVE IndexInv'
  <2>1. /\ Did("specs") /\ UNCHANGED <<rows, flowRow, sessRow, gitRow, hash>>
        /\ job = "incremental"
    BY <1>7 DEF ScanSpecsHash
  <2>2. rev' \in [Resources -> Nat] /\ failed' \in BOOLEAN
    <3>1. CASE NothingWritten BY <1>2, <3>1 DEF NothingWritten
    <3>2. CASE failed' = FALSE /\ Bump({"specs"}) BY <1>2, <3>2, BumpType
    <3> QED BY <1>7, <3>1, <3>2 DEF ScanSpecsHash
  <2>3. specsRow' \in Versions \cup {None} BY <1>7 DEF ScanSpecsHash, TypeOK, Disks
  <2>4. TypeOK' BY <1>1, <2>1, <2>2, <2>3 DEF TypeOK
  <2>5. ReadInv' BY <1>3, <2>1
  <2> QED BY <2>1, <2>4, <2>5 DEF TasksHashInv, RowHashInv, SessionHashInv, Present
<1> QED BY <1>4, <1>5, <1>6, <1>7 DEF IncrementalStep

\* The worker between jobs, Git and faults.
LEMMA WorkIndexInv == IndexInv /\ (TakeChanges \/ RescanTimer \/ GitStep \/ Fault) => IndexInv'
<1> SUFFICES ASSUME IndexInv, TakeChanges \/ RescanTimer \/ GitStep \/ Fault PROVE IndexInv'
  OBVIOUS
<1> USE DEF IndexInv
<1> DEFINE Snaps == [task : [Tasks -> Facts \cup {None}], flow : Versions \cup {None},
                     sess : SessionRows \cup {None}, specs : Versions \cup {None},
                     git : Versions \cup {None}]
           Jobs == FullJobs \cup GitJobs \cup {"idle", "incremental", "git"}
<1>0. NoSnap \in Snaps /\ snap \in Snaps BY DEF NoSnap, TypeOK
<1>1. ASSUME UNCHANGED <<disk, edits, rows, flowRow, sessRow, specsRow, gitRow, hash, pushed>>,
             faults' \in 0 .. MaxFaults, pending' \subseteq pending,
             rev' \in [Resources -> Nat], failed' \in BOOLEAN,
             job' \in Jobs, left' \subseteq Tasks \cup Parts, snap' \in Snaps, ReadInv'
      PROVE  IndexInv'
  BY <1>1 DEF TypeOK, TasksHashInv, RowHashInv, SessionHashInv, Present
<1>2. /\ rev \in [Resources -> Nat] /\ failed \in BOOLEAN /\ faults \in 0 .. MaxFaults
      /\ left \subseteq Tasks \cup Parts /\ pending \subseteq Tasks \cup Parts
  BY DEF TypeOK
<1> HIDE DEF Snaps
<1>3. CASE TakeChanges
  <2>1. ReadInv' BY <1>3 DEF TakeChanges, BeginFull, ReadInv, Present, cacheVars
  <2> QED BY <1>0, <1>1, <1>2, <1>3, <2>1 DEF TakeChanges, BeginFull, cacheVars, FullJobs
<1>4. CASE RescanTimer
  <2>1. ReadInv' BY <1>4 DEF RescanTimer, BeginFull, ReadInv
  <2> QED BY <1>0, <1>1, <1>2, <1>4, <2>1 DEF RescanTimer, BeginFull, cacheVars, FullJobs
<1>5. CASE RefreshGit
  <2>1. ReadInv' BY <1>5 DEF RefreshGit, ReadInv
  <2>2. snap' \in Snaps BY <1>0, <1>5 DEF RefreshGit, Snaps, TypeOK, Disks
  <2> QED BY <1>1, <1>2, <1>5, <2>1, <2>2 DEF RefreshGit, cacheVars, GitJobs
<1>6. CASE StoreGit
  <2>1. ReadInv' BY <1>6 DEF StoreGit, ReadInv
  <2>2. /\ gitRow' \in Versions \cup {None} /\ rev' \in [Resources -> Nat]
        /\ UNCHANGED <<disk, edits, faults, pending, left, pushed>>
        /\ UNCHANGED <<rows, flowRow, sessRow, specsRow, hash, failed>>
        /\ snap' = NoSnap /\ job' \in Jobs
    BY <1>6 DEF StoreGit, StoreSnapshot, Bump, TypeOK, GitJobs
  <2>3. TypeOK' BY <1>0, <2>2 DEF TypeOK, Snaps
  <2> QED BY <2>1, <2>2, <2>3 DEF TasksHashInv, RowHashInv, SessionHashInv, Present
<1>7. CASE Revalidate
  <2>1. ReadInv' BY <1>7 DEF Revalidate, ReadInv
  <2>2. CASE NothingWritten /\ UNCHANGED <<rows, hash>>
    BY <1>0, <1>1, <1>2, <1>7, <2>1, <2>2 DEF Revalidate, NothingWritten
  <2>3. CASE /\ rows' = [t \in Tasks |->
                           IF t \in Outdated
                           THEN [rows[t] EXCEPT !.fact.valid = disk.ref, !.ihash = NoHash]
                           ELSE rows[t]]
             /\ hash' = [hash EXCEPT !.tasks = Incremental]
             /\ Wrote("tasks")
    <3>1. disk.ref \in BOOLEAN BY DEF TypeOK, Disks
    <3>2. ASSUME NEW t \in Outdated
          PROVE  rows'[t] \in TaskRows /\ rows'[t].ihash = NoHash
      <4>1. rows[t] \in TaskRows BY DEF Outdated, Present, TypeOK
      <4>2. rows'[t] = [rows[t] EXCEPT !.fact.valid = disk.ref, !.ihash = NoHash]
        BY <2>3 DEF Outdated, Present
      <4>3. [rows[t].fact EXCEPT !.valid = disk.ref] \in Facts
        BY <3>1, <4>1 DEF TaskRows, Facts
      <4>4. rows'[t] = [[rows[t] EXCEPT !.fact = [rows[t].fact EXCEPT !.valid = disk.ref]]
                          EXCEPT !.ihash = NoHash]
        BY <4>1, <4>2 DEF TaskRows
      <4> QED BY <4>1, <4>3, <4>4 DEF TaskRows
    <3>3. \A t \in Tasks \ Outdated : rows'[t] = rows[t] BY <2>3
    <3>4. rows' \in [Tasks -> TaskRows \cup {None}] BY <2>3, <3>2, <3>3 DEF TypeOK
    <3>5. /\ hash' \in [tasks : Snapshots \cup {NoHash, Incremental},
                        sessions : SessionRows \cup {None, NoHash}]
          /\ hash'.tasks = Incremental /\ hash'.sessions = hash.sessions
      BY <2>3 DEF TypeOK
    <3>6. rev' \in [Resources -> Nat] /\ failed' \in BOOLEAN
      BY <1>2, <2>3, WroteType
    <3>7. /\ UNCHANGED <<disk, edits, faults, pending, flowRow, sessRow, specsRow, gitRow,
                         left, snap, pushed>>
          /\ job' \in Jobs
      BY <1>7 DEF Revalidate
    <3>8. TypeOK' BY <3>4, <3>5, <3>6, <3>7 DEF TypeOK
    <3>9. TasksHashInv' /\ SessionHashInv'
      BY <3>5, <3>7 DEF TasksHashInv, SessionHashInv
    <3>10. RowHashInv' BY <3>2, <3>3 DEF RowHashInv, Present
    <3> QED BY <2>1, <3>8, <3>9, <3>10
  <2> QED BY <1>7, <2>2, <2>3 DEF Revalidate
<1>8. CASE ScanFails
  <2>1. ReadInv' BY <1>8 DEF ScanFails, ReadInv
  <2>2. rev' \in [Resources -> Nat] BY <1>2, <1>8 DEF ScanFails, Bump
  <2> QED BY <1>0, <1>1, <1>2, <1>8, <2>1, <2>2 DEF ScanFails
<1>9. CASE ScanLost
  <2>1. ReadInv' BY <1>9 DEF ScanLost, ReadInv
  <2> QED BY <1>0, <1>1, <1>2, <1>9, <2>1 DEF ScanLost, cacheVars
<1>10. CASE IncrementalFails
  <2>1. ReadInv' BY <1>10 DEF IncrementalFails, ReadInv
  <2> QED BY <1>0, <1>1, <1>2, <1>10, <2>1 DEF IncrementalFails, cacheVars
<1>11. CASE GitFails
  <2>1. ReadInv' BY <1>11 DEF GitFails, ReadInv
  <2> QED BY <1>0, <1>1, <1>2, <1>11, <2>1 DEF GitFails, cacheVars
<1> QED BY <1>3, <1>4, <1>5, <1>6, <1>7, <1>8, <1>9, <1>10, <1>11 DEF GitStep, Fault

LEMMA NextIndexInv == IndexInv /\ [Next]_vars => IndexInv'
<1> SUFFICES ASSUME IndexInv, [Next]_vars PROVE IndexInv'
  OBVIOUS
<1>1. CASE Next
  BY <1>1, EnvironmentIndexInv, ReadIndexInv, CommitIndexInv, IncrementalIndexInv, WorkIndexInv
     DEF Next, WorkerStep, FullStep
<1>2. CASE UNCHANGED vars
  BY <1>2 DEF vars, cacheVars, workVars, IndexInv, TypeOK, ReadInv, TasksHashInv, RowHashInv,
              SessionHashInv, Present
<1> QED BY <1>1, <1>2

\* What the next scan finds in the cache is typed, and each hash is that of the
\* rows beside it.
THEOREM IndexInvariant == CacheSpec => []IndexInv
<1>1. IndexingInit => IndexInv BY InitIndexInv DEF IndexingInit
<1>2. IndexInv /\ [IndexingNext]_indexVars => IndexInv'
  <2>1. [IndexingNext]_indexVars => [Next]_vars
    BY DEF IndexingNext, Caching, Scanning, indexVars
  <2> QED BY <2>1, NextIndexInv
<1> QED BY <1>1, <1>2, PTL DEF CacheSpec

\* The hashes that let a scan skip work describe what the cache holds
\* (snapshot.go:66-96, 232-269).
THEOREM HashesDescribe == CacheSpec => []HashesDescribeCache
<1>1. IndexInv => HashesDescribeCache
  BY DEF IndexInv, HashesDescribeCache, TasksHashInv, RowHashInv, SessionHashInv
<1> QED BY <1>1, IndexInvariant, PTL

-----------------------------------------------------------------------------
(* The refinement: every step of the cache publishes what it changes.      *)

\* The parts of a view, one by one.
LEMMA SameViews ==
    /\ rows' = rows => /\ content'.facts = content.facts
                       /\ content'.context = content.context
                       /\ content'.runtime = content.runtime
    /\ content'.flow = flowRow' /\ content.flow = flowRow
    /\ content'.sessions = sessRow' /\ content.sessions = sessRow
    /\ content'.specs = specsRow' /\ content.specs = specsRow
    /\ content'.git = gitRow' /\ content.git = gitRow
    /\ content'.health = failed' /\ content.health = failed
  BY DEF content

LEMMA ViewNames ==
    Views = {"facts", "context", "flow", "runtime", "sessions", "specs", "git", "health"}
  BY DEF Views

\* A bump raises the revisions it names and leaves the others.
LEMMA Bumped ==
    ASSUME rev \in [Resources -> Nat], NEW set, Bump(set)
    PROVE  /\ \A r \in Resources : rev'[r] >= rev[r]
           /\ \A r \in Resources \cap set : rev'[r] > rev[r]
  BY DEF Bump

\* A step that bumps what covers the views it changes is one of the store.
LEMMA Publishes ==
    ASSUME rev \in [Resources -> Nat], NEW set, Bump(set),
           \A v \in Views : \/ content'[v] = content[v]
                           \/ Published!Covers[v] \cap Resources \cap set # {}
    PROVE  Published!Publish
  BY Bumped DEF Published!Publish

\* One that leaves the revisions alone changes no view.
LEMMA NothingPublished ==
    ASSUME rev \in [Resources -> Nat],
           UNCHANGED <<rev, rows, flowRow, sessRow, specsRow, gitRow, failed>>
    PROVE  UNCHANGED <<content, rev>>
  BY DEF content

\* A transaction that bumps the tasks, and clears the index error with them.
LEMMA TasksWritten ==
    ASSUME rev \in [Resources -> Nat], Wrote("tasks"), UNCHANGED <<sessRow, specsRow, gitRow>>
    PROVE  Published!Publish
<1>1. Bump({"tasks", "activity"}) BY DEF Wrote
<1>2. ASSUME NEW v \in Views
      PROVE  \/ content'[v] = content[v]
             \/ Published!Covers[v] \cap Resources \cap {"tasks", "activity"} # {}
  BY SameViews, ViewNames DEF Published!Covers, Resources
<1> HIDE DEF Published!Publish
<1> QED BY <1>1, <1>2, Publishes

\* The snapshot of a push, or of a refresh.
LEMMA GitPublished ==
    ASSUME rev \in [Resources -> Nat], NEW g, StoreSnapshot(g)
    PROVE  [Published!Publish]_<<content, rev>>
<1>1. CASE g = gitRow BY <1>1, NothingPublished DEF StoreSnapshot
<1>2. CASE g # gitRow
  <2>1. Bump({"git", "activity"}) BY <1>2 DEF StoreSnapshot
  <2>2. ASSUME NEW v \in Views
        PROVE  \/ content'[v] = content[v]
               \/ Published!Covers[v] \cap Resources \cap {"git", "activity"} # {}
    BY SameViews, ViewNames DEF Published!Covers, Resources, StoreSnapshot
  <2> QED BY <2>1, <2>2, Publishes
<1> QED BY <1>1, <1>2

\* What reconciling sessions leaves of the tasks.
LEMMA SameFacts ==
    ASSUME NEW old \in [Tasks -> TaskRows \cup {None}], NEW s \in SessionRows \cup {None},
           NEW source \in [Tasks -> Versions \cup {None}],
           rows = old, rows' = Reconciled(old, s, source)
    PROVE  content'.facts = content.facts /\ content'.context = content.context
<1>1. \A t \in Tasks : /\ rows'[t] = None <=> rows[t] = None
                       /\ rows[t] # None => rows'[t].fact = rows[t].fact
  BY ReconciledKeeps
<1>2. /\ [t \in Tasks |-> IF rows'[t] = None THEN None ELSE rows'[t].fact.src]
           = [t \in Tasks |-> IF rows[t] = None THEN None ELSE rows[t].fact.src]
      /\ [t \in Tasks |-> IF rows'[t] = None THEN None ELSE rows'[t].fact.valid]
           = [t \in Tasks |-> IF rows[t] = None THEN None ELSE rows[t].fact.valid]
  BY <1>1
<1> QED BY <1>2 DEF content

LEMMA CommitPublishes == IndexInv /\ Commit => Published!Publish
<1> SUFFICES ASSUME IndexInv, Commit PROVE Published!Publish
  OBVIOUS
<1> DEFINE sources == [t \in Tasks |-> IF snap.task[t] = None THEN None ELSE snap.task[t].src]
           tasksBump == SnapshotRows # rows \/ flowRow' # flowRow
           sessBump == sessRow' # sessRow \/ rows' # SnapshotRows
           specsBump == specsRow # snap.specs
           set == (IF tasksBump THEN {"tasks", "activity"} ELSE {}) \cup
                  (IF sessBump THEN {"sessions", "activity"} ELSE {}) \cup
                  (IF specsBump THEN {"specs"} ELSE {}) \cup
                  (IF failed THEN {"activity"} ELSE {})
<1>1. Bump(set) BY DEF Commit
<1>2. /\ specsRow' = snap.specs /\ gitRow' = gitRow /\ failed' = FALSE
      /\ rows' = IF hash.sessions # snap.sess
                 THEN Reconciled(SnapshotRows, snap.sess, sources) ELSE SnapshotRows
  BY DEF Commit
<1>3. /\ SnapshotRows \in [Tasks -> TaskRows \cup {None}]
      /\ snap.sess \in SessionRows \cup {None} /\ rev \in [Resources -> Nat]
      /\ failed \in BOOLEAN
  BY SnapshotRowsType DEF Commit, IndexInv, TypeOK
<1>4. sources \in [Tasks -> Versions \cup {None}] BY DEF IndexInv, TypeOK, Facts
<1>5. \/ tasksBump
      \/ /\ content'.facts = content.facts /\ content'.context = content.context
         /\ content'.flow = content.flow
  <2> DEFINE same == content'.facts = content.facts /\ content'.context = content.context
  <2> SUFFICES ASSUME ~tasksBump PROVE same
    BY SameViews
  <2>1. rows = SnapshotRows /\ flowRow' = flowRow OBVIOUS
  <2> HIDE DEF sources
  <2>2. CASE hash.sessions = snap.sess BY <1>2, <2>1, <2>2, SameViews
  <2>3. CASE hash.sessions # snap.sess
    BY <1>2, <1>3, <1>4, <2>1, <2>3, SameFacts
  <2> QED BY <2>2, <2>3
<1>6. /\ tasksBump \/ sessBump \/ content'.runtime = content.runtime
      /\ sessBump \/ content'.sessions = content.sessions
  BY SameViews
<1>7. /\ specsBump \/ content'.specs = content.specs
      /\ content'.git = content.git
      /\ failed \/ content'.health = content.health
  BY <1>2, <1>3, SameViews
<1>8. /\ tasksBump => {"tasks", "activity"} \subseteq set
      /\ sessBump => "sessions" \in set
      /\ specsBump => "specs" \in set
      /\ failed => "activity" \in set
  OBVIOUS
<1> HIDE DEF tasksBump, sessBump, specsBump, set
<1>9. ASSUME NEW v \in Views
      PROVE  content'[v] = content[v] \/ Published!Covers[v] \cap Resources \cap set # {}
  <2>1. CASE v \in {"facts", "context", "flow"}
    BY <1>5, <1>8, <2>1 DEF Published!Covers, Resources
  <2>2. CASE v \in {"runtime", "sessions"}
    BY <1>6, <1>8, <2>2 DEF Published!Covers, Resources
  <2>3. CASE v = "specs" BY <1>7, <1>8, <2>3 DEF Published!Covers, Resources
  <2>4. CASE v = "git" BY <1>7, <2>4
  <2>5. CASE v = "health" BY <1>7, <1>8, <2>5 DEF Published!Covers, Resources
  <2> QED BY <2>1, <2>2, <2>3, <2>4, <2>5, ViewNames
<1> QED BY <1>1, <1>3, <1>9, Publishes

LEMMA IncrementalPublishes ==
    IndexInv /\ IncrementalStep => [Published!Publish]_<<content, rev>>
<1> SUFFICES ASSUME IndexInv, IncrementalStep PROVE [Published!Publish]_<<content, rev>>
  OBVIOUS
<1>0. rev \in [Resources -> Nat] /\ failed \in BOOLEAN BY DEF IndexInv, TypeOK
<1>1. ASSUME NEW t \in Tasks, ScanTask(t) PROVE [Published!Publish]_<<content, rev>>
  BY <1>0, <1>1, NothingPublished, TasksWritten DEF ScanTask, NothingWritten
<1>2. ASSUME ScanWorkflowStates PROVE [Published!Publish]_<<content, rev>>
  BY <1>0, <1>2, NothingPublished, TasksWritten DEF ScanWorkflowStates, NothingWritten
<1>3. ASSUME ScanSessions PROVE [Published!Publish]_<<content, rev>>
  <2> DEFINE s == SessionOnDisk(Present)
             source == [t \in Tasks |-> IF rows[t] = None THEN None ELSE rows[t].fact.src]
             new == Reconciled(rows, s, source)
  <2>1. UNCHANGED <<flowRow, specsRow, gitRow>> BY <1>3 DEF ScanSessions
  <2>2. CASE NothingWritten /\ UNCHANGED <<rows, sessRow>>
    BY <1>0, <2>1, <2>2, NothingPublished DEF NothingWritten
  <2>3. CASE rows' = new /\ Wrote("sessions")
    <3>1. Bump({"sessions", "activity"}) BY <2>3 DEF Wrote
    <3>2. s \in SessionRows \cup {None} BY SessionType DEF IndexInv, TypeOK, Present
    <3>3. source \in [Tasks -> Versions \cup {None}] BY DEF IndexInv, TypeOK, TaskRows, Facts
    <3> HIDE DEF s, source
    <3>4. content'.facts = content.facts /\ content'.context = content.context
      BY <2>1, <2>3, <3>2, <3>3, SameFacts DEF IndexInv, TypeOK
    <3>5. ASSUME NEW v \in Views
          PROVE  \/ content'[v] = content[v]
                 \/ Published!Covers[v] \cap Resources \cap {"sessions", "activity"} # {}
      BY <2>1, <3>4, SameViews, ViewNames DEF Published!Covers, Resources
    <3> QED BY <1>0, <3>1, <3>5, Publishes
  <2> QED BY <1>3, <2>2, <2>3 DEF ScanSessions
<1>4. ASSUME ScanSpecsHash PROVE [Published!Publish]_<<content, rev>>
  <2>1. UNCHANGED <<rows, flowRow, sessRow, gitRow>> BY <1>4 DEF ScanSpecsHash
  <2>2. CASE NothingWritten /\ UNCHANGED specsRow
    BY <1>0, <2>1, <2>2, NothingPublished DEF NothingWritten
  <2>3. CASE Bump({"specs"})
    <3>1. ASSUME NEW v \in Views
          PROVE  content'[v] = content[v] \/ Published!Covers[v] \cap Resources \cap {"specs"} # {}
      BY <2>1, SameViews, ViewNames DEF Published!Covers, Resources
    <3> QED BY <1>0, <2>3, <3>1, Publishes
  <2> QED BY <1>4, <2>2, <2>3 DEF ScanSpecsHash
<1> QED BY <1>1, <1>2, <1>3, <1>4 DEF IncrementalStep

LEMMA NextPublishes == IndexInv /\ [Next]_vars => [Published!Publish]_<<content, rev>>
<1> SUFFICES ASSUME IndexInv, [Next]_vars PROVE [Published!Publish]_<<content, rev>>
  OBVIOUS
<1>0. rev \in [Resources -> Nat] /\ failed \in BOOLEAN BY DEF IndexInv, TypeOK
<1>1. ASSUME UNCHANGED cacheVars PROVE [Published!Publish]_<<content, rev>>
  BY <1>0, <1>1, NothingPublished DEF cacheVars
<1>2. CASE Environment
  <2>1. PushStore \/ UNCHANGED cacheVars
    BY <1>2 DEF Environment, EditTask, EditFlow, EditSession, EditSpecs, EditRef, EditGit, Edit,
                PushBegin
  <2> QED BY <1>0, <1>1, <2>1, GitPublished DEF PushStore
<1>3. CASE WorkerStep
  <2>1. CASE FullStep
    <3>1. Commit \/ UNCHANGED cacheVars
      BY <2>1 DEF FullStep, ReadTask, ReadFlow, ReadSessions, ReadSpecs
    <3> QED BY <1>1, <3>1, CommitPublishes
  <2>2. CASE TakeChanges BY <1>1, <2>2 DEF TakeChanges
  <2>3. CASE RefreshGit BY <1>1, <2>3 DEF RefreshGit
  <2>4. CASE StoreGit BY <1>0, <2>4, GitPublished DEF StoreGit
  <2>5. CASE Revalidate
    BY <1>0, <2>5, NothingPublished, TasksWritten DEF Revalidate, NothingWritten
  <2> QED BY <1>3, <2>1, <2>2, <2>3, <2>4, <2>5, IncrementalPublishes DEF WorkerStep, GitStep
<1>4. CASE RescanTimer BY <1>1, <1>4 DEF RescanTimer
<1>5. CASE Fault
  <2>1. CASE ScanFails
    <3>1. UNCHANGED <<rows, flowRow, sessRow, specsRow, gitRow>> /\ failed' = TRUE
      BY <2>1 DEF ScanFails
    <3>2. CASE failed
      <4>1. Bump({}) /\ failed' = failed BY <1>0, <2>1, <3>1, <3>2 DEF ScanFails
      <4>2. rev' = rev BY <1>0, <4>1 DEF Bump
      <4> QED BY <1>0, <3>1, <4>1, <4>2, NothingPublished
    <3>3. CASE ~failed
      <4>1. Bump({"activity"}) BY <2>1, <3>3 DEF ScanFails
      <4>2. ASSUME NEW v \in Views
            PROVE  \/ content'[v] = content[v]
                   \/ Published!Covers[v] \cap Resources \cap {"activity"} # {}
        BY <3>1, SameViews, ViewNames DEF Published!Covers, Resources
      <4> QED BY <1>0, <4>1, <4>2, Publishes
    <3> QED BY <3>2, <3>3
  <2>2. ScanLost \/ IncrementalFails \/ GitFails => UNCHANGED cacheVars
    BY DEF ScanLost, IncrementalFails, GitFails
  <2> QED BY <1>1, <1>5, <2>1, <2>2 DEF Fault
<1>6. CASE UNCHANGED vars BY <1>1, <1>6 DEF vars
<1> QED BY <1>2, <1>3, <1>4, <1>5, <1>6 DEF Next

\* The cache implements RevisionedStore: no view of a project changes unless a
\* revision that covers it goes up, and no revision goes down
\* (snapshot.go:87-135, store.go:519-529).
THEOREM CacheAnnounces == CacheSpec => ChangesAreAnnounced
<1>1. IndexingInit => Published!Init BY DEF IndexingInit, Init, Published!Init
<1>2. IndexInv /\ [IndexingNext]_indexVars => [Published!Publish]_<<content, rev>>
  <2>1. [IndexingNext]_indexVars => [Next]_vars
    BY DEF IndexingNext, Caching, Scanning, indexVars
  <2> QED BY <2>1, NextPublishes
<1>3. CacheSpec => IndexingInit /\ [][IndexingNext]_indexVars BY DEF CacheSpec
<1> QED BY <1>1, <1>2, <1>3, IndexInvariant, PTL DEF ChangesAreAnnounced, Published!Spec

-----------------------------------------------------------------------------
(* What the scans find: keys, and what incremental scans piece together.   *)

\* The sessions that run a task, by their files.
Mine(d) == {s \in Scans!Sessions : tree.session[s] # None /\ tree.session[s].task = d}

\* Rows are records, keyed by the names of their directories.
IsTable(found) ==
    /\ DOMAIN found \subseteq Scans!Dirs
    /\ found = [d \in DOMAIN found |-> found[d]]
    /\ \A d \in DOMAIN found :
          /\ found[d] = [key |-> found[d].key, status |-> found[d].status,
                         entries |-> found[d].entries, runtime |-> found[d].runtime]
          /\ found[d].key \in {Scans!PlainKey(d), Scans!PathKey(d)}

IsIndex == index = [task |-> index.task, session |-> index.session] /\ IsTable(index.task)

TreeType ==
    /\ tree \in Scans!Trees
    /\ unseen \in [dirs : SUBSET Scans!Dirs, sessions : BOOLEAN, targets : BOOLEAN]

\* Every row has the key that AssignKeys gave it.
KeyInv == TreeType /\ IsIndex /\ KeysAreUnique

\* Entries that were made of these lines, whenever.
EntriesOf(lines, entries) ==
    /\ entries = [i \in DOMAIN lines |-> entries[i]]
    /\ \A i \in DOMAIN lines :
          entries[i] = [target |-> lines[i].target, type |-> lines[i].type,
                        valid |-> entries[i].valid, duplicate |-> entries[i].duplicate]

\* What the rows of the tasks hold of their files, but for the changes that
\* are to be scanned.
RowsInv ==
    /\ \A d \in Scans!Dirs \ unseen.dirs : d \in Scans!Known <=> d \in Scans!Existing
    /\ \A d \in Scans!Known \ unseen.dirs :
          /\ index.task[d].status = tree.task[d].status
          /\ EntriesOf(tree.task[d].lines, index.task[d].entries)
          /\ ~unseen.targets => index.task[d].entries = Scans!ScanManifest(d)

\* The sessions that a scan makes of the files, by the keys of the rows.
Reflects(sessions, found) ==
    /\ DOMAIN sessions = {s \in Scans!Sessions : tree.session[s] # None}
    /\ \A s \in DOMAIN sessions :
          LET d == tree.session[s].task
          IN  /\ sessions[s].file = tree.session[s]
              /\ sessions[s].task = IF d \in Scans!Existing THEN found[d].key ELSE None
              /\ sessions[s].stale = (d # None /\ d \notin Scans!Existing)

HasRuntime(found, sessions) ==
    \A d \in DOMAIN found :
        found[d].runtime = Scans!RuntimeState(sessions, found[d].key,
                                              Scans!DerivePhase(d, found[d].status))

\* Sessions are scanned after the tasks that changed: when no change of a
\* session is left to scan, none of a task is.
SessionsInv ==
    ~unseen.sessions =>
        /\ unseen.dirs = {}
        /\ Reflects(index.session, index.task)
        /\ HasRuntime(index.task, index.session)

ScanInv == KeyInv /\ RowsInv /\ SessionsInv

-----------------------------------------------------------------------------
(* The keys that a full scan gives                                         *)

LEMMA KeysDiffer ==
    ASSUME NEW d \in Scans!Dirs, NEW e \in Scans!Dirs
    PROVE  /\ Scans!PlainKey(d) # Scans!PathKey(e)
           /\ Scans!PathKey(d) = Scans!PathKey(e) => d = e
           /\ Scans!PlainKey(d) = Scans!PlainKey(e) <=> d.name = e.name
           /\ None \notin {Scans!PlainKey(d), Scans!PathKey(d)}
<1>1. d # None /\ d.name \in Names BY ScanAssumption DEF Scans!Dirs
<1> QED BY <1>1, ScanAssumption DEF Scans!Dirs, Scans!PlainKey, Scans!PathKey

\* Of the directories of a name, one comes first.
LEMMA FirstDirectory ==
    ASSUME NEW dirs \in SUBSET Scans!Dirs, dirs # {}
    PROVE  \E d \in dirs : \A e \in dirs : ~Scans!Precedes(e, d)
<1> DEFINE Months == {d.month : d \in dirs}
<1>1. Months \subseteq Nat /\ Months # {} BY ScanAssumption DEF Scans!Dirs
<1> HIDE DEF Months
<1>2. PICK m \in Months : \A n \in Months : ~(<<n, m>> \in OpToRel(<, Nat))
  BY <1>1, NatLessThanWellFounded, WFMin
<1>3. \A n \in Months : ~(n < m) BY <1>1, <1>2 DEF OpToRel
<1> QED BY <1>3 DEF Months, Scans!Precedes

\* The loop of assignUniqueTaskKeys ends with keys for all: the first directory
\* of a name has it as key.
LEMMA KeysGiven ==
    ASSUME NEW dirs \in SUBSET Scans!Dirs
    PROVE  Scans!AssignKeys(dirs) =
               [d \in dirs |-> Scans!GiveKey(Scans!AssignKeys(dirs), dirs, d)]
<1> DEFINE Later(d) == \E e \in dirs : Scans!Precedes(e, d) /\ e.name = d.name
           f == [d \in dirs |-> IF Later(d) THEN Scans!PathKey(d) ELSE Scans!PlainKey(d)]
           Used(d) == {f[e] : e \in {e \in dirs : Scans!Precedes(e, d)}}
<1>1. ASSUME NEW d \in dirs PROVE Later(d) <=> Scans!PlainKey(d) \in Used(d)
  <2>1. ASSUME Scans!PlainKey(d) \in Used(d) PROVE Later(d)
    <3>1. PICK e \in dirs : Scans!Precedes(e, d) /\ f[e] = Scans!PlainKey(d) BY <2>1
    <3>2. f[e] = Scans!PlainKey(e) BY <3>1, KeysDiffer
    <3> QED BY <3>1, <3>2, KeysDiffer
  <2>2. ASSUME Later(d) PROVE Scans!PlainKey(d) \in Used(d)
    <3> DEFINE Same == {e \in dirs : Scans!Precedes(e, d) /\ e.name = d.name}
    <3>1. Same \in SUBSET Scans!Dirs /\ Same # {} BY <2>2
    <3>2. PICK e \in Same : \A other \in Same : ~Scans!Precedes(other, e)
      <4> HIDE DEF Same
      <4> QED BY <3>1, FirstDirectory
    <3>3. ~Later(e)
      <4> SUFFICES ASSUME NEW other \in dirs, Scans!Precedes(other, e), other.name = e.name
                   PROVE  FALSE
        OBVIOUS
      <4>1. Scans!Precedes(other, d)
        BY <3>2, ScanAssumption DEF Scans!Precedes, Scans!Dirs
      <4> QED BY <3>2, <4>1
    <3>4. f[e] = Scans!PlainKey(d) BY <3>2, <3>3, KeysDiffer
    <3> QED BY <3>2, <3>4
  <2> QED BY <2>1, <2>2
<1>2. f = [d \in dirs |-> Scans!GiveKey(f, dirs, d)] BY <1>1 DEF Scans!GiveKey
<1> HIDE DEF f
<1> QED BY <1>2 DEF Scans!AssignKeys

LEMMA KeysUnique ==
    ASSUME NEW dirs \in SUBSET Scans!Dirs
    PROVE  LET keys == Scans!AssignKeys(dirs)
           IN  /\ keys = [d \in dirs |-> keys[d]]
               /\ \A d \in dirs : keys[d] \in {Scans!PlainKey(d), Scans!PathKey(d)}
               /\ \A d, e \in dirs : keys[d] = keys[e] => d = e
               /\ \A d \in dirs : ~Scans!Archived(d) => keys[d] = Scans!PlainKey(d)
<1> DEFINE keys == Scans!AssignKeys(dirs)
           Used(d) == {keys[e] : e \in {e \in dirs : Scans!Precedes(e, d)}}
<1>1. keys = [d \in dirs |-> Scans!GiveKey(keys, dirs, d)] BY KeysGiven
<1> HIDE DEF keys
<1>2. \A d \in dirs : keys[d] = IF Scans!PlainKey(d) \in Used(d) THEN Scans!PathKey(d)
                               ELSE Scans!PlainKey(d)
  BY <1>1 DEF Scans!GiveKey
<1>3. ASSUME NEW d \in dirs, ~Scans!Archived(d) PROVE keys[d] = Scans!PlainKey(d)
  <2>1. Used(d) = {}
    BY <1>3, ScanAssumption DEF Scans!Dirs, Scans!Precedes, Scans!Archived
  <2> QED BY <1>2, <2>1
<1>4. ASSUME NEW d \in dirs, NEW e \in dirs, Scans!Precedes(d, e), keys[d] = keys[e]
      PROVE  FALSE
  <2>1. keys[d] = Scans!PlainKey(d) /\ keys[e] = Scans!PlainKey(e)
    <3>1. d # e BY <1>4, ScanAssumption DEF Scans!Precedes, Scans!Dirs
    <3> QED BY <1>2, <1>4, <3>1, KeysDiffer
  <2>2. Scans!PlainKey(e) \in Used(e) BY <1>4, <2>1
  <2> QED BY <1>2, <2>1, <2>2, KeysDiffer
<1>5. ASSUME NEW d \in dirs, NEW e \in dirs, keys[d] = keys[e] PROVE d = e
  <2>1. ~Scans!Precedes(d, e) /\ ~Scans!Precedes(e, d) BY <1>4, <1>5
  <2>2. d.month = e.month BY <2>1, ScanAssumption DEF Scans!Dirs, Scans!Precedes
  <2>3. d.name = e.name BY <1>2, <1>5, KeysDiffer
  <2> QED BY <2>2, <2>3 DEF Scans!Dirs
<1> QED BY <1>1, <1>2, <1>3, <1>5 DEF keys
-----------------------------------------------------------------------------
(* What a scan makes of entries and sessions                               *)

\* What is left of a record when fields of it are replaced.
LEMMA Duplicates ==
    ASSUME NEW t, NEW y, NEW v, NEW w, NEW e,
           e = [target |-> t, type |-> y, valid |-> v, duplicate |-> w]
    PROVE  Scans!AsDuplicate(e) =
               [target |-> t, type |-> y, valid |-> FALSE, duplicate |-> TRUE]
<1> DEFINE fits == FALSE
           Type == [target : {t}, type : {y}, valid : {v, fits}, duplicate : {w, TRUE}]
           e1 == [e EXCEPT !.valid = fits]
           e2 == [e1 EXCEPT !.duplicate = TRUE]
<1>1. e \in Type OBVIOUS
<1>2. e1 \in Type /\ e1.valid = fits /\ e1.duplicate = w
  <2> HIDE DEF fits
  <2> QED BY <1>1
<1>3. e2 \in Type /\ e2.valid = fits /\ e2.duplicate = TRUE
  <2> HIDE DEF e1, fits
  <2> QED BY <1>2
<1>4. e2 = [target |-> t, type |-> y, valid |-> fits, duplicate |-> TRUE]
  <2> HIDE DEF e2, fits
  <2> QED BY <1>3
<1>5. Scans!AsDuplicate(e) = e2 BY DEF Scans!AsDuplicate
<1> QED BY <1>4, <1>5

LEMMA MarkedEntries ==
    ASSUME NEW lines, NEW entries, EntriesOf(lines, entries)
    PROVE  EntriesOf(lines, Scans!MarkDuplicates(entries))
<1> DEFINE marked == Scans!MarkDuplicates(entries)
<1>1. DOMAIN entries = DOMAIN lines BY DEF EntriesOf
<1>2. marked = [i \in DOMAIN lines |-> marked[i]] BY <1>1 DEF Scans!MarkDuplicates
<1>3. ASSUME NEW i \in DOMAIN lines
      PROVE  marked[i] = [target |-> lines[i].target, type |-> lines[i].type,
                          valid |-> marked[i].valid, duplicate |-> marked[i].duplicate]
  <2>1. entries[i] = [target |-> lines[i].target, type |-> lines[i].type,
                      valid |-> entries[i].valid, duplicate |-> entries[i].duplicate]
    BY DEF EntriesOf
  <2>2. marked[i] \in {entries[i], Scans!AsDuplicate(entries[i])}
    BY <1>1 DEF Scans!MarkDuplicates
  <2> HIDE DEF marked
  <2> QED BY <2>1, <2>2, Duplicates
<1> HIDE DEF marked
<1>4. EntriesOf(lines, marked) BY <1>2, <1>3 DEF EntriesOf
<1> QED BY <1>4 DEF marked

LEMMA ScannedEntries ==
    ASSUME NEW d PROVE EntriesOf(tree.task[d].lines, Scans!ScanManifest(d))
<1> DEFINE lines == tree.task[d].lines
           parsed == [i \in DOMAIN lines |-> Scans!ParseLine(lines[i])]
<1>1. EntriesOf(lines, parsed) BY DEF EntriesOf, Scans!ParseLine
<1> QED BY <1>1, MarkedEntries DEF Scans!ScanManifest

\* Of lines that are well formed, checking what is stored finds what parsing
\* them again would.
LEMMA RevalidatedEntries ==
    ASSUME NEW d, NEW entries, EntriesOf(tree.task[d].lines, entries),
           \A i \in DOMAIN tree.task[d].lines : tree.task[d].lines[i].well = TRUE
    PROVE  Scans!RevalidateEntries(entries) = Scans!ScanManifest(d)
<1> DEFINE lines == tree.task[d].lines
           parsed == [i \in DOMAIN lines |-> Scans!ParseLine(lines[i])]
           checked == [i \in DOMAIN entries |-> Scans!CheckEntry(entries[i])]
<1>1. DOMAIN entries = DOMAIN lines BY DEF EntriesOf
<1>2. ASSUME NEW i \in DOMAIN lines PROVE Scans!CheckEntry(entries[i]) = Scans!ParseLine(lines[i])
  <2> DEFINE t == lines[i].target
             y == lines[i].type
             e == entries[i]
             fits == tree.kind[t] = y
             new == [target |-> t, type |-> y, valid |-> fits, duplicate |-> FALSE]
  <2>1. PICK v, w : e = [target |-> t, type |-> y, valid |-> v, duplicate |-> w]
    BY DEF EntriesOf
  <2>2. fits \in BOOLEAN OBVIOUS
  <2> DEFINE Type == [target : {t}, type : {y}, valid : {v} \cup BOOLEAN, duplicate : {w, FALSE}]
             e1 == [e EXCEPT !.valid = fits]
             e2 == [e1 EXCEPT !.duplicate = FALSE]
  <2>3. Scans!CheckEntry(e) = e2
    <3>1. e.target = t /\ e.type = y BY <2>1
    <3> HIDE DEF e, t, y
    <3> QED BY <3>1 DEF Scans!CheckEntry
  <2>4. (lines[i].well /\ fits) = fits OBVIOUS
  <2>5. Scans!ParseLine(lines[i]) = new BY <2>4 DEF Scans!ParseLine
  <2> HIDE DEF t, y, e, fits
  <2>6. e \in Type BY <2>1
  <2>7. e1 \in Type /\ e1.valid = fits BY <2>2, <2>6
  <2>8. e2 \in Type /\ e2.valid = fits /\ e2.duplicate = FALSE
    <3> HIDE DEF e1
    <3> QED BY <2>7
  <2>9. e2 = new
    <3> HIDE DEF e2
    <3> QED BY <2>8
  <2> HIDE DEF new, e2
  <2> QED BY <2>3, <2>5, <2>9 DEF e
<1>3. checked = parsed BY <1>1, <1>2
<1> QED BY <1>3 DEF Scans!RevalidateEntries, Scans!ScanManifest

LEMMA ReflectedSessions ==
    ASSUME tree \in Scans!Trees, NEW keyAt, NEW found,
           \A d \in Scans!Existing : /\ Scans!RealDirectory(d) \in DOMAIN keyAt
                                     /\ keyAt[Scans!RealDirectory(d)] = found[d].key
    PROVE  Reflects(Scans!ScanSessionFiles(keyAt), found)
BY DEF Reflects, Scans!ScanSessionFiles

\* No key is shared: the sessions attached to a task are those whose files
\* name it.
LEMMA AttachedToTask ==
    ASSUME NEW sessions, NEW found, Reflects(sessions, found), NEW d \in Scans!Existing,
           \A e \in Scans!Existing :
              found[e].key # None /\ (found[e].key = found[d].key => e = d)
    PROVE  Scans!Attached(sessions, found[d].key) = Mine(d)
BY DEF Reflects, Mine, Scans!Attached

LEMMA GreatestNatural ==
    ASSUME NEW n \in Nat, NEW S \in SUBSET (0 .. n), S # {}
    PROVE  \E x \in S : \A y \in S : y <= x
<1> DEFINE T == {n - x : x \in S}
<1>1. T \subseteq Nat /\ T # {} OBVIOUS
<1> HIDE DEF T
<1>2. PICK m \in T : \A k \in T : ~(<<k, m>> \in OpToRel(<, Nat))
  BY <1>1, NatLessThanWellFounded, WFMin
<1>3. \A k \in T : ~(k < m) BY <1>1, <1>2 DEF OpToRel
<1>4. PICK x \in S : m = n - x BY DEF T
<1>5. ASSUME NEW y \in S PROVE y <= x
  <2>1. ~(n - y < n - x) BY <1>3, <1>4 DEF T
  <2> QED BY <2>1
<1> QED BY <1>5

\* One session was seen last.
SeenAfter(S, s) ==
    \A t \in S \ {s} : \/ tree.session[t].seen < tree.session[s].seen
                       \/ tree.session[t].seen = tree.session[s].seen /\ t < s

LEMMA SessionNumbers ==
    ASSUME tree \in Scans!Trees, NEW d, NEW s \in Mine(d)
    PROVE  /\ s \in 1 .. NSessions /\ s \in Nat
           /\ tree.session[s].seen \in 0 .. MaxTime /\ tree.session[s].seen \in Nat
BY ScanAssumption DEF Mine, Scans!Sessions, Scans!Trees, Scans!SessionFiles

LEMMA SeenLast ==
    ASSUME tree \in Scans!Trees, NEW d, Mine(d) # {}
    PROVE  \E s \in Mine(d) : SeenAfter(Mine(d), s)
<1> DEFINE Times == {tree.session[s].seen : s \in Mine(d)}
<1>1. Times \in SUBSET (0 .. MaxTime) /\ Times # {} BY SessionNumbers
<1>2. PICK time \in Times : \A u \in Times : u <= time
  <2> HIDE DEF Times
  <2> QED BY <1>1, GreatestNatural, ScanAssumption
<1> DEFINE Latest == {s \in Mine(d) : tree.session[s].seen = time}
<1>3. Latest \in SUBSET (0 .. NSessions) /\ Latest # {}
  BY <1>2, SessionNumbers, ScanAssumption
<1>4. PICK s \in Latest : \A t \in Latest : t <= s
  <2> HIDE DEF Latest
  <2> QED BY <1>3, GreatestNatural, ScanAssumption
<1>5. ASSUME NEW t \in Mine(d) \ {s}
      PROVE  \/ tree.session[t].seen < tree.session[s].seen
             \/ tree.session[t].seen = tree.session[s].seen /\ t < s
  <2>1. tree.session[t].seen <= tree.session[s].seen BY <1>2, <1>4
  <2>2. tree.session[t].seen = tree.session[s].seen => t <= s BY <1>4
  <2> QED BY <2>1, <2>2, <1>4, SessionNumbers
<1> QED BY <1>4, <1>5 DEF SeenAfter

LEMMA LatestOfTask ==
    ASSUME tree \in Scans!Trees, NEW sessions, NEW found, Reflects(sessions, found), NEW d, NEW key,
           Scans!Attached(sessions, key) = Mine(d)
    PROVE  LET latest == Scans!Latest(sessions, key)
           IN  IF Mine(d) = {} THEN latest = None
               ELSE /\ latest \in Mine(d) /\ SeenAfter(Mine(d), latest)
                    /\ sessions[latest].file = tree.session[latest]
<1>1. CASE Mine(d) = {} BY <1>1 DEF Scans!Latest
<1>2. CASE Mine(d) # {}
  <2>1. \A s \in Mine(d) : sessions[s].file = tree.session[s] BY DEF Mine, Reflects
  <2>2. \A s, t \in Mine(d) : Scans!Newer(sessions, s, t) <=>
            \/ tree.session[t].seen < tree.session[s].seen
            \/ tree.session[t].seen = tree.session[s].seen /\ t < s
    BY <2>1, SessionNumbers DEF Scans!Newer
  <2>3. PICK s \in Mine(d) : \A t \in Mine(d) \ {s} : Scans!Newer(sessions, s, t)
    BY <1>2, <2>2, SeenLast DEF SeenAfter
  <2>4. Scans!Latest(sessions, key) =
            CHOOSE x \in Mine(d) : \A t \in Mine(d) \ {x} : Scans!Newer(sessions, x, t)
    BY <1>2 DEF Scans!Latest
  <2>5. /\ Scans!Latest(sessions, key) \in Mine(d)
        /\ \A t \in Mine(d) \ {Scans!Latest(sessions, key)} :
              Scans!Newer(sessions, Scans!Latest(sessions, key), t)
    BY <2>3, <2>4
  <2> QED BY <1>2, <2>1, <2>2, <2>5 DEF SeenAfter
<1> QED BY <1>1, <1>2

\* What the files say of the runtime state of a task.
LEMMA RuntimeOfTask ==
    ASSUME tree \in Scans!Trees, NEW d, NEW own,
           NEW sessions, NEW found, Reflects(sessions, found), NEW key,
           Scans!Attached(sessions, key) = Mine(d)
    PROVE  Scans!RuntimeState(sessions, key, own) =
               [active |-> Scans!Cardinality(Mine(d)),
                phase |-> IF Mine(d) = {} THEN own
                          ELSE LET run == Scans!PhaseFromRun(
                                              tree.session[Scans!Latest(sessions, key)].run)
                               IN  IF run = None THEN own ELSE run]
<1>1. None \notin Mine(d) BY ScanAssumption DEF Mine
<1> DEFINE latest == Scans!Latest(sessions, key)
<1>2. Mine(d) = {} => latest = None BY LatestOfTask
<1>3. Mine(d) # {} => latest # None /\ sessions[latest].file = tree.session[latest]
  BY <1>1, LatestOfTask
<1> HIDE DEF latest
<1>4. Scans!RuntimeState(sessions, key, own) =
          [active |-> Scans!Cardinality(Mine(d)),
           phase |-> LET run == IF latest = None THEN None
                                ELSE Scans!PhaseFromRun(sessions[latest].file.run)
                     IN  IF run = None THEN own ELSE run]
  BY DEF Scans!RuntimeState, latest
<1>5. CASE Mine(d) = {} BY <1>2, <1>4, <1>5
<1>6. CASE Mine(d) # {} BY <1>3, <1>4, <1>6 DEF latest
<1> QED BY <1>5, <1>6

-----------------------------------------------------------------------------
(* Every step of the scans keeps ScanInv                                   *)

\* What a full scan says of the tree.
IsFull(full) ==
    /\ full = [task |-> full.task, session |-> full.session]
    /\ DOMAIN full.task = Scans!Existing
    /\ IsTable(full.task)
    /\ \A d, e \in Scans!Existing : full.task[d].key = full.task[e].key => d = e
    /\ \A d \in Scans!Existing :
          /\ ~Scans!Archived(d) => full.task[d].key = Scans!PlainKey(d)
          /\ full.task[d].status = tree.task[d].status
          /\ full.task[d].entries = Scans!ScanManifest(d)
    /\ Reflects(full.session, full.task)
    /\ HasRuntime(full.task, full.session)

LEMMA ScanIsFull == ASSUME tree \in Scans!Trees PROVE IsFull(Scans!Scan)
<1> DEFINE keys == Scans!AssignKeys(Scans!Existing)
           keyAt == [p \in {Scans!RealDirectory(d) : d \in Scans!Existing} |-> keys[p[2]]]
           sessions == Scans!ScanSessionFiles(keyAt)
           found == [d \in Scans!Existing |->
                        [key |-> keys[d], status |-> tree.task[d].status,
                         entries |-> Scans!ScanManifest(d),
                         runtime |-> Scans!RuntimeState(sessions, keys[d],
                                         Scans!DerivePhase(d, tree.task[d].status))]]
<1>1. Scans!Scan = [task |-> found, session |-> sessions] BY DEF Scans!Scan
<1>2. Scans!Existing \in SUBSET Scans!Dirs BY DEF Scans!Existing
<1>3. /\ \A d \in Scans!Existing : keys[d] \in {Scans!PlainKey(d), Scans!PathKey(d)}
      /\ \A d, e \in Scans!Existing : keys[d] = keys[e] => d = e
      /\ \A d \in Scans!Existing : ~Scans!Archived(d) => keys[d] = Scans!PlainKey(d)
  BY <1>2, KeysUnique
<1>4. \A d \in Scans!Existing : /\ Scans!RealDirectory(d) \in DOMAIN keyAt
                                /\ keyAt[Scans!RealDirectory(d)] = keys[d]
  BY DEF Scans!RealDirectory
<1> HIDE DEF keyAt, keys
<1>5. \A d \in Scans!Existing : /\ Scans!RealDirectory(d) \in DOMAIN keyAt
                                /\ keyAt[Scans!RealDirectory(d)] = found[d].key
  BY <1>4
<1>6. Reflects(sessions, found)
  <2> HIDE DEF found
  <2> QED BY <1>5, ReflectedSessions
<1> HIDE DEF sessions
<1>7. DOMAIN found = Scans!Existing /\ IsTable(found) BY <1>2, <1>3 DEF IsTable
<1>8. HasRuntime(found, sessions) BY DEF HasRuntime
<1>9. \A d \in Scans!Existing :
         /\ found[d].key = keys[d] /\ found[d].status = tree.task[d].status
         /\ found[d].entries = Scans!ScanManifest(d)
  OBVIOUS
<1> HIDE DEF found
<1> QED BY <1>1, <1>3, <1>6, <1>7, <1>8, <1>9 DEF IsFull

LEMMA FullInv == tree \in Scans!Trees /\ IsFull(index) /\ unseen = Scans!Nothing => ScanInv
<1> SUFFICES ASSUME tree \in Scans!Trees, IsFull(index), unseen = Scans!Nothing
             PROVE  ScanInv
  OBVIOUS
<1>1. unseen \in [dirs : SUBSET Scans!Dirs, sessions : BOOLEAN, targets : BOOLEAN]
  BY DEF Scans!Nothing
<1>2. Scans!Known = Scans!Existing BY DEF IsFull, Scans!Known
<1>3. KeyInv
  BY <1>1, <1>2 DEF KeyInv, TreeType, IsIndex, IsFull, KeysAreUnique, Scans!KeysAreUnique
<1>4. RowsInv BY <1>2, ScannedEntries DEF RowsInv, IsFull
<1>5. SessionsInv BY DEF SessionsInv, IsFull, Scans!Nothing
<1> QED BY <1>3, <1>4, <1>5 DEF ScanInv

LEMMA SameManifest ==
    ASSUME NEW d, tree'.task[d] = tree.task[d], tree'.kind = tree.kind
    PROVE  Scans!ScanManifest(d)' = Scans!ScanManifest(d)
<1> DEFINE lines == tree.task[d].lines
           parsed == [i \in DOMAIN lines |-> Scans!ParseLine(lines[i])]
<1>1. lines' = lines OBVIOUS
<1>2. ASSUME NEW i \in DOMAIN lines PROVE Scans!ParseLine(lines[i])' = Scans!ParseLine(lines[i])
  BY <1>1 DEF Scans!ParseLine
<1>3. parsed' = parsed BY <1>1, <1>2
<1>4. Scans!ScanManifest(d) = Scans!MarkDuplicates(parsed) BY DEF Scans!ScanManifest
<1>5. Scans!ScanManifest(d)' = Scans!MarkDuplicates(parsed') BY DEF Scans!ScanManifest
<1> QED BY <1>3, <1>4, <1>5

LEMMA SameReflection ==
    ASSUME NEW sessions, NEW found, Reflects(sessions, found),
           tree'.session = tree.session, Scans!Existing' = Scans!Existing
    PROVE  Reflects(sessions, found)'
BY DEF Reflects

LEMMA SameFull ==
    ASSUME NEW full, IsFull(full), tree' = tree
    PROVE  IsFull(full)'
<1>1. Scans!Existing' = Scans!Existing BY DEF Scans!Existing
<1>2. \A d : Scans!ScanManifest(d)' = Scans!ScanManifest(d) BY SameManifest
<1>3. Reflects(full.session, full.task)' BY <1>1, SameReflection DEF IsFull
<1> QED BY <1>1, <1>2, <1>3 DEF IsFull, IsTable, HasRuntime

LEMMA FullScanInv == TreeType /\ Scans!FullScan => ScanInv'
<1>1. (tree \in Scans!Trees /\ IsFull(index) /\ unseen = Scans!Nothing => ScanInv)'
  BY FullInv, PTL
<1> SUFFICES ASSUME TreeType, Scans!FullScan PROVE ScanInv'
  OBVIOUS
<1>2. index' = Scans!Scan /\ tree' = tree /\ unseen' = Scans!Nothing BY DEF Scans!FullScan
<1>3. tree \in Scans!Trees BY DEF TreeType
<1>4. IsFull(index)' BY <1>2, <1>3, ScanIsFull, SameFull
<1>5. (tree \in Scans!Trees)' BY <1>2, <1>3 DEF Scans!Trees
<1>6. (unseen = Scans!Nothing)' BY <1>2 DEF Scans!Nothing
<1> QED BY <1>1, <1>4, <1>5, <1>6

\* The user and the agents change the tree.
ChangesTree ==
    \/ \E d \in Scans!Dirs :
          \/ \E task \in [status : Statuses, lines : Manifests] \cup {None} :
                Scans!ChangeTask(d, task)
          \/ \E e \in Scans!Dirs : Scans!MoveTask(d, e)
    \/ \E s \in Scans!Sessions, file \in Scans!SessionFiles \cup {None} :
          Scans!ChangeSession(s, file)
    \/ \E target \in Targets, kind \in Scans!Kinds \cup {None} :
          Scans!ChangeTarget(target, kind)

\* A change reaches the directories that it leaves to scan, the sessions or
\* the targets.
Reaches ==
    /\ TreeType' /\ index' = index
    /\ unseen.dirs \subseteq unseen'.dirs
    /\ \A d \in Scans!Dirs \ unseen'.dirs : tree'.task[d] = tree.task[d]
    /\ ~unseen'.sessions => /\ ~unseen.sessions /\ unseen'.dirs = unseen.dirs
                            /\ tree'.session = tree.session /\ tree'.task = tree.task
    /\ ~unseen'.targets => ~unseen.targets /\ tree'.kind = tree.kind

LEMMA ChangedTree == ASSUME TreeType, ChangesTree PROVE Reaches
<1>1. /\ tree \in Scans!Trees
      /\ unseen \in [dirs : SUBSET Scans!Dirs, sessions : BOOLEAN, targets : BOOLEAN]
  BY DEF TreeType
<1>2. ASSUME NEW d \in Scans!Dirs, NEW task \in [status : Statuses, lines : Manifests] \cup {None},
             Scans!ChangeTask(d, task)
      PROVE  Reaches
  <2>1. tree' = [tree EXCEPT !.task[d] = task] /\ index' = index
    BY <1>2 DEF Scans!ChangeTask, Scans!Change
  <2>2. unseen' = [dirs |-> unseen.dirs \cup {d}, sessions |-> TRUE, targets |-> unseen.targets]
    BY <1>1, <1>2 DEF Scans!ChangeTask, Scans!Change
  <2>3. /\ tree' \in Scans!Trees /\ tree'.kind = tree.kind
        /\ \A e \in Scans!Dirs \ {d} : tree'.task[e] = tree.task[e]
    BY <1>1, <2>1 DEF Scans!Trees
  <2> QED BY <1>1, <2>1, <2>2, <2>3 DEF TreeType, Reaches
<1>3. ASSUME NEW d \in Scans!Dirs, NEW e \in Scans!Dirs, Scans!MoveTask(d, e) PROVE Reaches
  <2>1. /\ tree' = [tree EXCEPT !.task[d] = None, !.task[e] = tree.task[d]] /\ index' = index
        /\ tree.task[d] # None
    BY <1>3 DEF Scans!MoveTask, Scans!Change
  <2>2. unseen' = [dirs |-> unseen.dirs \cup {d, e}, sessions |-> TRUE,
                   targets |-> unseen.targets]
    BY <1>1, <1>3 DEF Scans!MoveTask, Scans!Change
  <2>3. /\ tree' \in Scans!Trees /\ tree'.kind = tree.kind
        /\ \A other \in Scans!Dirs \ {d, e} : tree'.task[other] = tree.task[other]
    <3> DEFINE emptied == [tree EXCEPT !.task[d] = None]
    <3>1. /\ emptied \in Scans!Trees /\ emptied.kind = tree.kind
          /\ \A other \in Scans!Dirs \ {d} : emptied.task[other] = tree.task[other]
      BY <1>1 DEF Scans!Trees
    <3>2. tree.task[d] \in [status : Statuses, lines : Manifests] BY <1>1, <2>1 DEF Scans!Trees
    <3>3. tree' = [emptied EXCEPT !.task[e] = tree.task[d]] BY <2>1
    <3> HIDE DEF emptied
    <3> QED BY <3>1, <3>2, <3>3 DEF Scans!Trees
  <2> QED BY <1>1, <2>1, <2>2, <2>3 DEF TreeType, Reaches
<1>4. ASSUME NEW s \in Scans!Sessions, NEW file \in Scans!SessionFiles \cup {None},
             Scans!ChangeSession(s, file)
      PROVE  Reaches
  <2>1. tree' = [tree EXCEPT !.session[s] = file] /\ index' = index
    BY <1>4 DEF Scans!ChangeSession, Scans!Change
  <2>2. unseen' = [dirs |-> unseen.dirs, sessions |-> TRUE, targets |-> unseen.targets]
    BY <1>1, <1>4 DEF Scans!ChangeSession, Scans!Change
  <2>3. tree' \in Scans!Trees /\ tree'.kind = tree.kind /\ tree'.task = tree.task
    BY <1>1, <2>1 DEF Scans!Trees
  <2> QED BY <1>1, <2>1, <2>2, <2>3 DEF TreeType, Reaches
<1>5. ASSUME NEW target \in Targets, NEW kind \in Scans!Kinds \cup {None},
             Scans!ChangeTarget(target, kind)
      PROVE  Reaches
  <2>1. tree' = [tree EXCEPT !.kind[target] = kind] /\ index' = index
    BY <1>5 DEF Scans!ChangeTarget, Scans!Change
  <2>2. unseen' = [dirs |-> unseen.dirs, sessions |-> unseen.sessions, targets |-> TRUE]
    BY <1>1, <1>5 DEF Scans!ChangeTarget, Scans!Change
  <2>3. tree' \in Scans!Trees /\ tree'.session = tree.session /\ tree'.task = tree.task
    BY <1>1, <2>1 DEF Scans!Trees
  <2> QED BY <1>1, <2>1, <2>2, <2>3 DEF TreeType, Reaches
<1> QED BY <1>2, <1>3, <1>4, <1>5 DEF ChangesTree

LEMMA ChangesTreeInv == (KeyInv /\ ChangesTree => KeyInv') /\ (ScanInv /\ ChangesTree => ScanInv')
<1>1. ASSUME KeyInv, ChangesTree PROVE KeyInv'
  <2>1. TreeType' /\ index' = index BY <1>1, ChangedTree DEF KeyInv, Reaches
  <2>2. IsIndex' BY <1>1, <2>1 DEF KeyInv, IsIndex, IsTable
  <2>3. KeysAreUnique' BY <1>1, <2>1 DEF KeyInv, KeysAreUnique, Scans!KeysAreUnique, Scans!Known
  <2> QED BY <2>1, <2>2, <2>3 DEF KeyInv
<1>2. ASSUME ScanInv, ChangesTree PROVE ScanInv'
  <2>1. TreeType BY <1>2 DEF ScanInv, KeyInv
  <2>2. /\ index' = index /\ Scans!Known' = Scans!Known
        /\ unseen.dirs \subseteq unseen'.dirs
        /\ \A d \in Scans!Dirs \ unseen'.dirs : tree'.task[d] = tree.task[d]
    BY <1>2, <2>1, ChangedTree DEF Scans!Known, Reaches
  <2>3. Scans!Known \subseteq Scans!Dirs BY <1>2 DEF ScanInv, KeyInv, IsIndex, IsTable, Scans!Known
  <2>4. RowsInv'
    <3>1. \A d \in Scans!Dirs \ unseen'.dirs : d \in Scans!Existing' <=> d \in Scans!Existing
      BY <2>2 DEF Scans!Existing
    <3>2. ASSUME NEW d \in Scans!Known \ unseen'.dirs, ~unseen'.targets
          PROVE  Scans!ScanManifest(d)' = index.task[d].entries
      <4>1. ~unseen.targets /\ tree'.kind = tree.kind BY <1>2, <2>1, <3>2, ChangedTree DEF Reaches
      <4>2. tree'.task[d] = tree.task[d] BY <2>2, <2>3
      <4>3. Scans!ScanManifest(d)' = Scans!ScanManifest(d) BY <4>1, <4>2, SameManifest
      <4> QED BY <1>2, <2>2, <4>1, <4>3 DEF ScanInv, RowsInv
    <3> QED BY <1>2, <2>2, <2>3, <3>1, <3>2 DEF ScanInv, RowsInv
  <2>5. SessionsInv'
    <3> SUFFICES ASSUME ~unseen'.sessions
                 PROVE  /\ unseen'.dirs = {} /\ Reflects(index.session, index.task)'
                        /\ HasRuntime(index.task, index.session)'
      BY DEF SessionsInv
    <3>1. /\ ~unseen.sessions /\ unseen'.dirs = unseen.dirs
          /\ tree'.session = tree.session /\ tree'.task = tree.task
      BY <1>2, <2>1, ChangedTree DEF Reaches
    <3>2. Scans!Existing' = Scans!Existing BY <3>1 DEF Scans!Existing
    <3>3. Reflects(index.session, index.task) BY <1>2, <3>1 DEF ScanInv, SessionsInv
    <3>4. Reflects(index.session, index.task)' BY <2>2, <3>1, <3>2, <3>3 DEF Reflects
    <3> QED BY <1>2, <2>2, <3>1, <3>4 DEF ScanInv, SessionsInv, HasRuntime
  <2> QED BY <1>1, <1>2, <2>4, <2>5 DEF ScanInv
<1> QED BY <1>1, <1>2

\* The index is a record of rows and sessions, which a scan replaces.
LEMMA IndexFields ==
    ASSUME IsIndex, NEW table, index' = [index EXCEPT !.task = table]
    PROVE  /\ index'.task = table /\ index'.session = index.session
           /\ index' = [task |-> index'.task, session |-> index'.session]
<1>1. index \in [task : {index.task, table}, session : {index.session}] BY DEF IsIndex
<1>2. /\ index' \in [task : {index.task, table}, session : {index.session}]
      /\ index'.task = table /\ index'.session = index.session
  BY <1>1
<1> QED BY <1>2

\* A scan of some tasks keeps keys, and the rows of no other task.
Keeps ==
    /\ TreeType' /\ IsIndex' /\ Scans!Known' \subseteq Scans!Known
    /\ \A d \in Scans!Known' : index'.task[d].key = index.task[d].key

LEMMA KeysKept == ASSUME KeyInv, Keeps PROVE KeyInv'
BY DEF KeyInv, Keeps, KeysAreUnique, Scans!KeysAreUnique, Scans!Known, IsIndex

LEMMA ScanTasksKeeps ==
    ASSUME KeyInv, Scans!ScanTasks
    PROVE  /\ Keeps /\ tree' = tree /\ index'.session = index.session
           /\ Scans!Known' = Scans!Known \ (unseen.dirs \ Scans!Existing)
           /\ \A d \in Scans!Known' :
                 index'.task[d] = IF d \in unseen.dirs THEN Scans!RescanTask(d)
                                  ELSE index.task[d]
           /\ unseen' = [dirs |-> {}, sessions |-> unseen.sessions, targets |-> unseen.targets]
<1> DEFINE table == [d \in Scans!Known \ (unseen.dirs \ Scans!Existing) |->
                        IF d \in unseen.dirs THEN Scans!RescanTask(d) ELSE index.task[d]]
<1>1. unseen \in [dirs : SUBSET Scans!Dirs, sessions : BOOLEAN, targets : BOOLEAN]
  BY DEF KeyInv, TreeType
<1>2. unseen' = [dirs |-> {}, sessions |-> unseen.sessions, targets |-> unseen.targets]
  BY <1>1 DEF Scans!ScanTasks
<1>3. tree' = tree BY DEF Scans!ScanTasks
<1>4. TreeType' BY <1>1, <1>2, <1>3 DEF KeyInv, TreeType, Scans!Trees
<1>5. index' = [index EXCEPT !.task = table] BY DEF Scans!ScanTasks
<1> HIDE DEF table
<1>6. /\ index'.task = table /\ index'.session = index.session
      /\ index' = [task |-> index'.task, session |-> index'.session]
  BY <1>5, IndexFields DEF KeyInv
<1>7. /\ DOMAIN table = Scans!Known \ (unseen.dirs \ Scans!Existing)
      /\ table = [d \in DOMAIN table |-> table[d]]
      /\ \A d \in DOMAIN table :
            table[d] = IF d \in unseen.dirs THEN Scans!RescanTask(d) ELSE index.task[d]
  BY DEF table
<1>8. ASSUME NEW d \in DOMAIN table
      PROVE  /\ table[d] = [key |-> table[d].key, status |-> table[d].status,
                            entries |-> table[d].entries, runtime |-> table[d].runtime]
             /\ table[d].key = index.task[d].key
  <2>1. CASE d \in unseen.dirs
    <3>1. table[d] = Scans!RescanTask(d) BY <1>7, <2>1
    <3> QED BY <3>1 DEF Scans!RescanTask
  <2>2. CASE d \notin unseen.dirs
    BY <1>7, <2>2 DEF KeyInv, IsIndex, IsTable, Scans!Known
  <2> QED BY <2>1, <2>2
<1>9. IsTable(table) BY <1>7, <1>8 DEF KeyInv, IsIndex, IsTable, Scans!Known
<1>10. IsIndex' BY <1>6, <1>9 DEF IsIndex, IsTable
<1>11. Scans!Known' = DOMAIN table BY <1>6 DEF Scans!Known
<1> QED BY <1>2, <1>3, <1>4, <1>6, <1>7, <1>8, <1>10, <1>11 DEF Keeps

LEMMA ScanTasksInv == ScanInv /\ Scans!ScanTasks => ScanInv'
<1> SUFFICES ASSUME ScanInv, Scans!ScanTasks PROVE ScanInv'
  OBVIOUS
<1>1. /\ Keeps /\ tree' = tree /\ index'.session = index.session
      /\ Scans!Known' = Scans!Known \ (unseen.dirs \ Scans!Existing)
      /\ \A d \in Scans!Known' :
            index'.task[d] = IF d \in unseen.dirs THEN Scans!RescanTask(d) ELSE index.task[d]
      /\ unseen' = [dirs |-> {}, sessions |-> unseen.sessions, targets |-> unseen.targets]
  BY ScanTasksKeeps DEF ScanInv
<1>2. KeyInv' BY <1>1, KeysKept DEF ScanInv
<1>3. unseen.dirs # {} /\ unseen.dirs \subseteq Scans!Known BY DEF Scans!ScanTasks
<1>4. Scans!Existing' = Scans!Existing BY <1>1 DEF Scans!Existing
<1>5. \A d : Scans!ScanManifest(d)' = Scans!ScanManifest(d) BY <1>1, SameManifest
<1>6. RowsInv'
  <2>1. \A d \in Scans!Dirs : d \in Scans!Known' <=> d \in Scans!Existing
    BY <1>1, <1>3 DEF ScanInv, RowsInv
  <2>2. ASSUME NEW d \in Scans!Known'
        PROVE  /\ index'.task[d].status = tree.task[d].status
               /\ EntriesOf(tree.task[d].lines, index'.task[d].entries)
               /\ ~unseen.targets => index'.task[d].entries = Scans!ScanManifest(d)
    <3>1. CASE d \in unseen.dirs
      <4>1. index'.task[d] = Scans!RescanTask(d) BY <1>1, <3>1
      <4>2. /\ index'.task[d].status = tree.task[d].status
            /\ index'.task[d].entries = Scans!ScanManifest(d)
        BY <4>1 DEF Scans!RescanTask
      <4> QED BY <4>2, ScannedEntries
    <3>2. CASE d \notin unseen.dirs
      BY <1>1, <3>2 DEF ScanInv, RowsInv
    <3> QED BY <3>1, <3>2
  <2> QED BY <1>1, <1>4, <1>5, <2>1, <2>2 DEF RowsInv
<1>7. SessionsInv' BY <1>1, <1>3 DEF ScanInv, SessionsInv
<1> QED BY <1>2, <1>6, <1>7 DEF ScanInv

LEMMA ScanSessionsKeeps ==
    ASSUME KeyInv, Scans!ScanSessions
    PROVE  /\ Keeps /\ tree' = tree /\ Scans!Known' = Scans!Known
           /\ index'.session =
                 Scans!ScanSessionFiles([p \in {Scans!SourceDirectory(d) : d \in Scans!Known} |->
                                            index.task[p[2]].key])
           /\ HasRuntime(index'.task, index'.session)
           /\ \A d \in Scans!Known : /\ index'.task[d].status = index.task[d].status
                                     /\ index'.task[d].entries = index.task[d].entries
           /\ unseen' = [dirs |-> {}, sessions |-> FALSE, targets |-> unseen.targets]
<1> DEFINE keyAt == [p \in {Scans!SourceDirectory(d) : d \in Scans!Known} |->
                        index.task[p[2]].key]
           sessions == Scans!ScanSessionFiles(keyAt)
           Runtime(d) == Scans!RuntimeState(sessions, index.task[d].key,
                                            Scans!DerivePhase(d, index.task[d].status))
           table == [d \in Scans!Known |-> [index.task[d] EXCEPT !.runtime = Runtime(d)]]
<1>1. unseen \in [dirs : SUBSET Scans!Dirs, sessions : BOOLEAN, targets : BOOLEAN]
  BY DEF KeyInv, TreeType
<1>2. unseen' = [dirs |-> {}, sessions |-> FALSE, targets |-> unseen.targets]
  BY <1>1 DEF Scans!ScanSessions
<1>3. tree' = tree BY DEF Scans!ScanSessions
<1>4. TreeType' BY <1>1, <1>2, <1>3 DEF KeyInv, TreeType, Scans!Trees
<1>5. index' = [session |-> sessions, task |-> table] BY DEF Scans!ScanSessions
<1> HIDE DEF sessions
<1>6. ASSUME NEW d \in Scans!Known
      PROVE  table[d] = [key |-> index.task[d].key, status |-> index.task[d].status,
                         entries |-> index.task[d].entries, runtime |-> Runtime(d)]
  <2> DEFINE row == index.task[d]
             x == Runtime(d)
  <2>1. row = [key |-> row.key, status |-> row.status, entries |-> row.entries,
               runtime |-> row.runtime]
    BY DEF KeyInv, IsIndex, IsTable, Scans!Known
  <2>2. table[d] = [row EXCEPT !.runtime = x] OBVIOUS
  <2> HIDE DEF row, x, table
  <2>3. row \in [key : {row.key}, status : {row.status}, entries : {row.entries},
                 runtime : {row.runtime}]
    BY <2>1
  <2>4. [row EXCEPT !.runtime = x] = [key |-> row.key, status |-> row.status,
                                      entries |-> row.entries, runtime |-> x]
    BY <2>3
  <2> QED BY <2>2, <2>4 DEF row, x
<1>7. DOMAIN table = Scans!Known /\ table = [d \in DOMAIN table |-> table[d]] OBVIOUS
<1> HIDE DEF table
<1>8. ASSUME NEW d \in Scans!Known
      PROVE  /\ table[d] = [key |-> table[d].key, status |-> table[d].status,
                            entries |-> table[d].entries, runtime |-> table[d].runtime]
             /\ table[d].key = index.task[d].key /\ table[d].status = index.task[d].status
             /\ table[d].entries = index.task[d].entries /\ table[d].runtime = Runtime(d)
  <2> DEFINE x == Runtime(d)
  <2>1. table[d] = [key |-> index.task[d].key, status |-> index.task[d].status,
                    entries |-> index.task[d].entries, runtime |-> x]
    BY <1>6
  <2> HIDE DEF x
  <2>2. table[d].runtime = x BY <2>1
  <2>3. table[d].runtime = Runtime(d) BY <2>2 DEF x
  <2> QED BY <2>1, <2>2, <2>3
<1>9. IsTable(table) BY <1>7, <1>8 DEF KeyInv, IsIndex, IsTable, Scans!Known
<1>10. index'.task = table /\ index'.session = sessions /\ Scans!Known' = Scans!Known
  BY <1>5, <1>7 DEF Scans!Known
<1>11. IsIndex' BY <1>5, <1>9, <1>10 DEF IsIndex, IsTable
<1>12. HasRuntime(table, sessions) BY <1>7, <1>8 DEF HasRuntime
<1>13. HasRuntime(index'.task, index'.session) BY <1>10, <1>12
<1> QED BY <1>2, <1>3, <1>4, <1>8, <1>10, <1>11, <1>13 DEF Keeps, sessions

\* Where .trellis is not a symbolic link, the directories of the sessions'
\* tasks are found where their source paths are.
LEMMA ScanSessionsInv == Linked = FALSE /\ ScanInv /\ Scans!ScanSessions => ScanInv'
<1> SUFFICES ASSUME Linked = FALSE, ScanInv, Scans!ScanSessions PROVE ScanInv'
  OBVIOUS
<1> DEFINE keyAt == [p \in {Scans!SourceDirectory(d) : d \in Scans!Known} |->
                        index.task[p[2]].key]
<1>1. /\ Keeps /\ tree' = tree /\ Scans!Known' = Scans!Known
      /\ index'.session = Scans!ScanSessionFiles(keyAt)
      /\ HasRuntime(index'.task, index'.session)
      /\ \A d \in Scans!Known : /\ index'.task[d].status = index.task[d].status
                                /\ index'.task[d].entries = index.task[d].entries
      /\ unseen' = [dirs |-> {}, sessions |-> FALSE, targets |-> unseen.targets]
  BY ScanSessionsKeeps DEF ScanInv
<1>2. KeyInv' BY <1>1, KeysKept DEF ScanInv
<1>3. unseen.dirs = {} BY DEF Scans!ScanSessions
<1>4. Scans!Existing' = Scans!Existing BY <1>1 DEF Scans!Existing
<1>5. \A d : Scans!ScanManifest(d)' = Scans!ScanManifest(d) BY <1>1, SameManifest
<1>6. RowsInv' BY <1>1, <1>3, <1>4, <1>5 DEF ScanInv, RowsInv
<1>7. Scans!Existing \subseteq Scans!Known
  BY <1>3 DEF ScanInv, RowsInv, Scans!Existing
<1>8. \A d \in Scans!Existing : /\ Scans!RealDirectory(d) \in DOMAIN keyAt
                                /\ keyAt[Scans!RealDirectory(d)] = index'.task[d].key
  BY <1>1, <1>7 DEF Keeps, Scans!RealDirectory, Scans!SourceDirectory
<1>9. Reflects(index'.session, index'.task)
  <2>1. tree \in Scans!Trees BY DEF ScanInv, KeyInv, TreeType
  <2> HIDE DEF keyAt
  <2> QED BY <1>1, <1>8, <2>1, ReflectedSessions
<1>10. Reflects(index.session, index.task)' BY <1>1, <1>4, <1>9 DEF Reflects
<1>11. SessionsInv' BY <1>1, <1>10 DEF SessionsInv, HasRuntime
<1> QED BY <1>2, <1>6, <1>11 DEF ScanInv

LEMMA RevalidateContextKeeps ==
    ASSUME KeyInv, Scans!RevalidateContext
    PROVE  /\ Keeps /\ tree' = tree /\ Scans!Known' = Scans!Known
           /\ index'.session = index.session
           /\ \A d \in Scans!Known :
                 /\ index'.task[d].status = index.task[d].status
                 /\ index'.task[d].runtime = index.task[d].runtime
                 /\ index'.task[d].entries = Scans!RevalidateEntries(index.task[d].entries)
           /\ unseen' = [dirs |-> unseen.dirs, sessions |-> unseen.sessions, targets |-> FALSE]
<1> DEFINE table == [d \in Scans!Known |->
                        [index.task[d] EXCEPT
                            !.entries = Scans!RevalidateEntries(index.task[d].entries)]]
<1>1. unseen \in [dirs : SUBSET Scans!Dirs, sessions : BOOLEAN, targets : BOOLEAN]
  BY DEF KeyInv, TreeType
<1>2. unseen' = [dirs |-> unseen.dirs, sessions |-> unseen.sessions, targets |-> FALSE]
  BY <1>1 DEF Scans!RevalidateContext
<1>3. tree' = tree BY DEF Scans!RevalidateContext
<1>4. TreeType' BY <1>1, <1>2, <1>3 DEF KeyInv, TreeType, Scans!Trees
<1>5. index' = [index EXCEPT !.task = table] BY DEF Scans!RevalidateContext
<1>6. ASSUME NEW d \in Scans!Known
      PROVE  table[d] = [key |-> index.task[d].key, status |-> index.task[d].status,
                         entries |-> Scans!RevalidateEntries(index.task[d].entries),
                         runtime |-> index.task[d].runtime]
  <2> DEFINE row == index.task[d]
             x == Scans!RevalidateEntries(index.task[d].entries)
  <2>1. row = [key |-> row.key, status |-> row.status, entries |-> row.entries,
               runtime |-> row.runtime]
    BY DEF KeyInv, IsIndex, IsTable, Scans!Known
  <2>2. table[d] = [row EXCEPT !.entries = x] OBVIOUS
  <2> HIDE DEF row, x, table
  <2>3. row \in [key : {row.key}, status : {row.status}, entries : {row.entries},
                 runtime : {row.runtime}]
    BY <2>1
  <2>4. [row EXCEPT !.entries = x] = [key |-> row.key, status |-> row.status,
                                      entries |-> x, runtime |-> row.runtime]
    BY <2>3
  <2> QED BY <2>2, <2>4 DEF row, x
<1>7. DOMAIN table = Scans!Known /\ table = [d \in DOMAIN table |-> table[d]] OBVIOUS
<1> HIDE DEF table
<1>8. /\ index'.task = table /\ index'.session = index.session
      /\ index' = [task |-> index'.task, session |-> index'.session]
  BY <1>5, IndexFields DEF KeyInv
<1>9. ASSUME NEW d \in Scans!Known
      PROVE  /\ table[d] = [key |-> table[d].key, status |-> table[d].status,
                            entries |-> table[d].entries, runtime |-> table[d].runtime]
             /\ table[d].key = index.task[d].key /\ table[d].status = index.task[d].status
             /\ table[d].entries = Scans!RevalidateEntries(index.task[d].entries)
             /\ table[d].runtime = index.task[d].runtime
  <2> DEFINE x == Scans!RevalidateEntries(index.task[d].entries)
  <2>1. table[d] = [key |-> index.task[d].key, status |-> index.task[d].status,
                    entries |-> x, runtime |-> index.task[d].runtime]
    BY <1>6
  <2> HIDE DEF x
  <2>2. table[d].entries = x BY <2>1
  <2>3. table[d].entries = Scans!RevalidateEntries(index.task[d].entries) BY <2>2 DEF x
  <2> QED BY <2>1, <2>2, <2>3
<1>10. IsTable(table) BY <1>7, <1>9 DEF KeyInv, IsIndex, IsTable, Scans!Known
<1>11. Scans!Known' = Scans!Known BY <1>7, <1>8 DEF Scans!Known
<1>12. IsIndex' BY <1>8, <1>10 DEF IsIndex, IsTable
<1> QED BY <1>2, <1>3, <1>4, <1>8, <1>9, <1>11, <1>12 DEF Keeps

\* The lines of manifests are well formed.
WellFormed == \A lines \in Manifests : \A i \in DOMAIN lines : lines[i].well = TRUE

LEMMA RevalidateContextInv == WellFormed /\ ScanInv /\ Scans!RevalidateContext => ScanInv'
<1> SUFFICES ASSUME WellFormed, ScanInv, Scans!RevalidateContext PROVE ScanInv'
  OBVIOUS
<1>1. /\ Keeps /\ tree' = tree /\ Scans!Known' = Scans!Known
      /\ index'.session = index.session
      /\ \A d \in Scans!Known :
            /\ index'.task[d].status = index.task[d].status
            /\ index'.task[d].runtime = index.task[d].runtime
            /\ index'.task[d].entries = Scans!RevalidateEntries(index.task[d].entries)
      /\ unseen' = [dirs |-> unseen.dirs, sessions |-> unseen.sessions, targets |-> FALSE]
  BY RevalidateContextKeeps DEF ScanInv
<1>2. KeyInv' BY <1>1, KeysKept DEF ScanInv
<1>3. Scans!Existing' = Scans!Existing BY <1>1 DEF Scans!Existing
<1>4. \A d : Scans!ScanManifest(d)' = Scans!ScanManifest(d) BY <1>1, SameManifest
<1>5. ASSUME NEW d \in Scans!Known \ unseen.dirs
      PROVE  index'.task[d].entries = Scans!ScanManifest(d)
  <2>1. d \in Scans!Dirs BY DEF ScanInv, KeyInv, IsIndex, IsTable, Scans!Known
  <2>2. d \in Scans!Existing BY <2>1 DEF ScanInv, RowsInv
  <2>3. tree.task[d].lines \in Manifests
    BY <2>1, <2>2 DEF ScanInv, KeyInv, TreeType, Scans!Trees, Scans!Existing
  <2>4. \A i \in DOMAIN tree.task[d].lines : tree.task[d].lines[i].well = TRUE
    BY <2>3 DEF WellFormed
  <2>5. EntriesOf(tree.task[d].lines, index.task[d].entries) BY DEF ScanInv, RowsInv
  <2> QED BY <1>1, <2>4, <2>5, RevalidatedEntries
<1>6. RowsInv' BY <1>1, <1>3, <1>4, <1>5, ScannedEntries DEF ScanInv, RowsInv
<1>7. SessionsInv'
  <2> SUFFICES ASSUME ~unseen.sessions
               PROVE  /\ unseen'.dirs = {} /\ Reflects(index.session, index.task)'
                      /\ HasRuntime(index.task, index.session)'
    BY <1>1 DEF SessionsInv
  <2>1. /\ unseen.dirs = {} /\ Reflects(index.session, index.task)
        /\ HasRuntime(index.task, index.session)
    BY DEF ScanInv, SessionsInv
  <2>2. Scans!Existing \subseteq Scans!Known
    BY <2>1 DEF ScanInv, RowsInv, Scans!Existing
  <2>3. Reflects(index.session, index.task)' BY <1>1, <1>3, <2>1, <2>2 DEF Reflects, Keeps
  <2>4. HasRuntime(index.task, index.session)'
    BY <1>1, <2>1 DEF HasRuntime, Keeps, Scans!Known
  <2> QED BY <1>1, <2>1, <2>3, <2>4
<1> QED BY <1>2, <1>6, <1>7 DEF ScanInv

LEMMA ScanUnchanged ==
    ASSUME UNCHANGED scanVars
    PROVE  (KeyInv => KeyInv') /\ (ScanInv => ScanInv')
<1>1. tree' = tree /\ index' = index /\ unseen' = unseen BY DEF scanVars
<1>2. Scans!Existing' = Scans!Existing BY <1>1 DEF Scans!Existing
<1>3. \A d : Scans!ScanManifest(d)' = Scans!ScanManifest(d) BY <1>1, SameManifest
<1>4. KeyInv => KeyInv'
  BY <1>1 DEF KeyInv, TreeType, IsIndex, IsTable, KeysAreUnique, Scans!KeysAreUnique,
              Scans!Known, Scans!Trees
<1>5. RowsInv => RowsInv' BY <1>1, <1>2, <1>3 DEF RowsInv, Scans!Known
<1>6. SessionsInv => SessionsInv'
  BY <1>1, <1>2 DEF SessionsInv, Reflects, HasRuntime
<1> QED BY <1>4, <1>5, <1>6 DEF ScanInv

LEMMA ScanSteps ==
    ASSUME [IndexingNext]_indexVars
    PROVE  \/ ChangesTree \/ Scans!FullScan \/ Scans!ScanTasks \/ Scans!ScanSessions
           \/ Scans!RevalidateContext \/ UNCHANGED scanVars
BY DEF IndexingNext, Caching, Scanning, indexVars, Scans!Next, ChangesTree

LEMMA ScanStarts == IndexingInit => ScanInv
<1> SUFFICES ASSUME IndexingInit PROVE ScanInv
  OBVIOUS
<1>1. tree \in Scans!Trees /\ index = Scans!Scan /\ unseen = Scans!Nothing
  BY DEF IndexingInit, Scans!Init
<1> QED BY <1>1, ScanIsFull, FullInv

\* Tasks never share a key, and an active task has the name of its directory
\* as key, for any number of directories, archives, sessions and changes
\* (scanner.go:264-287).
THEOREM KeysStayUnique == CacheSpec => []KeysAreUnique
<1>1. IndexingInit => KeyInv BY ScanStarts DEF ScanInv
<1>2. KeyInv /\ [IndexingNext]_indexVars => KeyInv'
  <2> SUFFICES ASSUME KeyInv, [IndexingNext]_indexVars PROVE KeyInv'
    OBVIOUS
  <2>1. CASE ChangesTree BY <2>1, ChangesTreeInv
  <2>2. CASE Scans!FullScan BY <2>2, FullScanInv DEF KeyInv, ScanInv
  <2>3. CASE Scans!ScanTasks BY <2>3, ScanTasksKeeps, KeysKept
  <2>4. CASE Scans!ScanSessions BY <2>4, ScanSessionsKeeps, KeysKept
  <2>5. CASE Scans!RevalidateContext BY <2>5, RevalidateContextKeeps, KeysKept
  <2>6. CASE UNCHANGED scanVars BY <2>6, ScanUnchanged
  <2> QED BY <2>1, <2>2, <2>3, <2>4, <2>5, <2>6, ScanSteps
<1>3. KeyInv => KeysAreUnique BY DEF KeyInv
<1> QED BY <1>1, <1>2, <1>3, PTL DEF CacheSpec

-----------------------------------------------------------------------------
(* What is pieced together is what a full scan finds                       *)

\* Two tables of the same tree give a task the same runtime state, whatever
\* its key in them.
LEMMA SameRuntime ==
    ASSUME tree \in Scans!Trees, NEW d, NEW own,
           NEW sessions, NEW found, Reflects(sessions, found), NEW key,
           Scans!Attached(sessions, key) = Mine(d),
           NEW others, NEW table, Reflects(others, table), NEW other,
           Scans!Attached(others, other) = Mine(d)
    PROVE  Scans!RuntimeState(sessions, key, own) = Scans!RuntimeState(others, other, own)
<1> DEFINE last == Scans!Latest(sessions, key)
           lastOther == Scans!Latest(others, other)
<1>1. CASE Mine(d) = {} BY <1>1, RuntimeOfTask
<1>2. CASE Mine(d) # {}
  <2>1. /\ last \in Mine(d) /\ SeenAfter(Mine(d), last)
        /\ lastOther \in Mine(d) /\ SeenAfter(Mine(d), lastOther)
    BY <1>2, LatestOfTask
  <2> HIDE DEF last, lastOther
  <2>2. last = lastOther BY <2>1, SessionNumbers DEF SeenAfter
  <2>3. Scans!Latest(sessions, key) = Scans!Latest(others, other) BY <2>2 DEF last, lastOther
  <2> QED BY <2>3, RuntimeOfTask
<1> QED BY <1>1, <1>2

LEMMA Agrees == ScanInv => IncrementalAgrees
<1> SUFFICES ASSUME ScanInv PROVE IncrementalAgrees
  OBVIOUS
<1> DEFINE full == Scans!Scan
<1>1. tree \in Scans!Trees /\ IsFull(full) BY ScanIsFull DEF ScanInv, KeyInv, TreeType
<1>2. Scans!Existing \subseteq Scans!Dirs /\ Scans!Known \subseteq Scans!Dirs
  BY DEF ScanInv, KeyInv, IsIndex, IsTable, Scans!Known, Scans!Existing
<1> HIDE DEF full
<1>3. unseen.dirs = {} => Scans!Known = Scans!Existing BY <1>2 DEF ScanInv, RowsInv
<1>4. ASSUME NEW d \in Scans!Known \ unseen.dirs
      PROVE  /\ d \in Scans!Existing
             /\ index.task[d].status = full.task[d].status
             /\ ~unseen.targets => index.task[d].entries = full.task[d].entries
  BY <1>1, <1>2 DEF ScanInv, RowsInv, IsFull
<1>5. ASSUME unseen = Scans!Nothing
      PROVE  /\ Scans!Known = Scans!Existing
             /\ Reflects(index.session, index.task)
             /\ HasRuntime(index.task, index.session)
             /\ \A d \in Scans!Existing :
                   /\ index.task[d].key # None /\ full.task[d].key # None
                   /\ Scans!Attached(index.session, index.task[d].key) = Mine(d)
                   /\ Scans!Attached(full.session, full.task[d].key) = Mine(d)
  <2>1. Scans!Known = Scans!Existing /\ ~unseen.sessions BY <1>3, <1>5 DEF Scans!Nothing
  <2>2. Reflects(index.session, index.task) /\ HasRuntime(index.task, index.session)
    BY <2>1 DEF ScanInv, SessionsInv
  <2>3. ASSUME NEW d \in Scans!Existing
        PROVE  index.task[d].key # None /\ full.task[d].key # None
    <3>1. index.task[d].key \in {Scans!PlainKey(d), Scans!PathKey(d)}
      BY <2>1 DEF ScanInv, KeyInv, IsIndex, IsTable, Scans!Known
    <3>2. full.task[d].key \in {Scans!PlainKey(d), Scans!PathKey(d)}
      BY <1>1 DEF IsTable, IsFull
    <3>3. None \notin {Scans!PlainKey(d), Scans!PathKey(d)} BY <1>2, KeysDiffer
    <3> QED BY <3>1, <3>2, <3>3
  <2>4. \A d, e \in Scans!Existing :
           /\ index.task[e].key = index.task[d].key => e = d
           /\ full.task[e].key = full.task[d].key => e = d
    BY <1>1, <2>1 DEF ScanInv, KeyInv, KeysAreUnique, Scans!KeysAreUnique, IsFull
  <2>5. Reflects(full.session, full.task) BY <1>1 DEF IsFull
  <2>6. ASSUME NEW d \in Scans!Existing
        PROVE  /\ Scans!Attached(index.session, index.task[d].key) = Mine(d)
               /\ Scans!Attached(full.session, full.task[d].key) = Mine(d)
    <3>1. Scans!Attached(index.session, index.task[d].key) = Mine(d)
      BY <2>2, <2>3, <2>4, AttachedToTask
    <3>2. Scans!Attached(full.session, full.task[d].key) = Mine(d)
      BY <2>3, <2>4, <2>5, AttachedToTask
    <3> QED BY <3>1, <3>2
  <2> QED BY <2>1, <2>2, <2>3, <2>6
<1>6. ASSUME unseen = Scans!Nothing, NEW d \in Scans!Existing
      PROVE  index.task[d].runtime = full.task[d].runtime
  <2> DEFINE own == Scans!DerivePhase(d, tree.task[d].status)
  <2>1. /\ index.task[d].status = tree.task[d].status
        /\ full.task[d].status = tree.task[d].status
    BY <1>1, <1>5, <1>6 DEF ScanInv, RowsInv, IsFull, Scans!Nothing
  <2>2. index.task[d].runtime = Scans!RuntimeState(index.session, index.task[d].key, own)
    BY <1>5, <1>6, <2>1 DEF HasRuntime, Scans!Known
  <2>3. full.task[d].runtime = Scans!RuntimeState(full.session, full.task[d].key, own)
    BY <1>1, <2>1 DEF HasRuntime, IsFull
  <2>4. Reflects(full.session, full.task) BY <1>1 DEF IsFull
  <2> HIDE DEF own
  <2>5. Scans!RuntimeState(index.session, index.task[d].key, own)
            = Scans!RuntimeState(full.session, full.task[d].key, own)
    BY <1>1, <1>5, <1>6, <2>4, SameRuntime
  <2> QED BY <2>2, <2>3, <2>5
<1>7. ASSUME unseen = Scans!Nothing
      PROVE  /\ DOMAIN index.session = DOMAIN full.session
             /\ \A s \in DOMAIN full.session :
                   /\ index.session[s].stale = full.session[s].stale
                   /\ Scans!TasksOf(index, s) = Scans!TasksOf(full, s)
  <2>1. Reflects(index.session, index.task) /\ Reflects(full.session, full.task)
    BY <1>1, <1>5, <1>7 DEF IsFull
  <2>2. /\ DOMAIN index.session = DOMAIN full.session
        /\ \A s \in DOMAIN full.session : index.session[s].stale = full.session[s].stale
    BY <2>1 DEF Reflects
  <2>3. ASSUME NEW s \in DOMAIN full.session
        PROVE  Scans!TasksOf(index, s) = Scans!TasksOf(full, s)
    <3>1. \A d \in Scans!Existing :
             /\ index.task[d].key = index.session[s].task <=> s \in Mine(d)
             /\ full.task[d].key = full.session[s].task <=> s \in Mine(d)
      BY <1>5, <1>7, <2>2, <2>3 DEF Scans!Attached
    <3>2. DOMAIN index.task = Scans!Existing /\ DOMAIN full.task = Scans!Existing
      BY <1>1, <1>5, <1>7 DEF IsFull, Scans!Known
    <3> QED BY <3>1, <3>2 DEF Scans!TasksOf
  <2> QED BY <2>2, <2>3
<1>8. ASSUME unseen = Scans!Nothing PROVE Scans!LastSeenDecides
  <2> SUFFICES ASSUME NEW d \in Scans!Known
               PROVE  LET mine == {s \in Scans!Sessions :
                                      tree.session[s] # None /\ tree.session[s].task = d}
                          seen(s) == tree.session[s].seen
                          last == {s \in mine : \A t \in mine :
                                      seen(t) < seen(s) \/ (seen(t) = seen(s) /\ t <= s)}
                          phases == {Scans!PhaseFromRun(tree.session[s].run) : s \in last}
                                        \ {None}
                      IN  /\ index.task[d].runtime.active = Scans!Cardinality(mine)
                          /\ index.task[d].runtime.phase \in
                                (IF phases = {} THEN {Scans!DerivePhase(d, tree.task[d].status)}
                                 ELSE phases)
    BY DEF Scans!LastSeenDecides
  <2> DEFINE mine == {s \in Scans!Sessions :
                         tree.session[s] # None /\ tree.session[s].task = d}
             last == {s \in mine : \A t \in mine :
                         \/ tree.session[t].seen < tree.session[s].seen
                         \/ tree.session[t].seen = tree.session[s].seen /\ t <= s}
             phases == {Scans!PhaseFromRun(tree.session[s].run) : s \in last} \ {None}
             own == Scans!DerivePhase(d, tree.task[d].status)
             latest == Scans!Latest(index.session, index.task[d].key)
  <2>1. mine = Mine(d) BY DEF Mine
  <2>2. d \in Scans!Existing /\ index.task[d].status = tree.task[d].status
    BY <1>5, <1>8 DEF ScanInv, RowsInv, Scans!Nothing
  <2>3. /\ Reflects(index.session, index.task)
        /\ Scans!Attached(index.session, index.task[d].key) = Mine(d)
    BY <1>5, <1>8, <2>2
  <2>4. index.task[d].runtime = Scans!RuntimeState(index.session, index.task[d].key, own)
    BY <1>5, <1>8, <2>2 DEF HasRuntime, Scans!Known
  <2>5. index.task[d].runtime =
            [active |-> Scans!Cardinality(Mine(d)),
             phase |-> IF Mine(d) = {} THEN own
                       ELSE LET run == Scans!PhaseFromRun(tree.session[latest].run)
                            IN  IF run = None THEN own ELSE run]
    <3> HIDE DEF own
    <3> QED BY <1>1, <2>3, <2>4, RuntimeOfTask
  <2>6. Mine(d) # {} => last = {latest}
    <3> SUFFICES ASSUME Mine(d) # {} PROVE last = {latest}
      OBVIOUS
    <3>1. latest \in Mine(d) /\ SeenAfter(Mine(d), latest) BY <1>1, <2>3, LatestOfTask
    <3> HIDE DEF latest
    <3>2. \A s \in Mine(d) : s \in Nat /\ tree.session[s].seen \in Nat
      BY <1>1, SessionNumbers
    <3>3. latest \in last BY <2>1, <3>1, <3>2 DEF SeenAfter
    <3>4. ASSUME NEW s \in last PROVE s = latest BY <2>1, <3>1, <3>2 DEF SeenAfter
    <3> QED BY <3>3, <3>4
  <2> HIDE DEF latest, last, own
  <2>7. index.task[d].runtime.active = Scans!Cardinality(mine)
    <3> DEFINE run == Scans!PhaseFromRun(tree.session[latest].run)
               shown == IF Mine(d) = {} THEN own ELSE IF run = None THEN own ELSE run
    <3>1. index.task[d].runtime = [active |-> Scans!Cardinality(Mine(d)), phase |-> shown]
      BY <2>5
    <3> HIDE DEF shown, mine
    <3> QED BY <2>1, <3>1
  <2>8. index.task[d].runtime.phase \in (IF phases = {} THEN {own} ELSE phases)
    <3>1. CASE Mine(d) = {}
      <4>1. phases = {} BY <2>1, <3>1 DEF last
      <4> QED BY <2>5, <3>1, <4>1
    <3>2. CASE Mine(d) # {}
      <4>1. phases = {Scans!PhaseFromRun(tree.session[latest].run)} \ {None} BY <2>6, <3>2
      <4> QED BY <2>5, <3>2, <4>1
    <3> QED BY <3>1, <3>2
  <2> QED BY <2>7, <2>8 DEF last, own
<1>9. Scans!IncrementalAgrees
  <2>1. DOMAIN full.task = Scans!Existing BY <1>1 DEF IsFull
  <2>2. unseen = Scans!Nothing => unseen.dirs = {} BY DEF Scans!Nothing
  <2> QED BY <1>3, <1>4, <1>6, <1>7, <1>8, <2>1, <2>2 DEF Scans!IncrementalAgrees, full
<1> QED BY <1>9 DEF IncrementalAgrees

\* What incremental scans and revalidation have pieced together is what a full
\* scan would find, for any number of tasks, sessions and changes, where
\* .trellis is no symbolic link and manifests have well formed lines
\* (README.md:122).
THEOREM ScansAgree ==
    Linked = FALSE /\ WellFormed => (CacheSpec => []IncrementalAgrees)
<1> SUFFICES ASSUME Linked = FALSE, WellFormed PROVE CacheSpec => []IncrementalAgrees
  OBVIOUS
<1>1. IndexingInit => ScanInv BY ScanStarts
<1>2. ScanInv /\ [IndexingNext]_indexVars => ScanInv'
  <2> SUFFICES ASSUME ScanInv, [IndexingNext]_indexVars PROVE ScanInv'
    OBVIOUS
  <2>1. CASE ChangesTree BY <2>1, ChangesTreeInv
  <2>2. CASE Scans!FullScan BY <2>2, FullScanInv DEF ScanInv, KeyInv
  <2>3. CASE Scans!ScanTasks BY <2>3, ScanTasksInv
  <2>4. CASE Scans!ScanSessions BY <2>4, ScanSessionsInv
  <2>5. CASE Scans!RevalidateContext BY <2>5, RevalidateContextInv
  <2>6. CASE UNCHANGED scanVars BY <2>6, ScanUnchanged
  <2> QED BY <2>1, <2>2, <2>3, <2>4, <2>5, <2>6, ScanSteps
<1>3. ScanInv => IncrementalAgrees BY Agrees
<1> QED BY <1>1, <1>2, <1>3, PTL DEF CacheSpec

-----------------------------------------------------------------------------
(* The project registry                                                    *)

\* The sidecar while a mutation is under way.
MutationInv ==
    /\ db = op.prev
    /\ op.step = "write" => sidecar = op.prev /\ durable = op.prev
    /\ op.step = "sync" => sidecar = op.next /\ durable = op.prev
    /\ op.step = "commit" => sidecar = op.next /\ durable = op.next
    /\ op.step \in {"undo", "syncUndo"} =>
          {sidecar, durable} \subseteq {op.prev, op.next} /\ failures > 0
    /\ op.step = "syncUndo" => sidecar = op.prev

\* The sidecar while Open restores the projects.
RestoreInv ==
    /\ op.step \in {"write", "sync", "commit"}
    /\ op.step = "write" =>
          \/ sidecar = op.next
          \/ sidecar = Absent /\ op.next = db
    /\ op.step \in {"sync", "commit"} => sidecar = op.next
    /\ op.step = "commit" => durable = op.next

RegistryInv ==
    /\ RegistryTypeOK
    /\ phase # "up" => answer = "none"
    /\ durable # Absent => sidecar # Absent
    /\ durable = Absent => wal = <<>> /\ sidecar \in {Absent, db}
    /\ phase = "up" => main # Absent \/ wal # <<>>
    /\ phase = "up" /\ op = Nothing => sidecar = db /\ durable = db
    /\ phase = "up" /\ op # Nothing => MutationInv
    /\ phase = "restoring" => RestoreInv

LEMMA NoData ==
    /\ Nothing \notin Registries \cup Ops /\ Absent \notin Registries
    /\ MaxOps \in Nat /\ MaxFailures \in Nat
  BY RegistryAssumption DEF NothingIsNoRegistry, Bounds

\* What the registry promises of a step.
Kept == [Promise!Next]_<<projects, undecided, answer>>

LEMMA LastOf ==
    ASSUME NEW s \in Seq(Registries), NEW d
    PROVE  /\ s = <<>> => Last(s, d) = d
           /\ s # <<>> => Last(s, d) = s[Len(s)] /\ Last(s, d) \in Registries
<1>1. s # <<>> => s[Len(s)] \in Registries OBVIOUS
<1> QED BY <1>1 DEF Last

LEMMA LastAppended ==
    ASSUME NEW s \in Seq(Registries), NEW r \in Registries, NEW d
    PROVE  /\ Append(s, r) \in Seq(Registries) /\ Append(s, r) # <<>>
           /\ Last(Append(s, r), d) = r
<1>1. /\ Append(s, r) \in Seq(Registries) /\ Append(s, r) # <<>>
      /\ Len(Append(s, r)) = Len(s) + 1 /\ Append(s, r)[Len(s) + 1] = r
  OBVIOUS
<1> QED BY <1>1 DEF Last

LEMMA Database ==
    ASSUME main \in Registries \cup {Absent}, wal \in Seq(Registries)
    PROVE  /\ db \in Registries
           /\ wal = <<>> => db = IF main = Absent THEN NoProjects ELSE main
           /\ wal # <<>> => db = wal[Len(wal)]
<1>1. NoProjects \in Registries
  BY DEF Registries, NoProjects
<1> QED BY <1>1, LastOf DEF db

LEMMA CheckpointMoves ==
    ASSUME main \in Registries \cup {Absent}, wal \in Seq(Registries), Absent \notin Registries,
           NEW k \in 1 .. Len(wal), main' = wal[k], wal' = SubSeq(wal, k + 1, Len(wal))
    PROVE  /\ wal' \in Seq(Registries) /\ main' \in Registries
           /\ db' = db
<1>1. main' \in Registries /\ wal # <<>> /\ Len(wal) \in Nat OBVIOUS
<1>2. wal' \in Seq(Registries) OBVIOUS
<1>3. CASE k = Len(wal)
  <2>1. wal' = <<>> BY <1>3
  <2>2. main' # Absent BY <1>1
  <2>3. db' = main' BY <2>1, <2>2 DEF db, Last
  <2>4. db = wal[Len(wal)] BY <1>1, Database
  <2> QED BY <1>1, <1>2, <1>3, <2>3, <2>4
<1>4. CASE k # Len(wal)
  <2>1. Len(wal') = Len(wal) - k /\ wal'[Len(wal) - k] = wal[Len(wal)] BY <1>4
  <2>2. wal' # <<>>
    <3>1. Len(wal) - k # 0 BY <1>4
    <3>2. Len(<<>>) = 0 OBVIOUS
    <3> QED BY <2>1, <3>1, <3>2
  <2>3. db' = wal'[Len(wal')] BY <2>2 DEF db, Last
  <2>4. db = wal[Len(wal)] BY <1>1, Database
  <2> QED BY <1>1, <1>2, <2>1, <2>3, <2>4
<1> QED BY <1>1, <1>2, <1>3, <1>4

\* Steps of a process that is not up leave answer "none".
LEMMA TypeFacts ==
    ASSUME RegistryInv
    PROVE  /\ main \in Registries \cup {Absent} /\ wal \in Seq(Registries)
           /\ sidecar \in Registries \cup {Absent} /\ durable \in Registries \cup {Absent}
           /\ db \in Registries /\ NoProjects \in Registries
           /\ Nothing \notin Registries /\ Absent \notin Registries
           /\ op # Nothing => /\ op = [prev |-> op.prev, next |-> op.next, step |-> op.step]
                           /\ op.prev \in Registries /\ op.next \in Registries
                           /\ op.step \in Steps
<1>1. /\ main \in Registries \cup {Absent} /\ wal \in Seq(Registries)
      /\ sidecar \in Registries \cup {Absent} /\ durable \in Registries \cup {Absent}
      /\ op \in Ops \cup {Nothing}
  BY DEF RegistryInv, RegistryTypeOK
<1>2. op # Nothing => /\ op = [prev |-> op.prev, next |-> op.next, step |-> op.step]
                   /\ op.prev \in Registries /\ op.next \in Registries
                   /\ op.step \in Steps
  BY <1>1 DEF Ops
<1>3. NoProjects \in Registries
  BY DEF Registries, NoProjects
<1> QED BY <1>1, <1>2, <1>3, Database, NoData

\* The registry as its callers see it.
LEMMA Seen ==
    /\ phase # "up" => /\ projects = Disk(durable)
                       /\ undecided = IF Disk(sidecar) = Disk(durable)
                                             THEN Nothing ELSE Disk(sidecar)
    /\ phase = "up" /\ op = Nothing => projects = db /\ undecided = Nothing
    /\ phase = "up" /\ op # Nothing => projects = op.prev /\ undecided = op.next
  BY DEF projects, undecided

\* A step that changes nothing a caller sees.
LEMMA Stutters ==
    ASSUME UNCHANGED <<main, wal, sidecar, durable, phase, op, answer>>
    PROVE  Kept
  BY DEF Kept, projects, undecided, Disk, db, Last

-----------------------------------------------------------------------------
LEMMA PreflightStep ==
    ASSUME RegistryInv, Preflight PROVE RegistryInv' /\ Kept
<1>1. /\ phase = "down" /\ phase' \in {"refused", "opening"}
      /\ UNCHANGED <<main, wal, sidecar, durable, op, answer, ops, failures>>
  BY DEF Preflight, files
<1>2. op = Nothing BY <1>1 DEF RegistryInv, RegistryTypeOK
<1>3. db' = db BY <1>1 DEF db, Last
<1>4. RegistryInv' BY <1>1, <1>2, <1>3 DEF RegistryInv, RegistryTypeOK
<1>5. Kept
  BY <1>1, <1>3 DEF Kept, projects, undecided, Disk
<1> QED BY <1>4, <1>5

LEMMA RestoreBeginStep ==
    ASSUME RegistryInv, RestoreBegin PROVE RegistryInv' /\ Kept
<1>1. /\ phase = "opening" /\ phase' \in {"refused", "restoring"}
      /\ UNCHANGED <<main, wal, sidecar, durable, answer, ops, failures>>
      /\ phase' = "refused" => UNCHANGED op
      /\ phase' = "restoring" =>
           op' = [prev |-> db, next |-> Restored, step |-> "write"]
  BY DEF RestoreBegin, files
<1>2. op = Nothing BY <1>1 DEF RegistryInv, RegistryTypeOK
<1>3. db' = db BY <1>1 DEF db, Last
<1>4. Restored \in Registries /\ db \in Registries
  BY TypeFacts DEF Restored
<1>5. phase' = "restoring" => op' \in Ops
  BY <1>1, <1>4 DEF Ops, Steps
<1>6. RegistryTypeOK'
  BY <1>1, <1>2, <1>5, NoData DEF RegistryInv, RegistryTypeOK
<1>7. phase' = "restoring" => RestoreInv'
  <2> SUFFICES ASSUME phase' = "restoring" PROVE RestoreInv'
    OBVIOUS
  <2>1. op'.next = Restored /\ op'.step = "write" BY <1>1
  <2>2. sidecar' = op'.next \/ (sidecar' = Absent /\ op'.next = db')
    <3>1. sidecar' = sidecar /\ op'.next = Restored /\ db' = db
      BY <1>1, <1>3, <2>1
    <3>2. CASE sidecar = Absent
      <4>1. Restored = db BY <3>2 DEF Restored
      <4> QED BY <3>1, <3>2, <4>1
    <3>3. CASE sidecar # Absent
      <4>1. Restored = sidecar BY <3>3 DEF Restored
      <4> QED BY <3>1, <4>1
    <3> QED BY <3>2, <3>3
  <2> QED BY <2>1, <2>2 DEF RestoreInv
<1>8. RegistryInv' BY <1>1, <1>3, <1>6, <1>7 DEF RegistryInv
<1>9. Kept
  BY <1>1, <1>3 DEF Kept, projects, undecided, Disk
<1> QED BY <1>8, <1>9

LEMMA LoseDatabaseStep ==
    ASSUME RegistryInv, LoseDatabase PROVE RegistryInv' /\ Kept
<1>1. /\ durable # Absent /\ phase \in {"down", "refused"} /\ phase' = "down"
      /\ main' = Absent /\ wal' = <<>>
      /\ UNCHANGED <<sidecar, durable, op, answer, ops, failures>>
  BY DEF LoseDatabase
<1>2. op = Nothing /\ sidecar # Absent BY <1>1 DEF RegistryInv, RegistryTypeOK
<1>3. RegistryInv' BY <1>1, <1>2 DEF RegistryInv, RegistryTypeOK
<1>4. Kept
  BY <1>1, <1>2 DEF Kept, projects, undecided, Disk
<1> QED BY <1>3, <1>4

\* A mutation begins.
LEMMA AskStep ==
    ASSUME RegistryInv, NEW next \in Registries, Ask(next)
    PROVE  RegistryInv' /\ Kept
<1>1. /\ phase = "up" /\ op = Nothing /\ ops < MaxOps /\ ops' = ops + 1
      /\ op' = [prev |-> db, next |-> next, step |-> "write"]
      /\ answer' = "none"
      /\ UNCHANGED <<main, wal, sidecar, durable, phase, failures>>
  BY DEF Ask, files
<1>2. db' = db /\ db \in Registries
  BY <1>1, TypeFacts DEF db, Last
<1>3. /\ op'.prev = db /\ op'.next = next /\ op'.step = "write"
      /\ op' \in Ops /\ op' # Nothing
  BY <1>1, <1>2, NoData DEF Ops, Steps
<1>4. RegistryTypeOK'
  <2>1. ops' \in 0 .. MaxOps
    BY <1>1, NoData DEF RegistryInv, RegistryTypeOK
  <2> QED BY <1>1, <1>3, <2>1 DEF RegistryInv, RegistryTypeOK
<1>5. sidecar = db /\ durable = db BY <1>1 DEF RegistryInv
<1>6. MutationInv' BY <1>1, <1>2, <1>3, <1>5 DEF MutationInv
<1>7. RegistryInv' BY <1>1, <1>2, <1>3, <1>4, <1>5, <1>6 DEF RegistryInv
<1>8. /\ projects = db /\ projects' = db
      /\ undecided = Nothing /\ undecided' = next
  BY <1>1, <1>3 DEF projects, undecided
<1>9. Promise!Ask
  BY <1>1, <1>8 DEF Promise!Ask
<1> QED BY <1>7, <1>9 DEF Kept, Promise!Next

LEMMA MutationStep ==
    ASSUME RegistryInv, Mutation PROVE RegistryInv' /\ Kept
<1>1. db \in Registries BY TypeFacts
<1>2. ASSUME NEW i \in Ids, NEW root \in Roots, UpsertProject(i, root)
      PROVE  RegistryInv' /\ Kept
  <2> DEFINE next == [db EXCEPT ![i] = root]
  <2>1. next \in Registries
    BY <1>1, <1>2 DEF UpsertProject, Registries
  <2>2. Ask(next) BY <1>2 DEF UpsertProject
  <2> HIDE DEF next
  <2> QED BY <2>1, <2>2, AskStep
<1>3. ASSUME NEW i \in Ids, DeleteProject(i) PROVE RegistryInv' /\ Kept
  <2> DEFINE next == [db EXCEPT ![i] = Nothing]
  <2>1. next \in Registries BY <1>1 DEF Registries
  <2>2. Ask(next) BY <1>3 DEF DeleteProject
  <2> HIDE DEF next
  <2> QED BY <2>1, <2>2, AskStep
<1> QED BY <1>2, <1>3 DEF Mutation

\* The mutation, or the restore, comes to its next step.
LEMMA StepTo ==
    ASSUME RegistryInv, op # Nothing, NEW step \in Steps,
           op' = [op EXCEPT !.step = step]
    PROVE  /\ op' # Nothing /\ op' \in Ops
           /\ op'.prev = op.prev /\ op'.next = op.next /\ op'.step = step
<1> DEFINE prev == op.prev
           next == op.next
           step0 == op.step
<1>1. /\ op = [prev |-> prev, next |-> next, step |-> step0]
      /\ prev \in Registries /\ next \in Registries
  BY TypeFacts
<1> HIDE DEF prev, next, step0
<1>2. op' = [prev |-> prev, next |-> next, step |-> step] BY <1>1
<1>3. op'.prev = prev /\ op'.next = next /\ op'.step = step BY <1>2
<1>4. op' \in Ops BY <1>1, <1>2 DEF Ops
<1>5. op' # Nothing BY <1>4, NoData
<1> QED BY <1>3, <1>4, <1>5 DEF prev, next

\* The steps that end a mutation, or a restore.
LEMMA Underway ==
    ASSUME RegistryInv, op # Nothing
    PROVE  /\ phase \in {"up", "restoring"}
           /\ phase = "up" => MutationInv /\ durable # Absent
           /\ phase = "restoring" => RestoreInv /\ answer = "none"
<1>1. phase \in {"up", "restoring"} BY DEF RegistryInv, RegistryTypeOK
<1>2. phase = "up" => MutationInv BY DEF RegistryInv
<1>3. phase = "up" => durable # Absent
  <2> SUFFICES ASSUME phase = "up" PROVE durable # Absent
    OBVIOUS
  <2>1. op.prev # Absent /\ op.next # Absent /\ op.step \in Steps BY TypeFacts
  <2> QED BY <1>2, <2>1 DEF MutationInv, Steps
<1>4. phase = "restoring" => RestoreInv /\ answer = "none" BY DEF RegistryInv
<1> QED BY <1>1, <1>2, <1>3, <1>4

LEMMA WriteSidecarStep ==
    ASSUME RegistryInv, WriteSidecar PROVE RegistryInv' /\ Kept
<1> DEFINE step == "sync"
<1>1. /\ op # Nothing /\ op.step = "write" /\ op' = [op EXCEPT !.step = "sync"]
      /\ sidecar' = op.next
      /\ UNCHANGED <<main, wal, durable, phase, answer, ops, failures>>
  BY DEF WriteSidecar, At, GoTo
<1>2. /\ op' # Nothing /\ op' \in Ops
      /\ op'.prev = op.prev /\ op'.next = op.next /\ op'.step = "sync"
  <2>1. step \in Steps /\ op' = [op EXCEPT !.step = step]
    BY <1>1 DEF Steps
  <2> HIDE DEF step
  <2>2. /\ op' # Nothing /\ op' \in Ops
        /\ op'.prev = op.prev /\ op'.next = op.next /\ op'.step = step
    BY <1>1, <2>1, StepTo
  <2> QED BY <2>2 DEF step
<1>3. db' = db BY <1>1 DEF db, Last
<1>4. /\ op.next \in Registries /\ op.next # Absent /\ op.prev # Absent
      /\ db # Absent
  BY <1>1, TypeFacts
<1>5. RegistryTypeOK'
  BY <1>1, <1>2, <1>4 DEF RegistryInv, RegistryTypeOK
<1>6. CASE phase = "up"
  <2>1. MutationInv /\ durable # Absent BY <1>1, <1>6, Underway
  <2>2. MutationInv' BY <1>1, <1>2, <1>3, <2>1 DEF MutationInv
  <2>3. RegistryInv' BY <1>1, <1>2, <1>3, <1>4, <1>5, <1>6, <2>1, <2>2 DEF RegistryInv
  <2>4. Kept BY <1>1, <1>2, <1>6 DEF Kept, projects, undecided
  <2> QED BY <2>3, <2>4
<1>7. CASE phase = "restoring"
  <2>1. RestoreInv /\ answer = "none" BY <1>1, <1>7, Underway
  <2>2. RestoreInv' BY <1>1, <1>2, <2>1 DEF RestoreInv
  <2>3. sidecar' = op.next /\ (sidecar = op.next \/ (sidecar = Absent /\ op.next = db))
    BY <1>1, <2>1 DEF RestoreInv
  <2>4. durable = Absent => wal = <<>> /\ sidecar \in {Absent, db}
    BY DEF RegistryInv
  <2>5. durable = Absent => wal' = <<>> /\ sidecar' = db'
    BY <1>1, <1>3, <1>4, <2>3, <2>4
  <2>6. RegistryInv' BY <1>1, <1>2, <1>4, <1>5, <1>7, <2>2, <2>5 DEF RegistryInv
  <2>7. sidecar = Absent => durable = Absent BY DEF RegistryInv
  <2>8. Disk(sidecar)' = Disk(sidecar)
    BY <1>3, <1>4, <2>3 DEF Disk
  <2>9. Disk(durable)' = Disk(durable)
    BY <1>1, <1>3 DEF Disk
  <2>10. Kept BY <1>1, <1>7, <2>8, <2>9 DEF Kept, projects, undecided
  <2> QED BY <2>6, <2>10
<1> QED BY <1>1, <1>6, <1>7, Underway

LEMMA SyncSidecarStep ==
    ASSUME RegistryInv, SyncSidecar PROVE RegistryInv' /\ Kept
<1> DEFINE step == "commit"
<1>1. /\ op # Nothing /\ op.step = "sync" /\ op' = [op EXCEPT !.step = "commit"]
      /\ durable' = sidecar
      /\ UNCHANGED <<main, wal, sidecar, phase, answer, ops, failures>>
  BY DEF SyncSidecar, At, GoTo
<1>2. /\ op' # Nothing /\ op' \in Ops
      /\ op'.prev = op.prev /\ op'.next = op.next /\ op'.step = "commit"
  <2>1. step \in Steps /\ op' = [op EXCEPT !.step = step]
    BY <1>1 DEF Steps
  <2> HIDE DEF step
  <2>2. /\ op' # Nothing /\ op' \in Ops
        /\ op'.prev = op.prev /\ op'.next = op.next /\ op'.step = step
    BY <1>1, <2>1, StepTo
  <2> QED BY <2>2 DEF step
<1>3. db' = db BY <1>1 DEF db, Last
<1>4. /\ op.next \in Registries /\ op.next # Absent /\ op.prev # Absent
      /\ db # Absent
  BY <1>1, TypeFacts
<1>5. RegistryTypeOK' BY <1>1, <1>2 DEF RegistryInv, RegistryTypeOK
<1>6. sidecar = op.next BY <1>1, Underway DEF MutationInv, RestoreInv
<1>7. CASE phase = "up"
  <2>1. MutationInv BY <1>1, <1>7, Underway
  <2>2. MutationInv' BY <1>1, <1>2, <1>3, <1>6, <2>1 DEF MutationInv
  <2>3. RegistryInv' BY <1>1, <1>2, <1>4, <1>5, <1>6, <1>7, <2>2 DEF RegistryInv
  <2>4. Kept BY <1>1, <1>2, <1>7 DEF Kept, projects, undecided
  <2> QED BY <2>3, <2>4
<1>8. CASE phase = "restoring"
  <2>1. RestoreInv /\ answer = "none" BY <1>1, <1>8, Underway
  <2>2. RestoreInv' BY <1>1, <1>2, <1>6, <2>1 DEF RestoreInv
  <2>3. RegistryInv' BY <1>1, <1>2, <1>4, <1>5, <1>6, <1>8, <2>2 DEF RegistryInv
  <2>4. /\ Disk(sidecar) = op.next /\ Disk(sidecar)' = op.next
        /\ Disk(durable)' = op.next
    BY <1>1, <1>4, <1>6 DEF Disk
  <2>5. /\ projects = Disk(durable)
        /\ undecided = IF op.next = Disk(durable) THEN Nothing ELSE op.next
        /\ projects' = op.next /\ undecided' = Nothing
    BY <1>1, <1>8, <2>4 DEF projects, undecided
  <2>6. op.next # Nothing BY <1>1, TypeFacts
  <2>7. Promise!Stop BY <1>1, <2>1, <2>5, <2>6 DEF Promise!Stop
  <2> QED BY <2>3, <2>7 DEF Kept, Promise!Next
<1> QED BY <1>1, <1>7, <1>8, Underway

LEMMA CommitStep ==
    ASSUME RegistryInv, CommitMutation PROVE RegistryInv' /\ Kept
<1>1. /\ op # Nothing /\ op.step = "commit" /\ op' = Nothing
      /\ wal' = IF op.next = Last(wal, main) THEN wal ELSE Append(wal, op.next)
      /\ UNCHANGED <<main, sidecar, durable, ops, failures>>
      /\ \/ phase = "up" /\ phase' = "up" /\ answer' = "ok"
         \/ phase = "restoring" /\ phase' = "up" /\ answer' = answer
  BY DEF CommitMutation, At, End
<1>2. /\ op.next \in Registries /\ op.next # Absent /\ op.next # Nothing
      /\ wal \in Seq(Registries) /\ main \in Registries \cup {Absent}
  BY <1>1, TypeFacts
<1>3. sidecar = op.next /\ durable = op.next
  BY <1>1, Underway DEF MutationInv, RestoreInv
<1>4. wal' \in Seq(Registries) /\ db' = op.next /\ (main' # Absent \/ wal' # <<>>)
  <2>1. CASE op.next = Last(wal, main)
    <3>1. wal' = wal /\ main' = main BY <1>1, <2>1
    <3>2. main # Absent \/ wal # <<>> BY <1>2, <2>1 DEF Last
    <3>3. db' = Last(wal, main)
      BY <3>1, <3>2 DEF db, Last
    <3> QED BY <1>2, <2>1, <3>1, <3>2, <3>3
  <2>2. CASE op.next # Last(wal, main)
    <3>1. wal' = Append(wal, op.next) BY <1>1, <2>2
    <3> DEFINE r == op.next
               default == (IF main = Absent THEN NoProjects ELSE main)'
    <3>2. r \in Registries BY <1>2
    <3> HIDE DEF r, default
    <3>3. /\ Append(wal, r) \in Seq(Registries) /\ Append(wal, r) # <<>>
          /\ Last(Append(wal, r), default) = r
      BY <1>2, <3>2, LastAppended
    <3>4. db' = op.next BY <3>1, <3>3 DEF db, r, default
    <3> QED BY <3>1, <3>3, <3>4 DEF r
  <2> QED BY <2>1, <2>2
<1>5. RegistryTypeOK'
  BY <1>1, <1>4 DEF RegistryInv, RegistryTypeOK
<1>6. RegistryInv' BY <1>1, <1>2, <1>3, <1>4, <1>5 DEF RegistryInv
<1>7. projects' = op.next /\ undecided' = Nothing
  BY <1>1, <1>4 DEF projects, undecided
<1>8. CASE phase = "up"
  <2>1. undecided = op.next BY <1>1, <1>8 DEF undecided
  <2>2. Promise!Succeed
    BY <1>1, <1>2, <1>7, <1>8, <2>1 DEF Promise!Succeed
  <2> QED BY <1>6, <2>2 DEF Kept, Promise!Next
<1>9. CASE phase = "restoring"
  <2>1. projects = op.next /\ undecided = Nothing
    BY <1>2, <1>3, <1>9 DEF projects, undecided, Disk
  <2> QED BY <1>1, <1>6, <1>7, <1>9, <2>1 DEF Kept
<1> QED BY <1>1, <1>8, <1>9

\* A mutation puts the sidecar back.
LEMMA UndoSidecarStep ==
    ASSUME RegistryInv, UndoSidecar PROVE RegistryInv' /\ Kept
<1> DEFINE step == "syncUndo"
<1>1. /\ op # Nothing /\ op.step = "undo" /\ op' = [op EXCEPT !.step = "syncUndo"]
      /\ sidecar' = op.prev
      /\ UNCHANGED <<main, wal, durable, phase, answer, ops, failures>>
  BY DEF UndoSidecar, At, GoTo
<1>2. /\ op' # Nothing /\ op' \in Ops
      /\ op'.prev = op.prev /\ op'.next = op.next /\ op'.step = "syncUndo"
  <2>1. step \in Steps /\ op' = [op EXCEPT !.step = step]
    BY <1>1 DEF Steps
  <2> HIDE DEF step
  <2>2. /\ op' # Nothing /\ op' \in Ops
        /\ op'.prev = op.prev /\ op'.next = op.next /\ op'.step = step
    BY <1>1, <2>1, StepTo
  <2> QED BY <2>2 DEF step
<1>3. db' = db BY <1>1 DEF db, Last
<1>4. phase = "up" /\ MutationInv /\ durable # Absent
  BY <1>1, Underway DEF RestoreInv
<1>5. op.prev \in Registries /\ op.prev # Absent BY <1>1, TypeFacts
<1>6. RegistryTypeOK' BY <1>1, <1>2, <1>5 DEF RegistryInv, RegistryTypeOK
<1>7. MutationInv' BY <1>1, <1>2, <1>3, <1>4 DEF MutationInv
<1>8. RegistryInv' BY <1>1, <1>2, <1>4, <1>5, <1>6, <1>7 DEF RegistryInv
<1>9. Kept BY <1>1, <1>2, <1>4 DEF Kept, projects, undecided
<1> QED BY <1>8, <1>9

LEMMA SyncUndoStep ==
    ASSUME RegistryInv, SyncUndo PROVE RegistryInv' /\ Kept
<1>1. phase = "up" /\ MutationInv /\ op # Nothing /\ op.step = "syncUndo"
  BY Underway DEF SyncUndo, At, RestoreInv
<1>2. /\ op' = Nothing /\ answer' = "failed" /\ durable' = sidecar
      /\ UNCHANGED <<main, wal, sidecar, phase, ops, failures>>
  BY <1>1 DEF SyncUndo, End
<1>3. db' = db BY <1>2 DEF db, Last
<1>4. sidecar = op.prev /\ db = op.prev BY <1>1 DEF MutationInv
<1>5. op.next # Nothing /\ op.prev # Absent BY <1>1, TypeFacts
<1>6. RegistryTypeOK' BY <1>1, <1>2 DEF RegistryInv, RegistryTypeOK
<1>7. RegistryInv' BY <1>1, <1>2, <1>3, <1>4, <1>5, <1>6 DEF RegistryInv
<1>8. /\ projects = op.prev /\ projects' = op.prev
      /\ undecided = op.next /\ undecided' = Nothing
  BY <1>1, <1>2, <1>3, <1>4 DEF projects, undecided
<1>9. Promise!Fail BY <1>2, <1>5, <1>8 DEF Promise!Fail
<1> QED BY <1>7, <1>9 DEF Kept, Promise!Next

\* The one write that fails is not that of an undo, which follows a failure.
LEMMA StepFailsStep ==
    ASSUME MaxFailures <= 1, RegistryInv, StepFails
    PROVE  RegistryInv' /\ Kept
<1>1. /\ op # Nothing /\ failures < MaxFailures /\ failures' = failures + 1
      /\ UNCHANGED <<main, wal, sidecar, durable, ops>>
  BY DEF StepFails, files
<1>2. failures \in Nat /\ failures' \in 0 .. MaxFailures /\ failures = 0
  BY <1>1, NoData DEF RegistryInv, RegistryTypeOK
<1>3. db' = db BY <1>1 DEF db, Last
<1>4. CASE phase = "up"
  <2> DEFINE step == "undo"
  <2>1. MutationInv /\ durable # Absent BY <1>1, <1>4, Underway
  <2>2. op.step \in {"write", "sync", "commit"}
    BY <1>1, <1>2, <2>1, TypeFacts DEF MutationInv, Steps
  <2>3. op' = [op EXCEPT !.step = "undo"] /\ UNCHANGED <<phase, answer>>
    BY <1>4, <2>2 DEF StepFails, Undo, GoTo
  <2>4. /\ op' # Nothing /\ op' \in Ops
        /\ op'.prev = op.prev /\ op'.next = op.next /\ op'.step = "undo"
    <3>1. step \in Steps /\ op' = [op EXCEPT !.step = step]
      BY <2>3 DEF Steps
    <3> HIDE DEF step
    <3>2. /\ op' # Nothing /\ op' \in Ops
          /\ op'.prev = op.prev /\ op'.next = op.next /\ op'.step = step
      BY <1>1, <3>1, StepTo
    <3> QED BY <3>2 DEF step
  <2>5. RegistryTypeOK' BY <1>1, <1>2, <2>3, <2>4 DEF RegistryInv, RegistryTypeOK
  <2>6. MutationInv' BY <1>1, <1>2, <1>3, <2>1, <2>2, <2>4 DEF MutationInv
  <2>7. RegistryInv' BY <1>1, <1>3, <1>4, <2>1, <2>3, <2>4, <2>5, <2>6 DEF RegistryInv
  <2>8. Kept BY <1>1, <1>4, <2>3, <2>4 DEF Kept, projects, undecided
  <2> QED BY <2>7, <2>8
<1>5. CASE phase = "restoring"
  <2>1. op' = Nothing /\ phase' = "down" /\ UNCHANGED answer /\ answer = "none"
    BY <1>1, <1>5, Underway DEF StepFails, Undo, End
  <2>2. RegistryTypeOK' BY <1>1, <1>2, <2>1 DEF RegistryInv, RegistryTypeOK
  <2>3. RegistryInv' BY <1>1, <1>3, <2>1, <2>2 DEF RegistryInv
  <2>4. Kept
    BY <1>1, <1>3, <1>5, <2>1 DEF Kept, projects, undecided, Disk
  <2> QED BY <2>3, <2>4
<1> QED BY <1>1, <1>4, <1>5, Underway

LEMMA CheckpointStep ==
    ASSUME RegistryInv, Checkpoint PROVE RegistryInv' /\ Kept
<1>1. /\ phase \in {"up", "restoring"}
      /\ UNCHANGED <<sidecar, durable, phase, op, answer, ops, failures>>
  BY DEF Checkpoint
<1>2. PICK k \in 1 .. Len(wal) : main' = wal[k] /\ wal' = SubSeq(wal, k + 1, Len(wal))
  BY DEF Checkpoint
<1>3. /\ wal' \in Seq(Registries) /\ main' \in Registries /\ db' = db
  BY <1>2, TypeFacts, CheckpointMoves
<1>4. wal # <<>> /\ durable # Absent
  <2>1. wal # <<>> BY <1>2
  <2> QED BY <2>1 DEF RegistryInv
<1>5. RegistryTypeOK' BY <1>1, <1>3 DEF RegistryInv, RegistryTypeOK
<1>6. main' # Absent BY <1>3, TypeFacts
<1>7. MutationInv => MutationInv' BY <1>1, <1>3 DEF MutationInv
<1>8. RestoreInv => RestoreInv' BY <1>1, <1>3 DEF RestoreInv
<1>9. RegistryInv' BY <1>1, <1>3, <1>4, <1>5, <1>6, <1>7, <1>8 DEF RegistryInv
<1>10. Kept
  BY <1>1, <1>3 DEF Kept, projects, undecided, Disk
<1> QED BY <1>9, <1>10

LEMMA CloseStep ==
    ASSUME RegistryInv, Close PROVE RegistryInv' /\ Kept
<1>1. /\ phase = "up" /\ op = Nothing /\ phase' = "down" /\ answer' = "none"
      /\ main' = Last(wal, main) /\ wal' = <<>>
      /\ UNCHANGED <<sidecar, durable, op, ops, failures>>
  BY DEF Close
<1>2. /\ sidecar = db /\ durable = db /\ db \in Registries
      /\ db # Absent /\ db # Nothing
  BY <1>1, TypeFacts DEF RegistryInv
<1>3. main' \in Registries
  <2>1. main # Absent \/ wal # <<>> BY <1>1 DEF RegistryInv
  <2>2. CASE wal = <<>> BY <1>1, <2>1, <2>2, TypeFacts, LastOf
  <2>3. CASE wal # <<>> BY <1>1, <2>3, TypeFacts, LastOf
  <2> QED BY <2>2, <2>3
<1>4. RegistryTypeOK' BY <1>1, <1>3 DEF RegistryInv, RegistryTypeOK
<1>5. RegistryInv' BY <1>1, <1>2, <1>4 DEF RegistryInv
<1>6. /\ projects = db /\ projects' = db
      /\ undecided = Nothing /\ undecided' = Nothing
  BY <1>1, <1>2 DEF projects, undecided, Disk
<1>7. Promise!Stop BY <1>1, <1>2, <1>6 DEF Promise!Stop
<1> QED BY <1>5, <1>7 DEF Kept, Promise!Next

\* Of the two sidecars a process leaves behind when it is killed, either is one
\* a caller saw.
LEMMA Survivors ==
    ASSUME RegistryInv, phase = "up"
    PROVE  /\ {sidecar, durable} \subseteq {projects, undecided} \ {Nothing}
           /\ sidecar \in Registries /\ durable \in Registries
           /\ Absent \notin {sidecar, durable}
<1>1. CASE op = Nothing
  BY <1>1, TypeFacts DEF RegistryInv, projects, undecided
<1>2. CASE op # Nothing
  <2>1. MutationInv BY <1>2, Underway
  <2>2. op.step \in Steps /\ op.prev \in Registries /\ op.next \in Registries
    BY <1>2, TypeFacts
  <2>3. {sidecar, durable} \subseteq {op.prev, op.next}
    BY <2>1, <2>2 DEF MutationInv, Steps
  <2> QED BY <1>2, <2>2, <2>3, TypeFacts DEF projects, undecided
<1> QED BY <1>1, <1>2

LEMMA CrashStep ==
    ASSUME RegistryInv, Crash PROVE RegistryInv' /\ Kept
<1>1. /\ phase' = "down" /\ op' = Nothing /\ answer' = "none"
      /\ UNCHANGED <<main, wal, sidecar, durable, ops, failures>>
  BY DEF Crash, Halt, files
<1>2. db' = db BY <1>1 DEF db, Last
<1>3. RegistryTypeOK' BY <1>1 DEF RegistryInv, RegistryTypeOK
<1>4. RegistryInv' BY <1>1, <1>2, <1>3 DEF RegistryInv
<1>5. CASE phase = "up"
  <2>1. /\ {sidecar, durable} \subseteq {projects, undecided} \ {Nothing}
        /\ Absent \notin {sidecar, durable}
    BY <1>5, Survivors
  <2>2. /\ projects' = durable
        /\ undecided' = IF sidecar = durable THEN Nothing ELSE sidecar
    BY <1>1, <2>1 DEF projects, undecided, Disk
  <2>3. Promise!Stop BY <1>1, <2>1, <2>2 DEF Promise!Stop
  <2> QED BY <1>4, <2>3 DEF Kept, Promise!Next
<1>6. CASE phase # "up"
  <2>1. answer = "none" BY <1>6 DEF RegistryInv
  <2>2. Kept
    BY <1>1, <1>2, <1>6, <2>1 DEF Kept, projects, undecided, Disk
  <2> QED BY <1>4, <2>2
<1> QED BY <1>5, <1>6

LEMMA PowerLossStep ==
    ASSUME RegistryInv, PowerLoss PROVE RegistryInv' /\ Kept
<1>1. /\ phase' = "down" /\ op' = Nothing /\ answer' = "none"
      /\ sidecar' \in {sidecar, durable} /\ durable' = sidecar'
      /\ UNCHANGED <<main, ops, failures>>
  BY DEF PowerLoss, Halt
<1>2. PICK k \in 0 .. Len(wal) : wal' = SubSeq(wal, 1, k) BY DEF PowerLoss
<1>3. wal' \in Seq(Registries) /\ (wal = <<>> => wal' = <<>>)
  <2>1. wal \in Seq(Registries) BY TypeFacts
  <2>2. wal = <<>> => k = 0 BY <2>1
  <2>3. SubSeq(wal, 1, k) \in Seq(Registries) /\ Len(SubSeq(wal, 1, k)) = k BY <2>1
  <2> QED BY <1>2, <2>2, <2>3
<1>4. /\ sidecar \in Registries \cup {Absent} /\ durable \in Registries \cup {Absent}
      /\ Absent \notin Registries /\ Nothing \notin Registries
  BY TypeFacts
<1>5. RegistryTypeOK' BY <1>1, <1>3, <1>4 DEF RegistryInv, RegistryTypeOK
<1>6. durable = Absent => /\ wal = <<>> /\ wal' = <<>> /\ db' = db
                          /\ sidecar \in {Absent, db} /\ phase # "up"
  <2> SUFFICES ASSUME durable = Absent
               PROVE  /\ wal = <<>> /\ wal' = <<>> /\ db' = db
                      /\ sidecar \in {Absent, db} /\ phase # "up"
    OBVIOUS
  <2>1. wal = <<>> /\ wal' = <<>> /\ sidecar \in {Absent, db} BY <1>3 DEF RegistryInv
  <2>2. db' = db BY <1>1, <2>1 DEF db, Last
  <2>3. phase # "up" BY <1>4, Survivors
  <2> QED BY <2>1, <2>2, <2>3
<1>7. durable # Absent => sidecar # Absent BY DEF RegistryInv
<1>8. RegistryInv'
  <2>1. durable' = Absent => durable = Absent BY <1>1, <1>7
  <2>2. durable' = Absent => wal' = <<>> /\ sidecar' = Absent BY <1>1, <1>6, <2>1
  <2> QED BY <1>1, <1>5, <2>2 DEF RegistryInv
<1>9. undecided' = Nothing /\ projects' = Disk(sidecar)'
  BY <1>1 DEF projects, undecided, Disk
<1>10. CASE phase = "up"
  <2>1. /\ {sidecar, durable} \subseteq {projects, undecided} \ {Nothing}
        /\ Absent \notin {sidecar, durable}
    BY <1>10, Survivors
  <2>2. projects' = sidecar' BY <1>1, <1>9, <2>1 DEF Disk
  <2>3. Promise!Stop BY <1>1, <1>9, <2>1, <2>2 DEF Promise!Stop
  <2> QED BY <1>8, <2>3 DEF Kept, Promise!Next
<1>11. CASE phase # "up"
  <2>1. projects = Disk(durable)
    BY <1>11 DEF projects
  <2>2. Disk(durable) # Disk(sidecar) =>
           undecided = Disk(sidecar)
    BY <1>11 DEF undecided
  <2>3. db \in Registries BY TypeFacts
  <2>4. CASE durable = Absent
    <3>1. Disk(sidecar)' = db /\ projects = db
      BY <1>1, <1>6, <2>1, <2>4 DEF Disk
    <3> QED BY <1>1, <1>4, <1>8, <1>9, <2>3, <3>1
        DEF Kept, Promise!Next, Promise!Stop
  <2>5. CASE durable # Absent
    <3>1. /\ Disk(sidecar)' = sidecar' /\ Disk(durable) = durable
          /\ Disk(sidecar) = sidecar
      BY <1>1, <1>7, <2>5 DEF Disk
    <3>2. projects' \in {projects, undecided} \ {Nothing}
      BY <1>1, <1>4, <1>7, <1>9, <2>1, <2>2, <2>5, <3>1
    <3> QED BY <1>1, <1>8, <1>9, <3>2 DEF Kept, Promise!Next, Promise!Stop
  <2> QED BY <2>4, <2>5
<1> QED BY <1>10, <1>11

LEMMA RegistryStep ==
    ASSUME MaxFailures <= 1, RegistryInv, [RegistryNext]_registryVars
    PROVE  RegistryInv' /\ Kept
<1>1. CASE UNCHANGED registryVars
  <2>1. UNCHANGED <<main, wal, sidecar, durable, phase, op, answer, ops, failures>>
    BY <1>1 DEF registryVars, files
  <2>2. db' = db BY <2>1 DEF db, Last
  <2>3. RegistryInv' BY <2>1, <2>2 DEF RegistryInv, RegistryTypeOK, MutationInv, RestoreInv
  <2> QED BY <2>1, <2>3, Stutters
<1>2. CASE Write
  BY <1>2, WriteSidecarStep, SyncSidecarStep, CommitStep, UndoSidecarStep, SyncUndoStep,
     StepFailsStep DEF Write
<1> QED
  BY <1>1, <1>2, PreflightStep, RestoreBeginStep, LoseDatabaseStep, MutationStep,
     CheckpointStep, CloseStep, CrashStep, PowerLossStep DEF RegistryNext

LEMMA RegistryStarts ==
    ASSUME RegistryInit PROVE RegistryInv /\ Promise!Init
<1>1. /\ main \in Registries \cup {Absent} /\ wal = <<>> /\ sidecar = Absent
      /\ durable = Absent /\ phase = "down" /\ op = Nothing /\ answer = "none"
      /\ ops = 0 /\ failures = 0
  BY DEF RegistryInit
<1>2. wal \in Seq(Registries) BY <1>1
<1>3. RegistryTypeOK BY <1>1, <1>2, NoData DEF RegistryTypeOK
<1>4. RegistryInv BY <1>1, <1>3 DEF RegistryInv
<1>5. projects \in Registries /\ undecided = Nothing
  BY <1>1, <1>2, Database DEF projects, undecided, Disk
<1> QED BY <1>1, <1>4, <1>5 DEF Promise!Init

\* The registry implements its promise, when at most one write fails: what was
\* answered with success is there for good, what was answered with an error
\* never happened, and what a crash, a power loss or the loss of the database
\* cut off happened entirely or not at all (project_registry.go:234,
\* README.md:103).
THEOREM RegistryKeepsPromise ==
    MaxFailures <= 1 => (RegistrySpec => KeepsPromise)
<1> SUFFICES ASSUME MaxFailures <= 1
             PROVE  RegistrySpec => KeepsPromise
  OBVIOUS
<1>1. RegistryInit => RegistryInv /\ Promise!Init BY RegistryStarts
<1>2. RegistryInv /\ [RegistryNext]_registryVars => RegistryInv' /\ Kept BY RegistryStep
<1>3. RegistryInv => RegistryTypeOK BY DEF RegistryInv
<1> QED
  BY <1>1, <1>2, <1>3, PTL
     DEF RegistrySpec, KeepsPromise, Promise!Spec, Kept

=============================================================================
