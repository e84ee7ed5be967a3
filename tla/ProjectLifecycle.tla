-------------------------- MODULE ProjectLifecycle --------------------------
(***************************************************************************)
(* How the process uses the supervisor: main.go starts, serves and stops;  *)
(* the handlers of internal/api/projects.go create, delete and rescan      *)
(* projects; the projects table of the store says which projects exist;    *)
(* workers write a project's cache rows.  The process may crash and is     *)
(* started again: the database survives, the supervisor does not.          *)
(*                                                                         *)
(* createProject and deleteProject hold projectsMu throughout,             *)
(* rescanProject does not take it.                                         *)
(***************************************************************************)
EXTENDS Supervisor

CONSTANTS
    Main,          \* the goroutine of main, one of Callers
    ZeroProject,   \* model.Project{}: what GetProject returns with an error
    None,          \* no root
    Requests       \* the kinds of request clients make

RequestKinds == {"create", "delete", "rescan", "disconnect"}

ASSUME LifecycleAssumption ==
    /\ Main \in Callers /\ ZeroProject \in Project /\ None \notin Roots
    /\ Requests \subseteq RequestKinds

VARIABLES
    stage,    \* what main does
    stored,   \* the projects table: the root of each project, or None
    indexed,  \* the root whose content the cache rows of a project come from
    mu,       \* the holder of Server.projectsMu
    hpc,      \* where a create or delete handler is
    asked,    \* its project
    skipped,  \* projects that were to be registered and were not: Start found
              \* them invalid, or the client of the request had gone
    revived   \* history: projects a rescan registered as they were before a delete

tableVars == <<stored, indexed>>
handlerVars == <<mu, hpc, asked>>
lifeVars == <<stage, stored, indexed, mu, hpc, asked, skipped, revived>>
allVars == <<vars, lifeVars>>

Named == Ids \ {ZeroProject.id}
Clients == Callers \ {Main}
Stages == {"boot", "starting", "serving", "stopping"}
HandlerPCs == {"idle", "register", "remove", "removing"}
Pairs == {p \in Project : p.id \in Named}

StoredProjects == {p \in Pairs : stored[p.id] = p.root}

\* What a fresh process starts from: everything but the database.
Fresh ==
    /\ stage = "boot" /\ mu = NoCaller /\ skipped = {}
    /\ hpc = [c \in Callers |-> "idle"]
    /\ asked = [c \in Callers |-> AnyProject]

LifeInit ==
    /\ Init /\ Fresh
    /\ stored \in [Ids -> {None}]
    /\ indexed = stored
    /\ revived = {}

\* Room in the bound MaxRunners for the registrations handlers still owe.
Owing == {c \in Callers : hpc[c] = "register"}
RoomHere == Room(1 + Cardinality(Owing))

-----------------------------------------------------------------------------
(* main *)

MainStart ==
    /\ stage = "boot" /\ stage' = "starting"
    /\ Start(Main)
    /\ UNCHANGED <<tableVars, handlerVars, skipped, revived>>

MainStartSteps ==
    /\ stage = "starting"
    /\ \/ StartList(Main, StoredProjects) /\ UNCHANGED skipped
       \/ StartDone(Main) /\ UNCHANGED skipped
       \/ \E p \in Pairs :
             /\ StartNext(Main, p)
             /\ skipped' = IF created' = created THEN skipped \cup {p.id} ELSE skipped
    /\ UNCHANGED <<stage, tableVars, handlerVars, revived>>

\* Start is over and the configured projects are registered: ListenAndServe.
MainServe ==
    /\ stage = "starting" /\ pc[Main] = "idle" /\ hpc[Main] = "idle"
    /\ stage' = "serving"
    /\ UNCHANGED <<vars, tableVars, handlerVars, skipped, revived>>

\* SIGTERM, or the listener fails: the deferred Stop runs, after a Shutdown
\* that waits for handlers for a bounded time only.
MainStop ==
    /\ stage = "serving" /\ stage' = "stopping"
    /\ Stop(Main)
    /\ UNCHANGED <<tableVars, handlerVars, skipped, revived>>

Terminate == CancelRoot /\ stage # "boot" /\ UNCHANGED lifeVars

\* The process ends, by itself or killed, and is started again.
Crash ==
    /\ stage # "boot"
    /\ stage' = "boot" /\ mu' = NoCaller /\ skipped' = {}
    /\ hpc' = [c \in Callers |-> "idle"]
    /\ asked' = [c \in Callers |-> AnyProject]
    /\ ctx' = "nil" /\ stopper' = NoCaller
    /\ runners' = [i \in Ids |-> NoRunner]
    /\ created' = 0
    /\ project' = [r \in Runners |-> AnyProject]
    /\ previous' = [r \in Runners |-> NoRunner]
    /\ cancelled' = [r \in Runners |-> FALSE]
    /\ phase' = [r \in Runners |-> "unused"]
    /\ watching' = [r \in Runners |-> FALSE]
    /\ serving' = [r \in Runners |-> NoCaller]
    /\ pc' = [c \in Callers |-> "idle"]
    /\ arg' = [c \in Callers |-> AnyProject]
    /\ target' = [c \in Callers |-> NoRunner]
    /\ waits' = [c \in Callers |-> {}]
    /\ todo' = [c \in Callers |-> {}]
    /\ outcome' = [c \in Callers |-> "none"]
    /\ UNCHANGED <<tableVars, revived>>

-----------------------------------------------------------------------------
(* createProject, and registerProject of main.go for configured projects   *)

CanBegin(c, kind) ==
    /\ pc[c] = "idle" /\ hpc[c] = "idle"
    /\ c \in Clients => stage = "serving" /\ kind \in Requests
    /\ c = Main => stage = "starting" /\ kind = "create"

RootFree(p) == \A i \in Named : stored[i] # p.root

\* GetProjectByRoot finds nothing; UpsertProject commits the row under an
\* unused identifier.  A new row has no cached content.
CreateCommit(c, p) ==
    /\ CanBegin(c, "create") /\ RoomHere
    /\ c \in Clients => mu = NoCaller
    /\ RootFree(p) /\ stored[p.id] = None
    /\ stored' = [stored EXCEPT ![p.id] = p.root]
    /\ indexed' = [indexed EXCEPT ![p.id] = None]
    /\ mu' = IF c = Main THEN mu ELSE c
    /\ hpc' = [hpc EXCEPT ![c] = "register"]
    /\ asked' = [asked EXCEPT ![c] = p]
    /\ UNCHANGED <<vars, stage, skipped, revived>>

\* GetProject, then Register.  createProject drops the error of GetProject:
\* when the client has gone it registers the zero project it got.
CreateRegister(c) ==
    /\ hpc[c] = "register"
    /\ \/ register(asked[c], FALSE) /\ UNCHANGED skipped
       \/ /\ c \in Clients /\ "disconnect" \in Requests
          /\ register(ZeroProject, FALSE)
          /\ skipped' = skipped \cup {asked[c].id}
    /\ UNCHANGED <<ctx, stopper, watching, serving, callVars>>
    /\ mu' = IF c = Main THEN mu ELSE NoCaller
    /\ hpc' = [hpc EXCEPT ![c] = "idle"]
    /\ UNCHANGED <<stage, tableVars, asked, revived>>

\* createProject on a root that is stored: Ensure the stored project.
CreateExisting(c, p) ==
    /\ c \in Clients /\ CanBegin(c, "create") /\ mu = NoCaller /\ RoomHere
    /\ stored[p.id] = p.root
    /\ Ensure(c, p)
    /\ skipped' = IF created' = created THEN skipped ELSE skipped \ {p.id}
    /\ UNCHANGED <<stage, tableVars, handlerVars, revived>>

-----------------------------------------------------------------------------
(* deleteProject: the row and, by cascade, its cache; then Remove.         *)

\* Mutant: projectsMu is released before the runner is removed.
DeleteCommitUnlocked(c, i) ==
    /\ c \in Clients /\ CanBegin(c, "delete") /\ mu = NoCaller
    /\ stored[i] # None
    /\ stored' = [stored EXCEPT ![i] = None]
    /\ indexed' = [indexed EXCEPT ![i] = None]
    /\ hpc' = [hpc EXCEPT ![c] = "remove"]
    /\ asked' = [asked EXCEPT ![c] = [@ EXCEPT !.id = i]]
    /\ skipped' = skipped \ {i}
    /\ UNCHANGED <<vars, stage, mu, revived>>

DeleteCommit(c, i) ==
    /\ c \in Clients /\ CanBegin(c, "delete") /\ mu = NoCaller
    /\ stored[i] # None
    /\ stored' = [stored EXCEPT ![i] = None]
    /\ indexed' = [indexed EXCEPT ![i] = None]
    /\ mu' = c
    /\ hpc' = [hpc EXCEPT ![c] = "remove"]
    /\ asked' = [asked EXCEPT ![c] = [@ EXCEPT !.id = i]]
    /\ skipped' = skipped \ {i}
    /\ UNCHANGED <<vars, stage, revived>>

\* Mutant: the handler answers without waiting for the worker.
DeleteRemoveAsync(c) ==
    /\ hpc[c] = "remove"
    /\ LET r == runners[asked[c].id]
       IN  /\ runners' = [runners EXCEPT ![asked[c].id] = NoRunner]
           /\ cancelled' = [s \in Runners |-> cancelled[s] \/ s = r]
    /\ hpc' = [hpc EXCEPT ![c] = "idle"]
    /\ mu' = NoCaller
    /\ UNCHANGED <<ctx, stopper, creation, workerVars, callVars,
                   stage, tableVars, asked, skipped, revived>>

DeleteRemove(c) ==
    /\ hpc[c] = "remove"
    /\ Remove(c, asked[c].id)
    /\ IF runners[asked[c].id] = NoRunner
       THEN hpc' = [hpc EXCEPT ![c] = "idle"] /\ mu' = NoCaller
       ELSE hpc' = [hpc EXCEPT ![c] = "removing"] /\ UNCHANGED mu
    /\ UNCHANGED <<stage, tableVars, asked, skipped, revived>>

DeleteFinish(c) ==
    /\ hpc[c] = "removing"
    /\ RemoveFinish(c)
    /\ hpc' = [hpc EXCEPT ![c] = "idle"]
    /\ mu' = NoCaller
    /\ UNCHANGED <<stage, tableVars, asked, skipped, revived>>

-----------------------------------------------------------------------------
(* rescanProject                                                           *)

RescanProject(c, i) ==
    /\ c \in Clients /\ CanBegin(c, "rescan") /\ RoomHere
    /\ Rescan(c, i)
    /\ UNCHANGED lifeVars

\* GetProject and the validations of Rescan read the projects table.
RescanRead(c) ==
    /\ \/ \E p \in StoredProjects : RestoreFound(c, p)
       \/ RestoreFail(c)
    /\ UNCHANGED lifeVars

\* What the rescan read of its project is no longer so, and no deleteProject is
\* about to remove the runner.
Outdated(c) ==
    /\ stored[arg[c].id] # arg[c].root
    /\ ~\E d \in Clients : hpc[d] = "remove" /\ asked[d].id = arg[c].id

RescanEnsure(c) ==
    LET i == arg[c].id
    IN  /\ RestoreEnsure(c)
        /\ IF Started /\ runners[i] = NoRunner
           THEN /\ skipped' = skipped \ {i}
                /\ revived' = IF Outdated(c) THEN revived \cup {i} ELSE revived
           ELSE UNCHANGED <<skipped, revived>>
        /\ UNCHANGED <<stage, tableVars, handlerVars>>

RescanSteps(c) ==
    /\ \/ RestoreLookup(c) \/ AcceptRescan(c) \/ SendStopped(c)
       \/ AwaitReturn(c)
    /\ UNCHANGED lifeVars

-----------------------------------------------------------------------------
(* Workers *)

\* A scan commits what it read below the root of its runner; the transaction
\* fails when the project row is gone.
IndexWrite(r) ==
    LET p == project[r]
    IN  /\ phase[r] = "busy"
        /\ stored[p.id] # None
        /\ indexed' = [indexed EXCEPT ![p.id] = p.root]
        /\ UNCHANGED <<vars, stage, stored, handlerVars, skipped, revived>>

Background ==
    /\ \/ \E r \in Runners : WorkerStep(r) \/ WatcherExit(r)
       \/ StopFinish(Main)
       \/ \E c \in Clients : RescanExpire(c)
    /\ UNCHANGED lifeVars

HandlerStep(c) ==
    \/ CreateRegister(c) \/ DeleteRemove(c) \/ DeleteFinish(c)
    \/ RescanRead(c) \/ RescanEnsure(c) \/ RescanSteps(c)

LifeNext ==
    \/ MainStart \/ MainStartSteps \/ MainServe \/ MainStop \/ Terminate \/ Crash
    \/ \E c \in Callers :
          \/ \E p \in Pairs : CreateCommit(c, p) \/ CreateExisting(c, p)
          \/ \E i \in Named : DeleteCommit(c, i) \/ RescanProject(c, i)
          \/ HandlerStep(c)
    \/ \E r \in Runners : IndexWrite(r)
    \/ Background

LifeSpec == LifeInit /\ [][LifeNext]_allVars

-----------------------------------------------------------------------------
\* The types; only projects with a row are skipped.
LifeTypeOK ==
    /\ TypeOK
    /\ stage \in Stages
    /\ stored \in [Ids -> Roots \cup {None}]
    /\ indexed \in [Ids -> Roots \cup {None}]
    /\ mu \in Callers \cup {NoCaller}
    /\ hpc \in [Callers -> HandlerPCs]
    /\ asked \in [Callers -> Project]
    /\ skipped \subseteq {i \in Ids : stored[i] # None}
    /\ revived \subseteq Named

\* What a project's cache holds was read below the root the project is
\* registered with, also when the identifier was deleted and created again
\* with another root while a worker of its former life was scanning, as long
\* as no rescan has revived it (projects.go:49-127, supervisor.go:276-290).
CachedFromOwnRoot ==
    /\ LifeTypeOK
    /\ \A i \in Named \ revived : indexed[i] # None => indexed[i] = stored[i]

QuietUnlessStored(ids) ==
    mu = NoCaller /\ stopper = NoCaller =>
        \A i \in ids : stored[i] = None =>
            /\ runners[i] = NoRunner
            /\ \A r \in Runners : Alive(r) => project[r].id # i

\* Once deleteProject has returned, no goroutine of the project is left and
\* none is mapped, until it is created again, unless a rescan that had read
\* the project before registers it once more: nothing else brings a deleted
\* project back (projects.go:116-127, supervisor.go Remove).
DeletedStaysQuiet == QuietUnlessStored(Named \ revived)

\* The same without the exception.
DeletedIsQuiet == QuietUnlessStored(Named)

\* Every stored project is observed at its own root by a runner nobody has
\* cancelled, unless it was never registered, or revived: no order of creating,
\* deleting, rescanning and restarting leaves a registered project without
\* refreshing (projects.go:49-127, supervisor.go:209-323).
StoredIsObserved ==
    stage = "serving" /\ mu = NoCaller =>
        \A i \in Named \ (skipped \cup revived) : stored[i] # None =>
            LET r == runners[i]
            IN  /\ r # NoRunner
                /\ project[r].root = stored[i]
                /\ cancelled[r] => ctx = "cancelled"

=============================================================================
