----------------------------- MODULE Supervisor -----------------------------
(***************************************************************************)
(* The project supervisor of internal/app/supervisor.go: the map of        *)
(* project runners, the worker goroutine and the watcher goroutine of each *)
(* runner, and the callers (API handlers, main) that Start, Stop,          *)
(* Register, Ensure, Remove and Rescan.  A step is one critical section of *)
(* Supervisor.mu, one channel operation, or one decision of a worker.      *)
(*                                                                         *)
(* Runners are numbered in the order register creates them; MaxRunners     *)
(* bounds how many a behaviour creates.                                    *)
(***************************************************************************)
EXTENDS Naturals, FiniteSets

CONSTANTS
    Ids,          \* project identifiers
    Roots,        \* project root directories
    Callers,      \* goroutines that call the supervisor
    NoCaller,
    MaxRunners    \* bound on the runners created

ASSUME MaxRunnersAssumption == MaxRunners \in Nat
ASSUME NoCallerAssumption == NoCaller \notin Callers
ASSUME ProjectAssumption == Ids # {} /\ Roots # {}

Runners == 1 .. MaxRunners
NoRunner == 0
Project == [id : Ids, root : Roots]

VARIABLES
    ctx,        \* s.ctx and s.cancel: "nil", "live", or "cancelled" by Start's caller
    stopper,    \* s.stopDone: the caller that runs Stop, or NoCaller
    runners,    \* s.runners
    created,    \* runners created so far
    project,    \* runner.project
    previous,   \* the runner a new worker waits for
    cancelled,  \* the runner's context is cancelled
    phase,      \* where the worker goroutine of the runner is
    watching,   \* the watcher goroutine of the runner is alive
    serving,    \* the caller whose rescan the worker runs
    pc, arg, target, waits, todo, outcome  \* the callers' local state

mapVars == <<ctx, stopper, runners>>
creation == <<created, project, previous>>
workerVars == <<phase, watching, serving>>
callVars == <<pc, arg, target, waits, todo, outcome>>
vars == <<mapVars, creation, cancelled, workerVars, callVars>>

Phases == {"unused", "queued", "busy", "select", "draining", "done"}
PCs == {"idle", "startWait", "startRetry", "startList", "startLoop",
        "stopWait", "stopJoin", "removeWait",
        "restore", "ensure", "lookup", "send", "await", "answered"}
Outcomes == {"none", "served", "error", "stopped", "lost", "expired"}

AnyProject == CHOOSE p \in Project : TRUE

Init ==
    /\ ctx = "nil" /\ stopper = NoCaller
    /\ runners = [i \in Ids |-> NoRunner]
    /\ created = 0
    /\ project = [r \in Runners |-> AnyProject]
    /\ previous = [r \in Runners |-> NoRunner]
    /\ cancelled = [r \in Runners |-> FALSE]
    /\ phase = [r \in Runners |-> "unused"]
    /\ watching = [r \in Runners |-> FALSE]
    /\ serving = [r \in Runners |-> NoCaller]
    /\ pc = [c \in Callers |-> "idle"]
    /\ arg = [c \in Callers |-> AnyProject]
    /\ target = [c \in Callers |-> NoRunner]
    /\ waits = [c \in Callers |-> {}]
    /\ todo = [c \in Callers |-> {}]
    /\ outcome = [c \in Callers |-> "none"]

Goto(c, l) == pc' = [pc EXCEPT ![c] = l]
Return(c, o) == Goto(c, "idle") /\ outcome' = [outcome EXCEPT ![c] = o]

-----------------------------------------------------------------------------
(* register: one critical section, then the goroutine is queued behind the *)
(* worker it replaces.                                                     *)

\* The guard of register: outside a started supervisor nothing is created.
Started == ctx # "nil" /\ stopper = NoCaller

AddRunner(p) ==
    LET r == created + 1
        old == runners[p.id]
    IN  /\ r \in Runners
        /\ created' = r
        /\ runners' = [runners EXCEPT ![p.id] = r]
        /\ project' = [project EXCEPT ![r] = p]
        /\ previous' = [previous EXCEPT ![r] = old]
        /\ phase' = [phase EXCEPT ![r] = "queued"]
        /\ cancelled' = [s \in Runners |->
                            IF s = r THEN ctx = "cancelled"
                                     ELSE cancelled[s] \/ s = old]

register(p, onlyIfAbsent) ==
    \/ /\ Started
       /\ onlyIfAbsent => runners[p.id] = NoRunner
       /\ AddRunner(p)
    \/ /\ ~Started \/ (onlyIfAbsent /\ runners[p.id] # NoRunner)
       /\ UNCHANGED <<runners, creation, cancelled, phase>>

\* Runners that calls in progress may still create: a call begins only when
\* MaxRunners leaves room for its own.
Outstanding ==
    LET Owed(c) == Cardinality(todo[c]) +
                   IF pc[c] \in {"restore", "ensure"} THEN 1
                   ELSE IF pc[c] \in {"startWait", "startRetry", "startList"}
                        THEN Cardinality(Ids) ELSE 0
        Sum[S \in SUBSET Callers] ==
            IF S = {} THEN 0
            ELSE LET c == CHOOSE x \in S : TRUE IN Owed(c) + Sum[S \ {c}]
    IN  Sum[Callers]

Room(n) == created + Outstanding + n <= MaxRunners

Register(c, p) ==
    /\ pc[c] = "idle" /\ Room(1)
    /\ register(p, FALSE)
    /\ UNCHANGED <<ctx, stopper, watching, serving, callVars>>

Ensure(c, p) ==
    /\ pc[c] = "idle" /\ Room(1)
    /\ register(p, TRUE)
    /\ UNCHANGED <<ctx, stopper, watching, serving, callVars>>

-----------------------------------------------------------------------------
(* Stop: cancel everything, empty the map, wait for the workers that were  *)
(* in it.                                                                  *)

\* Mutant: waits for the entry of every identifier, mapped or not.
BeginStopWaitsAll(c) ==
    /\ stopper' = c /\ ctx' = "nil"
    /\ waits' = [waits EXCEPT ![c] = {runners[i] : i \in Ids}]
    /\ runners' = [i \in Ids |-> NoRunner]
    /\ cancelled' = [r \in Runners |-> cancelled[r] \/ r <= created]
    /\ Goto(c, "stopWait")
    /\ UNCHANGED <<creation, workerVars, arg, target, todo, outcome>>

BeginStop(c) ==
    /\ stopper' = c /\ ctx' = "nil"
    /\ waits' = [waits EXCEPT ![c] = {runners[i] : i \in Ids} \ {NoRunner}]
    /\ runners' = [i \in Ids |-> NoRunner]
    /\ cancelled' = [r \in Runners |-> cancelled[r] \/ r <= created]
    /\ Goto(c, "stopWait")
    /\ UNCHANGED <<creation, workerVars, arg, target, todo, outcome>>

StopRun(c) ==
    \/ /\ Started
       /\ BeginStop(c)
    \/ /\ stopper # NoCaller
       /\ Goto(c, "stopJoin")
       /\ UNCHANGED <<mapVars, creation, cancelled, workerVars,
                      arg, target, waits, todo, outcome>>
    \/ /\ ctx = "nil" /\ stopper = NoCaller
       /\ Goto(c, "idle")
       /\ UNCHANGED <<mapVars, creation, cancelled, workerVars,
                      arg, target, waits, todo, outcome>>

Stop(c) == pc[c] = "idle" /\ StopRun(c)

\* Closing stopDone wakes the callers that joined this Stop and the Starts
\* that wait for it.
StopFinish(c) ==
    /\ pc[c] = "stopWait"
    /\ \A r \in waits[c] : phase[r] = "done"
    /\ stopper' = NoCaller
    /\ waits' = [waits EXCEPT ![c] = {}]
    /\ pc' = [d \in Callers |->
                CASE d = c \/ pc[d] = "stopJoin" -> "idle"
                  [] d # c /\ pc[d] = "startWait" -> "startRetry"
                  [] OTHER -> pc[d]]
    /\ UNCHANGED <<ctx, runners, creation, cancelled, workerVars,
                   arg, target, todo, outcome>>

-----------------------------------------------------------------------------
(* Start                                                                   *)

StartLock(c) ==
    /\ \/ stopper # NoCaller /\ Goto(c, "startWait") /\ UNCHANGED ctx
       \/ stopper = NoCaller /\ ctx # "nil" /\ Goto(c, "idle") /\ UNCHANGED ctx
       \/ stopper = NoCaller /\ ctx = "nil" /\ Goto(c, "startList") /\ ctx' = "live"
    /\ UNCHANGED <<stopper, runners, creation, cancelled, workerVars,
                   arg, target, waits, todo, outcome>>

Start(c) == pc[c] = "idle" /\ Room(Cardinality(Ids)) /\ StartLock(c)

StartRetry(c) == pc[c] = "startRetry" /\ StartLock(c)

\* ctx.Done() while Start waits for a Stop in progress.
StartExpire(c) ==
    /\ pc[c] = "startWait"
    /\ Goto(c, "idle")
    /\ UNCHANGED <<mapVars, creation, cancelled, workerVars,
                   arg, target, waits, todo, outcome>>

\* What ListProjects may return: projects with distinct identifiers.
Listings == {S \in SUBSET Project : \A p, q \in S : p.id = q.id => p = q}

StartList(c, S) ==
    /\ pc[c] = "startList"
    /\ todo' = [todo EXCEPT ![c] = S]
    /\ Goto(c, "startLoop")
    /\ UNCHANGED <<mapVars, creation, cancelled, workerVars,
                   arg, target, waits, outcome>>

\* ListProjects failed: Start calls Stop and returns the error.
StartAbort(c) == pc[c] = "startList" /\ StopRun(c)

\* One project of the listing: registered, or skipped when its root or the
\* database placement is no longer valid.
StartNext(c, p) ==
    /\ pc[c] = "startLoop" /\ p \in todo[c]
    /\ todo' = [todo EXCEPT ![c] = @ \ {p}]
    /\ \/ register(p, FALSE)
       \/ UNCHANGED <<runners, creation, cancelled, phase>>
    /\ UNCHANGED <<ctx, stopper, watching, serving, pc, arg, target, waits, outcome>>

StartDone(c) ==
    /\ pc[c] = "startLoop" /\ todo[c] = {}
    /\ Goto(c, "idle")
    /\ UNCHANGED <<mapVars, creation, cancelled, workerVars,
                   arg, target, waits, todo, outcome>>

\* The context Start was given ends (the process is asked to terminate).
CancelRoot ==
    /\ ctx = "live"
    /\ ctx' = "cancelled"
    /\ cancelled' = [r \in Runners |-> cancelled[r] \/ r <= created]
    /\ UNCHANGED <<stopper, runners, creation, workerVars, callVars>>

-----------------------------------------------------------------------------
(* Remove: cancel, wait with the retiring runner still mapped, unmap it if *)
(* no Register has replaced it.                                            *)

\* Mutant: waits without cancelling.
RemoveWithoutCancel(c, i) ==
    /\ pc[c] = "idle" /\ runners[i] # NoRunner
    /\ target' = [target EXCEPT ![c] = runners[i]]
    /\ Goto(c, "removeWait")
    /\ UNCHANGED <<cancelled, mapVars, creation, workerVars, arg, waits, todo, outcome>>

Remove(c, i) ==
    /\ pc[c] = "idle"
    /\ \/ /\ runners[i] = NoRunner
          /\ UNCHANGED <<cancelled, pc, target>>
       \/ /\ runners[i] # NoRunner
          /\ cancelled' = [cancelled EXCEPT ![runners[i]] = TRUE]
          /\ target' = [target EXCEPT ![c] = runners[i]]
          /\ Goto(c, "removeWait")
    /\ UNCHANGED <<mapVars, creation, workerVars, arg, waits, todo, outcome>>

\* Mutant: unmaps whatever runner the project has by now.
RemoveFinishBlindly(c) ==
    /\ pc[c] = "removeWait" /\ phase[target[c]] = "done"
    /\ runners' = [runners EXCEPT ![project[target[c]].id] = NoRunner]
    /\ target' = [target EXCEPT ![c] = NoRunner]
    /\ Goto(c, "idle")
    /\ UNCHANGED <<ctx, stopper, creation, cancelled, workerVars,
                   arg, waits, todo, outcome>>

RemoveFinish(c) ==
    LET r == target[c]
        i == project[r].id
    IN  /\ pc[c] = "removeWait" /\ phase[r] = "done"
        /\ IF runners[i] = r
           THEN runners' = [runners EXCEPT ![i] = NoRunner]
           ELSE UNCHANGED runners
        /\ target' = [target EXCEPT ![c] = NoRunner]
        /\ Goto(c, "idle")
        /\ UNCHANGED <<ctx, stopper, creation, cancelled, workerVars,
                       arg, waits, todo, outcome>>

-----------------------------------------------------------------------------
(* Rescan                                                                  *)

Rescan(c, i) ==
    /\ pc[c] = "idle"
    /\ outcome' = [outcome EXCEPT ![c] = "none"]
    /\ \/ /\ runners[i] # NoRunner
          /\ target' = [target EXCEPT ![c] = runners[i]]
          /\ Goto(c, "send")
          /\ UNCHANGED arg
       \/ /\ runners[i] = NoRunner /\ Room(1)
          /\ \E p \in Project : p.id = i /\ arg' = [arg EXCEPT ![c] = p]
          /\ Goto(c, "restore")
          /\ UNCHANGED target
    /\ UNCHANGED <<mapVars, creation, cancelled, workerVars, waits, todo>>

\* No runner: GetProject finds the project p, whose root is still valid.
RestoreFound(c, p) ==
    /\ pc[c] = "restore" /\ p.id = arg[c].id
    /\ arg' = [arg EXCEPT ![c] = p]
    /\ Goto(c, "ensure")
    /\ UNCHANGED <<mapVars, creation, cancelled, workerVars,
                   target, waits, todo, outcome>>

\* GetProject or a validation fails.
RestoreFail(c) ==
    /\ pc[c] = "restore"
    /\ Return(c, "error")
    /\ UNCHANGED <<mapVars, creation, cancelled, workerVars,
                   arg, target, waits, todo>>

\* Mutant: registers the project read earlier over whatever runs by now.
RestoreEnsureReplaces(c) ==
    /\ pc[c] = "ensure"
    /\ register(arg[c], FALSE)
    /\ Goto(c, "lookup")
    /\ UNCHANGED <<ctx, stopper, watching, serving, arg, target, waits, todo, outcome>>

RestoreEnsure(c) ==
    /\ pc[c] = "ensure"
    /\ register(arg[c], TRUE)
    /\ Goto(c, "lookup")
    /\ UNCHANGED <<ctx, stopper, watching, serving, arg, target, waits, todo, outcome>>

RestoreLookup(c) ==
    LET r == runners[arg[c].id]
    IN  /\ pc[c] = "lookup"
        /\ \/ /\ r # NoRunner
              /\ target' = [target EXCEPT ![c] = r]
              /\ Goto(c, "send")
              /\ UNCHANGED outcome
           \/ /\ r = NoRunner
              /\ Return(c, "stopped")
              /\ UNCHANGED target
        /\ UNCHANGED <<mapVars, creation, cancelled, workerVars, arg, waits, todo>>

\* The unbuffered send on runner.rescans meets the worker's select.  A worker
\* whose context has ended answers with the context error at once.
AcceptRescan(c) ==
    LET r == target[c]
    IN  /\ pc[c] = "send" /\ phase[r] = "select"
        /\ \/ /\ ~cancelled[r]
              /\ phase' = [phase EXCEPT ![r] = "busy"]
              /\ serving' = [serving EXCEPT ![r] = c]
              /\ Goto(c, "await")
           \/ /\ cancelled[r]
              /\ Goto(c, "answered")
              /\ UNCHANGED <<phase, serving>>
        /\ UNCHANGED <<mapVars, creation, cancelled, watching,
                       arg, target, waits, todo, outcome>>

\* <-runner.done before the request was accepted.
SendStopped(c) ==
    /\ pc[c] = "send" /\ phase[target[c]] = "done"
    /\ target' = [target EXCEPT ![c] = NoRunner]
    /\ Return(c, "stopped")
    /\ UNCHANGED <<mapVars, creation, cancelled, workerVars, arg, waits, todo>>

\* A buffered result wins even when the worker has exited in the meantime;
\* only <-runner.done with an empty result channel loses the rescan.
AwaitReturn(c) ==
    LET ends == IF phase[target[c]] = "done" THEN {"answered", "await"} ELSE {"answered"}
    IN  /\ pc[c] \in {"answered", "await"} /\ pc[c] \in ends
        /\ target' = [target EXCEPT ![c] = NoRunner]
        /\ Return(c, IF pc[c] = "answered" THEN "served" ELSE "lost")
        /\ UNCHANGED <<mapVars, creation, cancelled, workerVars, arg, waits, todo>>

\* The request's own context ends; a result that still comes is dropped.
RescanExpire(c) ==
    /\ pc[c] \in {"send", "await", "answered"}
    /\ serving' = [r \in Runners |-> IF serving[r] = c THEN NoCaller ELSE serving[r]]
    /\ target' = [target EXCEPT ![c] = NoRunner]
    /\ Return(c, "expired")
    /\ UNCHANGED <<mapVars, creation, cancelled, phase, watching, arg, waits, todo>>

-----------------------------------------------------------------------------
(* The worker goroutine of a runner (runProject) and its watcher.          *)

\* Mutant: the worker starts without waiting for the one it replaces.
LaunchAtOnce(r) ==
    /\ phase[r] = "queued"
    /\ phase' = [phase EXCEPT ![r] = IF cancelled[r] THEN "done" ELSE "busy"]
    /\ watching' = [watching EXCEPT ![r] = ~cancelled[r]]
    /\ UNCHANGED <<mapVars, creation, cancelled, serving, callVars>>

\* The goroutine of register: behind the previous worker, then runProject
\* unless the runner was cancelled while it waited.
Launch(r) ==
    /\ phase[r] = "queued"
    /\ previous[r] # NoRunner => phase[previous[r]] = "done"
    /\ phase' = [phase EXCEPT ![r] = IF cancelled[r] THEN "done" ELSE "busy"]
    /\ watching' = [watching EXCEPT ![r] = ~cancelled[r]]
    /\ UNCHANGED <<mapVars, creation, cancelled, serving, callVars>>

\* select: dirty, the refresh ticker or the rescan timer.
TakeJob(r) ==
    /\ phase[r] = "select" /\ ~cancelled[r]
    /\ phase' = [phase EXCEPT ![r] = "busy"]
    /\ UNCHANGED <<mapVars, creation, cancelled, watching, serving, callVars>>

\* Mutant: a worker cancelled during the job retires without answering.
FinishJobOrRetire(r) ==
    /\ phase[r] = "busy"
    /\ phase' = [phase EXCEPT ![r] = IF cancelled[r] THEN "draining" ELSE "select"]
    /\ serving' = [serving EXCEPT ![r] = NoCaller]
    /\ IF serving[r] = NoCaller \/ cancelled[r]
       THEN UNCHANGED pc ELSE Goto(serving[r], "answered")
    /\ UNCHANGED <<mapVars, creation, cancelled, watching,
                   arg, target, waits, todo, outcome>>

\* A scan or Git refresh ends, with success or error; a rescan's result goes
\* into the caller's buffered channel.
FinishJob(r) ==
    /\ phase[r] = "busy"
    /\ phase' = [phase EXCEPT ![r] = "select"]
    /\ serving' = [serving EXCEPT ![r] = NoCaller]
    /\ IF serving[r] = NoCaller THEN UNCHANGED pc ELSE Goto(serving[r], "answered")
    /\ UNCHANGED <<mapVars, creation, cancelled, watching,
                   arg, target, waits, todo, outcome>>

\* Mutant: the worker waits for the context of the supervisor.
RetireWithSupervisor(r) ==
    /\ phase[r] = "select" /\ ctx # "live"
    /\ phase' = [phase EXCEPT ![r] = "draining"]
    /\ UNCHANGED <<mapVars, creation, cancelled, watching, serving, callVars>>

\* select: ctx.Done().
Retire(r) ==
    /\ phase[r] = "select" /\ cancelled[r]
    /\ phase' = [phase EXCEPT ![r] = "draining"]
    /\ UNCHANGED <<mapVars, creation, cancelled, watching, serving, callVars>>

\* The watcher returns when its context ends or on an error of its own.
WatcherExit(r) ==
    /\ watching[r]
    /\ watching' = [watching EXCEPT ![r] = FALSE]
    /\ UNCHANGED <<mapVars, creation, cancelled, phase, serving, callVars>>

\* Mutant: the worker does not wait for its watcher.
ExitEarly(r) ==
    /\ phase[r] = "draining"
    /\ phase' = [phase EXCEPT ![r] = "done"]
    /\ UNCHANGED <<mapVars, creation, cancelled, watching, serving, callVars>>

\* <-watchDone, then close(runner.done).
Exit(r) ==
    /\ phase[r] = "draining" /\ ~watching[r]
    /\ phase' = [phase EXCEPT ![r] = "done"]
    /\ UNCHANGED <<mapVars, creation, cancelled, watching, serving, callVars>>

-----------------------------------------------------------------------------
CallBegins(c) ==
    \/ Start(c) \/ Stop(c)
    \/ \E p \in Project : Register(c, p) \/ Ensure(c, p)
    \/ \E i \in Ids : Remove(c, i) \/ Rescan(c, i)

CallContinues(c) ==
    \/ StartRetry(c) \/ StartAbort(c) \/ StartDone(c) \/ StopFinish(c)
    \/ \E S \in Listings : StartList(c, S)
    \/ \E p \in Project : StartNext(c, p) \/ RestoreFound(c, p)
    \/ RemoveFinish(c)
    \/ RestoreFail(c) \/ RestoreEnsure(c) \/ RestoreLookup(c)
    \/ SendStopped(c) \/ AwaitReturn(c)

CallExpires(c) == StartExpire(c) \/ RescanExpire(c)

WorkerStep(r) ==
    Launch(r) \/ TakeJob(r) \/ FinishJob(r) \/ Retire(r) \/ Exit(r)

Next ==
    \/ \E c \in Callers :
          CallBegins(c) \/ CallContinues(c) \/ CallExpires(c) \/ AcceptRescan(c)
    \/ \E r \in Runners : WorkerStep(r) \/ WatcherExit(r)
    \/ CancelRoot

Spec == Init /\ [][Next]_vars

(* A call in progress takes its enabled steps; workers leave their waits,   *)
(* their scans end (Git commands, scans and transactions are bounded by     *)
(* timeouts and budgets), and a watcher ends once cancelled.  Accepting a   *)
(* rescan is strongly fair: Go's select picks at random among ready cases.  *)
Fairness ==
    /\ \A c \in Callers : WF_vars(CallContinues(c)) /\ SF_vars(AcceptRescan(c))
    /\ \A r \in Runners :
          /\ WF_vars(Launch(r)) /\ WF_vars(FinishJob(r))
          /\ WF_vars(Retire(r)) /\ WF_vars(Exit(r))
          /\ WF_vars(cancelled[r] /\ WatcherExit(r))

FairSpec == Spec /\ Fairness

-----------------------------------------------------------------------------
TypeOK ==
    /\ ctx \in {"nil", "live", "cancelled"}
    /\ stopper \in Callers \cup {NoCaller}
    /\ runners \in [Ids -> Runners \cup {NoRunner}]
    /\ created \in 0 .. MaxRunners
    /\ project \in [Runners -> Project]
    /\ previous \in [Runners -> Runners \cup {NoRunner}]
    /\ cancelled \in [Runners -> BOOLEAN]
    /\ phase \in [Runners -> Phases]
    /\ watching \in [Runners -> BOOLEAN]
    /\ serving \in [Runners -> Callers \cup {NoCaller}]
    /\ pc \in [Callers -> PCs]
    /\ arg \in [Callers -> Project]
    /\ target \in [Callers -> Runners \cup {NoRunner}]
    /\ waits \in [Callers -> SUBSET Runners]
    /\ todo \in [Callers -> SUBSET Project]
    /\ outcome \in [Callers -> Outcomes]

Used(r) == r <= created
SameId(r, s) == project[r].id = project[s].id
InWorker(r) == phase[r] \in {"busy", "select", "draining"}
Alive(r) == Used(r) /\ phase[r] # "done"

\* A project has one worker: however registrations, removals, rescans and
\* restarts interleave, two runners of one project are never both inside
\* runProject, so its cache has a single writer.
AtMostOneWorker ==
    \A r, s \in Runners : r # s /\ InWorker(r) /\ InWorker(s) => ~SameId(r, s)

\* Outside Stop, a project without a mapped runner has no goroutine left at
\* all: this is what Remove promises on return, for the removed runner and
\* every runner it had displaced.
UnmappedIsQuiet ==
    stopper = NoCaller =>
        \A r \in Runners : Alive(r) => runners[project[r].id] # NoRunner

\* After Stop has returned no worker and no watcher of any generation is
\* left, also when Register or Start raced with it.
StoppedIsQuiet ==
    ctx = "nil" /\ stopper = NoCaller =>
        \A r \in Runners : ~Alive(r) /\ ~watching[r]

\* A rescan the worker accepted is answered or runs into its own deadline;
\* it never ends in errRunnerStopped, even when the worker retires meanwhile.
AcceptedIsAnswered == \A c \in Callers : outcome[c] # "lost"

\* A worker inside runProject, or queued, that is not the mapped runner of
\* its project has been cancelled: nothing runs that Remove or Stop cannot reach.
DisplacedIsCancelled ==
    \A r \in Runners : Alive(r) /\ runners[project[r].id] # r => cancelled[r]

\* Remove returns: the worker it waits for retires.
RemoveReturns == \A c \in Callers : pc[c] = "removeWait" ~> pc[c] # "removeWait"

\* Stop returns, for the caller that stops and for those that joined it.
StopReturns ==
    \A c \in Callers : pc[c] \in {"stopWait", "stopJoin"} ~> pc[c] = "idle"

\* A rescan is answered without the help of its deadline: its worker accepts
\* it between other jobs and finishes it, or retires.
RescanReturns == \A c \in Callers : pc[c] \in {"send", "await"} ~> pc[c] = "idle"

\* Every call comes back to its caller, whatever the others are doing
\* (supervisor.go:166-197, 251-268, 299-322).
CallsReturn == RemoveReturns /\ StopReturns /\ RescanReturns

\* A registered runner starts observing, however many runners it queued
\* behind, unless it is cancelled first.
RegisteredRuns ==
    \A r \in Runners : phase[r] = "queued" ~> InWorker(r) \/ cancelled[r]

=============================================================================
