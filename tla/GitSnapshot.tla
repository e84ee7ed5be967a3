----------------------------- MODULE GitSnapshot -----------------------------
(***************************************************************************)
(* How internal/gitstate reads a repository: Inspector.Snapshot runs one   *)
(* git command after the other, then the status of every other worktree on *)
(* a pool of workers, all under one deadline and one semaphore that every  *)
(* snapshot shares (inspector.go), and puts their outputs together         *)
(* (parser.go).  Meanwhile the user edits, commits and removes worktrees.  *)
(*                                                                         *)
(* One git command sees the repository at one moment.  Every changed or    *)
(* untracked file has one line that counts.                                *)
(***************************************************************************)
EXTENDS Naturals, FiniteSets

CONSTANTS
    Snaps,      \* the snapshots under way at the same time
    Files,
    LastTree,   \* the worktrees beside the main one, in the order of the list
    Slots,      \* capacity of Inspector.semaphore
    None,
    MaxEdits,   \* bound on the changes of the repository
    MaxFaults   \* bound on the commands that fail by themselves

ASSUME SlotsAssumption == Slots \in Nat \ {0}
ASSUME TreesAssumption == LastTree \in Nat
ASSUME SnapsAssumption == IsFiniteSet(Snaps)
ASSUME BoundsAssumption == MaxEdits \in Nat /\ MaxFaults \in Nat
ASSUME NoneAssumption == None \notin Nat

VARIABLES
    head,      \* the number of commits
    file,      \* each file against HEAD
    tree,      \* each worktree
    edits, faults,
    phase,     \* where each Snapshot stands
    holding,   \* does its command have a slot
    free,      \* the free slots
    expired,   \* is its context done
    out,       \* the snapshot it is filling in
    error,     \* what made it fail
    job,       \* its results for the worktrees
    moments    \* history: the repository since it began

repo == <<head, file, tree>>
snapping == <<phase, holding, free, expired, out, error, job, moments>>
vars == <<repo, edits, faults, snapping>>

Trees == 1 .. LastTree

Commands == {"status", "lines", "intent", "untracked", "list"}
Results == {"clean", "dirty", "failed"}

\* min(4, capacity, jobs): workers that have no job do nothing.
WorkerCount == IF Slots < 4 THEN Slots ELSE 4

Empty == [head |-> 0, changed |-> {}, untracked |-> {},
          lines |-> [f \in Files |-> 0], listed |-> {}, dirty |-> {}]

\* What error says when a command of the snapshot itself failed.
CommandError == 0

NoJobs == [t \in Trees |-> "none"]

Of(state) == {f \in Files : file[f] = state}

-----------------------------------------------------------------------------
(* The user *)

Edit ==
    /\ edits < MaxEdits /\ edits' = edits + 1
    /\ moments' = [s \in Snaps |-> IF phase[s] \in {"idle", "done"} THEN moments[s]
                                   ELSE moments[s] \cup {<<head', file', tree'>>}]
    /\ UNCHANGED <<faults, phase, holding, free, expired, out, error, job>>

ChangeFile(f) ==
    /\ file' \in {[file EXCEPT ![f] = to] :
                    to \in CASE file[f] = "clean" -> {"changed"}
                             [] file[f] = "changed" -> {"clean"}
                             [] file[f] = "untracked" -> {"absent"}
                             [] file[f] = "absent" -> {"untracked"}}
    /\ UNCHANGED <<head, tree>>
    /\ Edit

Commit ==
    /\ Of("changed") \cup Of("untracked") # {}
    /\ head' = head + 1
    /\ file' = [f \in Files |-> IF file[f] = "absent" THEN "absent" ELSE "clean"]
    /\ UNCHANGED tree
    /\ Edit

\* "removed" by git worktree remove, "missing" when only the directory went.
ChangeTree(t) ==
    /\ tree[t] \in {"clean", "dirty"}
    /\ \E to \in {"clean", "dirty", "missing", "removed"} \ {tree[t]} :
        tree' = [tree EXCEPT ![t] = to]
    /\ UNCHANGED <<head, file>>
    /\ Edit

-----------------------------------------------------------------------------
(* Snapshot *)

Begin(s) ==
    /\ phase[s] \in {"idle", "done"}
    /\ phase' = [phase EXCEPT ![s] = "status"]
    /\ expired' = [expired EXCEPT ![s] = FALSE]
    /\ out' = [out EXCEPT ![s] = Empty]
    /\ error' = [error EXCEPT ![s] = None]
    /\ job' = [job EXCEPT ![s] = NoJobs]
    /\ moments' = [moments EXCEPT ![s] = {repo}]
    /\ UNCHANGED <<repo, edits, faults, holding, free>>

ExpireBeforeTrees(s) ==
    /\ phase[s] \in Commands /\ ~expired[s]
    /\ expired' = [expired EXCEPT ![s] = TRUE]
    /\ UNCHANGED <<repo, edits, faults, phase, holding, free, out, error, job, moments>>

\* The deadline of the whole snapshot passes or its caller gives up.
Expire(s) ==
    /\ phase[s] \notin {"idle", "done"} /\ ~expired[s]
    /\ expired' = [expired EXCEPT ![s] = TRUE]
    /\ UNCHANGED <<repo, edits, faults, phase, holding, free, out, error, job, moments>>

Acquire(s) ==
    /\ phase[s] \in Commands /\ ~holding[s] /\ free > 0
    /\ holding' = [holding EXCEPT ![s] = TRUE]
    /\ free' = free - 1
    /\ UNCHANGED <<repo, edits, faults, phase, expired, out, error, job, moments>>

\* runLimitedCommand returns; its slot is given back whatever came of it.
Release(s) ==
    /\ holding' = [holding EXCEPT ![s] = FALSE]
    /\ free' = IF holding[s] THEN free + 1 ELSE free

\* snapshotWithError
Fail(s, why) ==
    /\ phase' = [phase EXCEPT ![s] = "done"]
    /\ error' = [error EXCEPT ![s] = why]

\* A command that waits for a slot or runs ends with the context, or fails.
CommandFails(s) ==
    /\ phase[s] \in Commands
    /\ \/ expired[s] /\ UNCHANGED faults
       \/ holding[s] /\ faults < MaxFaults /\ faults' = faults + 1
    /\ Release(s)
    /\ Fail(s, CommandError)
    /\ UNCHANGED <<repo, edits, expired, out, job, moments>>

\* A command of this phase has run; the next phase, and what it found.
Ran(s, command) ==
    /\ phase[s] = command /\ holding[s] /\ ~expired[s]
    /\ Release(s)
    /\ UNCHANGED <<repo, edits, faults, expired, job, moments>>

Found(s, next, found) ==
    /\ phase' = [phase EXCEPT ![s] = next]
    /\ out' = [out EXCEPT ![s] = found]
    /\ UNCHANGED error

AfterLines(untracked) == IF untracked = {} THEN "list" ELSE "intent"

Status(s) ==
    /\ Ran(s, "status")
    /\ Found(s, IF head > 0 THEN "lines" ELSE AfterLines(Of("untracked")),
             [Empty EXCEPT !.head = head, !.changed = Of("changed"),
                           !.untracked = Of("untracked")])

\* The lines of the tracked files against HEAD.
TrackedLines(s) ==
    /\ Ran(s, "lines")
    /\ Found(s, AfterLines(out[s].untracked),
             [out[s] EXCEPT !.lines = [f \in Files |-> IF file[f] = "changed" THEN 1 ELSE 0]])

\* The untracked files of the status go into a temporary index; git add fails
\* on a path that does not exist.
IntentToAdd(s) ==
    /\ Ran(s, "intent")
    /\ IF out[s].untracked \cap Of("absent") = {}
       THEN Found(s, "untracked", out[s])
       ELSE Fail(s, CommandError) /\ UNCHANGED out

UntrackedLinesOnly(s) ==
    /\ Ran(s, "untracked")
    /\ Found(s, "list",
             [out[s] EXCEPT !.lines = [f \in Files |->
                IF f \in out[s].untracked /\ file[f] # "absent" THEN 1 ELSE 0]])

\* Their lines are added to those of the tracked files.
UntrackedLines(s) ==
    /\ Ran(s, "untracked")
    /\ Found(s, "list",
             [out[s] EXCEPT !.lines = [f \in Files |->
                out[s].lines[f] +
                IF f \in out[s].untracked /\ file[f] # "absent" THEN 1 ELSE 0]])

\* The worktrees git knows; a missing one is prunable and never read.
List(s) ==
    /\ phase[s] = "list" /\ holding[s] /\ ~expired[s]
    /\ Release(s)
    /\ Found(s, "check", [out[s] EXCEPT !.listed = {t \in Trees : tree[t] # "removed"}])
    /\ job' = [job EXCEPT ![s] = [t \in Trees |->
                 IF tree[t] \in {"clean", "dirty"} THEN "listed" ELSE "none"]]
    /\ UNCHANGED <<repo, edits, faults, expired, moments>>

Listed(s, state) == {t \in Trees : job[s][t] = state}

First(trees) == CHOOSE t \in trees : \A u \in trees : t <= u

\* normalizeRoot of every worktree to read, in the order of the list.
CheckTrees(s) ==
    /\ phase[s] = "check"
    /\ LET lost == {t \in Listed(s, "listed") : tree[t] \in {"missing", "removed"}}
       IN IF lost = {}
          THEN /\ phase' = [phase EXCEPT ![s] = "trees"]
               /\ job' = [job EXCEPT ![s] = [t \in Trees |->
                            IF job[s][t] = "listed" THEN "queued" ELSE "none"]]
               /\ UNCHANGED error
          ELSE Fail(s, First(lost)) /\ UNCHANGED job
    /\ UNCHANGED <<repo, edits, faults, holding, free, expired, out, moments>>

Busy(s) == Listed(s, "waiting") \cup Listed(s, "running")

\* A worker receives the next job of jobQueue.
TakeJob(s) ==
    /\ phase[s] = "trees" /\ Listed(s, "queued") # {}
    /\ Cardinality(Busy(s)) < WorkerCount
    /\ job' = [job EXCEPT ![s][First(Listed(s, "queued"))] = "waiting"]
    /\ UNCHANGED <<repo, edits, faults, phase, holding, free, expired, out, error, moments>>

AcquireForTree(s, t) ==
    /\ job[s][t] = "waiting" /\ free > 0
    /\ free' = free - 1
    /\ job' = [job EXCEPT ![s][t] = "running"]
    /\ UNCHANGED <<repo, edits, faults, phase, holding, expired, out, error, moments>>

\* results[index]: the command of a worktree ended.
TreeEnds(s, t, result) ==
    /\ job' = [job EXCEPT ![s][t] = result]
    /\ free' = IF job[s][t] = "running" THEN free + 1 ELSE free
    /\ UNCHANGED <<repo, edits, phase, holding, expired, out, error, moments>>

ReadTree(s, t) ==
    /\ job[s][t] = "running" /\ ~expired[s]
    /\ TreeEnds(s, t, IF tree[t] \in {"clean", "dirty"} THEN tree[t] ELSE "failed")
    /\ UNCHANGED faults

TreeFails(s, t) ==
    /\ t \in Busy(s)
    /\ \/ expired[s] /\ UNCHANGED faults
       \/ job[s][t] = "running" /\ faults < MaxFaults /\ faults' = faults + 1
    /\ TreeEnds(s, t, "failed")

\* The results in the order of the list.
Report(s) ==
    /\ IF Listed(s, "failed") # {}
       THEN LET first == First(Listed(s, "failed"))
            IN /\ Fail(s, first)
               /\ out' = [out EXCEPT ![s].dirty = {t \in Listed(s, "dirty") : t < first}]
       ELSE Found(s, "done", [out[s] EXCEPT !.dirty = Listed(s, "dirty")])
    /\ UNCHANGED <<repo, edits, faults, holding, free, expired, job, moments>>

AllEnded(s) == \A t \in Trees : job[s][t] \in {"none"} \cup Results

CollectFirstFailure(s) ==
    /\ phase[s] = "trees"
    /\ AllEnded(s) \/ Listed(s, "failed") # {}
    /\ Report(s)

\* After workers.Wait.
Collect(s) == phase[s] = "trees" /\ AllEnded(s) /\ Report(s)

-----------------------------------------------------------------------------
Init ==
    /\ head \in {0, 1}
    /\ file \in [Files -> IF head = 0 THEN {"untracked", "absent"}
                          ELSE {"clean", "changed", "untracked", "absent"}]
    /\ tree \in [Trees -> {"clean", "dirty"}]
    /\ edits = 0 /\ faults = 0
    /\ phase = [s \in Snaps |-> "idle"]
    /\ holding = [s \in Snaps |-> FALSE]
    /\ free = Slots
    /\ expired = [s \in Snaps |-> FALSE]
    /\ out = [s \in Snaps |-> Empty]
    /\ error = [s \in Snaps |-> None]
    /\ job = [s \in Snaps |-> NoJobs]
    /\ moments = [s \in Snaps |-> {}]

Step(s) ==
    \/ Acquire(s)
    \/ CommandFails(s)
    \/ Status(s)
    \/ TrackedLines(s)
    \/ IntentToAdd(s)
    \/ UntrackedLines(s)
    \/ List(s)
    \/ CheckTrees(s)
    \/ TakeJob(s)
    \/ \E t \in Trees :
        \/ AcquireForTree(s, t)
        \/ ReadTree(s, t)
        \/ TreeFails(s, t)
    \/ Collect(s)

Next ==
    \/ \E f \in Files : ChangeFile(f)
    \/ Commit
    \/ \E t \in Trees : ChangeTree(t)
    \/ \E s \in Snaps : Begin(s) \/ Expire(s) \/ Step(s)

\* What a snapshot does in any case: the deadline passes, a process that was
\* killed ends, the goroutines go on.  No command has to end by itself, and no
\* slot has to become free.
Proceed(s) ==
    \/ Expire(s)
    \/ CheckTrees(s) \/ TakeJob(s) \/ Collect(s)
    \/ expired[s] /\ (CommandFails(s) \/ \E t \in Trees : TreeFails(s, t))

Spec == Init /\ [][Next]_vars
FairSpec == Spec /\ \A s \in Snaps : WF_vars(Proceed(s))

-----------------------------------------------------------------------------
(* Properties *)

\* The types; every slot is free or held by one command that has not ended,
\* whatever became of the commands before (inspector.go:463-472).
TypeOK ==
    /\ head \in Nat
    /\ file \in [Files -> {"clean", "changed", "untracked", "absent"}]
    /\ tree \in [Trees -> {"clean", "dirty", "missing", "removed"}]
    /\ edits \in 0 .. MaxEdits /\ faults \in 0 .. MaxFaults
    /\ phase \in [Snaps -> Commands \cup {"idle", "check", "trees", "done"}]
    /\ holding \in [Snaps -> BOOLEAN]
    /\ expired \in [Snaps -> BOOLEAN]
    /\ error \in [Snaps -> {None, CommandError} \cup Trees]
    /\ job \in [Snaps -> [Trees -> Results \cup {"none", "listed", "queued", "waiting", "running"}]]
    /\ free + Cardinality({s \in Snaps : holding[s]})
            + Cardinality({st \in Snaps \X Trees : job[st[1]][st[2]] = "running"}) = Slots

\* What a snapshot says of a repository in this state.
Exact(snapshot, moment) ==
    LET h == moment[1]
        f == moment[2]
        t == moment[3]
    IN /\ snapshot.head = h
       /\ snapshot.changed = {x \in Files : f[x] = "changed"}
       /\ snapshot.untracked = {x \in Files : f[x] = "untracked"}
       /\ \A x \in Files : snapshot.lines[x] = IF f[x] \in {"changed", "untracked"} THEN 1 ELSE 0
       /\ snapshot.listed = {x \in Trees : t[x] # "removed"}
       /\ snapshot.dirty = {x \in Trees : t[x] = "dirty"}

Returned(s) == phase[s] = "done" /\ error[s] = None

\* A snapshot of a repository that nobody touches meanwhile is exact: every
\* file counted once, every worktree with its own result, however the commands
\* of several snapshots and the workers interleave (inspector.go:90-151, 548-624).
QuietIsExact ==
    \A s \in Snaps : Returned(s) /\ Cardinality(moments[s]) = 1
        => \A m \in moments[s] : Exact(out[s], m)

\* The error of a snapshot is that of the first worktree that failed, whichever
\* worker was first, and no worker is left behind with its slot
\* (inspector.go:463-472, 556, 616).
FirstErrorWins ==
    /\ TypeOK
    /\ \A s \in Snaps : phase[s] = "done" /\ error[s] \in Trees
        => /\ \A t \in Trees : t < error[s] => job[s][t] # "failed"
           /\ Busy(s) = {}

\* A snapshot ends, even when its commands hang or others hold all slots
\* (inspector.go:102).
SnapshotEnds == \A s \in Snaps : phase[s] # "idle" ~> phase[s] = "done"

=============================================================================
