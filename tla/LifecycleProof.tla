---------------------------- MODULE LifecycleProof ----------------------------
(***************************************************************************)
(* Machine-checked proofs about the supervisor and the process around it,  *)
(* for every number of projects, roots, callers, clients and runners.      *)
(*                                                                         *)
(* The supervisor keeps one worker per project and leaves none behind.     *)
(* The argument rests on the order in which runners are created.  A runner *)
(* remembers the newest runner of its project that may still be alive      *)
(* (Predecessor) and enters runProject only when that one is done, so by   *)
(* induction every older runner of the project is done too (Serial).  The  *)
(* map always names the newest runner (MapNewest); whatever is alive is    *)
(* reachable from the map or from the set a Stop waits for (Reachable).    *)
(*                                                                         *)
(* In the process, cached rows come from the root a project is stored      *)
(* with, a deleted project stays quiet, and a stored one is observed.  The *)
(* supervisor's invariant holds here as well, through crashes.  On top of  *)
(* it: projectsMu keeps handlers apart (MuInv), while a handler holds it   *)
(* the projects table is what it made of it (AskedInv), so that only a     *)
(* rescan can bring in a runner that does not agree with the table, which  *)
(* is when it is revived.                                                  *)
(***************************************************************************)
EXTENDS ProjectLifecycle, TLAPS, WellFoundedInduction

-----------------------------------------------------------------------------
(* The supervisor                                                          *)

Entered(r) == phase[r] \in {"busy", "select", "draining", "done"}

UsedInv ==
    \A r \in Runners : phase[r] # "unused" <=> Used(r)

Serial ==
    \A r, s \in Runners : s < r /\ SameId(r, s) /\ Entered(r) => phase[s] = "done"

Predecessor ==
    \A r, s \in Runners :
        s < r /\ Used(r) /\ SameId(r, s) /\ phase[s] # "done"
            => /\ s <= previous[r] /\ previous[r] < r
               /\ SameId(previous[r], r)

MapNewest ==
    \A i \in Ids : runners[i] # NoRunner =>
        /\ Used(runners[i]) /\ project[runners[i]].id = i
        /\ \A r \in Runners : Used(r) /\ project[r].id = i => r <= runners[i]

Reachable ==
    \A r \in Runners : Alive(r) =>
        \/ runners[project[r].id] # NoRunner
        \/ /\ stopper # NoCaller
           /\ \E w \in waits[stopper] : Used(w) /\ SameId(w, r) /\ r <= w

MapInv ==
    /\ stopper # NoCaller => ctx = "nil"
    /\ ctx = "nil" => \A i \in Ids : runners[i] = NoRunner

WaitInv ==
    \A c \in Callers :
        /\ pc[c] = "stopWait" => stopper = c
        /\ pc[c] \in {"removeWait", "send"} => target[c] \in Runners /\ Used(target[c])

WatchInv == \A r \in Runners : watching[r] => InWorker(r)

\* A call awaits a result exactly while its target's worker serves it.
ServeInv ==
    /\ \A c \in Callers : pc[c] = "await" =>
          target[c] \in Runners /\ serving[target[c]] = c
    /\ \A r \in Runners : serving[r] # NoCaller =>
          /\ phase[r] = "busy"
          /\ pc[serving[r]] = "await" /\ target[serving[r]] = r

\* The runners and the map, apart from where the callers are.
Structure ==
    /\ UsedInv /\ Serial /\ Predecessor /\ MapNewest /\ Reachable
    /\ MapInv /\ WatchInv /\ DisplacedIsCancelled

IInv == TypeOK /\ Structure /\ WaitInv /\ ServeInv /\ AcceptedIsAnswered

-----------------------------------------------------------------------------
(* Type correctness.                                                       *)

LEMMA AnyProjectType == AnyProject \in Project
  <1>1. PICK i \in Ids, a \in Roots : TRUE
    BY ProjectAssumption
  <1>2. [id |-> i, root |-> a] \in Project
    BY DEF Project
  <1>3. QED
    BY <1>2 DEF AnyProject

LEMMA RunnersType == /\ Runners \subseteq Nat \ {0}
                     /\ NoRunner \notin Runners
                     /\ \A r \in Nat : r \in Runners <=> 1 <= r /\ r <= MaxRunners
  BY MaxRunnersAssumption DEF Runners, NoRunner

LEMMA InitType == Init => TypeOK
  BY AnyProjectType, MaxRunnersAssumption, NoCallerAssumption
     DEF Init, TypeOK, Phases, PCs, Outcomes, NoRunner, Runners

\* What register does to the variables it touches.
LEMMA RegisterType ==
    ASSUME TypeOK, NEW p \in Project, NEW b \in BOOLEAN, register(p, b)
    PROVE  /\ runners' \in [Ids -> Runners \cup {NoRunner}]
           /\ created' \in 0 .. MaxRunners
           /\ project' \in [Runners -> Project]
           /\ previous' \in [Runners -> Runners \cup {NoRunner}]
           /\ cancelled' \in [Runners -> BOOLEAN]
           /\ phase' \in [Runners -> Phases]
  <1>1. p.id \in Ids
    BY DEF Project
  <1>2. CASE AddRunner(p)
    <2>1. cancelled' \in [Runners -> BOOLEAN]
      BY <1>2, Zenon DEF AddRunner
    <2>2. /\ created + 1 \in Runners /\ created' = created + 1
          /\ runners[p.id] \in Runners \cup {NoRunner}
      BY <1>1, <1>2 DEF AddRunner, TypeOK
    <2>3. created' \in 0 .. MaxRunners
      BY <2>2, MaxRunnersAssumption DEF Runners
    <2>4. QED
      BY <1>1, <1>2, <2>1, <2>2, <2>3 DEF AddRunner, TypeOK, Phases
  <1>3. CASE UNCHANGED <<runners, creation, cancelled, phase>>
    BY <1>3 DEF creation, TypeOK
  <1>4. QED
    BY <1>2, <1>3 DEF register

LEMMA TypeStep == TypeOK /\ [Next]_vars => TypeOK'
  <1> SUFFICES ASSUME TypeOK, [Next]_vars PROVE TypeOK'
    OBVIOUS
  <1> USE DEF Goto, Return
  <1>1. ASSUME NEW c \in Callers, NEW p \in Project, Register(c, p) PROVE TypeOK'
    BY <1>1, RegisterType DEF Register, callVars, TypeOK
  <1>2. ASSUME NEW c \in Callers, NEW p \in Project, Ensure(c, p) PROVE TypeOK'
    BY <1>2, RegisterType DEF Ensure, callVars, TypeOK
  <1>3. ASSUME NEW c \in Callers, StopRun(c) PROVE TypeOK'
    <2>1. CASE BeginStop(c)
      <3>1. cancelled' \in [Runners -> BOOLEAN]
        BY <2>1, Zenon DEF BeginStop
      <3>2. {runners[i] : i \in Ids} \ {NoRunner} \in SUBSET Runners
        BY DEF TypeOK
      <3>3. waits' \in [Callers -> SUBSET Runners]
        BY <2>1, <3>2 DEF BeginStop, TypeOK
      <3>4. QED
        BY <2>1, <3>1, <3>3 DEF BeginStop, TypeOK, creation, workerVars, PCs
    <2>2. CASE ~BeginStop(c)
      BY <1>3, <2>2 DEF StopRun, TypeOK, mapVars, creation, workerVars, PCs
    <2>3. QED
      BY <2>1, <2>2
  <1>4. ASSUME NEW c \in Callers, StopFinish(c) PROVE TypeOK'
    <2>1. pc' \in [Callers -> PCs]
      BY <1>4 DEF StopFinish, TypeOK, PCs
    <2>2. QED
      BY <1>4, <2>1 DEF StopFinish, TypeOK, creation, workerVars
  <1>5. ASSUME NEW c \in Callers, StartLock(c) \/ StartExpire(c) \/ StartDone(c)
        PROVE  TypeOK'
    BY <1>5 DEF StartLock, StartExpire, StartDone, TypeOK, mapVars, creation, workerVars, PCs
  <1>6. ASSUME NEW c \in Callers, NEW S \in Listings, StartList(c, S) PROVE TypeOK'
    BY <1>6 DEF StartList, Listings, TypeOK, mapVars, creation, workerVars, PCs
  <1>7. ASSUME NEW c \in Callers, NEW p \in Project, StartNext(c, p) PROVE TypeOK'
    <2>1. todo' \in [Callers -> SUBSET Project]
      BY <1>7 DEF StartNext, TypeOK
    <2>2. CASE register(p, FALSE)
      BY <1>7, <2>1, <2>2, RegisterType DEF StartNext, TypeOK
    <2>3. CASE UNCHANGED <<runners, creation, cancelled, phase>>
      BY <1>7, <2>1, <2>3 DEF StartNext, TypeOK, creation
    <2>4. QED
      BY <1>7, <2>2, <2>3 DEF StartNext
  <1>8. ASSUME CancelRoot PROVE TypeOK'
    <2>1. cancelled' \in [Runners -> BOOLEAN]
      BY <1>8, Zenon DEF CancelRoot
    <2>2. QED
      BY <1>8, <2>1 DEF CancelRoot, TypeOK, creation, workerVars, callVars
  <1>9. ASSUME NEW c \in Callers, NEW i \in Ids, Remove(c, i) PROVE TypeOK'
    BY <1>9 DEF Remove, TypeOK, mapVars, creation, workerVars, PCs
  <1>10. ASSUME NEW c \in Callers, RemoveFinish(c) PROVE TypeOK'
    BY <1>10 DEF RemoveFinish, TypeOK, creation, workerVars, PCs
  <1>11. ASSUME NEW c \in Callers, NEW i \in Ids, Rescan(c, i) PROVE TypeOK'
    BY <1>11 DEF Rescan, TypeOK, mapVars, creation, workerVars, PCs, Outcomes
  <1>12. ASSUME NEW c \in Callers, NEW p \in Project, RestoreFound(c, p) PROVE TypeOK'
    BY <1>12 DEF RestoreFound, TypeOK, mapVars, creation, workerVars, PCs
  <1>13. ASSUME NEW c \in Callers, RestoreEnsure(c) PROVE TypeOK'
    <2>1. arg[c] \in Project
      BY DEF TypeOK
    <2>2. QED
      BY <1>13, <2>1, RegisterType DEF RestoreEnsure, TypeOK, PCs
  <1>14. ASSUME NEW c \in Callers, RestoreFail(c) \/ RestoreLookup(c) PROVE TypeOK'
    <2>1. runners[arg[c].id] \in Runners \cup {NoRunner}
      BY DEF TypeOK, Project
    <2>2. QED
      BY <1>14, <2>1
         DEF RestoreFail, RestoreLookup, TypeOK, mapVars, creation, workerVars, PCs, Outcomes
  <1>15. ASSUME NEW c \in Callers, AcceptRescan(c) PROVE TypeOK'
    BY <1>15 DEF AcceptRescan, TypeOK, mapVars, creation, PCs, Phases
  <1>16. ASSUME NEW c \in Callers, SendStopped(c) \/ AwaitReturn(c)
         PROVE  TypeOK'
    BY <1>16 DEF SendStopped, AwaitReturn, TypeOK, mapVars, creation,
                 workerVars, PCs, Outcomes
  <1>17. ASSUME NEW c \in Callers, RescanExpire(c) PROVE TypeOK'
    BY <1>17 DEF RescanExpire, TypeOK, mapVars, creation, PCs, Outcomes
  <1>18. ASSUME NEW r \in Runners, Launch(r) PROVE TypeOK'
    BY <1>18 DEF Launch, TypeOK, mapVars, creation, callVars, Phases
  <1>19. ASSUME NEW r \in Runners,
                TakeJob(r) \/ Retire(r) \/ Exit(r) \/ WatcherExit(r)
         PROVE  TypeOK'
    BY <1>19 DEF TakeJob, Retire, Exit, WatcherExit, TypeOK, mapVars, creation,
                 callVars, Phases
  <1>20. ASSUME NEW r \in Runners, FinishJob(r) PROVE TypeOK'
    <2>1. pc' \in [Callers -> PCs]
      BY <1>20 DEF FinishJob, TypeOK, PCs
    <2>2. QED
      BY <1>20, <2>1 DEF FinishJob, TypeOK, mapVars, creation, Phases
  <1>21. CASE UNCHANGED vars
    BY <1>21 DEF vars, mapVars, creation, workerVars, callVars, TypeOK
  <1>22. QED
    BY <1>1, <1>2, <1>3, <1>4, <1>5, <1>6, <1>7, <1>8, <1>9, <1>10, <1>11, <1>12,
       <1>13, <1>14, <1>15, <1>16, <1>17, <1>18, <1>19, <1>20, <1>21
       DEF Next, CallBegins, CallContinues, CallExpires, WorkerStep,
           Start, StartRetry, StartAbort, Stop

\* Every variable of the supervisor keeps its type.
THEOREM TypeCorrect == Spec => []TypeOK
  BY InitType, TypeStep, PTL DEF Spec

-----------------------------------------------------------------------------
(* The structure of the runners.                                           *)

LEMMA InitStructure == Init => Structure
  <1> SUFFICES ASSUME Init PROVE Structure
    OBVIOUS
  <1>1. \A r \in Runners : phase[r] = "unused" /\ ~Used(r) /\ ~watching[r]
    BY RunnersType DEF Init, Used, Runners
  <1>2. UsedInv /\ Serial /\ Predecessor /\ WatchInv /\ DisplacedIsCancelled /\ Reachable
    BY <1>1 DEF UsedInv, Serial, Predecessor, WatchInv, DisplacedIsCancelled, Reachable,
                Entered, Alive
  <1>3. MapNewest /\ MapInv
    BY DEF Init, MapNewest, MapInv
  <1>4. QED
    BY <1>2, <1>3 DEF Structure

\* A new runner is queued behind the newest one of its project.
LEMMA RegisterStructure ==
    ASSUME TypeOK, Structure, NEW p \in Project, NEW b \in BOOLEAN, register(p, b),
           UNCHANGED <<ctx, stopper, waits, watching>>
    PROVE  /\ Structure'
           /\ \A r \in Runners : Used(r) => Used(r)'
  <1>1. CASE UNCHANGED <<runners, creation, cancelled, phase>>
    BY <1>1 DEF Structure, UsedInv, Serial, Predecessor, MapNewest, Reachable, MapInv,
                WatchInv, DisplacedIsCancelled, creation, Used, SameId, Entered,
                Alive, InWorker
  <1>2. CASE Started /\ AddRunner(p)
    <2> DEFINE r == created + 1
               old == runners[p.id]
    <2>1. /\ r \in Runners /\ p.id \in Ids /\ created \in Nat
          /\ old \in Runners \cup {NoRunner}
      BY <1>2 DEF AddRunner, TypeOK, Project
    <2>2. /\ created' = r
          /\ runners' = [runners EXCEPT ![p.id] = r]
          /\ project' = [project EXCEPT ![r] = p]
          /\ previous' = [previous EXCEPT ![r] = old]
          /\ phase' = [phase EXCEPT ![r] = "queued"]
      BY <1>2 DEF AddRunner
    <2>3. ~Used(r) /\ \A s \in Runners : Used(s)' <=> Used(s) \/ s = r
      BY <2>1, <2>2, RunnersType DEF Used
    <2>4. phase[r] = "unused" /\ ~watching[r]
      BY <2>1, <2>3 DEF Structure, UsedInv, WatchInv, InWorker
    <2>5. \A s \in Runners : Alive(s) /\ project[s].id = p.id
              => old # NoRunner /\ s <= old
      BY <1>2 DEF Structure, Reachable, MapNewest, Started, Alive, TypeOK, Project
    <2>6. UsedInv'
      BY <2>1, <2>2, <2>3 DEF Structure, UsedInv, TypeOK
    <2>7. Serial'
      BY <2>1, <2>2, <2>3, <2>4, RunnersType
         DEF Structure, Serial, UsedInv, SameId, Entered, TypeOK, Used
    <2>8. Predecessor'
      <3> SUFFICES ASSUME NEW t \in Runners, NEW s \in Runners,
                          s < t, Used(t)', SameId(t, s)', phase'[s] # "done"
                   PROVE  /\ s <= previous'[t] /\ previous'[t] < t
          /\ SameId(previous[t], t)'
        BY DEF Predecessor
      <3>1. s # r /\ Used(s)
        BY <2>1, <2>2, RunnersType DEF Used
      <3>2. Alive(s)
        BY <2>1, <2>2, <3>1 DEF Alive, TypeOK
      <3>3. CASE t = r
        <4>1. project[s].id = p.id
          BY <2>1, <2>2, <3>1, <3>3 DEF SameId, TypeOK
        <4>2. /\ old # NoRunner /\ s <= old /\ Used(old) /\ project[old].id = p.id
          BY <2>1, <2>5, <3>2, <4>1 DEF Structure, MapNewest
        <4>3. old \in Runners /\ old < r
          BY <2>1, <4>2 DEF Used, Runners
        <4>4. QED
          BY <2>1, <2>2, <3>3, <4>2, <4>3 DEF SameId, TypeOK
      <3>4. CASE t # r
        <4>1. Used(t) /\ SameId(t, s) /\ phase[s] # "done"
          BY <2>1, <2>2, <2>3, <3>1, <3>4 DEF SameId, TypeOK
        <4>2. /\ s <= previous[t] /\ previous[t] < t /\ SameId(previous[t], t)
          BY <4>1 DEF Structure, Predecessor
        <4>3. previous[t] \in Runners /\ previous[t] # r
          BY <2>1, <2>3, <4>1, <4>2, RunnersType DEF TypeOK, Used, NoRunner
        <4>4. QED
          BY <2>1, <2>2, <3>4, <4>2, <4>3 DEF SameId, TypeOK
      <3>5. QED
        BY <3>3, <3>4
    <2>9. MapNewest'
      <3> SUFFICES ASSUME NEW i \in Ids, runners'[i] # NoRunner
                   PROVE  /\ Used(runners[i])' /\ project'[runners'[i]].id = i
          /\ \A s \in Runners : Used(s)' /\ project'[s].id = i
                                => s <= runners'[i]
        BY DEF MapNewest
      <3>1. CASE i = p.id
        BY <2>1, <2>2, <3>1 DEF TypeOK, Used, Runners
      <3>2. CASE i # p.id
        <4>1. /\ runners'[i] = runners[i] /\ runners[i] \in Runners
              /\ Used(runners[i]) /\ project[runners[i]].id = i
          BY <2>2, <3>2 DEF Structure, MapNewest, TypeOK
        <4>2. runners[i] # r /\ project'[r].id # i
          BY <2>1, <2>2, <2>3, <3>2, <4>1 DEF TypeOK
        <4>3. QED
          BY <2>1, <2>2, <2>3, <4>1, <4>2 DEF Structure, MapNewest, TypeOK
      <3>3. QED
        BY <3>1, <3>2
    <2>10. Reachable'
      BY <1>2, <2>1, <2>2, <2>3, RunnersType
         DEF Structure, Reachable, Alive, Started, TypeOK, NoRunner, Project
    <2>11. MapInv'
      BY <1>2 DEF Structure, MapInv, Started
    <2>12. WatchInv'
      BY <2>1, <2>2, <2>4 DEF Structure, WatchInv, InWorker, TypeOK
    <2>13. DisplacedIsCancelled'
      <3> SUFFICES ASSUME NEW s \in Runners, Alive(s)', runners'[project'[s].id] # s
                   PROVE  cancelled'[s]
        BY DEF DisplacedIsCancelled
      <3>1. s # r
        BY <2>1, <2>2 DEF TypeOK
      <3>2. Alive(s) /\ project'[s] = project[s]
        BY <2>1, <2>2, <2>3, <3>1 DEF Alive, TypeOK
      <3>3. cancelled[s] \/ s = old
        BY <2>1, <2>2, <3>1, <3>2 DEF Structure, DisplacedIsCancelled, TypeOK, Project
      <3>4. cancelled'[s] = (cancelled[s] \/ s = old)
        BY <1>2, <3>1 DEF AddRunner
      <3>5. QED
        BY <3>3, <3>4
    <2>14. QED
      BY <2>3, <2>6, <2>7, <2>8, <2>9, <2>10, <2>11, <2>12, <2>13 DEF Structure
  <1>3. QED
    BY <1>1, <1>2 DEF register

\* A step that touches none of the variables Structure speaks of.
LEMMA FrameStructure ==
    ASSUME Structure, UNCHANGED <<mapVars, creation, cancelled, phase, watching, waits>>
    PROVE  Structure'
  BY DEF Structure, UsedInv, Serial, Predecessor, MapNewest, Reachable, MapInv, WatchInv,
         DisplacedIsCancelled, mapVars, creation, Used, SameId, Entered, Alive, InWorker

\* A step of a worker that is, and stays, inside runProject.
LEMMA JobStructure ==
    ASSUME TypeOK, Structure, NEW r \in Runners, NEW q \in {"busy", "select", "draining"},
           InWorker(r), phase' = [phase EXCEPT ![r] = q],
           UNCHANGED <<mapVars, creation, cancelled, watching, waits>>
    PROVE  Structure'
  <1>1. \A s \in Runners :
          /\ Entered(s)' <=> Entered(s)
          /\ InWorker(s)' <=> InWorker(s)
          /\ phase'[s] = "unused" <=> phase[s] = "unused"
          /\ phase'[s] = "done" <=> phase[s] = "done"
    BY DEF Entered, InWorker, TypeOK
  <1>2. QED
    BY <1>1 DEF Structure, UsedInv, Serial, Predecessor, MapNewest, Reachable, MapInv,
                WatchInv, DisplacedIsCancelled, mapVars, creation, Used, SameId, Alive

\* A runner's worker enters runProject, or is done: every older runner of
\* the project is done.
LEMMA LaunchStructure ==
    ASSUME TypeOK, Structure, NEW r \in Runners, Launch(r)
    PROVE  Structure'
  <1>1. /\ phase[r] = "queued" /\ Used(r) /\ ~Entered(r)
    BY DEF Launch, Structure, UsedInv, Entered
  <1>2. /\ phase' = [phase EXCEPT ![r] = IF cancelled[r] THEN "done" ELSE "busy"]
        /\ watching' = [watching EXCEPT ![r] = ~cancelled[r]]
        /\ UNCHANGED <<ctx, stopper, runners, created, project, previous, cancelled, waits>>
    BY DEF Launch, mapVars, creation, callVars
  <1>3. \A s \in Runners : s < r /\ SameId(r, s) => phase[s] = "done"
    <2> SUFFICES ASSUME NEW s \in Runners, s < r, SameId(r, s), phase[s] # "done"
                 PROVE  FALSE
      OBVIOUS
    <2>1. s <= previous[r] /\ SameId(previous[r], r)
      BY <1>1 DEF Structure, Predecessor
    <2>2. previous[r] \in Runners /\ previous[r] # NoRunner
      BY <2>1 DEF TypeOK, Runners, NoRunner
    <2>3. phase[previous[r]] = "done"
      BY <2>2 DEF Launch
    <2>4. s < previous[r] /\ SameId(previous[r], s)
      BY <2>1, <2>2, <2>3 DEF SameId, Runners
    <2>5. QED
      BY <2>2, <2>3, <2>4 DEF Structure, Serial, Entered
  <1>4. Serial'
    BY <1>1, <1>2, <1>3 DEF Structure, Serial, Entered, SameId, TypeOK
  <1>5. Predecessor' /\ UsedInv' /\ Reachable' /\ DisplacedIsCancelled'
    BY <1>1, <1>2 DEF Structure, Predecessor, UsedInv, Reachable, DisplacedIsCancelled,
                      Used, SameId, Alive, TypeOK
  <1>6. MapNewest' /\ MapInv'
    BY <1>2 DEF Structure, MapNewest, MapInv, Used
  <1>7. WatchInv'
    <2> SUFFICES ASSUME NEW s \in Runners, watching'[s] PROVE InWorker(s)'
      BY DEF WatchInv
    <2>1. CASE s = r
      <3>1. ~cancelled[r]
        BY <1>2, <2>1 DEF TypeOK
      <3>2. QED
        BY <1>2, <2>1, <3>1 DEF InWorker, TypeOK
    <2>2. CASE s # r
      BY <1>2, <2>2 DEF InWorker, TypeOK, Structure, WatchInv
    <2>3. QED
      BY <2>1, <2>2
  <1>8. QED
    BY <1>4, <1>5, <1>6, <1>7 DEF Structure

\* close(runner.done), once the watcher has ended.
LEMMA ExitStructure ==
    ASSUME TypeOK, Structure, NEW r \in Runners, Exit(r)
    PROVE  Structure'
  <1>1. /\ phase[r] = "draining" /\ ~watching[r]
        /\ phase' = [phase EXCEPT ![r] = "done"]
        /\ UNCHANGED <<ctx, stopper, runners, created, project, previous, cancelled,
                       watching, waits>>
    BY DEF Exit, mapVars, creation, callVars
  <1>2. \A s \in Runners :
          /\ Entered(s)' <=> Entered(s)
          /\ phase'[s] = "unused" <=> phase[s] = "unused"
          /\ phase[s] = "done" => phase'[s] = "done"
    BY <1>1 DEF Entered, TypeOK
  <1>3. UsedInv' /\ Serial' /\ Predecessor' /\ MapNewest' /\ MapInv'
    BY <1>1, <1>2 DEF Structure, UsedInv, Serial, Predecessor, MapNewest, MapInv, Used, SameId
  <1>4. Reachable' /\ DisplacedIsCancelled'
    BY <1>1, <1>2 DEF Structure, Reachable, DisplacedIsCancelled, Used, SameId, Alive
  <1>5. WatchInv'
    BY <1>1 DEF Structure, WatchInv, InWorker, TypeOK
  <1>6. QED
    BY <1>3, <1>4, <1>5 DEF Structure

\* Cancelling runners, or the context they are created in.
LEMMA CancelStructure ==
    ASSUME Structure, \A r \in Runners : cancelled[r] => cancelled'[r],
           UNCHANGED <<stopper, runners, creation, phase, watching, waits>>,
           (ctx' = "nil") <=> (ctx = "nil")
    PROVE  Structure'
  <1>1. UsedInv' /\ Serial' /\ Predecessor' /\ MapNewest' /\ WatchInv' /\ Reachable'
    BY DEF Structure, UsedInv, Serial, Predecessor, MapNewest, Reachable, WatchInv,
           creation, Used, SameId, Entered, Alive, InWorker
  <1>2. DisplacedIsCancelled'
    BY DEF Structure, DisplacedIsCancelled, creation, Used, Alive
  <1>3. QED
    BY <1>1, <1>2 DEF Structure, MapInv

\* Stop takes every mapped runner into the set it waits for.
LEMMA BeginStopStructure ==
    ASSUME TypeOK, Structure, NEW c \in Callers, BeginStop(c), stopper = NoCaller
    PROVE  Structure'
  <1>1. /\ ctx' = "nil" /\ stopper' = c /\ c # NoCaller
        /\ runners' = [i \in Ids |-> NoRunner]
        /\ waits'[c] = {runners[i] : i \in Ids} \ {NoRunner}
        /\ UNCHANGED <<created, project, previous, phase, watching>>
    BY NoCallerAssumption DEF BeginStop, creation, workerVars, TypeOK
  <1>2. UsedInv' /\ Serial' /\ Predecessor' /\ WatchInv'
    BY <1>1 DEF Structure, UsedInv, Serial, Predecessor, WatchInv, Used, SameId,
                Entered, InWorker
  <1>3. MapNewest' /\ MapInv'
    BY <1>1 DEF MapNewest, MapInv
  <1>4. Reachable'
    <2> SUFFICES ASSUME NEW r \in Runners, Alive(r)
                 PROVE  \E w \in waits'[c] : Used(w)' /\ SameId(w, r)' /\ r <= w
      BY <1>1 DEF Reachable, Alive, Used
    <2>1. project[r].id \in Ids
      BY DEF TypeOK, Project
    <2>2. runners[project[r].id] # NoRunner
      BY DEF Structure, Reachable
    <2>3. /\ Used(runners[project[r].id]) /\ SameId(runners[project[r].id], r)
          /\ r <= runners[project[r].id]
      BY <2>1, <2>2 DEF Structure, MapNewest, SameId, Alive
    <2>4. QED
      BY <1>1, <2>1, <2>2, <2>3 DEF Used, SameId
  <1>5. DisplacedIsCancelled'
    <2>1. \A r \in Runners : r <= created => cancelled'[r]
      BY Zenon DEF BeginStop
    <2>2. QED
      BY <1>1, <2>1 DEF DisplacedIsCancelled, Alive, Used
  <1>6. QED
    BY <1>2, <1>3, <1>4, <1>5 DEF Structure

\* Stop has waited for its set: nothing is alive any more.
LEMMA StopFinishQuiet ==
    ASSUME TypeOK, Structure, WaitInv, NEW c \in Callers, StopFinish(c)
    PROVE  \A r \in Runners : ~Alive(r)
  <1> SUFFICES ASSUME NEW r \in Runners, Alive(r) PROVE FALSE
    OBVIOUS
  <1>1. /\ stopper = c /\ c # NoCaller /\ \A w \in waits[c] : phase[w] = "done"
    BY NoCallerAssumption DEF StopFinish, WaitInv
  <1>2. \A i \in Ids : runners[i] = NoRunner
    BY <1>1 DEF Structure, MapInv
  <1>3. PICK w \in waits[c] : Used(w) /\ SameId(w, r) /\ r <= w
    BY <1>1, <1>2 DEF Structure, Reachable, TypeOK, Project
  <1>4. w \in Runners /\ phase[w] = "done"
    BY <1>1, <1>3 DEF TypeOK
  <1>5. r # w /\ r < w
    BY <1>3, <1>4 DEF Alive, Runners
  <1>6. QED
    BY <1>3, <1>4, <1>5 DEF Structure, Serial, Entered, Alive

LEMMA StopFinishStructure ==
    ASSUME TypeOK, Structure, WaitInv, NEW c \in Callers, StopFinish(c)
    PROVE  Structure'
  <1>1. UNCHANGED <<ctx, runners, created, project, previous, cancelled, phase, watching>>
    BY DEF StopFinish, creation, workerVars
  <1>2. \A r \in Runners : ~Alive(r)'
    BY <1>1, StopFinishQuiet DEF Alive, Used
  <1>3. UsedInv' /\ Serial' /\ Predecessor' /\ MapNewest' /\ WatchInv'
    BY <1>1 DEF Structure, UsedInv, Serial, Predecessor, MapNewest, WatchInv, Used,
                SameId, Entered, InWorker
  <1>4. Reachable' /\ DisplacedIsCancelled' /\ MapInv'
    BY <1>1, <1>2 DEF Structure, Reachable, DisplacedIsCancelled, MapInv, StopFinish
  <1>5. QED
    BY <1>3, <1>4 DEF Structure

\* Remove unmaps its runner only when it is still the newest, hence the last.
LEMMA RemoveFinishStructure ==
    ASSUME TypeOK, Structure, WaitInv, NEW c \in Callers, RemoveFinish(c)
    PROVE  Structure'
  <1> DEFINE r == target[c]
             i == project[r].id
  <1>1. /\ r \in Runners /\ Used(r) /\ phase[r] = "done" /\ i \in Ids
        /\ UNCHANGED <<ctx, stopper, created, project, previous, cancelled, phase,
                       watching, waits>>
    BY DEF RemoveFinish, WaitInv, creation, workerVars, TypeOK, Project
  <1>2. UsedInv' /\ Serial' /\ Predecessor' /\ WatchInv'
    BY <1>1 DEF Structure, UsedInv, Serial, Predecessor, WatchInv, Used, SameId,
                Entered, InWorker
  <1>3. CASE runners[i] # r
    <2>1. runners' = runners
      BY <1>3 DEF RemoveFinish
    <2>2. QED
      BY <1>1, <1>2, <2>1 DEF Structure, MapNewest, Reachable, MapInv,
                              DisplacedIsCancelled, Used, SameId, Alive
  <1>4. CASE runners[i] = r
    <2>1. runners' = [runners EXCEPT ![i] = NoRunner]
      BY <1>4 DEF RemoveFinish
    <2>2. \A s \in Runners : project[s].id = i => ~Alive(s)
      <3> SUFFICES ASSUME NEW s \in Runners, project[s].id = i, Alive(s) PROVE FALSE
        OBVIOUS
      <3>1. s <= r /\ s # r
        BY <1>1, <1>4, RunnersType DEF Structure, MapNewest, Alive
      <3>2. s < r /\ SameId(r, s)
        BY <1>1, <3>1 DEF Runners, SameId
      <3>3. QED
        BY <1>1, <3>2 DEF Structure, Serial, Entered, Alive
    <2>3. \A s \in Runners :
             Alive(s)' => Alive(s) /\ runners'[project[s].id] = runners[project[s].id]
      BY <1>1, <2>1, <2>2 DEF Alive, Used, TypeOK, Project
    <2>4. Reachable' /\ DisplacedIsCancelled'
      BY <1>1, <2>3 DEF Structure, Reachable, DisplacedIsCancelled, SameId, Used
    <2>5. MapNewest' /\ MapInv'
      BY <1>1, <2>1 DEF Structure, MapNewest, MapInv, Used, TypeOK
    <2>6. QED
      BY <1>2, <2>4, <2>5 DEF Structure
  <1>5. QED
    BY <1>3, <1>4

-----------------------------------------------------------------------------
(* The invariant is inductive: one step per action, or per group of actions *)
(* that move only a caller.                                                 *)

LEMMA InvStep == IInv /\ [Next]_vars => IInv'
  <1> SUFFICES ASSUME IInv, [Next]_vars
               PROVE  Structure' /\ WaitInv' /\ ServeInv' /\ AcceptedIsAnswered'
    BY TypeStep DEF IInv
  <1> USE DEF Goto, Return, IInv
  <1> DEFINE Kept == Structure' /\ WaitInv' /\ ServeInv' /\ AcceptedIsAnswered'
  <1>1. ASSUME NEW c \in Callers, NEW p \in Project, Register(c, p) \/ Ensure(c, p)
        PROVE  Kept
    <2>1. PICK b \in BOOLEAN : register(p, b)
      BY <1>1 DEF Register, Ensure
    <2>2. /\ UNCHANGED <<ctx, stopper, watching, serving, callVars>>
          /\ \A r \in Runners : phase[r] = "busy" => phase'[r] = "busy"
      <3>1. \A r \in Runners : phase[r] = "busy" => r # created + 1
        BY RunnersType DEF Structure, UsedInv, Used, TypeOK
      <3>2. QED
        BY <1>1, <2>1, <3>1 DEF Register, Ensure, register, AddRunner, TypeOK
    <2>3. QED
      BY <2>1, <2>2, RegisterStructure DEF callVars, WaitInv, ServeInv, AcceptedIsAnswered
  <1>2. ASSUME NEW c \in Callers, StopRun(c), pc[c] \in {"idle", "startList"} PROVE Kept
    <2>1. CASE BeginStop(c)
      <3>1. stopper = NoCaller
        BY <1>2, <2>1, NoCallerAssumption DEF StopRun, BeginStop, Started, TypeOK, mapVars
      <3>2. Structure'
        BY <2>1, <3>1, BeginStopStructure
      <3>3. WaitInv'
        BY <2>1, <3>1, NoCallerAssumption DEF BeginStop, WaitInv, TypeOK, creation, Used
      <3>4. ServeInv' /\ AcceptedIsAnswered'
        BY <1>2, <2>1 DEF BeginStop, ServeInv, AcceptedIsAnswered, TypeOK, workerVars
      <3>5. QED
        BY <3>2, <3>3, <3>4
    <2>2. CASE ~BeginStop(c)
      <3>1. /\ UNCHANGED <<mapVars, creation, cancelled, workerVars, target, waits, outcome>>
            /\ \E l \in {"stopJoin", "idle"} : pc' = [pc EXCEPT ![c] = l]
        BY <1>2, <2>2 DEF StopRun
      <3>2. Structure'
        BY <3>1, FrameStructure DEF workerVars
      <3>3. WaitInv' /\ ServeInv' /\ AcceptedIsAnswered'
        BY <1>2, <3>1 DEF WaitInv, ServeInv, AcceptedIsAnswered, TypeOK, mapVars, creation,
                          workerVars, Used
      <3>4. QED
        BY <3>2, <3>3
    <2>3. QED
      BY <2>1, <2>2
  <1>3. ASSUME NEW c \in Callers, StopFinish(c) PROVE Kept
    <2>1. Structure'
      BY <1>3, StopFinishStructure
    <2>2. \A d \in Callers :
            /\ pc'[d] \notin {"stopWait"} \/ (d # c /\ pc'[d] = pc[d])
            /\ pc'[d] \in {"removeWait", "send", "await"} => pc'[d] = pc[d]
            /\ pc[d] = "await" => pc'[d] = "await"
      BY <1>3 DEF StopFinish, TypeOK
    <2>3. \A d \in Callers : pc[d] = "stopWait" => d = c
      BY <1>3 DEF StopFinish, WaitInv
    <2>4. WaitInv' /\ ServeInv' /\ AcceptedIsAnswered'
      BY <1>3, <2>2, <2>3 DEF StopFinish, WaitInv, ServeInv, AcceptedIsAnswered, TypeOK,
                              creation, workerVars, Used
    <2>5. QED
      BY <2>1, <2>4
  <1>4. ASSUME NEW c \in Callers, StartLock(c), pc[c] \in {"idle", "startRetry"} PROVE Kept
    <2>1. /\ UNCHANGED <<stopper, runners, creation, cancelled, workerVars, target, waits,
                         outcome>>
          /\ \E l \in {"startWait", "idle", "startList"} : pc' = [pc EXCEPT ![c] = l]
      BY <1>4 DEF StartLock
    <2>2. Structure'
      <3>1. MapInv'
        BY <1>4 DEF StartLock, Structure, MapInv
      <3>2. QED
        BY <2>1, <3>1 DEF Structure, UsedInv, Serial, Predecessor, MapNewest, Reachable,
                WatchInv, DisplacedIsCancelled, creation, workerVars, Used, SameId,
                Entered, Alive, InWorker
    <2>3. WaitInv' /\ ServeInv' /\ AcceptedIsAnswered'
      BY <1>4, <2>1 DEF WaitInv, ServeInv, AcceptedIsAnswered, TypeOK, creation,
                        workerVars, Used
    <2>4. QED
      BY <2>2, <2>3
  <1>5. ASSUME NEW c \in Callers,
               \/ StartExpire(c) \/ StartDone(c) \/ \E S \in Listings : StartList(c, S)
        PROVE  Kept
    <2>1. /\ UNCHANGED <<mapVars, creation, cancelled, workerVars, target, waits, outcome>>
          /\ \E l \in {"idle", "startLoop"} : pc' = [pc EXCEPT ![c] = l]
          /\ pc[c] # "await"
      BY <1>5 DEF StartExpire, StartDone, StartList
    <2>2. Structure'
      BY <2>1, FrameStructure DEF workerVars
    <2>3. WaitInv' /\ ServeInv' /\ AcceptedIsAnswered'
      BY <2>1 DEF WaitInv, ServeInv, AcceptedIsAnswered, TypeOK, mapVars, creation,
                  workerVars, Used
    <2>4. QED
      BY <2>2, <2>3
  <1>6. ASSUME NEW c \in Callers, NEW p \in Project, StartNext(c, p) PROVE Kept
    <2>1. CASE register(p, FALSE)
      <3>1. /\ UNCHANGED <<ctx, stopper, watching, serving, pc, target, waits, outcome>>
            /\ \A r \in Runners : phase[r] = "busy" => phase'[r] = "busy"
        <4>1. \A r \in Runners : phase[r] = "busy" => r # created + 1
          BY RunnersType DEF Structure, UsedInv, Used, TypeOK
        <4>2. QED
          BY <1>6, <2>1, <4>1 DEF StartNext, register, AddRunner, TypeOK
      <3>2. QED
        BY <2>1, <3>1, RegisterStructure DEF WaitInv, ServeInv, AcceptedIsAnswered
    <2>2. CASE UNCHANGED <<runners, creation, cancelled, phase>>
      <3>1. UNCHANGED <<mapVars, creation, cancelled, phase, watching, serving, pc, target,
                        waits, outcome>>
        BY <1>6, <2>2 DEF StartNext, mapVars
      <3>2. QED
        BY <3>1, FrameStructure DEF WaitInv, ServeInv, AcceptedIsAnswered, mapVars, creation, Used
    <2>3. QED
      BY <1>6, <2>1, <2>2 DEF StartNext
  <1>7. ASSUME CancelRoot PROVE Kept
    <2>1. /\ \A r \in Runners : cancelled[r] => cancelled'[r]
          /\ UNCHANGED <<stopper, runners, creation, workerVars, callVars>>
          /\ ctx' # "nil" /\ ctx # "nil"
      BY <1>7, Zenon DEF CancelRoot
    <2>2. Structure'
      BY <2>1, CancelStructure DEF workerVars, callVars
    <2>3. QED
      BY <2>1, <2>2 DEF WaitInv, ServeInv, AcceptedIsAnswered, creation, workerVars,
                        callVars, Used
  <1>8. ASSUME NEW c \in Callers, NEW i \in Ids, Remove(c, i) PROVE Kept
    <2>1. /\ \A r \in Runners : cancelled[r] => cancelled'[r]
          /\ UNCHANGED <<mapVars, creation, workerVars, waits, outcome>>
      BY <1>8 DEF Remove, TypeOK
    <2>2. Structure'
      BY <2>1, CancelStructure DEF workerVars, mapVars
    <2>3. runners[i] # NoRunner => runners[i] \in Runners /\ Used(runners[i])
      BY DEF Structure, MapNewest, TypeOK
    <2>4. WaitInv' /\ ServeInv' /\ AcceptedIsAnswered'
      BY <1>8, <2>1, <2>3 DEF Remove, WaitInv, ServeInv, AcceptedIsAnswered, TypeOK,
                              mapVars, creation, workerVars, Used
    <2>5. QED
      BY <2>2, <2>4
  <1>9. ASSUME NEW c \in Callers, RemoveFinish(c) PROVE Kept
    <2>1. Structure'
      BY <1>9, RemoveFinishStructure
    <2>2. WaitInv' /\ ServeInv' /\ AcceptedIsAnswered'
      BY <1>9 DEF RemoveFinish, WaitInv, ServeInv, AcceptedIsAnswered, TypeOK, creation,
                  workerVars, Used
    <2>3. QED
      BY <2>1, <2>2
  <1>10. ASSUME NEW c \in Callers,
                \/ \E i \in Ids : Rescan(c, i)
                \/ \E p \in Project : RestoreFound(c, p)
                \/ RestoreFail(c) \/ RestoreLookup(c)
                \/ SendStopped(c) \/ (AwaitReturn(c) /\ pc[c] = "answered")
         PROVE  Kept
    <2>1. /\ UNCHANGED <<mapVars, creation, cancelled, workerVars, waits>>
          /\ pc[c] # "await" /\ outcome'[c] # "lost"
          /\ \A d \in Callers \ {c} : pc'[d] = pc[d] /\ target'[d] = target[d]
                                     /\ outcome'[d] = outcome[d]
          /\ pc'[c] \in {"send", "restore", "ensure", "idle"}
      BY <1>10 DEF Rescan, RestoreFound, RestoreFail, RestoreLookup, SendStopped,
                   AwaitReturn, TypeOK, AcceptedIsAnswered
    <2>2. Structure'
      BY <2>1, FrameStructure DEF workerVars
    <2>3. pc'[c] = "send" => target'[c] \in Runners /\ Used(target'[c])
      <3>1. \A i \in Ids : runners[i] # NoRunner => runners[i] \in Runners /\ Used(runners[i])
        BY DEF Structure, MapNewest, TypeOK
      <3>2. arg[c].id \in Ids
        BY DEF TypeOK, Project
      <3>3. QED
        BY <1>10, <3>1, <3>2
           DEF Rescan, RestoreFound, RestoreFail, RestoreLookup, SendStopped, AwaitReturn, TypeOK
    <2>4. WaitInv' /\ ServeInv' /\ AcceptedIsAnswered'
      BY <2>1, <2>3 DEF WaitInv, ServeInv, AcceptedIsAnswered, TypeOK, mapVars, creation,
                  workerVars, Used
    <2>5. QED
      BY <2>2, <2>4
  <1>11. ASSUME NEW c \in Callers, AwaitReturn(c) PROVE Kept
    \* The worker that serves a call is busy, hence not done.
    <2>1. pc[c] = "answered"
      BY <1>11, NoCallerAssumption DEF AwaitReturn, ServeInv, TypeOK
    <2>2. QED
      BY <1>10, <1>11, <2>1
  <1>12. ASSUME NEW c \in Callers, RestoreEnsure(c) PROVE Kept
    <2>1. arg[c] \in Project
      BY DEF TypeOK
    <2>2. /\ UNCHANGED <<ctx, stopper, watching, serving, target, waits, outcome>>
          /\ pc' = [pc EXCEPT ![c] = "lookup"] /\ pc[c] = "ensure"
          /\ \A r \in Runners : phase[r] = "busy" => phase'[r] = "busy"
      <3>1. \A r \in Runners : phase[r] = "busy" => r # created + 1
        BY RunnersType DEF Structure, UsedInv, Used, TypeOK
      <3>2. QED
        BY <1>12, <3>1 DEF RestoreEnsure, register, AddRunner, TypeOK
    <2>3. Structure' /\ \A r \in Runners : Used(r) => Used(r)'
      BY <1>12, <2>1, <2>2, RegisterStructure DEF RestoreEnsure
    <2>4. WaitInv' /\ ServeInv' /\ AcceptedIsAnswered'
      BY <2>2, <2>3 DEF WaitInv, ServeInv, AcceptedIsAnswered, TypeOK
    <2>5. QED
      BY <2>3, <2>4
  <1>13. ASSUME NEW c \in Callers, AcceptRescan(c) PROVE Kept
    <2> DEFINE r == target[c]
    <2>1. /\ pc[c] = "send" /\ phase[r] = "select" /\ r \in Runners
          /\ UNCHANGED <<mapVars, creation, cancelled, watching, target, waits, outcome>>
      BY <1>13 DEF AcceptRescan, WaitInv
    <2>2. CASE cancelled[r]
      <3>1. pc' = [pc EXCEPT ![c] = "answered"] /\ UNCHANGED <<phase, serving>>
        BY <1>13, <2>2 DEF AcceptRescan
      <3>2. Structure'
        BY <2>1, <3>1, FrameStructure
      <3>3. WaitInv' /\ ServeInv' /\ AcceptedIsAnswered'
        BY <2>1, <3>1 DEF WaitInv, ServeInv, AcceptedIsAnswered, TypeOK, mapVars,
                          creation, Used
      <3>4. QED
        BY <3>2, <3>3
    <2>3. CASE ~cancelled[r]
      <3>1. /\ phase' = [phase EXCEPT ![r] = "busy"]
            /\ serving' = [serving EXCEPT ![r] = c] /\ pc' = [pc EXCEPT ![c] = "await"]
        BY <1>13, <2>3 DEF AcceptRescan
      <3>2. Structure'
        BY <2>1, <3>1, JobStructure DEF InWorker
      <3>3. WaitInv' /\ ServeInv' /\ AcceptedIsAnswered'
        BY <2>1, <3>1, NoCallerAssumption
           DEF WaitInv, ServeInv, AcceptedIsAnswered, TypeOK, mapVars, creation, Used
      <3>4. QED
        BY <3>2, <3>3
    <2>4. QED
      BY <2>2, <2>3
  <1>14. ASSUME NEW c \in Callers, RescanExpire(c) PROVE Kept
    <2>1. Structure'
      BY <1>14, FrameStructure DEF RescanExpire
    <2>2. WaitInv' /\ ServeInv' /\ AcceptedIsAnswered'
      BY <1>14, NoCallerAssumption
         DEF RescanExpire, WaitInv, ServeInv, AcceptedIsAnswered, TypeOK, mapVars, creation, Used
    <2>3. QED
      BY <2>1, <2>2
  <1>15. ASSUME NEW r \in Runners, Launch(r) PROVE Kept
    <2>1. Structure'
      BY <1>15, LaunchStructure
    <2>2. WaitInv' /\ ServeInv' /\ AcceptedIsAnswered'
      BY <1>15 DEF Launch, WaitInv, ServeInv, AcceptedIsAnswered, TypeOK, mapVars,
                   creation, callVars, Used
    <2>3. QED
      BY <2>1, <2>2
  <1>16. ASSUME NEW r \in Runners, TakeJob(r) \/ Retire(r) PROVE Kept
    <2>1. Structure'
      BY <1>16, JobStructure DEF TakeJob, Retire, InWorker, callVars
    <2>2. WaitInv' /\ ServeInv' /\ AcceptedIsAnswered'
      BY <1>16 DEF TakeJob, Retire, WaitInv, ServeInv, AcceptedIsAnswered, TypeOK,
                   mapVars, creation, callVars, Used
    <2>3. QED
      BY <2>1, <2>2
  <1>17. ASSUME NEW r \in Runners, FinishJob(r) PROVE Kept
    <2>1. Structure'
      BY <1>17, JobStructure DEF FinishJob, InWorker
    <2>2. WaitInv' /\ ServeInv' /\ AcceptedIsAnswered'
      BY <1>17, NoCallerAssumption
         DEF FinishJob, WaitInv, ServeInv, AcceptedIsAnswered, TypeOK, mapVars, creation, Used
    <2>3. QED
      BY <2>1, <2>2
  <1>18. ASSUME NEW r \in Runners, Exit(r) PROVE Kept
    <2>1. Structure'
      BY <1>18, ExitStructure
    <2>2. WaitInv' /\ ServeInv' /\ AcceptedIsAnswered'
      BY <1>18 DEF Exit, WaitInv, ServeInv, AcceptedIsAnswered, TypeOK, mapVars,
                   creation, callVars, Used
    <2>3. QED
      BY <2>1, <2>2
  <1>19. ASSUME NEW r \in Runners, WatcherExit(r) PROVE Kept
    <2>1. /\ watching' = [watching EXCEPT ![r] = FALSE]
          /\ UNCHANGED <<mapVars, creation, cancelled, phase, serving, callVars>>
      BY <1>19 DEF WatcherExit
    <2>2. WatchInv'
      BY <2>1 DEF Structure, WatchInv, InWorker, TypeOK
    <2>3. Structure'
      BY <2>1, <2>2 DEF Structure, UsedInv, Serial, Predecessor, MapNewest, Reachable, MapInv,
                DisplacedIsCancelled, mapVars, creation, callVars, Used, SameId, Entered, Alive
    <2>4. QED
      BY <2>1, <2>3 DEF WaitInv, ServeInv, AcceptedIsAnswered, mapVars, creation, callVars, Used
  <1>20. CASE UNCHANGED vars
    <2>1. Structure'
      BY <1>20, FrameStructure DEF vars, workerVars, callVars
    <2>2. QED
      BY <1>20, <2>1 DEF vars, WaitInv, ServeInv, AcceptedIsAnswered, mapVars, creation,
                         workerVars, callVars, Used
  <1>21. QED
    BY <1>1, <1>2, <1>3, <1>4, <1>5, <1>6, <1>7, <1>8, <1>9, <1>10, <1>11, <1>12,
       <1>13, <1>14, <1>15, <1>16, <1>17, <1>18, <1>19, <1>20
       DEF Next, CallBegins, CallContinues, CallExpires, WorkerStep,
           Start, StartRetry, StartAbort, Stop

LEMMA InvInit == Init => IInv
  <1> SUFFICES ASSUME Init PROVE WaitInv /\ ServeInv /\ AcceptedIsAnswered
    BY InitType, InitStructure DEF IInv
  <1>1. QED
    BY DEF Init, WaitInv, ServeInv, AcceptedIsAnswered

LEMMA Invariance == Spec => []IInv
  BY InvInit, InvStep, PTL DEF Spec

\* A project never has two runners inside runProject.
THEOREM OneWorker == Spec => []AtMostOneWorker
  <1>1. IInv => AtMostOneWorker
    <2> SUFFICES ASSUME IInv, NEW r \in Runners, NEW s \in Runners, r # s,
                        InWorker(r), InWorker(s), SameId(r, s)
                 PROVE  FALSE
      BY DEF AtMostOneWorker
    <2>1. r < s \/ s < r
      BY DEF Runners
    <2>2. QED
      BY <2>1 DEF IInv, Structure, Serial, Entered, InWorker, SameId
  <1>2. QED
    BY <1>1, Invariance, PTL

\* Outside Stop, a project that is not mapped has no goroutine left.
THEOREM UnmappedQuiet == Spec => []UnmappedIsQuiet
  <1>1. IInv => UnmappedIsQuiet
    BY DEF IInv, Structure, Reachable, UnmappedIsQuiet
  <1>2. QED
    BY <1>1, Invariance, PTL

\* After Stop no worker and no watcher is left.
THEOREM StoppedQuiet == Spec => []StoppedIsQuiet
  <1>1. IInv => StoppedIsQuiet
    <2> SUFFICES ASSUME IInv, ctx = "nil", stopper = NoCaller, NEW r \in Runners
                 PROVE  ~Alive(r) /\ ~watching[r]
      BY DEF StoppedIsQuiet
    <2>1. ~Alive(r)
      BY DEF IInv, Structure, Reachable, MapInv, TypeOK, Project
    <2>2. ~InWorker(r)
      BY <2>1 DEF IInv, Structure, UsedInv, Alive, InWorker
    <2>3. QED
      BY <2>1, <2>2 DEF IInv, Structure, WatchInv
  <1>2. QED
    BY <1>1, Invariance, PTL

\* A worker the map no longer names has been cancelled.
THEOREM DisplacedCancelled == Spec => []DisplacedIsCancelled
  <1>1. IInv => DisplacedIsCancelled
    BY DEF IInv, Structure
  <1>2. QED
    BY <1>1, Invariance, PTL

\* An accepted rescan is never dropped by a retiring worker.
THEOREM AcceptedAnswered == Spec => []AcceptedIsAnswered
  <1>1. IInv => AcceptedIsAnswered
    BY DEF IInv
  <1>2. QED
    BY <1>1, Invariance, PTL

-----------------------------------------------------------------------------
(* Nobody waits for what cannot move: what CallsReturn rests on.           *)

\* One of Launch, FinishJob, Retire, Exit and, for a watcher that is still
\* there, WatcherExit is possible.
CanMove(r) ==
    \/ phase[r] = "queued" /\ (previous[r] # NoRunner => phase[previous[r]] = "done")
    \/ phase[r] \in {"busy", "draining"}
    \/ phase[r] = "select" /\ cancelled[r]

\* The runners that a Remove or a Stop waits for.
Awaits(c) ==
    {r \in Runners : \/ pc[c] = "removeWait" /\ r = target[c]
                     \/ pc[c] = "stopWait" /\ r \in waits[c]}

\* The runner at the head of the queue that r stands in can move.
HeadMoves(r) == \E s \in Runners : s <= r /\ SameId(s, r) /\ CanMove(s) /\ (s = r \/ cancelled[s])

\* Remove and Stop wait for runners that are done, or whose queue moves and
\* is told to end; a rescan is sent to a worker that takes it, has ended, or
\* whose queue moves; one that was accepted is being served; and who has joined
\* a Stop, or waits for it to end, is woken by one under way.
WaitsMove ==
    /\ \A c \in Callers : \A r \in Awaits(c) :
          phase[r] = "done" \/ (cancelled[r] /\ HeadMoves(r))
    /\ \A c \in Callers : pc[c] = "send" =>
          phase[target[c]] \in {"select", "done"} \/ HeadMoves(target[c])
    /\ \A c \in Callers : pc[c] = "await" => phase[target[c]] = "busy"
    /\ \A c \in Callers : pc[c] \in {"stopJoin", "startWait"} =>
          stopper \in Callers /\ pc[stopper] = "stopWait"

\* A runner queues behind an older one of its project, which is cancelled.
QueueInv ==
    \A r \in Runners : phase[r] = "queued" /\ previous[r] # NoRunner =>
        previous[r] < r /\ SameId(previous[r], r) /\ cancelled[previous[r]]

\* What is waited for is told to end.
EndingInv ==
    /\ \A c \in Callers : pc[c] = "removeWait" => cancelled[target[c]]
    /\ \A c \in Callers : pc[c] = "stopWait" =>
          \A r \in waits[c] : Used(r) /\ cancelled[r]
    /\ \A c \in Callers : pc[c] \in {"stopJoin", "startWait"} => stopper # NoCaller
    /\ stopper # NoCaller => pc[stopper] = "stopWait"

MoveInv == QueueInv /\ EndingInv

\* A step that leaves runners queued as they were and cancels more of them.
LEMMA QueueFrame ==
    ASSUME MoveInv, UNCHANGED creation,
           \A r \in Runners : cancelled[r] => cancelled'[r],
           \A r \in Runners : phase'[r] = "queued" => phase[r] = "queued",
           TypeOK
    PROVE  QueueInv'
  BY DEF MoveInv, QueueInv, creation, SameId, TypeOK

\* A new runner queues behind the one it has just cancelled.
LEMMA RegisterMoves ==
    ASSUME IInv, MoveInv, NEW p \in Project, NEW b \in BOOLEAN, register(p, b)
    PROVE  /\ QueueInv'
           /\ \A r \in Runners : Used(r) => Used(r)' /\ (cancelled[r] => cancelled'[r])
  <1>1. CASE UNCHANGED <<runners, creation, cancelled, phase>>
    BY <1>1, QueueFrame DEF IInv, creation, Used
  <1>2. CASE AddRunner(p)
    <2> DEFINE new == created + 1
               old == runners[p.id]
    <2>1. /\ new \in Runners /\ p.id \in Ids /\ created \in Nat
          /\ old \in Runners \cup {NoRunner}
      BY <1>2 DEF AddRunner, IInv, TypeOK, Project
    <2>2. /\ created' = new /\ project' = [project EXCEPT ![new] = p]
          /\ previous' = [previous EXCEPT ![new] = old]
          /\ phase' = [phase EXCEPT ![new] = "queued"]
          /\ \A r \in Runners : cancelled'[r] = IF r = new THEN ctx = "cancelled"
                                                ELSE cancelled[r] \/ r = old
      BY <1>2, Zenon DEF AddRunner
    <2>3. \A r \in Runners : Used(r) => r < new /\ r # new /\ Used(r)'
      BY <2>1, <2>2 DEF Used, Runners
    <2>4. old # NoRunner => old \in Runners /\ Used(old) /\ project[old].id = p.id
      BY <2>1 DEF IInv, Structure, MapNewest
    <2>5. \A r \in Runners : Used(r) /\ cancelled[r] => cancelled'[r]
      BY <2>2, <2>3
    <2> HIDE DEF new, old
    <2>6. ASSUME NEW r \in Runners, phase'[r] = "queued", previous'[r] # NoRunner
          PROVE  previous'[r] < r /\ SameId(previous[r], r)' /\ cancelled'[previous'[r]]
      <3>1. CASE r = new
        <4>1. previous'[r] = old /\ old # NoRunner
          BY <2>1, <2>2, <2>6, <3>1 DEF IInv, TypeOK
        <4>2. cancelled'[old]
          BY <2>2, <2>3, <2>4, <4>1
        <4>3. project'[r].id = p.id /\ project'[old] = project[old]
          BY <2>1, <2>2, <2>3, <2>4, <3>1, <4>1 DEF IInv, TypeOK
        <4>4. QED
          BY <2>3, <2>4, <3>1, <4>1, <4>2, <4>3 DEF SameId
      <3>2. CASE r # new
        <4>1. phase[r] = "queued" /\ previous'[r] = previous[r] /\ project'[r] = project[r]
          BY <2>1, <2>2, <2>6, <3>2 DEF IInv, TypeOK
        <4>2. /\ previous[r] < r /\ SameId(previous[r], r) /\ cancelled[previous[r]]
              /\ previous[r] \in Runners
          BY <2>6, <4>1 DEF MoveInv, QueueInv, IInv, TypeOK
        <4>3. Used(r)
          BY <4>1 DEF IInv, Structure, UsedInv
        <4>4. Used(previous[r])
          BY <4>2, <4>3 DEF Used, Runners, IInv, TypeOK
        <4>5. project'[previous[r]] = project[previous[r]]
          BY <2>1, <2>2, <2>3, <4>2, <4>4 DEF IInv, TypeOK
        <4>6. QED
          BY <2>5, <4>1, <4>2, <4>4, <4>5 DEF SameId
      <3>3. QED
        BY <3>1, <3>2
    <2>7. QED
      BY <2>3, <2>5, <2>6 DEF QueueInv
  <1>3. QED
    BY <1>1, <1>2 DEF register

LEMMA MoveStep == IInv /\ MoveInv /\ [Next]_vars => MoveInv'
  <1> SUFFICES ASSUME IInv, MoveInv, [Next]_vars PROVE MoveInv'
    OBVIOUS
  <1> USE DEF Goto, Return
  <1>0. /\ TypeOK /\ WaitInv /\ QueueInv /\ EndingInv
        /\ \A r \in Runners : phase[r] # "unused" <=> Used(r)
    BY DEF IInv, MoveInv, Structure, UsedInv
  <1>1. ASSUME NEW c \in Callers, NEW p \in Project, Register(c, p) \/ Ensure(c, p)
        PROVE  MoveInv'
    <2>1. PICK b \in BOOLEAN : register(p, b)
      BY <1>1 DEF Register, Ensure
    <2>2. UNCHANGED <<stopper, callVars>>
      BY <1>1 DEF Register, Ensure
    <2>3. QED
      BY <1>0, <2>1, <2>2, RegisterMoves DEF callVars, MoveInv, EndingInv, WaitInv, TypeOK
  <1>2. ASSUME NEW c \in Callers, StopRun(c), pc[c] \in {"idle", "startList"} PROVE MoveInv'
    <2>1. CASE BeginStop(c)
      <3>1. stopper = NoCaller
        BY <1>0, <1>2, <2>1, NoCallerAssumption DEF StopRun, BeginStop, Started, TypeOK, mapVars
      <3>2. /\ stopper' = c /\ UNCHANGED <<creation, phase, target>>
            /\ waits' = [waits EXCEPT ![c] = {runners[i] : i \in Ids} \ {NoRunner}]
            /\ pc' = [pc EXCEPT ![c] = "stopWait"]
            /\ \A r \in Runners : cancelled'[r] = (cancelled[r] \/ r <= created)
        BY <2>1, Zenon DEF BeginStop, workerVars
      <3>3. QueueInv'
        BY <1>0, <3>2, QueueFrame
      <3>4. \A i \in Ids : runners[i] # NoRunner => runners[i] \in Runners /\ Used(runners[i])
        BY DEF IInv, Structure, MapNewest, TypeOK
      <3>5. \A r \in waits'[c] : r \in Runners /\ Used(r)' /\ cancelled'[r]
        <4>1. waits'[c] = {runners[i] : i \in Ids} \ {NoRunner}
          BY <1>0, <3>2 DEF TypeOK
        <4>2. \A r \in Runners : Used(r) => Used(r)' /\ cancelled'[r]
          BY <3>2 DEF Used, creation
        <4>3. QED
          BY <3>4, <4>1, <4>2
      <3>6. \A d \in Callers : d # c => pc'[d] = pc[d] /\ pc[d] # "stopWait"
        BY <1>0, <3>1, <3>2, NoCallerAssumption DEF TypeOK, WaitInv
      <3>7. EndingInv'
        BY <1>0, <1>2, <3>1, <3>2, <3>5, <3>6, NoCallerAssumption
           DEF EndingInv, TypeOK, WaitInv
      <3>8. QED
        BY <3>3, <3>7 DEF MoveInv
    <2>2. CASE ~BeginStop(c)
      <3>1. /\ UNCHANGED <<mapVars, creation, cancelled, phase, target, waits>>
            /\ \/ pc' = [pc EXCEPT ![c] = "stopJoin"] /\ stopper # NoCaller
               \/ pc' = [pc EXCEPT ![c] = "idle"]
        BY <1>2, <2>2 DEF StopRun, workerVars
      <3>2. QueueInv'
        BY <1>0, <3>1, QueueFrame
      <3>3. EndingInv'
        BY <1>0, <1>2, <3>1 DEF EndingInv, TypeOK, WaitInv, mapVars, creation, Used
      <3>4. QED
        BY <3>2, <3>3 DEF MoveInv
    <2>3. QED
      BY <2>1, <2>2
  <1>3. ASSUME NEW c \in Callers, StopFinish(c) PROVE MoveInv'
    <2>1. QueueInv'
      BY <1>0, <1>3, QueueFrame DEF StopFinish, workerVars
    <2>2. \A d \in Callers : /\ pc'[d] \notin {"stopJoin", "startWait", "stopWait"}
                             /\ pc'[d] = "removeWait" => pc[d] = "removeWait"
      BY <1>0, <1>3, NoCallerAssumption DEF StopFinish, WaitInv, TypeOK
    <2>3. EndingInv'
      BY <1>0, <1>3, <2>2 DEF StopFinish, EndingInv
    <2>4. QED
      BY <2>1, <2>3 DEF MoveInv
  <1>4. ASSUME NEW c \in Callers, StartLock(c), pc[c] \in {"idle", "startRetry"} PROVE MoveInv'
    <2>1. /\ UNCHANGED <<stopper, creation, cancelled, phase, target, waits>>
          /\ \/ pc' = [pc EXCEPT ![c] = "startWait"] /\ stopper # NoCaller
             \/ \E l \in {"idle", "startList"} : pc' = [pc EXCEPT ![c] = l]
      BY <1>4 DEF StartLock, workerVars
    <2>2. QueueInv'
      BY <1>0, <2>1, QueueFrame
    <2>3. EndingInv'
      BY <1>0, <1>4, <2>1 DEF EndingInv, TypeOK, WaitInv, creation, Used
    <2>4. QED
      BY <2>2, <2>3 DEF MoveInv
  <1>5. ASSUME NEW c \in Callers,
               UNCHANGED <<stopper, creation, cancelled, waits>>,
               \A r \in Runners : phase'[r] = "queued" => phase[r] = "queued",
               \A d \in Callers : d # c => pc'[d] = pc[d] /\ target'[d] = target[d],
               pc[c] # "stopWait",
               pc'[c] \notin {"removeWait", "stopWait", "stopJoin", "startWait"}
        PROVE  MoveInv'
    <2>1. QueueInv'
      BY <1>0, <1>5, QueueFrame
    <2>2. EndingInv'
      BY <1>0, <1>5 DEF EndingInv, TypeOK, WaitInv, creation, Used
    <2>3. QED
      BY <2>1, <2>2 DEF MoveInv
  <1>6. ASSUME NEW c \in Callers, NEW p \in Project, StartNext(c, p) PROVE MoveInv'
    <2>1. CASE register(p, FALSE)
      BY <1>0, <1>6, <2>1, RegisterMoves DEF StartNext, MoveInv, EndingInv, WaitInv, TypeOK
    <2>2. CASE UNCHANGED <<runners, creation, cancelled, phase>>
      BY <1>0, <1>6, <2>2, <1>5 DEF StartNext, TypeOK
    <2>3. QED
      BY <1>6, <2>1, <2>2 DEF StartNext
  <1>7. ASSUME CancelRoot PROVE MoveInv'
    <2>1. /\ \A r \in Runners : cancelled[r] => cancelled'[r]
          /\ UNCHANGED <<stopper, creation, phase, pc, target, waits>>
      BY <1>7, Zenon DEF CancelRoot, workerVars, callVars
    <2>2. QueueInv'
      BY <1>0, <2>1, QueueFrame
    <2>3. EndingInv'
      BY <1>0, <2>1 DEF EndingInv, TypeOK, WaitInv, creation, Used
    <2>4. QED
      BY <2>2, <2>3 DEF MoveInv
  <1>8. ASSUME NEW c \in Callers, NEW i \in Ids, Remove(c, i) PROVE MoveInv'
    <2>1. CASE runners[i] = NoRunner
      <3>1. UNCHANGED <<stopper, creation, cancelled, phase, pc, target, waits>>
        BY <1>8, <2>1 DEF Remove, mapVars, workerVars
      <3>2. QED
        BY <1>0, <1>8, <3>1, <1>5 DEF Remove
    <2>2. CASE runners[i] # NoRunner
      <3>1. /\ cancelled' = [cancelled EXCEPT ![runners[i]] = TRUE]
            /\ target' = [target EXCEPT ![c] = runners[i]]
            /\ pc' = [pc EXCEPT ![c] = "removeWait"]
            /\ UNCHANGED <<stopper, creation, phase, waits>>
        BY <1>8, <2>2 DEF Remove, mapVars, workerVars
      <3>2. runners[i] \in Runners
        BY <1>0, <2>2 DEF TypeOK
      <3>3. \A r \in Runners : cancelled[r] => cancelled'[r]
        BY <1>0, <3>1 DEF TypeOK
      <3>4. cancelled'[runners[i]]
        BY <1>0, <3>1, <3>2 DEF TypeOK
      <3>5. QueueInv'
        BY <1>0, <3>1, <3>3, QueueFrame
      <3>6. EndingInv'
        BY <1>0, <1>8, <3>1, <3>3, <3>4 DEF Remove, EndingInv, TypeOK, WaitInv, creation, Used
      <3>7. QED
        BY <3>5, <3>6 DEF MoveInv
    <2>3. QED
      BY <2>1, <2>2
  <1>9. ASSUME NEW c \in Callers,
               \/ StartExpire(c) \/ StartDone(c) \/ \E S \in Listings : StartList(c, S)
               \/ RemoveFinish(c) \/ \E i \in Ids : Rescan(c, i)
        PROVE  MoveInv'
    BY <1>0, <1>5, <1>9
       DEF StartExpire, StartDone, StartList, RemoveFinish, Rescan, TypeOK, mapVars, workerVars
  <1>10. ASSUME NEW c \in Callers,
                \/ \E p \in Project : RestoreFound(c, p)
                \/ RestoreFail(c) \/ RestoreLookup(c)
                \/ SendStopped(c) \/ AwaitReturn(c) \/ AcceptRescan(c) \/ RescanExpire(c)
         PROVE  MoveInv'
    BY <1>0, <1>5, <1>10
       DEF RestoreFound, RestoreFail, RestoreLookup, SendStopped, AwaitReturn, AcceptRescan,
           RescanExpire, TypeOK, mapVars, workerVars
  <1>11. ASSUME NEW c \in Callers, RestoreEnsure(c) PROVE MoveInv'
    <2>1. arg[c] \in Project
      BY <1>0 DEF TypeOK
    <2>2. register(arg[c], TRUE) /\ pc' = [pc EXCEPT ![c] = "lookup"] /\ pc[c] = "ensure"
          /\ UNCHANGED <<stopper, target, waits>>
      BY <1>11 DEF RestoreEnsure
    <2>3. QED
      BY <1>0, <2>1, <2>2, RegisterMoves DEF MoveInv, EndingInv, WaitInv, TypeOK
  <1>12. ASSUME NEW r \in Runners, WorkerStep(r) \/ WatcherExit(r) PROVE MoveInv'
    <2>1. /\ UNCHANGED <<stopper, creation, cancelled, target, waits>>
          /\ \A s \in Runners : phase'[s] = "queued" => phase[s] = "queued"
      BY <1>0, <1>12 DEF WorkerStep, Launch, TakeJob, FinishJob, Retire, Exit, WatcherExit,
                         TypeOK, mapVars, callVars
    <2>2. \A c \in Callers : \/ pc'[c] = pc[c]
                             \/ pc[c] = "await" /\ pc'[c] = "answered"
      <3>1. CASE FinishJob(r)
        BY <1>0, <3>1 DEF FinishJob, IInv, ServeInv, TypeOK
      <3>2. CASE ~FinishJob(r)
        BY <1>12, <3>2 DEF WorkerStep, Launch, TakeJob, Retire, Exit, WatcherExit, callVars
      <3>3. QED
        BY <3>1, <3>2
    <2>3. QueueInv'
      BY <1>0, <2>1, QueueFrame
    <2>4. EndingInv'
      BY <1>0, <2>1, <2>2 DEF EndingInv, TypeOK, WaitInv, creation, Used
    <2>5. QED
      BY <2>3, <2>4 DEF MoveInv
  <1>13. CASE UNCHANGED vars
    <2>1. UNCHANGED <<stopper, creation, cancelled, phase, pc, target, waits>>
      BY <1>13 DEF vars, mapVars, workerVars, callVars
    <2>2. QueueInv'
      BY <1>0, <2>1, QueueFrame
    <2>3. EndingInv'
      BY <1>0, <2>1 DEF EndingInv, creation, Used
    <2>4. QED
      BY <2>2, <2>3 DEF MoveInv
  <1>14. QED
    BY <1>1, <1>2, <1>3, <1>4, <1>6, <1>7, <1>8, <1>9, <1>10, <1>11, <1>12, <1>13
       DEF Next, CallBegins, CallContinues, CallExpires, Start, StartRetry, StartAbort, Stop

\* The oldest runner in a queue waits for nobody.
LEMMA OldestMoves ==
    ASSUME IInv, MoveInv, NEW r \in Runners, Alive(r)
    PROVE  \E s \in Runners : /\ s <= r /\ SameId(s, r) /\ (s = r \/ cancelled[s])
                              /\ CanMove(s) \/ phase[s] = "select"
  <1> DEFINE Q == {s \in Runners : s <= r /\ SameId(s, r) /\ phase[s] # "done"}
  <1>1. r \in Q /\ Q \subseteq Nat
    <2>1. Runners \subseteq Nat
      BY RunnersType
    <2>2. r <= r
      BY <2>1
    <2>3. QED
      BY <2>1, <2>2 DEF Alive, SameId
  <1> HIDE DEF Q
  <1>2. PICK s \in Q : \A t \in Q : ~(<<t, s>> \in OpToRel(<, Nat))
    BY <1>1, NatLessThanWellFounded, WFMin
  <1>3. \A t \in Q : ~(t < s)
    BY <1>1, <1>2 DEF OpToRel
  <1>4. s \in Runners /\ s <= r /\ SameId(s, r) /\ phase[s] # "done"
    BY DEF Q
  <1>5. Used(s) /\ created \in Nat /\ r <= created
    BY <1>4, RunnersType DEF Alive, Used, IInv, TypeOK
  <1>6. s = r \/ cancelled[s]
    <2>1. CASE runners[project[s].id] = s
      <3>1. project[s].id \in Ids /\ NoRunner \notin Runners
        BY <1>4, RunnersType DEF IInv, TypeOK, Project
      <3>2. r <= s
        BY <1>4, <2>1, <3>1 DEF IInv, Structure, MapNewest, SameId, Alive
      <3>3. QED
        BY <1>4, <3>2, RunnersType
    <2>2. CASE runners[project[s].id] # s
      BY <1>4, <1>5, <2>2 DEF IInv, Structure, DisplacedIsCancelled, Alive
    <2>3. QED
      BY <2>1, <2>2
  <1>7. CanMove(s) \/ phase[s] = "select"
    <2>1. phase[s] \in {"queued", "busy", "select", "draining"}
      BY <1>4, <1>5 DEF IInv, Structure, UsedInv, TypeOK, Phases
    <2>2. ASSUME phase[s] = "queued", previous[s] # NoRunner PROVE phase[previous[s]] = "done"
      <3>1. /\ previous[s] \in Runners /\ previous[s] < s /\ SameId(previous[s], s)
        BY <1>4, <2>2 DEF MoveInv, QueueInv, IInv, TypeOK
      <3>2. previous[s] <= r
        BY <1>4, <3>1 DEF Runners
      <3>3. SameId(previous[s], r)
        BY <1>4, <3>1 DEF SameId
      <3>4. QED
        BY <1>3, <3>1, <3>2, <3>3 DEF Q
    <2>3. QED
      BY <2>1, <2>2 DEF CanMove
  <1>8. QED
    BY <1>4, <1>6, <1>7

LEMMA InitMoves == Init => MoveInv
  BY NoCallerAssumption DEF Init, MoveInv, QueueInv, EndingInv

LEMMA MovesOn == IInv /\ MoveInv => WaitsMove
  <1> SUFFICES ASSUME IInv, MoveInv PROVE WaitsMove
    OBVIOUS
  <1>1. ASSUME NEW r \in Runners, Used(r), cancelled[r], phase[r] # "done" PROVE HeadMoves(r)
    <2>1. PICK s \in Runners : /\ s <= r /\ SameId(s, r) /\ (s = r \/ cancelled[s])
                               /\ CanMove(s) \/ phase[s] = "select"
      BY <1>1, OldestMoves DEF Alive
    <2>2. CanMove(s)
      BY <1>1, <2>1 DEF CanMove
    <2>3. QED
      BY <2>1, <2>2 DEF HeadMoves
  <1>2. ASSUME NEW c \in Callers, NEW r \in Awaits(c)
        PROVE  phase[r] = "done" \/ (cancelled[r] /\ HeadMoves(r))
    <2>1. r \in Runners /\ Used(r) /\ cancelled[r]
      BY DEF Awaits, IInv, WaitInv, MoveInv, EndingInv
    <2>2. QED
      BY <1>1, <2>1
  <1>3. ASSUME NEW c \in Callers, pc[c] = "send"
        PROVE  phase[target[c]] \in {"select", "done"} \/ HeadMoves(target[c])
    <2> DEFINE r == target[c]
    <2>1. r \in Runners /\ Used(r)
      BY <1>3 DEF IInv, WaitInv
    <2> HIDE DEF r
    <2>2. CASE phase[r] \notin {"select", "done"}
      <3>1. PICK s \in Runners : /\ s <= r /\ SameId(s, r) /\ (s = r \/ cancelled[s])
                                 /\ CanMove(s) \/ phase[s] = "select"
        BY <2>1, <2>2, OldestMoves DEF Alive
      <3>2. CanMove(s)
        BY <2>2, <3>1 DEF CanMove
      <3>3. QED
        BY <3>1, <3>2 DEF HeadMoves, r
    <2>3. QED
      BY <2>2 DEF r
  <1>4. ASSUME NEW c \in Callers, pc[c] = "await" PROVE phase[target[c]] = "busy"
    BY <1>4, NoCallerAssumption DEF IInv, ServeInv
  <1>5. ASSUME NEW c \in Callers, pc[c] \in {"stopJoin", "startWait"}
        PROVE  stopper \in Callers /\ pc[stopper] = "stopWait"
    BY <1>5 DEF MoveInv, EndingInv, IInv, TypeOK
  <1>6. QED
    BY <1>2, <1>3, <1>4, <1>5 DEF WaitsMove

\* Nobody in the supervisor waits for what cannot move: this, with the fairness
\* of the workers, is what lets Remove, Stop and Rescan return
\* (supervisor.go:166-197, 251-268, 299-322).
THEOREM NobodyIsStuck == Spec => []WaitsMove
  BY InitMoves, MovesOn, Invariance, InvStep, MoveStep, PTL DEF Spec

-----------------------------------------------------------------------------
(* The process around the supervisor                                       *)

MainPCs == {"idle", "startList", "startLoop", "stopWait"}
RescanPCs == {"restore", "ensure", "lookup", "send", "await", "answered"}

StageInv ==
    /\ stage \in {"starting", "serving"} => Started
    /\ stage \in {"boot", "stopping"} => ctx = "nil"
    /\ stage = "boot" => stopper = NoCaller
    /\ pc[Main] \in MainPCs
    /\ pc[Main] \in {"startList", "startLoop"} => stage = "starting" /\ hpc[Main] = "idle"
    /\ pc[Main] = "stopWait" => stage = "stopping"
    /\ hpc[Main] # "idle" => stage = "starting" /\ hpc[Main] = "register"
    /\ stage \in {"boot", "starting"} => \A c \in Clients : pc[c] = "idle" /\ hpc[c] = "idle"

\* projectsMu is held by the client whose handler is under way.
MuInv ==
    /\ mu # NoCaller => mu \in Clients /\ hpc[mu] # "idle"
    /\ \A c \in Clients : hpc[c] # "idle" => mu = c
    /\ \A c \in Clients : pc[c] \in RescanPCs \cup {"idle", "removeWait"}
    /\ \A c \in Clients : hpc[c] \in {"register", "remove"} => pc[c] = "idle"
    /\ \A c \in Clients : hpc[c] = "removing" <=> pc[c] = "removeWait"

Deleting(c) == hpc[c] \in {"remove", "removing"}

\* What a handler in progress has done to the table, and has found mapped.
AskedInv ==
    \A c \in Callers :
        /\ hpc[c] = "register" => /\ asked[c].id \in Named
                                  /\ stored[asked[c].id] = asked[c].root
        /\ Deleting(c) => asked[c].id \in Named /\ stored[asked[c].id] = None
        /\ hpc[c] = "removing" =>
              /\ project[target[c]].id = asked[c].id
              /\ stage = "serving" => runners[asked[c].id] = target[c]

ArgInv == \A c \in Clients : pc[c] \in {"restore", "ensure"} => arg[c].id \in Named

TodoInv == pc[Main] = "startLoop" => todo[Main] \subseteq StoredProjects

\* A deleted project is unmapped, unless its handler is still at it.
QuietInv ==
    stage # "stopping" =>
        \A i \in Named \ revived : stored[i] = None =>
            \/ runners[i] = NoRunner
            \/ \E c \in Clients : Deleting(c) /\ asked[c].id = i

\* Runners that are alive or mapped agree with the table.
RootInv ==
    \A r \in Runners :
        LET i == project[r].id
        IN  /\ Used(r) /\ i \in Named \ revived /\ stored[i] # None
            /\ Alive(r) \/ runners[i] = r
            => project[r].root = stored[i]

\* Projects that Start or a handler has still to register.
Pending(i) ==
    \/ \E c \in Callers : hpc[c] = "register" /\ asked[c].id = i
    \/ pc[Main] = "startList"
    \/ pc[Main] = "startLoop" /\ \E p \in todo[Main] : p.id = i

ObservedInv ==
    stage \in {"starting", "serving"} =>
        \A i \in Named \ (skipped \cup revived) : stored[i] # None /\ ~Pending(i) =>
            runners[i] # NoRunner /\ (cancelled[runners[i]] => ctx = "cancelled")

CachedInv == \A i \in Named \ revived : indexed[i] # None => indexed[i] = stored[i]

HandlerInv == StageInv /\ MuInv /\ AskedInv /\ ArgInv /\ TodoInv
TableInv == QuietInv /\ RootInv /\ ObservedInv /\ CachedInv

LifeInv == IInv /\ LifeTypeOK /\ HandlerInv /\ TableInv

-----------------------------------------------------------------------------
(* The supervisor under the process.                                       *)

\* A registration keeps the supervisor's invariant, whoever makes it.
LEMMA RegisterKeeps ==
    ASSUME IInv, NEW p \in Project, NEW b \in BOOLEAN, register(p, b),
           UNCHANGED <<ctx, stopper, watching, serving, callVars>>
    PROVE  IInv'
  <1>1. TypeOK'
    BY RegisterType DEF IInv, TypeOK, callVars
  <1>2. Structure' /\ \A r \in Runners : Used(r) => Used(r)'
    BY RegisterStructure DEF IInv, callVars
  <1>3. \A r \in Runners : phase[r] = "busy" => phase'[r] = "busy"
    <2>1. \A r \in Runners : phase[r] = "busy" => r # created + 1
      BY RunnersType DEF IInv, Structure, UsedInv, Used, TypeOK
    <2>2. QED
      BY <2>1 DEF register, AddRunner, IInv, TypeOK
  <1>4. WaitInv' /\ ServeInv' /\ AcceptedIsAnswered'
    BY <1>2, <1>3 DEF callVars, IInv, WaitInv, ServeInv, AcceptedIsAnswered
  <1>5. QED
    BY <1>1, <1>2, <1>4 DEF IInv

LEMMA CrashKeeps == Crash => IInv'
  <1>1. Crash => Init'
    BY DEF Crash, Init
  <1>2. QED
    BY <1>1, InvInit, PTL

\* A registration by a handler, outside the calls of the supervisor.
Registers ==
    /\ \E p \in Project, b \in BOOLEAN : register(p, b)
    /\ UNCHANGED <<ctx, stopper, watching, serving, callVars>>

\* What a step of the process is to the supervisor: a crash, a registration by
\* a handler, a step of its own, or none.
LEMMA SupervisorSteps == LifeInv /\ [LifeNext]_allVars => [Next]_vars \/ Registers \/ Crash
  <1> DEFINE Own == [Next]_vars \/ Registers \/ Crash
  <1> SUFFICES ASSUME LifeInv, [LifeNext]_allVars PROVE Own
    OBVIOUS
  <1>0. IInv /\ TypeOK /\ Main \in Callers /\ Clients \subseteq Callers
    BY LifecycleAssumption DEF LifeInv, IInv, Clients
  <1>1. ASSUME [Next]_vars PROVE Own
    BY <1>1
  <1>2. CASE MainStart
    BY <1>0, <1>1, <1>2 DEF MainStart, Next, CallBegins
  <1>3. CASE MainStartSteps
    <2>1. StoredProjects \in Listings
      BY DEF StoredProjects, Listings, Pairs, Project
    <2>2. Pairs \subseteq Project
      BY DEF Pairs
    <2>3. QED
      BY <1>0, <1>1, <1>3, <2>1, <2>2 DEF MainStartSteps, Next, CallContinues
  <1>4. CASE MainStop
    BY <1>0, <1>1, <1>4 DEF MainStop, Next, CallBegins
  <1>5. CASE Terminate
    BY <1>1, <1>5 DEF Terminate, Next
  <1>6. CASE Crash
    BY <1>6
  <1>7. ASSUME NEW c \in Callers, NEW p \in Pairs, CreateExisting(c, p) PROVE Own
    BY <1>1, <1>7 DEF CreateExisting, Next, CallBegins, Pairs
  <1>8. ASSUME NEW c \in Callers, NEW i \in Named, RescanProject(c, i) PROVE Own
    BY <1>1, <1>8 DEF RescanProject, Next, CallBegins, Named
  <1>9. ASSUME NEW c \in Callers, CreateRegister(c) PROVE Own
    <2>1. asked[c] \in Project /\ ZeroProject \in Project
      BY LifecycleAssumption DEF LifeInv, LifeTypeOK
    <2>2. QED
      BY <1>9, <2>1 DEF CreateRegister, Registers
  <1>10. ASSUME NEW c \in Callers, DeleteRemove(c) PROVE Own
    <2>1. asked[c].id \in Ids
      BY DEF LifeInv, LifeTypeOK, Project
    <2>2. QED
      BY <1>1, <1>10, <2>1 DEF DeleteRemove, Next, CallBegins
  <1>11. ASSUME NEW c \in Callers, DeleteFinish(c) PROVE Own
    BY <1>1, <1>11 DEF DeleteFinish, Next, CallContinues
  <1>12. ASSUME NEW c \in Callers, RescanRead(c) \/ RescanEnsure(c) PROVE Own
    <2>1. StoredProjects \subseteq Project
      BY DEF StoredProjects, Pairs
    <2>2. QED
      BY <1>1, <1>12, <2>1 DEF RescanRead, RescanEnsure, Next, CallContinues
  <1>13. ASSUME NEW c \in Callers, RescanSteps(c) PROVE Own
    BY <1>1, <1>13 DEF RescanSteps, Next, CallContinues
  <1>14. CASE Background
    BY <1>0, <1>1, <1>14 DEF Background, Next, CallContinues, CallExpires
  <1>15. CASE UNCHANGED vars
    BY <1>1, <1>15
  <1>16. CASE UNCHANGED allVars \/ MainServe
    BY <1>15, <1>16 DEF allVars, MainServe
  <1>17. CASE \/ \E c \in Callers : \/ \E p \in Pairs : CreateCommit(c, p)
                                    \/ \E i \in Named : DeleteCommit(c, i)
              \/ \E r \in Runners : IndexWrite(r)
    BY <1>15, <1>17 DEF CreateCommit, DeleteCommit, IndexWrite
  <1>18. QED
    BY <1>2, <1>3, <1>4, <1>5, <1>6, <1>7, <1>8, <1>9, <1>10, <1>11, <1>12, <1>13, <1>14,
       <1>16, <1>17 DEF LifeNext, HandlerStep

LEMMA SupervisorKeeps == LifeInv /\ [LifeNext]_allVars => IInv'
  <1>1. LifeInv => IInv
    BY DEF LifeInv
  <1>2. IInv /\ Registers => IInv'
    BY RegisterKeeps DEF Registers
  <1>3. QED
    BY <1>1, <1>2, SupervisorSteps, InvStep, CrashKeeps

\* What is waited for keeps moving, through crashes as well.
LEMMA MoveKeeps == LifeInv /\ MoveInv /\ [LifeNext]_allVars => MoveInv'
  <1>1. LifeInv => IInv
    BY DEF LifeInv
  <1>2. IInv /\ MoveInv /\ Registers => MoveInv'
    <2> SUFFICES ASSUME IInv, MoveInv, Registers PROVE MoveInv'
      OBVIOUS
    <2>1. PICK p \in Project, b \in BOOLEAN : register(p, b)
      BY DEF Registers
    <2>2. UNCHANGED <<stopper, callVars>>
      BY DEF Registers
    <2>3. QED
      BY <2>1, <2>2, RegisterMoves
         DEF callVars, MoveInv, EndingInv, IInv, WaitInv, TypeOK
  <1>3. Crash => MoveInv'
    <2>1. Crash => Init'
      BY DEF Crash, Init
    <2>2. Init' => MoveInv'
      BY InitMoves, PTL
    <2>3. QED
      BY <2>1, <2>2
  <1>4. QED
    BY <1>1, <1>2, <1>3, SupervisorSteps, MoveStep

-----------------------------------------------------------------------------
(* Type correctness.                                                       *)

LEMMA LifeInvInit == LifeInit => LifeInv
  <1> SUFFICES ASSUME LifeInit PROVE LifeInv
    OBVIOUS
  <1>1. IInv /\ TypeOK
    BY InvInit DEF LifeInit, IInv
  <1>2. stored = [i \in Ids |-> None] /\ indexed = stored
    BY DEF LifeInit
  <1>3. LifeTypeOK
    BY <1>1, <1>2, AnyProjectType, LifecycleAssumption
       DEF LifeInit, Fresh, LifeTypeOK, Stages, HandlerPCs, Named
  <1>4. Main \in Callers /\ Clients \subseteq Callers /\ Named \subseteq Ids
    BY LifecycleAssumption DEF Clients, Named
  <1>5. StageInv /\ MuInv /\ AskedInv /\ ArgInv /\ TodoInv
    BY <1>4 DEF LifeInit, Fresh, Init, StageInv, MainPCs, MuInv, AskedInv, Deleting, ArgInv,
                TodoInv
  <1>6. QuietInv /\ ObservedInv /\ CachedInv
    BY <1>2, <1>4 DEF LifeInit, Fresh, Init, QuietInv, ObservedInv, CachedInv
  <1>7. RootInv
    BY RunnersType DEF LifeInit, Init, RootInv, Used, Runners
  <1>8. QED
    BY <1>1, <1>3, <1>5, <1>6, <1>7 DEF LifeInv, HandlerInv, TableInv

LEMMA LifeTypeStep ==
    ASSUME LifeInv, IInv', [LifeNext]_allVars
    PROVE  LifeTypeOK'
  <1>0. /\ TypeOK' /\ LifeTypeOK /\ Main \in Callers /\ AnyProject \in Project
        /\ Pairs \subseteq Project /\ Named \subseteq Ids
    BY AnyProjectType, LifecycleAssumption DEF LifeInv, IInv, Pairs, Named
  <1> USE <1>0 DEF LifeTypeOK, Stages, HandlerPCs, tableVars, handlerVars, lifeVars
  <1>1. CASE MainStart \/ MainServe \/ MainStop \/ Terminate \/ Background \/ UNCHANGED allVars
    BY <1>1 DEF MainStart, MainServe, MainStop, Terminate, Background, allVars
  <1>2. CASE MainStartSteps
    <2>1. ASSUME NEW p \in Pairs, StartNext(Main, p)
          PROVE  p.id \in Ids /\ stored[p.id] # None
      <3>1. stored[p.id] = p.root
        BY <2>1 DEF LifeInv, HandlerInv, TodoInv, StartNext, StoredProjects
      <3>2. QED
        BY <3>1, LifecycleAssumption DEF Project
    <2>2. QED
      BY <1>2, <2>1 DEF MainStartSteps
  <1>3. CASE Crash
    BY <1>3 DEF Crash
  <1>4. ASSUME NEW c \in Callers, NEW p \in Pairs, CreateCommit(c, p) PROVE LifeTypeOK'
    <2>1. p.id \in Ids /\ p.root \in Roots
      BY DEF Project
    <2>2. QED
      BY <1>4, <2>1, LifecycleAssumption DEF CreateCommit
  <1>5. ASSUME NEW c \in Callers, NEW p \in Pairs, CreateExisting(c, p) PROVE LifeTypeOK'
    BY <1>5 DEF CreateExisting
  <1>6. ASSUME NEW c \in Callers, NEW i \in Named, DeleteCommit(c, i) PROVE LifeTypeOK'
    <2>1. [asked[c] EXCEPT !.id = i] \in Project
      BY DEF Project
    <2>2. asked' \in [Callers -> Project]
      BY <1>6, <2>1 DEF DeleteCommit
    <2>3. QED
      BY <1>6, <2>2 DEF DeleteCommit
  <1>7. ASSUME NEW c \in Callers, NEW i \in Named, RescanProject(c, i) PROVE LifeTypeOK'
    BY <1>7 DEF RescanProject
  <1>8. ASSUME NEW c \in Callers, CreateRegister(c) PROVE LifeTypeOK'
    <2>1. asked[c].id \in Ids /\ stored[asked[c].id] # None
      BY <1>8, LifecycleAssumption DEF CreateRegister, LifeInv, HandlerInv, AskedInv, Project
    <2>2. QED
      BY <1>8, <2>1 DEF CreateRegister
  <1>9. ASSUME NEW c \in Callers, DeleteRemove(c) \/ DeleteFinish(c) PROVE LifeTypeOK'
    BY <1>9 DEF DeleteRemove, DeleteFinish
  <1>10. ASSUME NEW c \in Callers, RescanRead(c) \/ RescanSteps(c) PROVE LifeTypeOK'
    BY <1>10 DEF RescanRead, RescanSteps
  <1>11. ASSUME NEW c \in Callers, RescanEnsure(c) PROVE LifeTypeOK'
    <2>1. arg[c].id \in Named
      BY <1>11 DEF RescanEnsure, RestoreEnsure, LifeInv, HandlerInv, ArgInv, StageInv,
                   MainPCs, Clients
    <2>2. QED
      BY <1>11, <2>1 DEF RescanEnsure
  <1>12. ASSUME NEW r \in Runners, IndexWrite(r) PROVE LifeTypeOK'
    BY <1>12 DEF IndexWrite, TypeOK, Project
  <1>13. QED
    BY <1>1, <1>2, <1>3, <1>4, <1>5, <1>6, <1>7, <1>8, <1>9, <1>10, <1>11, <1>12
       DEF LifeNext, HandlerStep

-----------------------------------------------------------------------------
(* The invariant is inductive.                                             *)

\* The steps of workers, watchers and rescans that register nothing.
LEMMA RescanFrame ==
    ASSUME LifeInv, IInv',
           UNCHANGED <<lifeVars, ctx, stopper, runners, created, project, cancelled>>,
           \A r \in Runners : phase[r] = "done" => phase'[r] = "done",
           UNCHANGED <<pc[Main], todo[Main], target[Main]>>,
           \A c \in Clients :
              \/ UNCHANGED <<pc[c], arg[c], target[c]>>
              \/ /\ pc[c] \in RescanPCs \cup {"idle"} /\ pc'[c] \in RescanPCs \cup {"idle"}
                 /\ hpc[c] = "idle"
                 /\ pc[c] = "idle" => stage = "serving"
                 /\ pc'[c] \in {"restore", "ensure"} => arg'[c].id \in Named
    PROVE  HandlerInv' /\ TableInv'
  <1> USE DEF LifeInv, HandlerInv, TableInv, lifeVars
  <1>1. StageInv'
    BY DEF StageInv, RescanPCs, Started
  <1>2. MuInv' /\ ArgInv' /\ TodoInv'
    BY DEF MuInv, ArgInv, TodoInv, RescanPCs, StoredProjects
  <1>3. AskedInv'
    <2>1. \A c \in Callers : hpc[c] = "removing" => UNCHANGED target[c]
      BY DEF Clients
    <2>2. QED
      BY <2>1 DEF AskedInv, Deleting
  <1>4. QuietInv' /\ ObservedInv' /\ CachedInv'
    BY DEF QuietInv, ObservedInv, CachedInv, Deleting, Pending
  <1>5. RootInv'
    BY DEF RootInv, Used, Alive
  <1>6. QED
    BY <1>1, <1>2, <1>3, <1>4, <1>5

LEMMA RescanStepsKeep ==
    ASSUME LifeInv, IInv',
           \/ \E c \in Callers : \/ \E i \in Named : RescanProject(c, i)
                                 \/ RescanRead(c) \/ RescanSteps(c)
           \/ Background
    PROVE  HandlerInv' /\ TableInv'
  <1>0. TypeOK /\ StageInv /\ MuInv /\ WaitInv /\ ServeInv /\ Main \in Callers
    BY LifecycleAssumption DEF LifeInv, HandlerInv, IInv
  <1>1. \A c \in Callers : pc[c] \in RescanPCs => c \in Clients /\ hpc[c] = "idle"
    BY <1>0 DEF StageInv, MainPCs, RescanPCs, MuInv, Clients, LifeInv, LifeTypeOK, HandlerPCs
  <1> USE DEF Goto, Return
  <1>2. ASSUME NEW c \in Callers, NEW i \in Named, RescanProject(c, i)
        PROVE  HandlerInv' /\ TableInv'
    <2>1. /\ c \in Clients /\ pc[c] = "idle" /\ hpc[c] = "idle" /\ stage = "serving"
          /\ pc'[c] \in {"restore", "send"} /\ (pc'[c] = "restore" => arg'[c].id = i)
          /\ \A d \in Callers \ {c} : UNCHANGED <<pc[d], arg[d], target[d]>>
          /\ UNCHANGED <<lifeVars, ctx, stopper, runners, created, project, cancelled, phase, todo>>
      BY <1>0, <1>2 DEF RescanProject, CanBegin, Rescan, TypeOK, mapVars, creation, workerVars
    <2>2. QED
      BY <1>0, <2>1, RescanFrame DEF RescanPCs, Clients
  <1>3. ASSUME NEW c \in Callers, RescanRead(c) PROVE HandlerInv' /\ TableInv'
    <2>1. /\ pc[c] = "restore" /\ pc'[c] \in {"ensure", "idle"} /\ UNCHANGED target
          /\ arg'[c].id = arg[c].id
          /\ \A d \in Callers \ {c} : UNCHANGED <<pc[d], arg[d]>>
          /\ UNCHANGED <<lifeVars, ctx, stopper, runners, created, project, cancelled, phase, todo>>
      BY <1>0, <1>3 DEF RescanRead, RestoreFound, RestoreFail, TypeOK, mapVars, creation,
                        workerVars, StoredProjects, Pairs
    <2>2. arg[c].id \in Named
      BY <1>1, <2>1 DEF LifeInv, HandlerInv, ArgInv, RescanPCs
    <2>3. QED
      BY <1>0, <1>1, <2>1, <2>2, RescanFrame DEF RescanPCs, Clients
  <1>4. ASSUME NEW c \in Callers, RescanSteps(c) \/ (RescanExpire(c) /\ UNCHANGED lifeVars)
        PROVE  HandlerInv' /\ TableInv'
    <2>1. /\ pc[c] \in RescanPCs /\ pc'[c] \in RescanPCs \cup {"idle"}
          /\ pc'[c] \notin {"restore", "ensure"}
          /\ \A d \in Callers \ {c} : UNCHANGED <<pc[d], target[d]>>
          /\ UNCHANGED <<lifeVars, ctx, stopper, runners, created, project, cancelled, arg, todo>>
          /\ \A r \in Runners : phase[r] = "done" => phase'[r] = "done"
      <3>1. CASE AcceptRescan(c)
        BY <1>0, <1>4, <3>1
           DEF RescanSteps, AcceptRescan, TypeOK, mapVars, creation, RescanPCs
      <3>2. CASE RescanExpire(c) /\ UNCHANGED lifeVars
        BY <1>0, <3>2 DEF RescanExpire, TypeOK, mapVars, creation, RescanPCs
      <3>3. CASE RestoreLookup(c) \/ SendStopped(c) \/ AwaitReturn(c)
        BY <1>0, <1>4, <3>3
           DEF RescanSteps, RestoreLookup, SendStopped, AwaitReturn, TypeOK, mapVars, creation,
               workerVars, RescanPCs
      <3>4. QED
        BY <1>4, <3>1, <3>2, <3>3 DEF RescanSteps
    <2>2. QED
      BY <1>0, <1>1, <2>1, RescanFrame DEF RescanPCs, Clients
  <1>5. ASSUME NEW r \in Runners, WorkerStep(r) \/ WatcherExit(r), UNCHANGED lifeVars
        PROVE  HandlerInv' /\ TableInv'
    <2>1. /\ UNCHANGED <<lifeVars, ctx, stopper, runners, created, project, cancelled, arg,
                         target, todo>>
          /\ \A s \in Runners : phase[s] = "done" => phase'[s] = "done"
      <3>1. CASE Launch(r)
        BY <1>0, <1>5, <3>1 DEF Launch, TypeOK, mapVars, creation, callVars
      <3>2. CASE FinishJob(r)
        BY <1>0, <1>5, <3>2 DEF FinishJob, TypeOK, mapVars, creation
      <3>3. CASE TakeJob(r) \/ Retire(r) \/ Exit(r) \/ WatcherExit(r)
        BY <1>0, <1>5, <3>3
           DEF TakeJob, Retire, Exit, WatcherExit, TypeOK, mapVars, creation, callVars
      <3>4. QED
        BY <1>5, <3>1, <3>2, <3>3 DEF WorkerStep
    <2>2. \A d \in Callers : pc'[d] = pc[d] \/ (pc[d] = "await" /\ pc'[d] = "answered")
      <3>1. CASE FinishJob(r) /\ serving[r] # NoCaller
        <4>1. serving[r] \in Callers /\ pc[serving[r]] = "await"
          BY <1>0, <3>1 DEF ServeInv, TypeOK
        <4>2. pc' = [pc EXCEPT ![serving[r]] = "answered"]
          BY <3>1 DEF FinishJob
        <4>3. QED
          BY <1>0, <4>1, <4>2 DEF TypeOK
      <3>2. CASE ~(FinishJob(r) /\ serving[r] # NoCaller)
        <4>1. UNCHANGED pc
          BY <1>5, <3>2
             DEF WorkerStep, WatcherExit, Launch, TakeJob, FinishJob, Retire, Exit, callVars
        <4>2. QED
          BY <4>1
      <3>3. QED
        BY <3>1, <3>2
    <2>3. pc'[Main] = pc[Main]
      BY <1>0, <2>2 DEF StageInv, MainPCs
    <2>4. QED
      BY <1>0, <1>1, <2>1, <2>2, <2>3, RescanFrame DEF RescanPCs, Clients
  <1>6. CASE StopFinish(Main) /\ UNCHANGED lifeVars
    <2>1. /\ pc[Main] = "stopWait" /\ pc'[Main] = "idle" /\ stage = "stopping"
          /\ UNCHANGED <<lifeVars, ctx, runners, created, project, cancelled, phase, arg,
                         target, todo>>
      BY <1>0, <1>6 DEF StopFinish, StageInv, TypeOK, creation, workerVars
    <2>2. \A c \in Clients : pc'[c] = pc[c]
      BY <1>0, <1>6 DEF StopFinish, MuInv, RescanPCs, Clients
    <2>3. StageInv' /\ MuInv' /\ ArgInv' /\ TodoInv'
      BY <1>0, <2>1, <2>2
         DEF lifeVars, StageInv, MuInv, ArgInv, TodoInv, MainPCs, LifeInv, HandlerInv
    <2>4. AskedInv' /\ QuietInv' /\ ObservedInv' /\ CachedInv'
      BY <2>1 DEF lifeVars, AskedInv, Deleting, QuietInv, ObservedInv, CachedInv, LifeInv,
                  HandlerInv, TableInv
    <2>5. RootInv'
      BY <2>1 DEF lifeVars, RootInv, Used, Alive, LifeInv, TableInv
    <2>6. QED
      BY <2>3, <2>4, <2>5 DEF HandlerInv, TableInv
  <1>7. QED
    BY <1>2, <1>3, <1>4, <1>5, <1>6 DEF Background, Clients

\* What a registration that is not turned away does to the map.
LEMMA AddRunnerMap ==
    ASSUME LifeInv, NEW p \in Project, AddRunner(p)
    PROVE  /\ created + 1 \in Runners /\ created' = created + 1
           /\ runners'[p.id] = created + 1 /\ runners'[p.id] # NoRunner
           /\ cancelled'[created + 1] = (ctx = "cancelled")
           /\ \A i \in Ids \ {p.id} :
                 /\ runners'[i] = runners[i]
                 /\ runners[i] # NoRunner => cancelled'[runners[i]] = cancelled[runners[i]]
           /\ project'[created + 1] = p
           /\ \A r \in Runners :
                 /\ Used(r)' <=> Used(r) \/ r = created + 1
                 /\ Used(r) => /\ r # created + 1
                               /\ project'[r] = project[r]
                               /\ Alive(r)' => Alive(r)
                               /\ runners'[project[r].id] = r => runners[project[r].id] = r
  <1> DEFINE n == created + 1
  <1>1. /\ TypeOK /\ Structure /\ p.id \in Ids /\ n \in Runners /\ created \in Nat
        /\ created' = n
        /\ runners' = [runners EXCEPT ![p.id] = n]
        /\ project' = [project EXCEPT ![n] = p]
        /\ phase' = [phase EXCEPT ![n] = "queued"]
    BY DEF LifeInv, IInv, AddRunner, TypeOK, Project
  <1>2. \A r \in Runners : cancelled'[r] = IF r = n THEN ctx = "cancelled"
                                           ELSE cancelled[r] \/ r = runners[p.id]
    BY Zenon DEF AddRunner
  <1>3. \A r \in Runners : /\ Used(r)' <=> Used(r) \/ r = n
                           /\ Used(r) => r # n
    BY <1>1, RunnersType DEF Used
  <1>4. \A i \in Ids \ {p.id} :
           /\ runners'[i] = runners[i]
           /\ runners[i] # NoRunner => cancelled'[runners[i]] = cancelled[runners[i]]
    <2> SUFFICES ASSUME NEW i \in Ids \ {p.id}
                 PROVE  /\ runners'[i] = runners[i]
                        /\ runners[i] # NoRunner => cancelled'[runners[i]] = cancelled[runners[i]]
      OBVIOUS
    <2>1. runners'[i] = runners[i]
      BY <1>1 DEF TypeOK
    <2>2. ASSUME runners[i] # NoRunner PROVE cancelled'[runners[i]] = cancelled[runners[i]]
      <3>1. runners[i] \in Runners /\ Used(runners[i]) /\ project[runners[i]].id = i
        BY <1>1, <2>2 DEF TypeOK, Structure, MapNewest
      <3>2. runners[i] # n /\ runners[i] # runners[p.id]
        BY <1>1, <1>3, <2>2, <3>1 DEF Structure, MapNewest
      <3>3. cancelled[runners[i]] \in BOOLEAN
        BY <1>1, <3>1 DEF TypeOK
      <3>4. QED
        BY <1>2, <3>1, <3>2, <3>3
    <2>3. QED
      BY <2>1, <2>2
  <1>5. n # NoRunner /\ runners'[p.id] = n /\ project'[n] = p
    BY <1>1, RunnersType DEF TypeOK
  <1>6. \A r \in Runners : Used(r) =>
           /\ project'[r] = project[r]
           /\ Alive(r)' => Alive(r)
           /\ runners'[project[r].id] = r => runners[project[r].id] = r
    BY <1>1, <1>3 DEF TypeOK, Alive, Project
  <1>7. cancelled'[n] = (ctx = "cancelled")
    BY <1>1, <1>2, Zenon
  <1>8. QED
    BY <1>1, <1>3, <1>4, <1>5, <1>6, <1>7

\* Runners keep agreeing with the table when what is registered does.
LEMMA AddRunnerRoot ==
    ASSUME LifeInv, NEW p \in Project, AddRunner(p), UNCHANGED stored,
           revived \subseteq revived',
           p.id \in Named \ revived' /\ stored[p.id] # None => p.root = stored[p.id]
    PROVE  RootInv'
  <1> SUFFICES ASSUME NEW r \in Runners, Used(r)',
                      project'[r].id \in Named \ revived', stored[project'[r].id] # None,
                      Alive(r)' \/ runners'[project'[r].id] = r
               PROVE  project'[r].root = stored[project'[r].id]
    BY DEF RootInv
  <1>1. CASE r = created + 1
    BY <1>1, AddRunnerMap
  <1>2. CASE r # created + 1
    BY <1>2, AddRunnerMap DEF LifeInv, TableInv, RootInv
  <1>3. QED
    BY <1>1, <1>2

\* Nothing of a project is left once it is unmapped.
LEMMA UnmappedProject ==
    ASSUME LifeInv, stage # "stopping", NEW i \in Ids, runners[i] = NoRunner,
           NEW r \in Runners, project[r].id = i
    PROVE  ~Alive(r)
  BY DEF LifeInv, HandlerInv, StageInv, Started, LifeTypeOK, Stages, IInv, Structure, Reachable

\* What holds wherever the process is.
LEMMA LifeFacts ==
    ASSUME LifeInv
    PROVE  /\ IInv /\ TypeOK /\ Structure /\ WaitInv /\ LifeTypeOK
           /\ StageInv /\ MuInv /\ AskedInv /\ ArgInv /\ TodoInv
           /\ QuietInv /\ RootInv /\ ObservedInv /\ CachedInv
           /\ Main \in Callers /\ Main \notin Clients /\ Callers = Clients \cup {Main}
           /\ Clients \subseteq Callers /\ NoCaller \notin Callers
           /\ Named \subseteq Ids /\ Pairs \subseteq Project /\ StoredProjects \subseteq Pairs
  BY LifecycleAssumption, NoCallerAssumption
     DEF LifeInv, HandlerInv, TableInv, IInv, Clients, Named, Pairs, StoredProjects

LEMMA MainStartKeeps == LifeInv /\ MainStart => HandlerInv' /\ TableInv'
  <1> SUFFICES ASSUME LifeInv, MainStart PROVE HandlerInv' /\ TableInv'
    OBVIOUS
  <1> USE LifeFacts
  <1>1. /\ stage = "boot" /\ stage' = "starting"
        /\ stopper = NoCaller /\ ctx = "nil"
        /\ UNCHANGED <<stored, indexed, mu, hpc, asked, skipped, revived>>
    BY DEF MainStart, StageInv, tableVars, handlerVars
  <1>2. /\ ctx' = "live" /\ pc' = [pc EXCEPT ![Main] = "startList"]
        /\ UNCHANGED <<stopper, runners, created, project, phase, cancelled, arg, target, todo>>
    BY <1>1 DEF MainStart, Start, StartLock, Goto, creation, workerVars
  <1>3. pc'[Main] = "startList" /\ \A c \in Clients : pc'[c] = pc[c]
    BY <1>2 DEF TypeOK
  <1>4. StageInv' /\ MuInv' /\ ArgInv' /\ TodoInv'
    BY <1>1, <1>2, <1>3 DEF StageInv, Started, MuInv, ArgInv, TodoInv, MainPCs
  <1>5. AskedInv' /\ QuietInv' /\ CachedInv' /\ ObservedInv'
    BY <1>1, <1>2, <1>3 DEF AskedInv, QuietInv, CachedInv, ObservedInv, Deleting, Pending,
                            StageInv
  <1>6. RootInv'
    BY <1>1, <1>2 DEF RootInv, Used, Alive
  <1>7. QED
    BY <1>4, <1>5, <1>6 DEF HandlerInv, TableInv

LEMMA MainListKeeps ==
    ASSUME LifeInv, stage = "starting",
           UNCHANGED <<stage, tableVars, handlerVars, skipped, revived>>,
           StartList(Main, StoredProjects) \/ StartDone(Main)
    PROVE  HandlerInv' /\ TableInv'
  <1> USE LifeFacts
  <1>1. /\ UNCHANGED <<stage, stored, indexed, mu, hpc, asked, skipped, revived, ctx, stopper,
                       runners, created, project, phase, cancelled, arg, target>>
        /\ \A c \in Clients : pc'[c] = pc[c]
    BY DEF tableVars, handlerVars, StartList, StartDone, Goto, mapVars, creation, workerVars,
           TypeOK
  <1>2. AskedInv' /\ QuietInv' /\ CachedInv' /\ ArgInv'
    BY <1>1 DEF AskedInv, QuietInv, CachedInv, ArgInv, Deleting
  <1>3. RootInv'
    BY <1>1 DEF RootInv, Used, Alive
  <1>4. MuInv'
    BY <1>1 DEF MuInv
  <1>5. CASE StartList(Main, StoredProjects)
    <2>1. /\ pc[Main] = "startList" /\ pc'[Main] = "startLoop"
          /\ todo'[Main] = StoredProjects
      BY <1>5 DEF StartList, Goto, TypeOK
    <2>2. StageInv' /\ TodoInv'
      BY <1>1, <2>1 DEF StageInv, Started, TodoInv, MainPCs, StoredProjects
    <2>3. ObservedInv'
      <3> SUFFICES ASSUME NEW i \in Named \ (skipped \cup revived), stored[i] # None
                   PROVE  \E p \in StoredProjects : p.id = i
        BY <1>1, <2>1 DEF ObservedInv, Pending
      <3>1. stored[i] \in Roots
        BY DEF LifeTypeOK
      <3>2. [id |-> i, root |-> stored[i]] \in StoredProjects
        BY <3>1 DEF StoredProjects, Pairs, Project
      <3>3. QED
        BY <3>2
    <2>4. QED
      BY <1>2, <1>3, <1>4, <2>2, <2>3 DEF HandlerInv, TableInv
  <1>6. CASE StartDone(Main)
    <2>1. /\ pc[Main] = "startLoop" /\ pc'[Main] = "idle" /\ todo[Main] = {}
      BY <1>6 DEF StartDone, Goto, TypeOK
    <2>2. StageInv' /\ TodoInv'
      BY <1>1, <2>1 DEF StageInv, Started, TodoInv, MainPCs
    <2>3. ObservedInv'
      BY <1>1, <2>1 DEF ObservedInv, Pending
    <2>4. QED
      BY <1>2, <1>3, <1>4, <2>2, <2>3 DEF HandlerInv, TableInv
  <1>7. QED
    BY <1>5, <1>6

LEMMA MainNextKeeps ==
    ASSUME LifeInv, stage = "starting", NEW p \in Pairs, StartNext(Main, p),
           skipped' = IF created' = created THEN skipped \cup {p.id} ELSE skipped,
           UNCHANGED <<stage, tableVars, handlerVars, revived>>
    PROVE  HandlerInv' /\ TableInv'
  <1> USE LifeFacts
  <1>1. /\ UNCHANGED <<stage, stored, indexed, mu, hpc, asked, revived, ctx, stopper,
                       pc, arg, target>>
        /\ pc[Main] = "startLoop" /\ p \in todo[Main] /\ p \in StoredProjects
        /\ todo'[Main] = todo[Main] \ {p}
        /\ p \in Project /\ p.id \in Named /\ stored[p.id] = p.root
    BY DEF tableVars, handlerVars, StartNext, TypeOK, TodoInv, StoredProjects, Pairs
  <1>2. StageInv' /\ MuInv' /\ ArgInv' /\ TodoInv' /\ CachedInv'
    BY <1>1 DEF StageInv, Started, MuInv, ArgInv, TodoInv, CachedInv, StoredProjects
  <1>3. \A c \in Callers : ~Deleting(c)
    BY <1>1 DEF StageInv, Deleting
  <1>4. AskedInv'
    BY <1>1, <1>3 DEF AskedInv, Deleting
  <1>5. Started
    BY DEF StageInv
  <1>6. \A i \in Ids \ {p.id} : ~Pending(i)' => ~Pending(i)
    BY <1>1 DEF Pending
  <1>7. CASE AddRunner(p)
    <2>1. RootInv'
      BY <1>1, <1>7, AddRunnerRoot
    <2>2. QuietInv'
      BY <1>1, <1>3, <1>7, AddRunnerMap, LifecycleAssumption DEF QuietInv, Project
    <2>3. ObservedInv'
      <3> SUFFICES ASSUME NEW i \in Named \ (skipped' \cup revived), stored[i] # None,
                          ~Pending(i)'
                   PROVE  /\ runners'[i] # NoRunner
                          /\ cancelled'[runners'[i]] => ctx = "cancelled"
        BY <1>1 DEF ObservedInv
      <3>1. CASE i = p.id
        BY <1>7, <3>1, AddRunnerMap
      <3>2. CASE i # p.id
        <4>1. i \in Named \ (skipped \cup revived) /\ ~Pending(i)
          BY <1>6, <3>2
        <4>2. runners[i] # NoRunner /\ (cancelled[runners[i]] => ctx = "cancelled")
          BY <4>1 DEF ObservedInv
        <4>3. QED
          BY <1>7, <3>2, <4>2, AddRunnerMap
      <3>3. QED
        BY <3>1, <3>2
    <2>4. QED
      BY <1>2, <1>4, <2>1, <2>2, <2>3 DEF HandlerInv, TableInv
  <1>8. CASE UNCHANGED <<runners, creation, cancelled, phase>>
    <2>1. RootInv'
      BY <1>1, <1>8 DEF RootInv, Used, Alive, creation
    <2>2. QuietInv' /\ ObservedInv'
      BY <1>1, <1>3, <1>6, <1>8 DEF QuietInv, ObservedInv, Deleting, creation
    <2>3. QED
      BY <1>2, <1>4, <2>1, <2>2 DEF HandlerInv, TableInv
  <1>9. QED
    BY <1>5, <1>7, <1>8 DEF StartNext, register

LEMMA MainEndsKeep ==
    ASSUME LifeInv, IInv', MainServe \/ MainStop \/ Terminate \/ Crash
    PROVE  HandlerInv' /\ TableInv'
  <1> USE LifeFacts
  <1>1. CASE MainServe
    <2>1. /\ stage = "starting" /\ stage' = "serving" /\ pc[Main] = "idle" /\ hpc[Main] = "idle"
          /\ UNCHANGED <<vars, stored, indexed, mu, hpc, asked, skipped, revived>>
      BY <1>1 DEF MainServe, tableVars, handlerVars
    <2>2. UNCHANGED <<ctx, stopper, runners, created, project, phase, cancelled, pc, arg, target,
                      todo>>
      BY <2>1 DEF vars, mapVars, creation, workerVars, callVars
    <2>3. StageInv' /\ MuInv' /\ ArgInv' /\ TodoInv'
      BY <2>1, <2>2 DEF StageInv, Started, MuInv, ArgInv, TodoInv, MainPCs, StoredProjects
    <2>4. \A c \in Callers : hpc[c] = "idle"
      BY <2>1 DEF StageInv
    <2>5. AskedInv' /\ QuietInv' /\ ObservedInv' /\ CachedInv'
      BY <2>1, <2>2, <2>4 DEF AskedInv, QuietInv, ObservedInv, CachedInv, Deleting, Pending
    <2>6. RootInv'
      BY <2>1, <2>2 DEF RootInv, Used, Alive
    <2>7. QED
      BY <2>3, <2>5, <2>6 DEF HandlerInv, TableInv
  <1>2. CASE MainStop
    <2>1. /\ stage = "serving" /\ stage' = "stopping"
          /\ UNCHANGED <<stored, indexed, mu, hpc, asked, skipped, revived>>
      BY <1>2 DEF MainStop, tableVars, handlerVars
    <2>2. BeginStop(Main)
      BY <1>2, <2>1 DEF MainStop, Stop, StopRun, StageInv, Started
    <2>3. /\ ctx' = "nil" /\ runners' = [i \in Ids |-> NoRunner]
          /\ pc'[Main] = "stopWait" /\ \A c \in Clients : pc'[c] = pc[c]
          /\ UNCHANGED <<created, project, phase, arg, target, todo>>
      BY <2>2 DEF BeginStop, Goto, TypeOK, creation, workerVars
    <2>4. StageInv' /\ MuInv' /\ ArgInv' /\ TodoInv'
      BY <2>1, <2>3 DEF StageInv, Started, MuInv, ArgInv, TodoInv, MainPCs
    <2>5. AskedInv' /\ QuietInv' /\ ObservedInv' /\ CachedInv'
      BY <2>1, <2>3 DEF AskedInv, QuietInv, ObservedInv, CachedInv, Deleting
    <2>6. RootInv'
      BY <2>1, <2>3, RunnersType DEF RootInv, Used, Alive, TypeOK, Project
    <2>7. QED
      BY <2>4, <2>5, <2>6 DEF HandlerInv, TableInv
  <1>3. CASE Terminate
    <2>1. /\ ctx = "live" /\ ctx' = "cancelled" /\ stage # "boot"
          /\ UNCHANGED <<stage, stored, indexed, mu, hpc, asked, skipped, revived, stopper,
                         runners, created, project, phase, pc, arg, target, todo>>
      BY <1>3 DEF Terminate, CancelRoot, lifeVars, creation, workerVars, callVars
    <2>2. StageInv' /\ MuInv' /\ ArgInv' /\ TodoInv'
      BY <2>1 DEF StageInv, Started, MuInv, ArgInv, TodoInv, StoredProjects
    <2>3. AskedInv' /\ QuietInv' /\ ObservedInv' /\ CachedInv'
      BY <2>1 DEF AskedInv, QuietInv, ObservedInv, CachedInv, Deleting, Pending
    <2>4. RootInv'
      BY <2>1 DEF RootInv, Used, Alive
    <2>5. QED
      BY <2>2, <2>3, <2>4 DEF HandlerInv, TableInv
  <1>4. CASE Crash
    <2>1. /\ stage' = "boot" /\ ctx' = "nil" /\ stopper' = NoCaller /\ mu' = NoCaller
          /\ created' = 0
          /\ \A c \in Callers : hpc'[c] = "idle" /\ pc'[c] = "idle"
          /\ \A i \in Ids : runners'[i] = NoRunner
          /\ UNCHANGED <<stored, indexed, revived>>
      BY <1>4 DEF Crash, tableVars
    <2>2. StageInv' /\ MuInv' /\ ArgInv' /\ TodoInv' /\ AskedInv'
      BY <2>1 DEF StageInv, Started, MuInv, ArgInv, TodoInv, AskedInv, Deleting, MainPCs,
                  RescanPCs
    <2>3. QuietInv' /\ ObservedInv' /\ CachedInv'
      BY <2>1 DEF QuietInv, ObservedInv, CachedInv
    <2>4. RootInv'
      BY <2>1, RunnersType DEF RootInv, Used, Runners
    <2>5. QED
      BY <2>2, <2>3, <2>4 DEF HandlerInv, TableInv
  <1>5. QED
    BY <1>1, <1>2, <1>3, <1>4

LEMMA CreateCommitKeeps ==
    ASSUME LifeInv, NEW c \in Callers, NEW p \in Pairs, CreateCommit(c, p)
    PROVE  HandlerInv' /\ TableInv'
  <1> USE LifeFacts
  <1>1. /\ pc[c] = "idle" /\ hpc[c] = "idle"
        /\ c \in Clients => stage = "serving" /\ mu = NoCaller /\ mu' = c
        /\ c = Main => stage = "starting" /\ mu' = mu
        /\ stored[p.id] = None
        /\ stored' = [stored EXCEPT ![p.id] = p.root]
        /\ indexed' = [indexed EXCEPT ![p.id] = None]
        /\ hpc' = [hpc EXCEPT ![c] = "register"]
        /\ asked' = [asked EXCEPT ![c] = p]
        /\ UNCHANGED <<stage, skipped, revived>>
    BY DEF CreateCommit, CanBegin
  <1>2. UNCHANGED <<ctx, stopper, runners, created, project, phase, cancelled, pc, arg, target,
                    todo>>
    BY DEF CreateCommit, vars, mapVars, creation, workerVars, callVars
  <1>3. p.id \in Named /\ p \in Project /\ p.id \in Ids
    BY DEF Pairs
  <1>4. \A d \in Callers : d # c => hpc'[d] = hpc[d] /\ asked'[d] = asked[d]
    BY <1>1 DEF LifeTypeOK
  <1>5. hpc'[c] = "register" /\ asked'[c] = p
    BY <1>1 DEF LifeTypeOK
  <1>6. stored'[p.id] = p.root /\ \A i \in Ids : i # p.id => stored'[i] = stored[i]
    BY <1>1, <1>3 DEF LifeTypeOK
  <1>7. \A d \in Callers : hpc[d] = "idle" /\ ~Deleting(d)
    BY <1>1 DEF StageInv, MuInv, Deleting
  <1>8. p.id \notin revived =>
           runners[p.id] = NoRunner /\ \A r \in Runners : project[r].id = p.id => ~Alive(r)
    <2>1. stage # "stopping"
      BY <1>1
    <2>2. p.id \notin revived => runners[p.id] = NoRunner
      BY <1>1, <1>3, <1>7, <2>1 DEF QuietInv
    <2>3. QED
      BY <1>3, <2>1, <2>2, UnmappedProject
  <1>9. StageInv' /\ MuInv' /\ ArgInv'
    BY <1>1, <1>2, <1>4, <1>5, <1>7 DEF StageInv, Started, MuInv, ArgInv, MainPCs
  <1>10. TodoInv'
    <2>1. pc[Main] # "startLoop"
      BY <1>1 DEF StageInv
    <2>2. QED
      BY <1>2, <2>1 DEF TodoInv
  <1>11. AskedInv'
    BY <1>1, <1>3, <1>4, <1>5, <1>6, <1>7 DEF AskedInv, Deleting
  <1>12. QuietInv'
    BY <1>1, <1>2, <1>3, <1>6, <1>7, LifecycleAssumption DEF QuietInv, Project
  <1>13. ObservedInv'
    <2>1. Pending(p.id)'
      BY <1>5 DEF Pending
    <2>2. \A i \in Ids : i # p.id => (Pending(i) => Pending(i)')
      BY <1>2, <1>4, <1>7, <1>1 DEF Pending
    <2>3. ASSUME NEW i \in Named \ (skipped \cup revived), stage \in {"starting", "serving"},
                 stored'[i] # None, ~Pending(i)'
          PROVE  runners[i] # NoRunner /\ (cancelled[runners[i]] => ctx = "cancelled")
      <3>1. i # p.id /\ stored[i] # None /\ ~Pending(i)
        BY <1>6, <2>1, <2>2, <2>3
      <3>2. QED
        BY <2>3, <3>1 DEF ObservedInv
    <2>4. QED
      BY <1>1, <1>2, <2>3 DEF ObservedInv
  <1>14. CachedInv'
    BY <1>1, <1>3, <1>6 DEF CachedInv, LifeTypeOK
  <1>15. RootInv'
    <2> SUFFICES ASSUME NEW r \in Runners, Used(r), project[r].id \in Named \ revived,
                        stored'[project[r].id] # None,
                        Alive(r) \/ runners[project[r].id] = r
                 PROVE  project[r].root = stored'[project[r].id]
      BY <1>1, <1>2 DEF RootInv, Used, Alive
    <2>1. project[r].id # p.id
      BY <1>8, RunnersType
    <2>2. QED
      BY <1>6, <2>1 DEF RootInv
  <1>16. QED
    BY <1>9, <1>10, <1>11, <1>12, <1>13, <1>14, <1>15 DEF HandlerInv, TableInv

LEMMA CreateRegisterKeeps ==
    ASSUME LifeInv, NEW c \in Callers, CreateRegister(c)
    PROVE  HandlerInv' /\ TableInv'
  <1> USE LifeFacts
  <1> DEFINE p == asked[c]
  <1>1. /\ hpc[c] = "register" /\ hpc' = [hpc EXCEPT ![c] = "idle"]
        /\ mu' = IF c = Main THEN mu ELSE NoCaller
        /\ UNCHANGED <<stage, stored, indexed, asked, revived, ctx, stopper, pc, arg, target, todo>>
    BY DEF CreateRegister, tableVars, callVars
  <1>2. p \in Project /\ p.id \in Named /\ p.id \in Ids /\ stored[p.id] = p.root
    BY <1>1 DEF LifeTypeOK, AskedInv
  <1>3. \A d \in Callers : d # c => hpc[d] = "idle"
    BY <1>1 DEF StageInv, MuInv
  <1>4. \A d \in Callers : hpc'[d] = "idle" /\ ~Deleting(d) /\ ~Deleting(d)'
    BY <1>1, <1>3 DEF LifeTypeOK, Deleting
  <1>5. mu' = NoCaller
    BY <1>1, <1>3 DEF MuInv
  <1>6. StageInv' /\ MuInv' /\ ArgInv' /\ TodoInv' /\ AskedInv' /\ CachedInv'
    <2>1. StageInv' /\ ArgInv' /\ TodoInv' /\ CachedInv'
      BY <1>1, <1>4 DEF StageInv, Started, ArgInv, TodoInv, StoredProjects, CachedInv
    <2>2. MuInv'
      BY <1>1, <1>4, <1>5 DEF MuInv
    <2>3. AskedInv'
      BY <1>4 DEF AskedInv
    <2>4. QED
      BY <2>1, <2>2, <2>3
  <1>7. \A i \in Ids \ {p.id} : ~Pending(i)' => ~Pending(i)
    BY <1>1, <1>3 DEF Pending
  <1>8. ASSUME NEW q \in Project, AddRunner(q), UNCHANGED skipped \/ p.id \in skipped',
               skipped \subseteq skipped',
               q = p \/ (q.id \notin Named /\ p.id \in skipped')
        PROVE  TableInv'
    <2>1. RootInv'
      BY <1>1, <1>2, <1>8, AddRunnerRoot
    <2>2. QuietInv'
      BY <1>1, <1>2, <1>4, <1>8, AddRunnerMap, LifecycleAssumption DEF QuietInv, Project
    <2>3. ObservedInv'
      <3> SUFFICES ASSUME NEW i \in Named \ (skipped' \cup revived),
                          stage \in {"starting", "serving"}, stored[i] # None, ~Pending(i)'
                   PROVE  /\ runners'[i] # NoRunner
                          /\ cancelled'[runners'[i]] => ctx = "cancelled"
        BY <1>1 DEF ObservedInv
      <3>1. CASE i = q.id
        BY <1>8, <3>1, AddRunnerMap
      <3>2. CASE i # q.id
        <4>1. i # p.id
          BY <1>8, <3>2
        <4>2. i \in Named \ (skipped \cup revived) /\ ~Pending(i)
          BY <1>7, <1>8, <4>1
        <4>3. runners[i] # NoRunner /\ (cancelled[runners[i]] => ctx = "cancelled")
          BY <4>2 DEF ObservedInv
        <4>4. QED
          BY <1>8, <3>2, <4>3, AddRunnerMap
      <3>3. QED
        BY <3>1, <3>2
    <2>4. QED
      BY <1>6, <2>1, <2>2, <2>3 DEF TableInv
  <1>9. ASSUME ~Started, UNCHANGED <<runners, creation, cancelled, phase>>
        PROVE  TableInv'
    <2>1. stage \notin {"starting", "serving"}
      BY <1>9 DEF StageInv
    <2>2. QuietInv' /\ ObservedInv'
      BY <1>1, <1>4, <1>9, <2>1 DEF QuietInv, ObservedInv
    <2>3. RootInv'
      BY <1>1, <1>9 DEF RootInv, Used, Alive, creation
    <2>4. QED
      BY <1>6, <2>2, <2>3 DEF TableInv
  <1>10. CASE register(p, FALSE) /\ UNCHANGED skipped
    BY <1>2, <1>6, <1>8, <1>9, <1>10 DEF register, HandlerInv
  <1>11. CASE register(ZeroProject, FALSE) /\ skipped' = skipped \cup {p.id}
    BY <1>6, <1>8, <1>9, <1>11, LifecycleAssumption DEF register, HandlerInv, Named
  <1>12. QED
    BY <1>10, <1>11 DEF CreateRegister

LEMMA CreateExistingKeeps ==
    ASSUME LifeInv, NEW c \in Callers, NEW p \in Pairs, CreateExisting(c, p)
    PROVE  HandlerInv' /\ TableInv'
  <1> USE LifeFacts
  <1>1. /\ c \in Clients /\ hpc[c] = "idle" /\ stage = "serving" /\ mu = NoCaller
        /\ stored[p.id] = p.root
        /\ skipped' = IF created' = created THEN skipped ELSE skipped \ {p.id}
        /\ UNCHANGED <<stage, stored, indexed, mu, hpc, asked, revived, ctx, stopper, pc, arg,
                       target, todo>>
    BY DEF CreateExisting, CanBegin, Ensure, tableVars, handlerVars, callVars
  <1>2. p \in Project /\ p.id \in Named /\ p.id \in Ids
    BY DEF Pairs
  <1>3. \A d \in Callers : hpc[d] = "idle" /\ ~Deleting(d)
    BY <1>1 DEF StageInv, MuInv, Deleting
  <1>4. StageInv' /\ MuInv' /\ ArgInv' /\ TodoInv' /\ CachedInv' /\ AskedInv'
    BY <1>1, <1>3 DEF StageInv, Started, MuInv, ArgInv, TodoInv, StoredProjects, CachedInv,
                      AskedInv, Deleting
  <1>5. \A i \in Ids : Pending(i)' <=> Pending(i)
    BY <1>1 DEF Pending
  <1>6. CASE AddRunner(p)
    <2>1. RootInv'
      BY <1>1, <1>6, AddRunnerRoot, <1>2
    <2>2. QuietInv'
      BY <1>1, <1>2, <1>3, <1>6, AddRunnerMap, LifecycleAssumption DEF QuietInv, Project
    <2>3. ObservedInv'
      <3> SUFFICES ASSUME NEW i \in Named \ (skipped' \cup revived), stored[i] # None, ~Pending(i)'
                   PROVE  /\ runners'[i] # NoRunner
                          /\ cancelled'[runners'[i]] => ctx = "cancelled"
        BY <1>1 DEF ObservedInv
      <3>1. CASE i = p.id
        BY <1>2, <1>6, <3>1, AddRunnerMap
      <3>2. CASE i # p.id
        <4>1. i \in Named \ (skipped \cup revived) /\ ~Pending(i)
          BY <1>1, <1>5, <3>2
        <4>2. runners[i] # NoRunner /\ (cancelled[runners[i]] => ctx = "cancelled")
          BY <1>1, <4>1 DEF ObservedInv
        <4>3. QED
          BY <1>2, <1>6, <3>2, <4>2, AddRunnerMap
      <3>3. QED
        BY <3>1, <3>2
    <2>4. QED
      BY <1>4, <2>1, <2>2, <2>3 DEF HandlerInv, TableInv
  <1>7. CASE UNCHANGED <<runners, creation, cancelled, phase>>
    <2>1. UNCHANGED skipped
      BY <1>1, <1>7 DEF creation
    <2>2. QuietInv' /\ ObservedInv'
      BY <1>1, <1>3, <1>5, <1>7, <2>1 DEF QuietInv, ObservedInv
    <2>3. RootInv'
      BY <1>1, <1>7 DEF RootInv, Used, Alive, creation
    <2>4. QED
      BY <1>4, <2>2, <2>3 DEF HandlerInv, TableInv
  <1>8. QED
    BY <1>6, <1>7 DEF CreateExisting, Ensure, register

LEMMA RescanEnsureKeeps ==
    ASSUME LifeInv, NEW c \in Callers, RescanEnsure(c)
    PROVE  HandlerInv' /\ TableInv'
  <1> USE LifeFacts
  <1> DEFINE p == arg[c]
  <1>1. /\ pc[c] = "ensure" /\ pc' = [pc EXCEPT ![c] = "lookup"]
        /\ register(p, TRUE)
        /\ UNCHANGED <<stage, stored, indexed, mu, hpc, asked, ctx, stopper, arg, target, todo>>
    BY DEF RescanEnsure, RestoreEnsure, Goto, tableVars, handlerVars
  <1>2. /\ c \in Clients /\ hpc[c] = "idle" /\ stage \in {"serving", "stopping"}
        /\ p \in Project /\ p.id \in Named
    BY <1>1 DEF StageInv, MainPCs, MuInv, ArgInv, TypeOK, LifeTypeOK, HandlerPCs, Stages
  <1>3. pc'[c] = "lookup" /\ \A d \in Callers : d # c => pc'[d] = pc[d]
    BY <1>1 DEF TypeOK
  <1>4. StageInv' /\ MuInv' /\ ArgInv' /\ TodoInv'
    BY <1>1, <1>2, <1>3 DEF StageInv, Started, MuInv, ArgInv, TodoInv, StoredProjects, RescanPCs
  <1>5. \A i \in Ids : Pending(i)' <=> Pending(i)
    BY <1>1, <1>2, <1>3 DEF Pending
  <1>6. CASE Started /\ runners[p.id] = NoRunner
    <2>1. /\ AddRunner(p)
          /\ skipped' = skipped \ {p.id}
          /\ revived' = IF Outdated(c) THEN revived \cup {p.id} ELSE revived
      BY <1>1, <1>6 DEF register, RescanEnsure
    <2>2. stage = "serving"
      BY <1>2, <1>6 DEF StageInv, Started
    <2>3. p.id \in revived' \/ stored[p.id] \in {None, p.root}
      <3>1. CASE stored[p.id] # p.root /\ ~Outdated(c)
        <4>1. PICK d \in Clients : hpc[d] = "remove" /\ asked[d].id = p.id
          BY <3>1 DEF Outdated
        <4>2. QED
          BY <4>1 DEF AskedInv, Deleting
      <3>2. QED
        BY <2>1, <3>1
    <2>4. p.id \in revived' \/ stored[p.id] = p.root
          \/ \E d \in Clients : Deleting(d) /\ asked[d].id = p.id
      BY <2>1 DEF Outdated, Deleting
    <2>5. RootInv'
      BY <1>1, <1>2, <2>1, <2>3, AddRunnerRoot
    <2>6. AskedInv'
      <3> SUFFICES ASSUME NEW d \in Callers, hpc[d] = "removing"
                   PROVE  /\ project'[target[d]].id = asked[d].id
                          /\ runners'[asked[d].id] = target[d]
        BY <1>1 DEF AskedInv, Deleting
      <3>1. /\ asked[d].id \in Ids /\ project[target[d]].id = asked[d].id
            /\ runners[asked[d].id] = target[d]
        BY <2>2 DEF AskedInv, Deleting
      <3>2. target[d] \in Runners /\ Used(target[d])
        BY <1>2 DEF WaitInv, MuInv, StageInv
      <3>3. asked[d].id # p.id
        BY <1>6, <3>1, <3>2, RunnersType
      <3>4. QED
        BY <1>2, <2>1, <3>1, <3>2, <3>3, AddRunnerMap
    <2>7. QuietInv'
      <3> SUFFICES ASSUME NEW i \in Named \ revived', stored[i] = None
                   PROVE  \/ runners'[i] = NoRunner
                          \/ \E d \in Clients : Deleting(d) /\ asked[d].id = i
        BY <1>1 DEF QuietInv, Deleting
      <3>1. CASE i = p.id
        BY <1>2, <2>4, <3>1, LifecycleAssumption DEF Project
      <3>2. CASE i # p.id
        <4>1. \/ runners[i] = NoRunner
              \/ \E d \in Clients : Deleting(d) /\ asked[d].id = i
          BY <2>1, <2>2 DEF QuietInv
        <4>2. QED
          BY <1>2, <2>1, <3>2, <4>1, AddRunnerMap
      <3>3. QED
        BY <3>1, <3>2
    <2>8. ObservedInv'
      <3> SUFFICES ASSUME NEW i \in Named \ (skipped' \cup revived'), stored[i] # None,
                          ~Pending(i)'
                   PROVE  /\ runners'[i] # NoRunner
                          /\ cancelled'[runners'[i]] => ctx = "cancelled"
        BY <1>1 DEF ObservedInv
      <3>1. CASE i = p.id
        BY <1>2, <2>1, <3>1, AddRunnerMap
      <3>2. CASE i # p.id
        <4>1. i \in Named \ (skipped \cup revived) /\ ~Pending(i)
          BY <1>5, <2>1, <3>2
        <4>2. runners[i] # NoRunner /\ (cancelled[runners[i]] => ctx = "cancelled")
          BY <2>2, <4>1 DEF ObservedInv
        <4>3. QED
          BY <1>2, <2>1, <3>2, <4>2, AddRunnerMap
      <3>3. QED
        BY <3>1, <3>2
    <2>9. CachedInv'
      BY <1>1, <2>1 DEF CachedInv
    <2>10. QED
      BY <1>4, <2>5, <2>6, <2>7, <2>8, <2>9 DEF HandlerInv, TableInv
  <1>7. CASE ~(Started /\ runners[p.id] = NoRunner)
    <2>1. UNCHANGED <<runners, creation, cancelled, phase, skipped, revived>>
      BY <1>1, <1>7 DEF register, RescanEnsure
    <2>2. AskedInv' /\ QuietInv' /\ ObservedInv' /\ CachedInv'
      BY <1>1, <1>5, <2>1 DEF AskedInv, QuietInv, ObservedInv, CachedInv, Deleting, creation
    <2>3. RootInv'
      BY <1>1, <2>1 DEF RootInv, Used, Alive, creation
    <2>4. QED
      BY <1>4, <2>2, <2>3 DEF HandlerInv, TableInv
  <1>8. QED
    BY <1>6, <1>7

LEMMA DeleteCommitKeeps ==
    ASSUME LifeInv, NEW c \in Callers, NEW i \in Named, DeleteCommit(c, i)
    PROVE  HandlerInv' /\ TableInv'
  <1> USE LifeFacts
  <1>1. /\ c \in Clients /\ pc[c] = "idle" /\ hpc[c] = "idle"
        /\ stage = "serving" /\ mu = NoCaller
        /\ stored' = [stored EXCEPT ![i] = None]
        /\ indexed' = [indexed EXCEPT ![i] = None]
        /\ mu' = c /\ hpc' = [hpc EXCEPT ![c] = "remove"]
        /\ skipped' = skipped \ {i}
        /\ UNCHANGED <<stage, revived>>
    BY DEF DeleteCommit, CanBegin
  <1>2. UNCHANGED <<ctx, stopper, runners, created, project, phase, cancelled, pc, arg, target,
                    todo>>
    BY DEF DeleteCommit, vars, mapVars, creation, workerVars, callVars
  <1>3. hpc'[c] = "remove" /\ \A d \in Callers : d # c => hpc'[d] = hpc[d]
    BY <1>1 DEF LifeTypeOK
  <1>4. asked'[c].id = i
    BY DEF DeleteCommit, LifeTypeOK, Project
  <1>5. stored'[i] = None /\ \A j \in Ids : j # i => stored'[j] = stored[j]
    BY <1>1 DEF LifeTypeOK
  <1>6. \A d \in Callers : hpc[d] = "idle"
    BY <1>1 DEF StageInv, MuInv
  <1>7. StageInv' /\ MuInv' /\ ArgInv' /\ AskedInv' /\ TodoInv'
    <2>1. StageInv' /\ MuInv' /\ ArgInv'
      BY <1>1, <1>2, <1>3, <1>6 DEF StageInv, Started, MuInv, ArgInv
    <2>2. AskedInv'
      BY <1>3, <1>4, <1>5, <1>6 DEF AskedInv, Deleting
    <2>3. TodoInv'
      BY <1>1, <1>2 DEF StageInv, TodoInv
    <2>4. QED
      BY <2>1, <2>2, <2>3
  <1>8. QuietInv'
    BY <1>1, <1>2, <1>3, <1>4, <1>5, <1>6 DEF QuietInv, Deleting
  <1>9. ObservedInv'
    <2>1. \A j \in Ids : ~Pending(j)
      BY <1>1, <1>6 DEF Pending, StageInv
    <2>2. QED
      BY <1>1, <1>2, <1>5, <2>1 DEF ObservedInv
  <1>10. CachedInv'
    BY <1>1, <1>5 DEF CachedInv, LifeTypeOK
  <1>11. RootInv'
    BY <1>1, <1>2, <1>5 DEF RootInv, Used, Alive
  <1>12. QED
    BY <1>7, <1>8, <1>9, <1>10, <1>11 DEF HandlerInv, TableInv

LEMMA DeleteRemoveKeeps ==
    ASSUME LifeInv, NEW c \in Callers, DeleteRemove(c)
    PROVE  HandlerInv' /\ TableInv'
  <1> USE LifeFacts
  <1> DEFINE i == asked[c].id
             r == runners[i]
  <1>1. /\ hpc[c] = "remove" /\ pc[c] = "idle" /\ Remove(c, i)
        /\ UNCHANGED <<stage, stored, indexed, asked, skipped, revived, ctx, stopper, runners,
                       created, project, phase, arg, todo>>
    BY DEF DeleteRemove, Remove, tableVars, mapVars, creation, workerVars
  <1>2. /\ c \in Clients /\ mu = c /\ i \in Named /\ stored[i] = None
        /\ stage \in {"serving", "stopping"}
        /\ \A d \in Callers : d # c => hpc[d] = "idle"
    BY <1>1 DEF MuInv, StageInv, AskedInv, Deleting, LifeTypeOK, Stages
  <1>3. \A d \in Callers : d # c => UNCHANGED <<pc[d], hpc[d], target[d]>>
    BY <1>1 DEF DeleteRemove, Remove, Goto, TypeOK, LifeTypeOK
  <1>4. CachedInv' /\ ArgInv' /\ TodoInv' /\ RootInv'
    <2>1. CachedInv' /\ RootInv'
      BY <1>1 DEF CachedInv, RootInv, Used, Alive
    <2>2. \A d \in Clients : pc'[d] \in {"restore", "ensure"} => pc[d] = pc'[d]
      BY <1>1, <1>3 DEF DeleteRemove, Remove, Goto, TypeOK
    <2>3. ArgInv' /\ TodoInv'
      BY <1>1, <1>2, <1>3, <2>2 DEF ArgInv, TodoInv, StoredProjects
    <2>4. QED
      BY <2>1, <2>3
  <1>5. \A j \in Ids : ~Pending(j)' => ~Pending(j)
    BY <1>1, <1>2, <1>3 DEF Pending
  <1>6. CASE r = NoRunner
    <2>1. /\ hpc'[c] = "idle" /\ mu' = NoCaller /\ UNCHANGED <<cancelled, pc, target>>
      BY <1>1, <1>6 DEF DeleteRemove, Remove, LifeTypeOK
    <2>2. StageInv' /\ MuInv' /\ AskedInv'
      BY <1>1, <1>2, <1>3, <2>1 DEF StageInv, Started, MuInv, AskedInv, Deleting
    <2>3. QuietInv'
      BY <1>1, <1>2, <1>6 DEF QuietInv, Deleting
    <2>4. ObservedInv'
      BY <1>1, <1>5, <2>1 DEF ObservedInv
    <2>5. QED
      BY <1>4, <2>2, <2>3, <2>4 DEF HandlerInv, TableInv
  <1>7. CASE r # NoRunner
    <2>1. /\ hpc'[c] = "removing" /\ UNCHANGED mu
          /\ pc'[c] = "removeWait" /\ target'[c] = r
          /\ cancelled' = [cancelled EXCEPT ![r] = TRUE]
      BY <1>1, <1>7 DEF DeleteRemove, Remove, Goto, LifeTypeOK, TypeOK
    <2>2. /\ r \in Runners /\ project[r].id = i
          /\ \A j \in Ids : j # i => runners[j] # r
      BY <1>2, <1>7, LifeFacts DEF TypeOK, Structure, MapNewest
    <2>3. StageInv' /\ MuInv'
      BY <1>1, <1>2, <1>3, <2>1 DEF StageInv, Started, MuInv
    <2>4. AskedInv'
      BY <1>1, <1>2, <1>3, <2>1, <2>2 DEF AskedInv, Deleting
    <2>5. QuietInv'
      BY <1>1, <1>2, <1>3, <2>1 DEF QuietInv, Deleting
    <2>6. ObservedInv'
      BY <1>1, <1>2, <1>5, <2>1, <2>2 DEF ObservedInv, TypeOK
    <2>7. QED
      BY <1>4, <2>3, <2>4, <2>5, <2>6 DEF HandlerInv, TableInv
  <1>8. QED
    BY <1>6, <1>7

LEMMA DeleteFinishKeeps ==
    ASSUME LifeInv, NEW c \in Callers, DeleteFinish(c)
    PROVE  HandlerInv' /\ TableInv'
  <1> USE LifeFacts
  <1> DEFINE i == asked[c].id
  <1>1. /\ hpc[c] = "removing" /\ pc[c] = "removeWait"
        /\ hpc' = [hpc EXCEPT ![c] = "idle"] /\ mu' = NoCaller
        /\ pc' = [pc EXCEPT ![c] = "idle"]
        /\ target' = [target EXCEPT ![c] = NoRunner]
        /\ UNCHANGED <<stage, stored, indexed, asked, skipped, revived, ctx, stopper, created,
                       project, phase, cancelled, arg, todo>>
    BY DEF DeleteFinish, RemoveFinish, Goto, tableVars, creation, workerVars
  <1>2. /\ c \in Clients /\ mu = c /\ i \in Named /\ stored[i] = None
        /\ stage \in {"serving", "stopping"} /\ project[target[c]].id = i
        /\ \A d \in Callers : d # c => hpc[d] = "idle"
    BY <1>1 DEF MuInv, StageInv, AskedInv, Deleting, LifeTypeOK, Stages
  <1>3. /\ pc'[c] = "idle" /\ hpc'[c] = "idle"
        /\ \A d \in Callers : d # c => UNCHANGED <<pc[d], hpc[d], target[d]>>
    BY <1>1 DEF TypeOK, LifeTypeOK
  <1>4. /\ \A j \in Ids : j # i => runners'[j] = runners[j]
        /\ runners'[i] \in {runners[i], NoRunner}
        /\ stage = "serving" => runners'[i] = NoRunner
    BY <1>1, <1>2 DEF DeleteFinish, RemoveFinish, AskedInv, TypeOK
  <1>5. StageInv' /\ ArgInv' /\ TodoInv' /\ CachedInv'
    BY <1>1, <1>2, <1>3 DEF StageInv, Started, ArgInv, TodoInv, StoredProjects, CachedInv
  <1>6. MuInv' /\ AskedInv'
    <2>1. MuInv'
      BY <1>1, <1>2, <1>3 DEF MuInv
    <2>2. \A d \in Callers : hpc'[d] = "idle"
      BY <1>2, <1>3
    <2>3. QED
      BY <2>1, <2>2 DEF AskedInv, Deleting
  <1>7. QuietInv'
    BY <1>1, <1>2, <1>3, <1>4 DEF QuietInv, Deleting
  <1>8. ObservedInv'
    <2>1. \A j \in Ids : ~Pending(j)' => ~Pending(j)
      BY <1>1, <1>2, <1>3 DEF Pending
    <2>2. QED
      BY <1>1, <1>2, <1>4, <2>1 DEF ObservedInv
  <1>9. RootInv'
    <2> SUFFICES ASSUME NEW s \in Runners, Used(s), project[s].id \in Named \ revived,
                        stored[project[s].id] # None,
                        Alive(s) \/ runners'[project[s].id] = s
                 PROVE  project[s].root = stored[project[s].id]
      BY <1>1 DEF RootInv, Used, Alive
    <2>1. project[s].id # i
      BY <1>2
    <2>2. QED
      BY <1>4, <2>1 DEF RootInv
  <1>10. QED
    BY <1>5, <1>6, <1>7, <1>8, <1>9 DEF HandlerInv, TableInv

LEMMA IndexWriteKeeps ==
    ASSUME LifeInv, NEW r \in Runners, IndexWrite(r)
    PROVE  HandlerInv' /\ TableInv'
  <1> USE LifeFacts
  <1> DEFINE i == project[r].id
  <1>1. /\ phase[r] = "busy" /\ stored[i] # None
        /\ indexed' = [indexed EXCEPT ![i] = project[r].root]
        /\ UNCHANGED <<vars, stage, stored, mu, hpc, asked, skipped, revived>>
    BY DEF IndexWrite, handlerVars
  <1>2. UNCHANGED <<ctx, stopper, runners, created, project, phase, cancelled, pc, arg, target,
                    todo>>
    BY <1>1 DEF vars, mapVars, creation, workerVars, callVars
  <1>3. StageInv' /\ MuInv' /\ AskedInv' /\ ArgInv' /\ TodoInv'
    BY <1>1, <1>2 DEF StageInv, Started, MuInv, AskedInv, Deleting, ArgInv, TodoInv,
                      StoredProjects
  <1>4. QuietInv' /\ ObservedInv'
    BY <1>1, <1>2 DEF QuietInv, ObservedInv, Deleting, Pending
  <1>5. RootInv'
    BY <1>1, <1>2 DEF RootInv, Used, Alive
  <1>6. CachedInv'
    <2>1. Used(r) /\ Alive(r)
      BY <1>1, LifeFacts DEF Structure, UsedInv, Used, Alive
    <2>2. i \in Named \ revived => project[r].root = stored[i]
      BY <1>1, <2>1 DEF RootInv
    <2>3. QED
      BY <1>1, <2>2 DEF CachedInv, LifeTypeOK
  <1>7. QED
    BY <1>3, <1>4, <1>5, <1>6 DEF HandlerInv, TableInv

LEMMA LifeStep == LifeInv /\ [LifeNext]_allVars => LifeInv'
  <1> SUFFICES ASSUME LifeInv, [LifeNext]_allVars PROVE LifeInv'
    OBVIOUS
  <1>1. IInv'
    BY SupervisorKeeps
  <1>2. LifeTypeOK'
    BY <1>1, LifeTypeStep
  <1> SUFFICES HandlerInv' /\ TableInv'
    BY <1>1, <1>2 DEF LifeInv
  <1>3. CASE MainStart \/ MainServe \/ MainStop \/ Terminate \/ Crash
    BY <1>1, <1>3, MainStartKeeps, MainEndsKeep
  <1>4. CASE MainStartSteps
    BY <1>4, MainListKeeps, MainNextKeeps DEF MainStartSteps
  <1>5. ASSUME NEW c \in Callers, NEW p \in Pairs, CreateCommit(c, p) \/ CreateExisting(c, p)
        PROVE  HandlerInv' /\ TableInv'
    BY <1>5, CreateCommitKeeps, CreateExistingKeeps
  <1>6. ASSUME NEW c \in Callers, HandlerStep(c)
        PROVE  HandlerInv' /\ TableInv'
    BY <1>1, <1>6, CreateRegisterKeeps, DeleteRemoveKeeps, DeleteFinishKeeps,
       RescanEnsureKeeps, RescanStepsKeep DEF HandlerStep
  <1>7. ASSUME NEW c \in Callers, NEW i \in Named, DeleteCommit(c, i) \/ RescanProject(c, i)
        PROVE  HandlerInv' /\ TableInv'
    BY <1>1, <1>7, DeleteCommitKeeps, RescanStepsKeep
  <1>8. ASSUME NEW r \in Runners, IndexWrite(r) PROVE HandlerInv' /\ TableInv'
    BY <1>8, IndexWriteKeeps
  <1>9. CASE UNCHANGED allVars
    <2>1. UNCHANGED <<lifeVars, ctx, stopper, runners, created, project, cancelled, phase, pc,
                      arg, target, todo>>
      BY <1>9 DEF allVars, vars, mapVars, creation, workerVars, callVars
    <2>2. /\ \A r \in Runners : phase[r] = "done" => phase'[r] = "done"
          /\ UNCHANGED <<pc[Main], todo[Main], target[Main]>>
          /\ \A c \in Clients : UNCHANGED <<pc[c], arg[c], target[c]>>
      BY <2>1
    <2>3. QED
      BY <1>1, <2>1, <2>2, RescanFrame
  <1>10. CASE Background
    <2>1. \/ \E c \in Callers : \/ \E i \in Named : RescanProject(c, i)
                                \/ RescanRead(c) \/ RescanSteps(c)
          \/ Background
      BY <1>10
    <2>2. QED
      BY <1>1, <2>1, RescanStepsKeep
  <1>11. QED
    BY <1>3, <1>4, <1>5, <1>6, <1>7, <1>8, <1>9, <1>10 DEF LifeNext

LEMMA LifeInvariance == LifeSpec => []LifeInv
  BY LifeInvInit, LifeStep, PTL DEF LifeSpec

-----------------------------------------------------------------------------
(* What follows from it.                                                   *)

\* A project's cached rows come from the root it is stored with, through
\* deletes, creations under the same identifier and crashes, unless a rescan
\* that had read the project earlier has registered it again.
THEOREM CachedRows == LifeSpec => []CachedFromOwnRoot
  <1>1. LifeInv => CachedFromOwnRoot
    BY LifeFacts DEF CachedFromOwnRoot, CachedInv
  <1>2. QED
    BY <1>1, LifeInvariance, PTL

\* Outside a handler and a Stop no goroutine of a project without a row runs
\* and none is mapped: deleteProject has waited for them.
THEOREM DeletedQuiet == LifeSpec => []DeletedStaysQuiet
  <1>1. ASSUME LifeInv PROVE DeletedStaysQuiet
    <2> USE LifeFacts
    <2> SUFFICES ASSUME mu = NoCaller, stopper = NoCaller, NEW i \in Named \ revived,
                        stored[i] = None
                 PROVE  /\ runners[i] = NoRunner
                        /\ \A r \in Runners : Alive(r) => project[r].id # i
      BY <1>1 DEF DeletedStaysQuiet, QuietUnlessStored
    <2>1. runners[i] = NoRunner
      <3>1. CASE stage = "stopping"
        BY <1>1, <3>1, LifeFacts DEF StageInv, Structure, MapInv
      <3>2. CASE stage # "stopping"
        BY <1>1, <3>2 DEF QuietInv, MuInv, Deleting
      <3>3. QED
        BY <3>1, <3>2
    <2>2. ASSUME NEW r \in Runners, Alive(r) PROVE project[r].id # i
      <3>1. CASE stage = "stopping"
        BY <1>1, <2>1, <2>2, <3>1, LifeFacts DEF Structure, Reachable
      <3>2. CASE stage # "stopping"
        BY <1>1, <2>1, <2>2, <3>2, UnmappedProject
      <3>3. QED
        BY <3>1, <3>2
    <2>3. QED
      BY <2>1, <2>2
  <1>2. QED
    BY <1>1, LifeInvariance, PTL

\* A stored project that was registered has, outside a handler, a runner at
\* its own root that only the end of the process has cancelled.
THEOREM StoredObserved == LifeSpec => []StoredIsObserved
  <1>1. ASSUME LifeInv PROVE StoredIsObserved
    <2> USE LifeFacts
    <2> SUFFICES ASSUME stage = "serving", mu = NoCaller,
                        NEW i \in Named \ (skipped \cup revived), stored[i] # None
                 PROVE  /\ runners[i] # NoRunner
                        /\ project[runners[i]].root = stored[i]
                        /\ cancelled[runners[i]] => ctx = "cancelled"
      BY <1>1 DEF StoredIsObserved
    <2>1. ~Pending(i)
      BY <1>1 DEF Pending, MuInv, StageInv
    <2>2. runners[i] # NoRunner /\ (cancelled[runners[i]] => ctx = "cancelled")
      BY <1>1, <2>1 DEF ObservedInv
    <2>3. /\ runners[i] \in Runners /\ Used(runners[i]) /\ project[runners[i]].id = i
      BY <1>1, <2>2, LifeFacts DEF TypeOK, Structure, MapNewest
    <2>4. QED
      BY <1>1, <2>2, <2>3 DEF RootInv
  <1>2. QED
    BY <1>1, LifeInvariance, PTL

\* From its commit on, the handler that holds projectsMu waits for nothing but the
\* Remove it calls.
HolderMoves ==
    mu # NoCaller => /\ hpc[mu] \in {"register", "remove", "removing"}
                     /\ pc[mu] = IF hpc[mu] = "removing" THEN "removeWait" ELSE "idle"

\* Through crashes and restarts as well nobody in the supervisor waits for what
\* cannot move, and so neither does the handler that holds projectsMu
\* (projects.go:50, 117).
THEOREM HandlersNeverStuck == LifeSpec => [](WaitsMove /\ HolderMoves)
  <1>1. LifeInit => MoveInv
    BY InitMoves DEF LifeInit
  <1>2. LifeInv /\ MoveInv => WaitsMove
    BY MovesOn DEF LifeInv
  <1>3. LifeInv => HolderMoves
    BY DEF LifeInv, HandlerInv, MuInv, LifeTypeOK, HandlerPCs, Clients, HolderMoves
  <1>4. QED
    BY <1>1, <1>2, <1>3, LifeInvariance, MoveKeeps, PTL DEF LifeSpec

=============================================================================
