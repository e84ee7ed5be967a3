---------------------------- MODULE OpenPageProof ----------------------------
(***************************************************************************)
(* Machine-checked proofs about pages with state of their own: the         *)
(* operations of the CodeGraph page, the activity list and the task board. *)
(*                                                                         *)
(*   SyncInv   a command that runs is recorded, and the index counts the   *)
(*             commands that have written it;                              *)
(*   GapInv    between two events a list shows, all that is stored is      *)
(*             shown, and the cursor of the next page (Position) stands    *)
(*             where the list ends;                                        *)
(*   BoardInv  the revision a page has seen is not of the future (Past);   *)
(*             if it is the present one, the pages lie end to end on the   *)
(*             stored column (Chain), and so does what a refetch has got.  *)
(*                                                                         *)
(* Numbers of tasks, events, page sizes and transactions are any.          *)
(***************************************************************************)
EXTENDS OpenPage, FiniteSetTheorems, SequenceTheorems, TLAPS

-----------------------------------------------------------------------------
(* The CodeGraph page                                                      *)

Wrote == {n \in Runs : command[n].wrote}

SyncInv ==
    /\ RunningIsRecorded
    /\ index = Cardinality(Wrote)
    /\ post["page"] # None => shown # None

LEMMA RunsAreFinite == IsFiniteSet(Runs) /\ Cardinality(Runs) = MaxRuns
  BY BoundsAssumption, FS_Interval DEF Runs

LEMMA WroteCount == IsFiniteSet(Wrote) /\ Cardinality(Wrote) \in 0 .. MaxRuns
<1>1. Wrote \subseteq Runs BY DEF Wrote
<1>2. IsFiniteSet(Wrote) /\ Cardinality(Wrote) <= MaxRuns BY <1>1, RunsAreFinite, FS_Subset
<1>3. Cardinality(Wrote) \in Nat BY <1>2, FS_CardinalityType
<1> QED BY <1>2, <1>3, BoundsAssumption

LEMMA InitSyncInv == Init => SyncInv
<1> SUFFICES ASSUME Init PROVE SyncInv
  OBVIOUS
<1> USE BoundsAssumption
<1>1. Wrote = {} BY DEF Init, Wrote
<1>2. index = Cardinality(Wrote) BY <1>1, FS_EmptySet DEF Init
<1>3. TypeOK
  <2>1. command \in [Runs -> [stage : {"unborn", "running", "exited", "finished"},
                              ok : BOOLEAN, wrote : BOOLEAN, held : BOOLEAN]]
    BY DEF Init
  <2>2. flight \in [stage : {"asking", "read", "answered"}, ok : BOOLEAN,
                    index : 0 .. MaxRuns, op : Operations]
    BY DEF Init, Asking, Operations
  <2>3. faults \in 0 .. MaxFaults /\ unheard \subseteq Runs /\ index \in 0 .. MaxRuns /\ polled \in 0 .. MaxRuns
    BY DEF Init
  <2>4. handled \in Operations /\ ~Running(handled) /\ record \in Operations
    BY DEF Init, Operations, Running
  <2>5. post \in [Tabs -> {None}] /\ shown = None BY DEF Init
  <2> QED BY <2>1, <2>2, <2>3, <2>4, <2>5 DEF TypeOK
<1>4. \A n \in Runs : command[n].stage = "unborn" BY DEF Init
<1> QED BY <1>2, <1>3, <1>4 DEF SyncInv, RunningIsRecorded, Init, Tabs

\* A step that leaves the runs and the index alone.
LEMMA SameRuns ==
    ASSUME SyncInv, UNCHANGED <<index, command>>
    PROVE  index' = Cardinality(Wrote)' /\ index' \in 0 .. MaxRuns
<1>1. Wrote' = Wrote BY DEF Wrote
<1>2. index = Cardinality(Wrote) BY DEF SyncInv
<1> QED BY <1>1, <1>2, WroteCount

Commands == [Runs -> [stage : {"unborn", "running", "exited", "finished"},
                      ok : BOOLEAN, wrote : BOOLEAN, held : BOOLEAN]]
Posts == [Tabs -> {None}
          \cup [stage : {"asking", "checked", "answered"}, run : Runs \cup {None}]]
Flights == {None} \cup [stage : {"asking", "read", "answered"}, ok : BOOLEAN,
                        index : 0 .. MaxRuns, op : Operations]

LEMMA SyncTypes ==
    ASSUME SyncInv
    PROVE  /\ index \in 0 .. MaxRuns /\ polled \in 0 .. MaxRuns /\ faults \in 0 .. MaxFaults
           /\ unheard \subseteq Runs
           /\ record \in Operations /\ command \in Commands /\ post \in Posts
           /\ flight \in Flights /\ shown \in {None} \cup Statuses
           /\ handled \in Operations /\ ~Running(handled)
  BY DEF SyncInv, RunningIsRecorded, TypeOK, Commands, Posts, Flights

\* Steps of the handlers and of the page leave the manager alone.
LEMMA PageKeepsManager ==
    ASSUME SyncInv, UNCHANGED manager, polled' \in 0 .. MaxRuns, faults' \in 0 .. MaxFaults,
           unheard' \subseteq Runs, post' \in Posts, flight' \in Flights, shown' \in {None} \cup Statuses,
           handled' \in Operations, ~Running(handled)',
           post'["page"] # None => shown' # None
    PROVE  SyncInv'
<1>1. UNCHANGED <<index, record, command>> BY DEF manager
<1>2. TypeOK' BY <1>1, SyncTypes, SameRuns DEF TypeOK, Posts, Flights, Commands
<1>3. RunningIsRecorded'
  BY <1>1, <1>2 DEF SyncInv, RunningIsRecorded
<1> QED BY <1>1, <1>3, SameRuns DEF SyncInv

\* Steps of a run leave the page alone.
LEMMA RunKeepsPage ==
    ASSUME SyncInv, UNCHANGED <<post, flight, page, losses>>, index' = Cardinality(Wrote)',
           record' \in Operations, command' \in Commands,
           \A n \in Runs : command'[n].stage \in {"running", "exited"}
                              => record' = Operation(n, "running")
    PROVE  SyncInv'
<1>1. UNCHANGED <<shown, handled, polled, faults, unheard>> BY DEF page, losses
<1>2. index' \in 0 .. MaxRuns
  <2>1. Wrote' \subseteq Runs BY DEF Wrote
  <2>2. IsFiniteSet(Wrote') /\ Cardinality(Wrote') <= MaxRuns
    BY <2>1, RunsAreFinite, FS_Subset
  <2>3. Cardinality(Wrote') \in Nat BY <2>2, FS_CardinalityType
  <2> QED BY <2>2, <2>3, BoundsAssumption
<1>3. TypeOK' BY <1>1, <1>2, SyncTypes DEF TypeOK, Posts, Flights, Commands, Running
<1> QED BY <1>1, <1>3 DEF SyncInv, RunningIsRecorded

LEMMA OperationType ==
    ASSUME NEW n \in Runs, NEW state \in {"running", "succeeded", "failed"}
    PROVE  /\ Operation(n, state) \in Records /\ Operation(n, state) \in Operations
           /\ Operation(n, state) # None
           /\ Operation(n, state).run = n /\ Operation(n, state).state = state
  BY NoneAssumption DEF Operation, Records, Operations

\* A POST that starts an operation: no other run is at work.
LEMMA StartInv == ASSUME SyncInv, NEW t \in Tabs, Start(t) PROVE SyncInv'
<1>1. /\ post[t] # None /\ post[t].stage = "checked" /\ ~Running(record)
      /\ UNCHANGED <<index, flight, page, losses>>
  BY DEF Start, StartUnchecked
<1>2. PICK n \in Unborn :
          /\ record' = Operation(n, "running")
          /\ command' = [command EXCEPT ![n].stage = "running"]
          /\ post' = [post EXCEPT ![t] = [stage |-> "answered", run |-> n]]
  BY DEF Start, StartUnchecked
<1>3. n \in Runs /\ command[n].stage = "unborn" BY DEF Unborn
<1>4. /\ command' \in Commands
      /\ \A m \in Runs : command'[m].wrote = command[m].wrote
      /\ command'[n].stage = "running"
      /\ \A m \in Runs \ {n} : command'[m] = command[m]
  BY <1>2, <1>3, SyncTypes DEF Commands
<1>5. post' \in Posts BY <1>2, <1>3, SyncTypes DEF Posts
<1>6. \A m \in Runs : command[m].stage \notin {"running", "exited"}
  <2>1. SUFFICES ASSUME NEW m \in Runs, command[m].stage \in {"running", "exited"}
                 PROVE  FALSE
    OBVIOUS
  <2>2. record = Operation(m, "running") BY <2>1 DEF SyncInv, RunningIsRecorded
  <2> QED BY <1>1, <2>2, OperationType DEF Running
<1>7. Wrote' = Wrote BY <1>4 DEF Wrote
<1>8. UNCHANGED <<shown, handled, polled, faults, unheard>> BY <1>1 DEF page, losses
<1>9. TypeOK'
  BY <1>1, <1>2, <1>3, <1>4, <1>5, <1>8, SyncTypes, OperationType
     DEF TypeOK, Posts, Flights, Commands, Running
<1>10. RunningIsRecorded' BY <1>2, <1>4, <1>6, <1>9 DEF RunningIsRecorded
<1>11. post'["page"] # None => shown' # None
  BY <1>1, <1>2, <1>8, SyncTypes DEF SyncInv, Posts, Tabs
<1> QED BY <1>1, <1>7, <1>10, <1>11 DEF SyncInv

LEMMA HandlePostInv == ASSUME SyncInv, NEW t \in Tabs, HandlePost(t) PROVE SyncInv'
<1>1. CASE Start(t) BY <1>1, StartInv
<1>2. ASSUME NEW ok \in BOOLEAN, Check(t, ok) PROVE SyncInv'
  <2>1. post' \in Posts /\ (post'["page"] # None => post["page"] # None)
    BY <1>2, SyncTypes DEF Check, Posts, Tabs
  <2> QED BY <1>2, <2>1, SyncTypes, PageKeepsManager DEF losses, Check, page, SyncInv, Running
<1>3. CASE Conflict(t)
  <2>1. post' \in Posts /\ (post'["page"] # None => post["page"] # None)
    BY <1>3, SyncTypes DEF Conflict, Posts, Tabs
  <2> QED BY <1>3, <2>1, SyncTypes, PageKeepsManager DEF losses, Conflict, page, SyncInv, Running
<1>4. CASE ReceivePost(t)
  <2>1. /\ post' \in Posts
        /\ post'["page"] # None => post["page"] # None
        /\ t = "page" => post["page"] # None
    BY <1>4, SyncTypes DEF ReceivePost, Posts, Tabs
  <2>2. shown' \in {None} \cup Statuses /\ (shown # None => shown' # None)
    <3>1. CASE t = "page" /\ post[t].run # None
      <4>1. post[t] \in [stage : {"asking", "checked", "answered"}, run : Runs \cup {None}]
        BY <1>4, SyncTypes DEF ReceivePost, Posts
      <4>2. Operation(post[t].run, "running") \in Operations
        BY <3>1, <4>1, OperationType
      <4>3. shown \in Statuses BY <2>1, <3>1, SyncTypes DEF SyncInv
      <4>4. shown' = [shown EXCEPT !.op = Operation(post[t].run, "running")]
        BY <1>4, <3>1 DEF ReceivePost
      <4>5. shown' \in Statuses BY <4>2, <4>3, <4>4 DEF Statuses
      <4> QED BY <4>5, NoneAssumption
    <3>2. CASE ~(t = "page" /\ post[t].run # None)
      BY <1>4, <3>2, SyncTypes DEF ReceivePost
    <3> QED BY <3>1, <3>2
  <2> QED BY <1>4, <2>1, <2>2, SyncTypes, PageKeepsManager DEF losses, ReceivePost, SyncInv, Running
<1> QED BY <1>1, <1>2, <1>3, <1>4 DEF HandlePost

LEMMA LosePostInv == ASSUME SyncInv, NEW t \in Tabs, LosePost(t) PROVE SyncInv'
<1>1. /\ post[t] \in [stage : {"asking", "checked", "answered"}, run : Runs \cup {None}]
      /\ post' = [post EXCEPT ![t] = None]
      /\ faults \in 0 .. MaxFaults /\ faults < MaxFaults /\ faults' = faults + 1
      /\ unheard' = unheard \cup ({post[t].run} \ {None})
      /\ UNCHANGED <<manager, flight, page>>
  BY SyncTypes DEF LosePost, Posts
<1>2. post' \in Posts /\ (post'["page"] # None => post["page"] # None)
  BY <1>1, SyncTypes DEF Posts, Tabs
<1>3. unheard' \subseteq Runs
  <2>1. {post[t].run} \ {None} \subseteq Runs BY <1>1
  <2> QED BY <1>1, <2>1, SyncTypes
<1>4. faults' \in 0 .. MaxFaults BY <1>1, BoundsAssumption
<1> QED BY <1>1, <1>2, <1>3, <1>4, SyncTypes, PageKeepsManager DEF page, SyncInv, Running

\* The status handler, and the page.
LEMMA PageStepInv ==
    ASSUME SyncInv,
           HandleStatus \/ Post \/ PostElsewhere \/ Interval \/ Focus \/ Poll \/ Deliver \/ Lose
    PROVE  SyncInv'
<1>0. /\ post["page"] # None => shown # None
      /\ Asking \in Flights /\ None \in Flights
      /\ Posting \in [stage : {"asking", "checked", "answered"}, run : Runs \cup {None}]
  BY BoundsAssumption DEF SyncInv, Asking, Posting, Flights, Operations
<1>1. ASSUME NEW ok \in BOOLEAN, ReadIndex(ok) PROVE SyncInv'
  <2>1. flight' \in Flights
    <3>1. (IF ok THEN index ELSE 0) \in 0 .. MaxRuns BY SyncTypes, BoundsAssumption
    <3>2. flight \in Flights \ {None} BY <1>1, SyncTypes DEF ReadIndex
    <3> QED BY <1>1, <3>1, <3>2 DEF ReadIndex, Flights
  <2> QED BY <1>0, <1>1, <2>1, SyncTypes, PageKeepsManager DEF losses, ReadIndex, page, Running
<1>2. CASE ReadOperation
  <2>1. flight' \in Flights BY <1>2, SyncTypes DEF ReadOperation, Flights
  <2> QED BY <1>0, <1>2, <2>1, SyncTypes, PageKeepsManager DEF losses, ReadOperation, page, Running
<1>3. CASE Post
  <2>1. post' \in Posts BY <1>0, <1>3, SyncTypes DEF Post, Posts
  <2> QED BY <1>3, <2>1, SyncTypes, PageKeepsManager DEF losses, Post, page, Running
<1>4. CASE PostElsewhere
  <2>1. post' \in Posts /\ post'["page"] = post["page"]
    BY <1>0, <1>4, SyncTypes DEF PostElsewhere, Posts, Tabs
  <2> QED BY <1>0, <1>4, <2>1, SyncTypes, PageKeepsManager DEF losses, PostElsewhere, page, Running
<1>5. CASE Interval \/ Focus
  BY <1>0, <1>5, SyncTypes, PageKeepsManager DEF losses, Interval, Focus, Fetch, page, Running
<1>6. CASE Poll BY <1>0, <1>6, SyncTypes, PageKeepsManager DEF losses, Poll, Running
<1>7. CASE Deliver
  <2>1. flight \in [stage : {"asking", "read", "answered"}, ok : BOOLEAN,
                    index : 0 .. MaxRuns, op : Operations]
    BY <1>7, SyncTypes DEF Deliver, Flights
  <2>2. shown' \in Statuses BY <1>7, <2>1 DEF Deliver, Statuses
  <2>3. handled' \in Operations /\ ~Running(handled)' /\ flight' \in Flights
    BY <1>0, <1>7, <2>1, SyncTypes DEF Deliver, Running
  <2> QED BY <1>7, <2>2, <2>3, SyncTypes, PageKeepsManager, NoneAssumption DEF losses, Deliver
<1>8. CASE Lose
  <2>1. faults' \in 0 .. MaxFaults
    <3>1. faults \in 0 .. MaxFaults /\ faults < MaxFaults /\ faults' = faults + 1
      BY <1>8, SyncTypes DEF Lose
    <3> QED BY <3>1, BoundsAssumption
  <2> QED BY <1>0, <1>8, <2>1, SyncTypes, PageKeepsManager DEF Lose, page, Running
<1> QED BY <1>1, <1>2, <1>3, <1>4, <1>5, <1>6, <1>7, <1>8 DEF HandleStatus

\* A run.
LEMMA RunInv ==
    ASSUME SyncInv, NEW n \in Runs, WriteIndex(n) \/ Exit(n) \/ Ends(n) \/ CloseOutput(n)
    PROVE  SyncInv'
<1>0. /\ command \in Commands /\ record \in Operations
      /\ \A m \in Runs : command[m].stage \in {"running", "exited"}
                            => record = Operation(m, "running")
      /\ index = Cardinality(Wrote)
  BY SyncTypes DEF SyncInv, RunningIsRecorded
<1>1. CASE WriteIndex(n)
  <2>1. /\ command[n].stage = "running" /\ ~command[n].wrote /\ index' = index + 1
        /\ command' = [command EXCEPT ![n].wrote = TRUE]
        /\ UNCHANGED <<record, post, flight, page, losses>>
    BY <1>1 DEF WriteIndex, AtWork
  <2>2. /\ command' \in Commands
        /\ \A m \in Runs : command'[m].stage = command[m].stage
        /\ command'[n].wrote /\ \A m \in Runs \ {n} : command'[m].wrote = command[m].wrote
    BY <1>0, <2>1 DEF Commands
  <2>3. Wrote' = Wrote \cup {n} /\ n \notin Wrote BY <2>1, <2>2 DEF Wrote
  <2>4. Cardinality(Wrote') = Cardinality(Wrote) + 1
    BY <2>3, WroteCount, FS_AddElement
  <2> QED BY <1>0, <2>1, <2>2, <2>4, RunKeepsPage
<1>2. ASSUME NEW ok \in BOOLEAN, NEW held \in BOOLEAN, Leave(n, ok, held) PROVE SyncInv'
  <2>1. /\ command[n].stage = "running"
        /\ command' = [command EXCEPT ![n].stage = "exited", ![n].ok = ok, ![n].held = held]
        /\ UNCHANGED <<index, record, post, flight, page, losses>>
    BY <1>2 DEF Leave, AtWork
  <2>2. /\ command' \in Commands
        /\ \A m \in Runs : command'[m].wrote = command[m].wrote
        /\ \A m \in Runs \ {n} : command'[m].stage = command[m].stage
    BY <1>0, <2>1 DEF Commands
  <2>3. Wrote' = Wrote BY <2>2 DEF Wrote
  <2> QED BY <1>0, <2>1, <2>2, <2>3, RunKeepsPage
<1>3. CASE CloseOutput(n)
  <2>1. /\ command' = [command EXCEPT ![n].held = FALSE]
        /\ UNCHANGED <<index, record, post, flight, page, losses>>
    BY <1>3 DEF CloseOutput
  <2>2. /\ command' \in Commands
        /\ \A m \in Runs : /\ command'[m].wrote = command[m].wrote
                           /\ command'[m].stage = command[m].stage
    BY <1>0, <2>1 DEF Commands
  <2>3. Wrote' = Wrote BY <2>2 DEF Wrote
  <2> QED BY <1>0, <2>1, <2>2, <2>3, RunKeepsPage
<1>4. CASE Finish(n)
  <2> DEFINE ended == Operation(n, IF command[n].ok THEN "succeeded" ELSE "failed")
  <2>1. /\ command[n].stage = "exited"
        /\ command' = [command EXCEPT ![n].stage = "finished"]
        /\ record' = IF record.run = n THEN ended ELSE record
        /\ UNCHANGED <<index, post, flight, page, losses>>
    BY <1>4 DEF Finish
  <2>2. /\ command' \in Commands /\ command'[n].stage = "finished"
        /\ \A m \in Runs : command'[m].wrote = command[m].wrote
        /\ \A m \in Runs \ {n} : command'[m].stage = command[m].stage
    BY <1>0, <2>1 DEF Commands
  <2>3. Wrote' = Wrote BY <2>2 DEF Wrote
  <2>4. \A m \in Runs \ {n} : command[m].stage \notin {"running", "exited"}
    <3>1. SUFFICES ASSUME NEW m \in Runs \ {n}, command[m].stage \in {"running", "exited"}
                   PROVE  FALSE
      OBVIOUS
    <3>2. Operation(m, "running") = Operation(n, "running") BY <1>0, <2>1, <3>1
    <3> QED BY <3>1, <3>2, OperationType
  <2>5. record' \in Operations BY <1>0, <2>1, OperationType
  <2> QED BY <1>0, <2>1, <2>2, <2>3, <2>4, <2>5, RunKeepsPage
<1> QED BY <1>1, <1>2, <1>3, <1>4 DEF Exit, Ends, Expire

LEMMA NextSyncInv == SyncInv /\ [Next]_vars => SyncInv'
<1> SUFFICES ASSUME SyncInv, [Next]_vars PROVE SyncInv'
  OBVIOUS
<1>1. CASE Next
  BY <1>1, HandlePostInv, LosePostInv, PageStepInv, RunInv DEF Next
<1>2. CASE UNCHANGED vars
  BY <1>2, SyncTypes, PageKeepsManager DEF losses, vars, page, SyncInv, Running
<1> QED BY <1>1, <1>2

\* While a command of the project runs, the record says so, and of that run
\* (sync.go:101-111, 141): no two commands ever write the index side by side.
THEOREM RunsAreRecorded == PageSpec => []RunningIsRecorded
<1>1. PageInit => SyncInv BY InitSyncInv DEF PageInit
<1>2. SyncInv /\ [PageNext]_pageVars => SyncInv'
  <2>1. [PageNext]_pageVars => [Next]_vars BY DEF PageNext, Operating, Listing, pageVars
  <2> QED BY <2>1, NextSyncInv
<1>3. SyncInv => RunningIsRecorded BY DEF SyncInv
<1> QED BY <1>1, <1>2, <1>3, PTL DEF PageSpec

-----------------------------------------------------------------------------
(* Finite sets of naturals                                                 *)

\* Paging reaches FiniteSets through an instance.
LEMMA SameCardinality == \A S : Lists!Cardinality(S) = Cardinality(S)
  BY DEF Lists!Cardinality, Cardinality

LEMMA SameFinite == \A S : Lists!IsFiniteSet(S) <=> IsFiniteSet(S)
  BY DEF Lists!IsFiniteSet, IsFiniteSet

LEMMA FiniteNaturals ==
    ASSUME NEW n \in Nat, NEW S \in SUBSET (0 .. n)
    PROVE  IsFiniteSet(S) /\ Cardinality(S) \in Nat
<1>1. IsFiniteSet(0 .. n) BY FS_Interval
<1>2. IsFiniteSet(S) BY <1>1, FS_Subset
<1> QED BY <1>2, FS_CardinalityType

LEMMA LeastNatural ==
    ASSUME NEW n \in Nat, NEW S \in SUBSET (0 .. n), S # {}
    PROVE  \E x \in S : \A y \in S : x <= y
<1> DEFINE N == 0 .. n
           R == StrictSubsetOrdering(N)
           T == {0 .. u : u \in S}
<1>1. IsWellFoundedOn(R, SUBSET N)
  <2>1. IsFiniteSet(N) BY FS_Interval
  <2> QED BY <2>1, FS_FiniteSubsetsOfFinite, FS_StrictSubsetOrderingWellFounded
<1>2. T \subseteq SUBSET N /\ T # {}
  <2>1. ASSUME NEW u \in S PROVE 0 .. u \in SUBSET N OBVIOUS
  <2> QED BY <2>1
<1>3. PICK x \in T : \A y \in T : ~ (<<y, x>> \in R)
  <2> HIDE DEF R, T, N
  <2> QED BY <1>1, <1>2, WFMin
<1>4. PICK t \in S : x = 0 .. t BY <1>3
<1>5. \A u \in S : t <= u
  <2> SUFFICES ASSUME NEW u \in S, u < t PROVE FALSE
    OBVIOUS
  <2>1. u \in Nat /\ t \in Nat OBVIOUS
  <2>2. 0 .. u \subseteq 0 .. t /\ t \in 0 .. t /\ t \notin 0 .. u BY <2>1
  <2>3. <<0 .. u, 0 .. t>> \in R BY <1>2, <2>2 DEF StrictSubsetOrdering
  <2> QED BY <1>3, <1>4, <2>3
<1> QED BY <1>5

LEMMA GreatestNatural ==
    ASSUME NEW n \in Nat, NEW S \in SUBSET (0 .. n), S # {}
    PROVE  \E x \in S : \A y \in S : x >= y
<1> DEFINE T == {n - u : u \in S}
<1>1. T \in SUBSET (0 .. n) /\ T # {} OBVIOUS
<1>2. PICK x \in T : \A y \in T : x <= y
  <2> HIDE DEF T
  <2> QED BY <1>1, LeastNatural
<1>3. PICK u \in S : x = n - u BY <1>2
<1>4. \A v \in S : n - u <= n - v BY <1>2, <1>3
<1> QED BY <1>4

\* The least and the greatest member.
LEMMA Least ==
    ASSUME NEW n \in Nat, NEW S \in SUBSET (0 .. n), S # {}
    PROVE  Lists!Min(S) \in S /\ \A y \in S : Lists!Min(S) <= y
  BY LeastNatural DEF Lists!Min

LEMMA Most ==
    ASSUME NEW n \in Nat, NEW S \in SUBSET (0 .. n), S # {}
    PROVE  Lists!Max(S) \in S /\ \A y \in S : Lists!Max(S) >= y
  BY GreatestNatural DEF Lists!Max

\* The n greatest members of a set: no other one is above one of them, they
\* are n at most, and all if the set has no more.
LEMMA GreatestProperties ==
    ASSUME NEW m \in Nat, NEW S \in SUBSET (0 .. m), NEW n \in Nat
    PROVE  /\ Lists!Greatest(S, n) \subseteq S
           /\ \A e \in S, g \in Lists!Greatest(S, n) : g <= e => e \in Lists!Greatest(S, n)
           /\ Cardinality(S) <= n => Lists!Greatest(S, n) = S
           /\ Cardinality(Lists!Greatest(S, n)) <= n
<1> DEFINE G == Lists!Greatest(S, n)
           Above(e) == {f \in S : f > e}
<1>1. /\ G \subseteq S
      /\ \A e \in S : e \in G <=> Cardinality(Above(e)) < n
  BY SameCardinality DEF Lists!Greatest
<1>2. ASSUME NEW e \in S
      PROVE  IsFiniteSet(Above(e)) /\ Cardinality(Above(e)) \in Nat
  <2>1. Above(e) \in SUBSET (0 .. m) OBVIOUS
  <2> QED BY <2>1, FiniteNaturals
<1>3. IsFiniteSet(S) /\ Cardinality(S) \in Nat BY FiniteNaturals
<1>4. ASSUME NEW e \in S, NEW g \in G, g <= e PROVE e \in G
  <2>0. \A f \in S : f \in Nat OBVIOUS
  <2>1. g \in S
    <3> HIDE DEF G
    <3> QED BY <1>1
  <2>2. Above(e) \subseteq Above(g)
    <3> SUFFICES ASSUME NEW f \in S, f > e PROVE f > g
      OBVIOUS
    <3>1. f \in Nat /\ e \in Nat /\ g \in Nat BY <2>0, <2>1
    <3>2. g <= e BY <1>4
    <3> QED BY <3>1, <3>2
  <2>3. Cardinality(Above(e)) <= Cardinality(Above(g)) BY <1>2, <2>1, <2>2, FS_Subset
  <2> HIDE DEF Above, G
  <2> QED BY <1>1, <1>2, <2>1, <2>3
<1>5. ASSUME Cardinality(S) <= n, NEW e \in S PROVE e \in G
  <2>1. Above(e) \subseteq S /\ e \notin Above(e) OBVIOUS
  <2>2. /\ Cardinality(Above(e)) <= Cardinality(S)
        /\ Cardinality(Above(e)) # Cardinality(S)
    BY <1>3, <2>1, FS_Subset
  <2> QED BY <1>1, <1>2, <1>3, <1>5, <2>2
<1>6. Cardinality(G) <= n
  <2>1. CASE G = {} BY <2>1, FS_EmptySet
  <2>2. CASE G # {}
    <3>1. G \in SUBSET (0 .. m) BY <1>1
    <3>2. PICK g \in G : \A e \in G : g <= e
      <4> HIDE DEF G
      <4> QED BY <2>2, <3>1, LeastNatural
    <3>3. g \in S /\ G \subseteq Above(g) \cup {g} BY <1>1, <3>1, <3>2
    <3>4. /\ IsFiniteSet(Above(g) \cup {g})
          /\ Cardinality(Above(g) \cup {g}) = Cardinality(Above(g)) + 1
      BY <1>2, <3>3, FS_AddElement
    <3>5. Cardinality(G) <= Cardinality(Above(g)) + 1 BY <3>3, <3>4, FS_Subset
    <3>6. Cardinality(G) \in Nat BY <3>1, FiniteNaturals
    <3> HIDE DEF G, Above
    <3> QED BY <1>1, <1>2, <3>3, <3>5, <3>6
  <2> QED BY <2>1, <2>2
<1> QED BY <1>1, <1>4, <1>5, <1>6

LEMMA SmallestProperties ==
    ASSUME NEW m \in Nat, NEW S \in SUBSET (0 .. m)
    PROVE  /\ Lists!Smallest(S) \subseteq S
           /\ \A e \in S, g \in Lists!Smallest(S) : e <= g => e \in Lists!Smallest(S)
<1> DEFINE G == Lists!Smallest(S)
           Below(e) == {f \in S : f < e}
<1>1. /\ G \subseteq S
      /\ \A e \in S : e \in G <=> Cardinality(Below(e)) < Limit
  BY SameCardinality DEF Lists!Smallest
<1>2. ASSUME NEW e \in S
      PROVE  IsFiniteSet(Below(e)) /\ Cardinality(Below(e)) \in Nat
  <2>1. Below(e) \in SUBSET (0 .. m) OBVIOUS
  <2> QED BY <2>1, FiniteNaturals
<1>3. ASSUME NEW e \in S, NEW g \in G, e <= g PROVE e \in G
  <2>0. \A f \in S : f \in Nat OBVIOUS
  <2>1. g \in S
    <3> HIDE DEF G
    <3> QED BY <1>1
  <2>2. Below(e) \subseteq Below(g)
    <3> SUFFICES ASSUME NEW f \in S, f < e PROVE f < g
      OBVIOUS
    <3>1. f \in Nat /\ e \in Nat /\ g \in Nat BY <2>0, <2>1
    <3>2. e <= g BY <1>3
    <3> QED BY <3>1, <3>2
  <2>3. Cardinality(Below(e)) <= Cardinality(Below(g)) BY <1>2, <2>1, <2>2, FS_Subset
  <2> HIDE DEF Below, G
  <2>4. Limit \in Nat BY PagingAssumption DEF Lists!Sizes
  <2> QED BY <1>1, <1>2, <2>1, <2>3, <2>4
<1> QED BY <1>1, <1>3

-----------------------------------------------------------------------------
(* The pages of the activity                                               *)

\* The pages do not overlap: each is older than the one before it, or, for a
\* follower, newer.
Ordered(way, pg) ==
    \A i, j \in DOMAIN pg : i < j =>
        \A e \in pg[i].items, f \in pg[j].items :
            IF way = "activity" THEN f < e ELSE e < f

Known(pg, last) == \A i \in DOMAIN pg : pg[i].items \subseteq 1 .. last

\* The event is on one of the pages.
On(pg, e) == \E k \in DOMAIN pg : e \in pg[k].items

\* No stored event between two shown ones is missing ...
Dense(pg, stored, last) == \A e \in stored, old, new \in 1 .. last :
    On(pg, old) /\ On(pg, new) /\ old <= e /\ e <= new => On(pg, e)

\* ... and none older than one of them, once there are no more pages.
Ended(way, pg, stored, last) ==
    way = "activity" /\ pg # <<>> /\ ~pg[Len(pg)].more =>
        \A e \in stored, new \in 1 .. last : On(pg, new) /\ e <= new => On(pg, e)

Gapless(pg) ==
    /\ Ordered(list, pg) /\ Known(pg, lastId)
    /\ Dense(pg, log, lastId) /\ Ended(list, pg, log, lastId)

\* The next page goes on where the last one ends.
Position(got, param) ==
    IF got = <<>> THEN param = 0
    ELSE param \in got[Len(got)].items /\ \A e \in got[Len(got)].items : param <= e

StoreTypes ==
    /\ list \in {"board", "activity", "feed"}
    /\ column \in Seq(Lists!Rows) /\ log \subseteq 1 .. lastId /\ lastId \in 0 .. MaxId
    /\ Cardinality(log) <= Keep
    /\ gen \in Nat /\ rev \in Nat /\ writes \in 0 .. MaxWrites

ReaderTypes ==
    /\ pages \in Seq(Lists!Page) \cup {None}
    /\ fetch \in Lists!Fetches(Lists!Page) \cup {None}
    /\ poll \in Lists!Polls \cup {None} /\ seen \in Lists!Polls

LEMMA TypesTogether == Lists!TypeOK <=> StoreTypes /\ ReaderTypes
  BY SameCardinality DEF Lists!TypeOK, StoreTypes, ReaderTypes

GapInv ==
    /\ StoreTypes /\ ReaderTypes
    /\ list # "board" /\ pages # None => Gapless(pages)
    /\ list = "activity" /\ fetch # None =>
          Gapless(fetch.got) /\ Position(fetch.got, fetch.param)
    /\ list = "feed" => pages # None /\ fetch = None /\ poll = None
    /\ list # "feed" => pages # <<>>

LEMMA EventSets ==
    ASSUME StoreTypes
    PROVE  /\ lastId \in Nat /\ MaxId \in Nat /\ 1 .. lastId \subseteq 1 .. MaxId
           /\ 1 .. lastId \subseteq 0 .. lastId
           /\ \A S \in SUBSET (1 .. lastId) : S \in SUBSET (0 .. lastId)
           /\ Limit \in Nat \ {0}
<1>1. MaxId \in Nat /\ Limit \in Nat \ {0} BY PagingAssumption DEF Lists!Sizes
<1>2. lastId \in 0 .. MaxId BY DEF StoreTypes
<1> QED BY <1>1, <1>2

\* Pages read from the list, and from any other one.
LEMMA ActivityAnswer ==
    ASSUME StoreTypes, NEW after \in Nat, NEW before \in Nat
    PROVE  LET p == Lists!ListActivity(after, before)
           IN  p \in Lists!EventPages /\ p.items \subseteq log
<1> DEFINE p == Lists!ListActivity(after, before)
           ev == IF before > 0 THEN {e \in log : e < before} ELSE {e \in log : e > after}
<1>1. /\ p.more = (Lists!Cardinality(ev) > Limit)
      /\ p = [items |-> p.items, more |-> p.more]
      /\ p.items = IF before = 0 /\ after > 0 THEN Lists!Smallest(ev)
                   ELSE Lists!Greatest(ev, Limit)
  BY DEF Lists!ListActivity
<1>2. ev \subseteq log OBVIOUS
<1>3. lastId \in Nat /\ ev \in SUBSET (0 .. lastId) /\ Limit \in Nat
  <2> HIDE DEF ev
  <2> QED BY <1>2, EventSets DEF StoreTypes
<1>4. p.items \subseteq ev
  <2> HIDE DEF ev, p
  <2>1. Lists!Greatest(ev, Limit) \subseteq ev BY <1>3, GreatestProperties
  <2>2. Lists!Smallest(ev) \subseteq ev BY <1>3, SmallestProperties
  <2> QED BY <1>1, <2>1, <2>2
<1>5. p.more \in BOOLEAN BY <1>1
<1>6. log \subseteq 1 .. MaxId BY EventSets DEF StoreTypes
<1> HIDE DEF p, ev
<1>7. p.items \in SUBSET (1 .. MaxId) BY <1>2, <1>4, <1>6
<1>8. [items |-> p.items, more |-> p.more] \in Lists!EventPages
  BY <1>5, <1>7 DEF Lists!EventPages
<1> QED BY <1>1, <1>2, <1>4, <1>8 DEF p

\* A sequence of pages with one more.
LEMMA OneMore ==
    ASSUME NEW got \in Seq(Lists!EventPages), NEW p \in Lists!EventPages
    PROVE  LET pg == Append(got, p)
           IN  /\ pg \in Seq(Lists!EventPages) /\ pg # <<>>
               /\ Len(got) \in Nat /\ Len(pg) = Len(got) + 1
               /\ DOMAIN got = 1 .. Len(got) /\ DOMAIN pg = 1 .. Len(got) + 1
               /\ \A i \in DOMAIN got : pg[i] = got[i]
               /\ pg[Len(pg)] = p
               /\ \A e : On(pg, e) <=> On(got, e) \/ e \in p.items
<1> DEFINE pg == Append(got, p)
<1>1. /\ pg \in Seq(Lists!EventPages) /\ pg # <<>> /\ Len(pg) = Len(got) + 1
      /\ \A i \in 1 .. Len(got) : pg[i] = got[i]
      /\ pg[Len(got) + 1] = p
  BY AppendProperties
<1>2. /\ Len(got) \in Nat /\ DOMAIN got = 1 .. Len(got)
      /\ DOMAIN pg = 1 .. Len(pg)
  BY <1>1, LenProperties
<1> HIDE DEF pg
<1>3. DOMAIN pg = (DOMAIN got) \cup {Len(got) + 1} BY <1>1, <1>2
<1>4. \A e : On(pg, e) <=> On(got, e) \/ e \in p.items BY <1>1, <1>2, <1>3 DEF On
<1> QED BY <1>1, <1>2, <1>4 DEF pg

\* Reading on behind pages without gaps leaves none.
LEMMA ReadOn ==
    ASSUME StoreTypes, list = "activity", NEW got \in Seq(Lists!EventPages),
           NEW param \in Nat, Gapless(got), Position(got, param)
    PROVE  Gapless(Append(got, Lists!ListActivity(0, param)))
<1> DEFINE p == Lists!ListActivity(0, param)
           pg == Append(got, p)
           ev == IF param > 0 THEN {e \in log : e < param} ELSE {e \in log : e > 0}
<1>1. p \in Lists!EventPages /\ p.items \subseteq log BY ActivityAnswer
<1>2. log \subseteq 1 .. lastId /\ lastId \in Nat /\ Limit \in Nat
  BY EventSets DEF StoreTypes
<1>3. /\ p.items = Lists!Greatest(ev, Limit)
      /\ p.more = (Lists!Cardinality(ev) > Limit)
  BY DEF Lists!ListActivity
<1>4. ev \in SUBSET (0 .. lastId) /\ ev \subseteq log
  <2>1. ev \subseteq log OBVIOUS
  <2> HIDE DEF ev
  <2> QED BY <1>2, <2>1
<1>5. /\ p.items \subseteq ev
      /\ \A e \in ev, g \in p.items : g <= e => e \in p.items
      /\ ~p.more => p.items = ev
  <2> HIDE DEF ev, p
  <2>1. Cardinality(ev) \in Nat BY <1>2, <1>4, FiniteNaturals
  <2>2. p.more = (Cardinality(ev) > Limit) BY <1>3, SameCardinality
  <2>3. ~(Cardinality(ev) > Limit) => Cardinality(ev) <= Limit BY <1>2, <2>1
  <2>4. /\ Lists!Greatest(ev, Limit) \subseteq ev
        /\ \A e \in ev, g \in Lists!Greatest(ev, Limit) :
              g <= e => e \in Lists!Greatest(ev, Limit)
        /\ Cardinality(ev) <= Limit => Lists!Greatest(ev, Limit) = ev
    BY <1>2, <1>4, GreatestProperties
  <2> QED BY <1>3, <2>2, <2>3, <2>4
<1>6. /\ pg # <<>> /\ Len(got) \in Nat /\ Len(pg) = Len(got) + 1
      /\ DOMAIN got = 1 .. Len(got) /\ DOMAIN pg = 1 .. Len(got) + 1
      /\ \A i \in DOMAIN got : pg[i] = got[i]
      /\ pg[Len(pg)] = p
      /\ \A e : On(pg, e) <=> On(got, e) \/ e \in p.items
  <2> HIDE DEF p
  <2> QED BY <1>1, OneMore
<1>7. \A e : On(got, e) => e \in 1 .. lastId BY DEF Gapless, Known, On
\* Where the pages end: below every event they have.
<1>8. /\ got # <<>> => param \in 1 .. lastId /\ On(got, param)
      /\ \A e : On(got, e) => got # <<>> /\ param <= e
  <2>1. CASE got = <<>> BY <1>6, <2>1 DEF On
  <2>2. CASE got # <<>>
    <3>1. Len(got) \in DOMAIN got
      <4>1. Len(got) # 0 BY <2>2, EmptySeq
      <4> QED BY <1>6, <4>1
    <3>2. param \in got[Len(got)].items /\ \A e \in got[Len(got)].items : param <= e
      BY <2>2 DEF Position
    <3>3. param \in 1 .. lastId /\ On(got, param) BY <1>7, <3>1, <3>2 DEF On
    <3>4. ASSUME NEW k \in DOMAIN got, NEW e \in got[k].items PROVE param <= e
      <4>1. CASE k = Len(got) BY <3>2, <4>1
      <4>2. CASE k # Len(got)
        <5>1. k < Len(got) BY <1>6, <4>2
        <5>2. param < e BY <3>1, <3>2, <5>1 DEF Gapless, Ordered
        <5>3. e \in 1 .. lastId BY <1>7 DEF On
        <5> QED BY <3>3, <5>2, <5>3
      <4> QED BY <4>1, <4>2
    <3> QED BY <2>2, <3>3, <3>4 DEF On
  <2> QED BY <2>1, <2>2
<1>9. /\ got = <<>> => ev = log
      /\ got # <<>> => ev = {e \in log : e < param}
  <2>1. got = <<>> => param = 0 BY DEF Position
  <2>2. \A e \in log : e > 0 BY <1>2
  <2>3. got # <<>> => param > 0 BY <1>8
  <2> QED BY <2>1, <2>2, <2>3
<1> HIDE DEF p, pg, ev
\* An event from an event of the new page up to one of any page is there.
<1>10. ASSUME NEW e \in log, NEW new \in 1 .. lastId, On(pg, new), e <= new,
              e \in ev => e \in p.items
       PROVE  On(pg, e)
  <2>1. CASE e \in ev BY <1>6, <1>10, <2>1
  <2>2. CASE e \notin ev
    <3>1. got # <<>> /\ param \in 1 .. lastId /\ param <= e
      BY <1>2, <1>8, <1>9, <2>2
    <3>2. On(got, new)
      <4>1. ASSUME new \in p.items PROVE FALSE
        <5>1. new < param BY <1>5, <1>9, <3>1, <4>1
        <5> QED BY <1>2, <1>10, <3>1, <5>1
      <4> QED BY <1>6, <1>10, <4>1
    <3>3. On(got, e) BY <1>8, <1>10, <3>1, <3>2 DEF Gapless, Dense
    <3> QED BY <1>6, <3>3
  <2> QED BY <2>1, <2>2
<1>11. Ordered(list, pg)
  <2> SUFFICES ASSUME NEW i \in DOMAIN pg, NEW j \in DOMAIN pg, i < j,
                      NEW e \in pg[i].items, NEW f \in pg[j].items
               PROVE  f < e
    BY DEF Ordered
  <2>1. i \in DOMAIN got /\ e \in got[i].items BY <1>6
  <2>2. CASE j \in DOMAIN got BY <1>6, <2>1, <2>2 DEF Gapless, Ordered
  <2>3. CASE j \notin DOMAIN got
    <3>1. j = Len(pg) /\ f \in p.items BY <1>6, <2>3
    <3>2. On(got, e) BY <2>1 DEF On
    <3>3. param <= e /\ param \in 1 .. lastId /\ f < param BY <1>5, <1>8, <1>9, <3>1, <3>2
    <3>4. f \in 1 .. lastId /\ e \in 1 .. lastId BY <1>1, <1>2, <1>7, <3>1, <3>2
    <3> QED BY <3>3, <3>4
  <2> QED BY <2>2, <2>3
<1>12. Known(pg, lastId)
  <2>1. \A i \in DOMAIN pg : i \in DOMAIN got \/ pg[i] = p BY <1>6
  <2> QED BY <1>1, <1>2, <1>6, <2>1 DEF Gapless, Known
<1>13. Dense(pg, log, lastId)
  <2> SUFFICES ASSUME NEW e \in log, NEW old \in 1 .. lastId, NEW new \in 1 .. lastId,
                      On(pg, old), On(pg, new), old <= e, e <= new
               PROVE  On(pg, e)
    BY DEF Dense
  <2>1. CASE old \in p.items BY <1>5, <1>10, <2>1
  <2>2. CASE old \notin p.items
    <3>1. On(got, old) BY <1>6, <2>2
    <3>2. got # <<>> /\ param <= old /\ param \in 1 .. lastId BY <1>8, <3>1
    <3>3. e \notin ev
      <4>1. ~(e < param) BY <1>2, <3>2
      <4> QED BY <1>9, <3>2, <4>1
    <3> QED BY <1>10, <3>3
  <2> QED BY <2>1, <2>2
<1>14. Ended(list, pg, log, lastId)
  <2> SUFFICES ASSUME ~p.more, NEW e \in log, NEW new \in 1 .. lastId,
                      On(pg, new), e <= new
               PROVE  On(pg, e)
    BY <1>6 DEF Ended
  <2> QED BY <1>5, <1>10
<1> QED BY <1>11, <1>12, <1>13, <1>14 DEF Gapless, pg, p

\* Asking for what came after the last event one has leaves no gap either.
LEMMA FollowOn ==
    ASSUME StoreTypes, list = "feed", NEW got \in Seq(Lists!EventPages), Gapless(got),
           NEW have, have = UNION {got[i].items : i \in DOMAIN got}
    PROVE  LET p == Lists!ListActivity(IF have = {} THEN 0 ELSE Lists!Max(have), 0)
           IN  p \in Lists!EventPages /\ Gapless(Append(got, p))
<1> DEFINE last == IF have = {} THEN 0 ELSE Lists!Max(have)
           p == Lists!ListActivity(last, 0)
           pg == Append(got, p)
           ev == {e \in log : e > last}
<1>1. log \subseteq 1 .. lastId /\ lastId \in Nat /\ Limit \in Nat
  BY EventSets DEF StoreTypes
<1>2. \A e : On(got, e) <=> e \in have BY DEF On
<1>3. have \subseteq 1 .. lastId BY DEF Gapless, Known
<1>4. /\ last \in 0 .. lastId /\ (have # {} => On(got, last))
      /\ \A e : On(got, e) => have # {} /\ e <= last
  <2>1. CASE have = {}
    <3>1. last = 0 BY <2>1
    <3>2. 0 \in 0 .. lastId BY <1>1
    <3> HIDE DEF last
    <3> QED BY <1>2, <2>1, <3>1, <3>2
  <2>2. CASE have # {}
    <3>1. have \in SUBSET (0 .. lastId)
      <4> HIDE DEF last
      <4> QED BY <1>3, EventSets
    <3>2. Lists!Max(have) \in have /\ \A y \in have : Lists!Max(have) >= y
      BY <1>1, <2>2, <3>1, Most
    <3>3. last = Lists!Max(have) BY <2>2
    <3> HIDE DEF last
    <3>4. \A y \in have : y <= last BY <1>1, <3>1, <3>2, <3>3
    <3> QED BY <1>2, <2>2, <3>1, <3>2, <3>3, <3>4
  <2> QED BY <2>1, <2>2
<1>5. p \in Lists!EventPages /\ p.items \subseteq log
  <2> HIDE DEF last
  <2>1. last \in Nat BY <1>1, <1>4
  <2> QED BY <2>1, ActivityAnswer
<1>6. ev \subseteq log /\ ev \in SUBSET (0 .. lastId)
  <2>1. ev \subseteq log OBVIOUS
  <2> HIDE DEF ev
  <2> QED BY <1>1, <2>1
<1>7. /\ p.items \subseteq ev
      /\ have # {} => \A e \in ev, g \in p.items : e <= g => e \in p.items
      /\ have = {} => \A e \in ev, g \in p.items : g <= e => e \in p.items
  <2>1. p.items = IF last > 0 THEN Lists!Smallest(ev) ELSE Lists!Greatest(ev, Limit)
    BY DEF Lists!ListActivity
  <2>2. (have # {} => last > 0) /\ (have = {} => last = 0)
    <3> HIDE DEF last
    <3>1. have # {} => last \in 1 .. lastId BY <1>2, <1>3, <1>4
    <3> QED BY <1>1, <3>1 DEF last
  <2> HIDE DEF p, ev, last
  <2>3. /\ Lists!Smallest(ev) \subseteq ev
        /\ \A e \in ev, g \in Lists!Smallest(ev) : e <= g => e \in Lists!Smallest(ev)
    BY <1>1, <1>6, SmallestProperties
  <2>4. /\ Lists!Greatest(ev, Limit) \subseteq ev
        /\ \A e \in ev, g \in Lists!Greatest(ev, Limit) :
              g <= e => e \in Lists!Greatest(ev, Limit)
    BY <1>1, <1>6, GreatestProperties
  <2> QED BY <1>1, <2>1, <2>2, <2>3, <2>4
<1>8. /\ pg # <<>> /\ Len(got) \in Nat /\ Len(pg) = Len(got) + 1
      /\ DOMAIN got = 1 .. Len(got) /\ DOMAIN pg = 1 .. Len(got) + 1
      /\ \A i \in DOMAIN got : pg[i] = got[i]
      /\ pg[Len(pg)] = p
      /\ \A e : On(pg, e) <=> On(got, e) \/ e \in p.items
  <2> HIDE DEF p
  <2> QED BY <1>5, OneMore
<1>9. \A e \in log : e \in ev <=> last < e
  <2>1. \A e \in log : e \in 1 .. lastId BY <1>1
  <2> HIDE DEF last
  <2> QED BY <1>1, <1>4, <2>1
<1> HIDE DEF p, pg, ev, last
<1>10. Ordered(list, pg)
  <2> SUFFICES ASSUME NEW i \in DOMAIN pg, NEW j \in DOMAIN pg, i < j,
                      NEW e \in pg[i].items, NEW f \in pg[j].items
               PROVE  e < f
    BY DEF Ordered
  <2>1. i \in DOMAIN got /\ e \in got[i].items BY <1>8
  <2>2. CASE j \in DOMAIN got BY <1>8, <2>1, <2>2 DEF Gapless, Ordered
  <2>3. CASE j \notin DOMAIN got
    <3>1. j = Len(pg) /\ f \in p.items BY <1>8, <2>3
    <3>2. On(got, e) BY <2>1 DEF On
    <3>3. e <= last /\ last < f /\ last \in 0 .. lastId
      BY <1>4, <1>5, <1>7, <1>9, <3>1, <3>2
    <3>4. f \in 1 .. lastId /\ e \in 1 .. lastId BY <1>1, <1>2, <1>3, <1>5, <3>1, <3>2
    <3> QED BY <3>3, <3>4
  <2> QED BY <2>2, <2>3
<1>11. Known(pg, lastId)
  <2>1. \A i \in DOMAIN pg : i \in DOMAIN got \/ pg[i] = p BY <1>8
  <2> QED BY <1>1, <1>5, <1>8, <2>1 DEF Gapless, Known
<1>12. Dense(pg, log, lastId)
  <2> SUFFICES ASSUME NEW e \in log, NEW old \in 1 .. lastId, NEW new \in 1 .. lastId,
                      On(pg, old), On(pg, new), old <= e, e <= new
               PROVE  On(pg, e)
    BY DEF Dense
  <2>1. e \in 1 .. lastId /\ last \in 0 .. lastId BY <1>1, <1>4
  <2>2. CASE last < e
    <3>1. e \in ev BY <1>9, <2>2
    <3>2. new \in p.items
      <4>1. ASSUME On(got, new) PROVE FALSE
        <5>1. new <= last BY <1>4, <4>1
        <5> QED BY <1>1, <2>1, <2>2, <5>1
      <4> QED BY <1>8, <4>1
    <3>3. CASE have = {}
      <4>1. old \in p.items BY <1>2, <1>8, <3>3
      <4> QED BY <1>7, <1>8, <3>1, <3>3, <4>1
    <3>4. CASE have # {} BY <1>7, <1>8, <3>1, <3>2, <3>4
    <3> QED BY <3>3, <3>4
  <2>3. CASE ~(last < e)
    <3>1. On(got, old)
      <4>1. ASSUME old \in p.items PROVE FALSE
        <5>1. last < old BY <1>5, <1>7, <1>9, <4>1
        <5> QED BY <1>1, <2>1, <2>3, <5>1
      <4> QED BY <1>8, <4>1
    <3>2. On(got, last) /\ last \in 1 .. lastId /\ e <= last
      BY <1>1, <1>2, <1>3, <1>4, <2>1, <2>3, <3>1
    <3> QED BY <1>8, <3>1, <3>2 DEF Gapless, Dense
  <2> QED BY <2>2, <2>3
<1>13. Ended(list, pg, log, lastId) BY DEF Ended
<1> QED BY <1>5, <1>10, <1>11, <1>12, <1>13 DEF Gapless, pg, p, last

\* What is written later is newer than every page, and what is deleted is
\* not missing.
LEMMA StillGapless ==
    ASSUME NEW way, NEW pg, NEW stored, NEW last \in Nat, NEW stored2, NEW last2 \in Nat,
           Known(pg, last), Dense(pg, stored, last), Ended(way, pg, stored, last),
           stored \subseteq 1 .. last, stored2 \subseteq 1 .. last2,
           last <= last2, stored2 \cap (1 .. last) \subseteq stored
    PROVE  Known(pg, last2) /\ Dense(pg, stored2, last2) /\ Ended(way, pg, stored2, last2)
<1>1. \A e : On(pg, e) => e \in 1 .. last BY DEF Known, On
<1>2. ASSUME NEW e \in stored2, NEW new \in 1 .. last2, On(pg, new), e <= new
      PROVE  e \in stored /\ new \in 1 .. last
  <2>1. e \in 1 .. last2 /\ new \in 1 .. last BY <1>1, <1>2
  <2>2. e \in 1 .. last BY <1>2, <2>1
  <2> QED BY <2>1, <2>2
<1>3. Known(pg, last2)
  <2>1. 1 .. last \subseteq 1 .. last2 OBVIOUS
  <2> QED BY <2>1 DEF Known
<1>4. Dense(pg, stored2, last2) BY <1>1, <1>2 DEF Dense
<1>5. Ended(way, pg, stored2, last2) BY <1>1, <1>2 DEF Ended
<1> QED BY <1>3, <1>4, <1>5

-----------------------------------------------------------------------------
(* The steps of a list                                                     *)

LEMMA SizesAreNaturals ==
    /\ Limit \in Nat \ {0} /\ Keep \in Nat /\ MaxWrites \in Nat /\ MaxId \in Nat
    /\ IsFiniteSet(Tasks)
  BY PagingAssumption, SameFinite DEF Lists!Sizes

\* A step of a reader: the store stays as it is.
LEMMA ReaderStep ==
    ASSUME GapInv, list' = list,
           UNCHANGED <<column, log, lastId, gen, rev, writes>>,
           pages' \in Seq(Lists!Page) \cup {None},
           fetch' \in Lists!Fetches(Lists!Page) \cup {None},
           poll' \in Lists!Polls \cup {None}, seen' \in Lists!Polls,
           list # "board" /\ pages' # None => Gapless(pages'),
           list = "activity" /\ fetch' # None =>
              Gapless(fetch'.got) /\ Position(fetch'.got, fetch'.param),
           list = "feed" => pages' # None /\ fetch' = None /\ poll' = None,
           list # "feed" => pages' # <<>>
    PROVE  GapInv'
<1>1. StoreTypes' BY DEF GapInv, StoreTypes
<1>2. (Lists!Page)' = Lists!Page
  BY DEF Lists!Page, Lists!BoardPages, Lists!EventPages, Lists!Rows
<1>3. ReaderTypes' BY <1>2 DEF ReaderTypes, Lists!Fetches, Lists!Polls
<1>4. (list # "board" /\ pages # None)' => Gapless(pages)' BY DEF Gapless
<1>5. (list = "activity" /\ fetch # None)' =>
         Gapless(fetch.got)' /\ Position(fetch.got, fetch.param)'
  BY DEF Gapless
<1> QED BY <1>1, <1>3, <1>4, <1>5 DEF GapInv

\* A step of the store: the readers keep what they have.
LEMMA StoreStep ==
    ASSUME GapInv, UNCHANGED <<list, pages, fetch, poll, seen>>, StoreTypes',
           lastId <= lastId', log' \cap (1 .. lastId) \subseteq log
    PROVE  GapInv'
<1>1. (Lists!Page)' = Lists!Page
  BY DEF Lists!Page, Lists!BoardPages, Lists!EventPages, Lists!Rows
<1>2. ReaderTypes' BY <1>1 DEF GapInv, ReaderTypes, Lists!Fetches, Lists!Polls
<1>3. /\ lastId \in Nat /\ lastId' \in Nat
      /\ log \subseteq 1 .. lastId /\ log' \subseteq 1 .. lastId'
  BY SizesAreNaturals DEF GapInv, StoreTypes
<1>4. ASSUME NEW pg, Gapless(pg)
      PROVE  /\ Ordered(list', pg) /\ Known(pg, lastId')
             /\ Dense(pg, log', lastId') /\ Ended(list', pg, log', lastId')
  BY <1>3, <1>4, StillGapless DEF Gapless
<1>5. (list # "board" /\ pages # None)' => Gapless(pages)' BY <1>4 DEF Gapless, GapInv
<1>6. (list = "activity" /\ fetch # None)' =>
         Gapless(fetch.got)' /\ Position(fetch.got, fetch.param)'
  BY <1>4 DEF Gapless, GapInv
<1> QED BY <1>2, <1>5, <1>6 DEF GapInv

\* A column without the task, and with it in some place.
LEMMA ColumnTypes ==
    ASSUME NEW S, NEW s \in Seq(S), NEW i \in 1 .. Len(s) + 1, NEW e \in S
    PROVE  /\ i <= Len(s) => Lists!RemoveAt(s, i) \in Seq(S)
           /\ Lists!InsertAt(s, i, e) \in Seq(S)
<1>1. Len(s) \in Nat /\ \A j \in 1 .. Len(s) : s[j] \in S BY ElementOfSeq, LenProperties
<1>2. SubSeq(s, 1, i - 1) \in Seq(S)
  <2>1. i - 1 \in Int /\ \A j \in 1 .. (i - 1) : j \in 1 .. Len(s) BY <1>1
  <2> QED BY <1>1, <2>1, SubSeqProperties
<1>3. SubSeq(s, i, Len(s)) \in Seq(S)
  <2>1. i \in Int /\ Len(s) \in Int /\ \A j \in i .. Len(s) : j \in 1 .. Len(s) BY <1>1
  <2> QED BY <1>1, <2>1, SubSeqProperties
<1>4. SubSeq(s, i + 1, Len(s)) \in Seq(S)
  <2>1. i + 1 \in Int /\ Len(s) \in Int /\ \A j \in (i + 1) .. Len(s) : j \in 1 .. Len(s)
    BY <1>1
  <2> QED BY <1>1, <2>1, SubSeqProperties
<1>5. <<e>> \in Seq(S) OBVIOUS
<1>6. SubSeq(s, 1, i - 1) \o <<e>> \in Seq(S) BY <1>2, <1>5, ConcatProperties
<1> QED BY <1>2, <1>3, <1>4, <1>6, ConcatProperties DEF Lists!RemoveAt, Lists!InsertAt

LEMMA OthersAreRows ==
    ASSUME column \in Seq(Lists!Rows), NEW t
    PROVE  Lists!OtherTasks(t) \in Seq(Lists!Rows)
<1> DEFINE I == {i \in 1 .. Len(column) : column[i].task = t}
<1>1. CASE I = {} BY <1>1 DEF Lists!OtherTasks, Lists!RemoveFirstMatch
<1>2. CASE I # {}
  <2>1. Len(column) \in Nat BY LenProperties
  <2>2. I \in SUBSET (0 .. Len(column)) BY <2>1
  <2>3. Lists!Min(I) \in I
    <3> HIDE DEF I
    <3> QED BY <1>2, <2>1, <2>2, Least
  <2>4. Lists!SelectInSeq(column, LAMBDA row : row.task = t) = Lists!Min(I)
    BY <1>2 DEF Lists!SelectInSeq
  <2>5. Lists!OtherTasks(t) = Lists!RemoveAt(column, Lists!Min(I))
    BY <1>2, <2>4 DEF Lists!OtherTasks, Lists!RemoveFirstMatch
  <2>6. /\ Lists!Min(I) \in 1 .. Len(column) + 1 /\ Lists!Min(I) <= Len(column)
        /\ column # <<>>
    <3>1. Lists!Min(I) \in 1 .. Len(column) BY <2>3
    <3> QED BY <2>1, <3>1
  <2>7. column[1] \in Lists!Rows BY <2>1, <2>6, ElementOfSeq
  <2> HIDE DEF I
  <2> QED BY <2>5, <2>6, <2>7, ColumnTypes
<1> QED BY <1>1, <1>2

LEMMA WriteTaskGap == ASSUME GapInv, NEW t \in Tasks, Lists!WriteTask(t) PROVE GapInv'
<1> DEFINE others == Lists!OtherTasks(t)
           moved == [task |-> t, version |-> writes + 1]
<1>1. /\ column' = others \/ \E i \in 1 .. Len(others) + 1 :
                                column' = Lists!InsertAt(others, i, moved)
      /\ rev' = rev + 1 /\ writes < MaxWrites /\ writes' = writes + 1
      /\ UNCHANGED <<log, lastId, gen, list, pages, fetch, poll, seen>>
  BY DEF Lists!WriteTask, Lists!Transaction
<1>2. others \in Seq(Lists!Rows)
  <2>1. column \in Seq(Lists!Rows) BY DEF GapInv, StoreTypes
  <2> QED BY <2>1, OthersAreRows
<1>3. writes' \in 0 .. MaxWrites /\ rev' \in Nat
  BY <1>1, SizesAreNaturals DEF GapInv, StoreTypes
<1>4. moved \in Lists!Rows BY <1>1, <1>3 DEF Lists!Rows
<1> HIDE DEF others, moved
<1>5. column' \in Seq(Lists!Rows) BY <1>1, <1>2, <1>4, ColumnTypes
<1>6. StoreTypes' BY <1>1, <1>3, <1>5 DEF GapInv, StoreTypes, Lists!Rows
<1> QED BY <1>1, <1>6, EventSets, StoreStep DEF GapInv

LEMMA WriteActivityGap ==
    ASSUME GapInv, NEW ids \in (SUBSET (lastId + 1 .. MaxId)) \ {{}},
           Lists!WriteActivity(ids)
    PROVE  GapInv'
<1>1. /\ log' = Lists!Greatest(log \cup ids, Keep) /\ lastId' = Lists!Max(ids)
      /\ rev' = rev + 1 /\ writes < MaxWrites /\ writes' = writes + 1
      /\ UNCHANGED <<column, gen, list, pages, fetch, poll, seen>>
  BY DEF Lists!WriteActivity, Lists!Transaction
<1>2. /\ lastId \in 0 .. MaxId /\ log \subseteq 1 .. lastId /\ MaxId \in Nat
      /\ Keep \in Nat
  BY SizesAreNaturals DEF GapInv, StoreTypes
<1>3. ids \in SUBSET (0 .. MaxId) /\ ids # {}
  <2>1. lastId + 1 .. MaxId \subseteq 0 .. MaxId BY <1>2
  <2>2. ids \in SUBSET (lastId + 1 .. MaxId) /\ ids # {} OBVIOUS
  <2> QED BY <2>1, <2>2
<1>4. lastId' \in ids /\ \A e \in ids : e <= lastId' BY <1>1, <1>2, <1>3, Most
<1>5. /\ lastId' \in lastId + 1 .. MaxId
      /\ \A e \in ids : e \in lastId + 1 .. MaxId
  BY <1>4
<1>6. log \cup ids \in SUBSET (1 .. lastId') BY <1>2, <1>4, <1>5
<1>7. /\ log' \subseteq log \cup ids /\ Cardinality(log') <= Keep
  <2>1. log \cup ids \in SUBSET (0 .. lastId') /\ lastId' \in Nat BY <1>2, <1>5, <1>6
  <2> QED BY <1>1, <1>2, <2>1, GreatestProperties
<1>8. log' \cap (1 .. lastId) \subseteq log BY <1>2, <1>5, <1>7
<1>9. lastId <= lastId' /\ lastId' \in 0 .. MaxId BY <1>2, <1>5
<1>10. writes' \in 0 .. MaxWrites /\ rev' \in Nat
  BY <1>1, SizesAreNaturals DEF GapInv, StoreTypes
<1>11. StoreTypes' BY <1>1, <1>6, <1>7, <1>9, <1>10 DEF GapInv, StoreTypes, Lists!Rows
<1> QED BY <1>1, <1>8, <1>9, <1>11, StoreStep

LEMMA RecreateGap == ASSUME GapInv, Lists!Recreate PROVE GapInv'
<1>1. /\ column' = <<>> /\ log' = {} /\ gen' = gen + 1 /\ rev' = 0
      /\ writes < MaxWrites /\ writes' = writes + 1
      /\ UNCHANGED <<lastId, list, pages, fetch, poll, seen>>
  BY DEF Lists!Recreate, Lists!Transaction
<1>2. Cardinality(log') <= Keep BY <1>1, FS_EmptySet, SizesAreNaturals
<1>3. /\ writes' \in 0 .. MaxWrites /\ rev' \in Nat /\ gen' \in Nat
      /\ column' \in Seq(Lists!Rows)
  BY <1>1, SizesAreNaturals DEF GapInv, StoreTypes
<1>4. StoreTypes' BY <1>1, <1>2, <1>3 DEF GapInv, StoreTypes, Lists!Rows
<1> QED BY <1>1, <1>4, EventSets, StoreStep DEF GapInv

LEMMA NoneIsNothing ==
    /\ None \notin Nat /\ None \notin Lists!Polls
    /\ None \notin Seq(Lists!Page) /\ None \notin Lists!Fetches(Lists!Page)
  BY PagingAssumption DEF Lists!NoneIsNoData, Lists!Page

LEMMA MaxOfTwo ==
    ASSUME NEW a \in Nat, NEW b \in Nat
    PROVE  /\ Lists!Max({a, b}) = IF a >= b THEN a ELSE b
           /\ Lists!Min({a, b}) = IF a <= b THEN a ELSE b
<1> DEFINE m == IF a >= b THEN a ELSE b
           S == {a, b}
<1>1. m \in Nat /\ S \in SUBSET (0 .. m) /\ S # {} OBVIOUS
<1>2. /\ Lists!Max(S) \in S /\ \A y \in S : Lists!Max(S) >= y
      /\ Lists!Min(S) \in S /\ \A y \in S : Lists!Min(S) <= y
  <2> HIDE DEF m, S
  <2> QED BY <1>1, Least, Most
<1> QED BY <1>2

\* Where the page after a page starts.
LEMMA NextParamTypes ==
    ASSUME StoreTypes, NEW p \in Lists!Page
    PROVE  /\ Lists!NextParam(p) \in Nat \cup {None}
           /\ list # "board" /\ Lists!NextParam(p) # None =>
                 /\ Lists!NextParam(p) \in p.items
                 /\ \A e \in p.items : Lists!NextParam(p) <= e
<1>1. CASE list = "board"
  <2>1. p \in Lists!BoardPages BY <1>1 DEF Lists!Page
  <2>2. p.from \in Nat /\ p.total \in Nat /\ Len(p.items) \in Nat
    BY <2>1, LenProperties DEF Lists!BoardPages
  <2>3. p.from + Len(p.items) \in Nat BY <2>2
  <2> QED BY <1>1, <2>3 DEF Lists!NextParam
<1>2. CASE list # "board"
  <2>1. p.items \in SUBSET (1 .. MaxId) BY <1>2 DEF Lists!Page, Lists!EventPages
  <2>2. MaxId \in Nat BY SizesAreNaturals
  <2>3. p.items \in SUBSET (0 .. MaxId)
    <3>1. 1 .. MaxId \subseteq 0 .. MaxId BY <2>2
    <3> QED BY <2>1, <3>1
  <2>4. p.items # {} => /\ Lists!Min(p.items) \in p.items
                        /\ \A e \in p.items : Lists!Min(p.items) <= e
    BY <2>2, <2>3, Least
  <2>5. p.items # {} => Lists!Min(p.items) \in Nat BY <2>2, <2>3, <2>4
  <2>6. Lists!NextParam(p) = IF p.more /\ p.items # {} THEN Lists!Min(p.items) ELSE None
    BY <1>2 DEF Lists!NextParam
  <2> QED BY <2>4, <2>5, <2>6
<1> QED BY <1>1, <1>2

LEMMA FetchTypes ==
    ASSUME NEW got \in Seq(Lists!Page), NEW want \in Nat \ {0}, NEW param \in Nat,
           NEW total \in Nat \cup {None}, NEW more \in BOOLEAN, NEW f,
           f = [got |-> got, want |-> want, param |-> param, total |-> total, more |-> more]
    PROVE  /\ f \in Lists!Fetches(Lists!Page) /\ f # None
           /\ f.got = got /\ f.param = param /\ f.want = want
           /\ f.total = total /\ f.more = more
<1>1. f \in Lists!Fetches(Lists!Page) BY DEF Lists!Fetches
<1> QED BY <1>1, NoneIsNothing

LEMMA FetchFields ==
    ASSUME ReaderTypes, fetch # None
    PROVE  /\ fetch.got \in Seq(Lists!Page) /\ fetch.want \in Nat \ {0} /\ fetch.param \in Nat
           /\ fetch.total \in Nat \cup {None} /\ fetch.more \in BOOLEAN
           /\ fetch = [got |-> fetch.got, want |-> fetch.want, param |-> fetch.param,
                       total |-> fetch.total, more |-> fetch.more]
<1>1. fetch \in Lists!Fetches(Lists!Page) BY DEF ReaderTypes
<1> QED BY <1>1 DEF Lists!Fetches

\* An answered page is the last one the list shows, or another one follows.
LEMMA AnsweredGap ==
    ASSUME GapInv, list # "feed", fetch # None, NEW p \in Lists!Page, Lists!Answered(p),
           list = "activity" => Gapless(Append(fetch.got, p))
    PROVE  GapInv'
<1> DEFINE got == Append(fetch.got, p)
<1>1. /\ fetch.got \in Seq(Lists!Page) /\ got \in Seq(Lists!Page) /\ got # <<>>
      /\ Len(got) \in Nat /\ got[Len(got)] = p
  <2>1. fetch.got \in Seq(Lists!Page) BY FetchFields DEF GapInv
  <2> QED BY <2>1, AppendProperties, LenProperties
<1>2. /\ UNCHANGED <<list, column, log, lastId, gen, rev, writes, poll, seen>>
      /\ \/ pages' = got /\ fetch' = None
         \/ /\ Lists!NextParam(p) # None /\ UNCHANGED pages
            /\ fetch' = [fetch EXCEPT !.got = got, !.param = Lists!NextParam(p), !.total = None]
  BY DEF Lists!Answered, Lists!store
<1> HIDE DEF got
<1>3. CASE pages' = got /\ fetch' = None
  <2>1. pages' # None BY <1>1, <1>3, NoneIsNothing
  <2>2. list # "board" => Gapless(pages') BY <1>3 DEF got, GapInv, StoreTypes
  <2> QED BY <1>1, <1>2, <1>3, <2>1, <2>2, ReaderStep DEF GapInv, ReaderTypes
<1>4. CASE /\ Lists!NextParam(p) # None /\ UNCHANGED pages
           /\ fetch' = [fetch EXCEPT !.got = got, !.param = Lists!NextParam(p), !.total = None]
  <2> DEFINE param == Lists!NextParam(p)
  <2>1. param \in Nat /\ (list # "board" => Position(got, param))
    BY <1>1, <1>4, NextParamTypes DEF Position, GapInv
  <2>2. fetch' = [got |-> got, want |-> fetch.want, param |-> param, total |-> None,
                  more |-> fetch.more]
    <3> DEFINE f == fetch
    <3>1. f = [got |-> f.got, want |-> f.want, param |-> f.param, total |-> f.total,
               more |-> f.more]
      BY FetchFields DEF GapInv
    <3>2. fetch' = [f EXCEPT !.got = got, !.param = param, !.total = None] BY <1>4
    <3> HIDE DEF f, param
    <3>3. fetch' = [[got |-> f.got, want |-> f.want, param |-> f.param, total |-> f.total,
                     more |-> f.more] EXCEPT !.got = got, !.param = param, !.total = None]
      BY <3>1, <3>2
    <3>4. fetch' = [got |-> got, want |-> f.want, param |-> param, total |-> None,
                    more |-> f.more]
      BY <3>3
    <3> QED BY <3>4 DEF f
  <2> HIDE DEF param
  <2>3. /\ fetch' \in Lists!Fetches(Lists!Page)
        /\ fetch'.got = got /\ fetch'.param = param
    BY <1>1, <2>1, <2>2, FetchFields, FetchTypes DEF GapInv
  <2>4. list = "activity" => Gapless(fetch'.got) /\ Position(fetch'.got, fetch'.param)
    BY <2>1, <2>3 DEF got
  <2> QED BY <1>2, <1>4, <2>3, <2>4, ReaderStep DEF GapInv, ReaderTypes
<1> QED BY <1>2, <1>3, <1>4

LEMMA ReadActivityGap == ASSUME GapInv, Lists!ReadActivity PROVE GapInv'
<1> DEFINE p == Lists!ListActivity(0, fetch.param)
<1>1. list = "activity" /\ fetch # None /\ Lists!Answered(p) BY DEF Lists!ReadActivity
<1>2. fetch.got \in Seq(Lists!EventPages) /\ fetch.param \in Nat
  BY <1>1, FetchFields DEF GapInv, Lists!Page
<1>3. p \in Lists!Page BY <1>1, <1>2, ActivityAnswer DEF GapInv, Lists!Page
<1>4. Gapless(Append(fetch.got, p)) BY <1>1, <1>2, ReadOn DEF GapInv
<1> HIDE DEF p
<1> QED BY <1>1, <1>3, <1>4, AnsweredGap

LEMMA CountTasksGap == ASSUME GapInv, Lists!CountTasks PROVE GapInv'
<1>1. /\ list = "board" /\ fetch # None
      /\ fetch' = [fetch EXCEPT !.total = Len(column)]
      /\ UNCHANGED <<list, column, log, lastId, gen, rev, writes, pages, poll, seen>>
  BY DEF Lists!CountTasks, Lists!store
<1>2. Len(column) \in Nat BY LenProperties DEF GapInv, StoreTypes
<1>3. fetch' \in Lists!Fetches(Lists!Page)
  <2>1. fetch \in Lists!Fetches(Lists!Page) BY <1>1 DEF GapInv, ReaderTypes
  <2> QED BY <1>1, <1>2, <2>1 DEF Lists!Fetches
<1> QED BY <1>1, <1>3, ReaderStep DEF GapInv, ReaderTypes

LEMMA BoardPageType ==
    ASSUME StoreTypes, list = "board", NEW offset \in Nat, NEW total \in Nat
    PROVE  Lists!BoardPage(offset, total) \in Lists!Page
<1> DEFINE end == Lists!Min({offset + Limit, Len(column)})
<1>1. Len(column) \in Nat /\ \A j \in 1 .. Len(column) : column[j] \in Lists!Rows
  BY LenProperties, ElementOfSeq DEF StoreTypes
<1>2. end \in Int /\ end <= Len(column)
  <2>1. offset + Limit \in Nat BY SizesAreNaturals
  <2>2. end = IF offset + Limit <= Len(column) THEN offset + Limit ELSE Len(column)
    BY <1>1, <2>1, MaxOfTwo
  <2> HIDE DEF end
  <2> QED BY <1>1, <2>1, <2>2
<1> HIDE DEF end
<1>3. SubSeq(column, offset + 1, end) \in Seq(Lists!Rows)
  <2>1. \A j \in (offset + 1) .. end : j \in 1 .. Len(column) BY <1>1, <1>2
  <2> QED BY <1>1, <1>2, <2>1, SubSeqProperties
<1> QED BY <1>3 DEF Lists!BoardPage, Lists!Page, Lists!BoardPages, end

LEMMA SelectTasksGap == ASSUME GapInv, Lists!SelectTasks PROVE GapInv'
<1> DEFINE p == Lists!BoardPage(fetch.param, fetch.total)
<1>1. list = "board" /\ fetch # None /\ fetch.total # None /\ Lists!Answered(p)
  BY DEF Lists!SelectTasks
<1>2. p \in Lists!Page BY <1>1, FetchFields, BoardPageType DEF GapInv
<1> HIDE DEF p
<1> QED BY <1>1, <1>2, AnsweredGap

LEMMA FollowGap == ASSUME GapInv, Lists!Follow PROVE GapInv'
<1> DEFINE have == UNION {pages[i].items : i \in DOMAIN pages}
           p == Lists!ListActivity(IF have = {} THEN 0 ELSE Lists!Max(have), 0)
<1>1. /\ list = "feed" /\ pages' = IF p.items = {} THEN pages ELSE Append(pages, p)
      /\ UNCHANGED <<list, column, log, lastId, gen, rev, writes, fetch, poll, seen>>
  BY DEF Lists!Follow, Lists!store
<1>2. pages # None /\ pages \in Seq(Lists!EventPages) /\ Gapless(pages)
  BY <1>1 DEF GapInv, ReaderTypes, Lists!Page
<1>3. p \in Lists!EventPages /\ Gapless(Append(pages, p)) BY <1>1, <1>2, FollowOn DEF GapInv
<1> HIDE DEF p
<1>4. pages' \in Seq(Lists!EventPages) /\ Gapless(pages')
  BY <1>1, <1>2, <1>3, AppendProperties
<1>5. pages' \in Seq(Lists!Page) /\ pages' # None
  BY <1>1, <1>4, NoneIsNothing DEF Lists!Page
<1> QED BY <1>1, <1>4, <1>5, ReaderStep DEF GapInv, ReaderTypes

LEMMA RefetchTypes ==
    ASSUME GapInv
    PROVE  /\ Lists!Refetch \in Lists!Fetches(Lists!Page)
           /\ Lists!Refetch.got = <<>> /\ Lists!Refetch.param = 0
           /\ Lists!Refetch.total = None /\ Lists!Refetch.more = FALSE
           /\ Gapless(<<>>) /\ Position(<<>>, 0)
           /\ LET f == [Lists!Refetch EXCEPT !.want = 1]
              IN  f \in Lists!Fetches(Lists!Page) /\ f.got = <<>> /\ f.param = 0
<1> DEFINE want == IF pages = None THEN 1 ELSE Lists!Max({1, Len(pages)})
<1>1. want \in Nat \ {0}
  <2>1. CASE pages = None BY <2>1
  <2>2. CASE pages # None
    <3>1. Len(pages) \in Nat BY <2>2, LenProperties DEF GapInv, ReaderTypes
    <3> QED BY <2>2, <3>1, MaxOfTwo
  <2> QED BY <2>1, <2>2
<1>2. Lists!Refetch = [got |-> <<>>, param |-> 0, total |-> None, more |-> FALSE,
                       want |-> want]
  BY DEF Lists!Refetch
<1> HIDE DEF want
<1>3. <<>> \in Seq(Lists!Page) /\ DOMAIN <<>> = {} BY EmptySeq
<1>4. Lists!Refetch \in Lists!Fetches(Lists!Page) BY <1>1, <1>2, <1>3 DEF Lists!Fetches
<1> DEFINE first == [Lists!Refetch EXCEPT !.want = 1]
<1>5. first = [got |-> <<>>, param |-> 0, total |-> None, more |-> FALSE, want |-> 1]
  <2>1. first = [[got |-> <<>>, param |-> 0, total |-> None, more |-> FALSE,
                  want |-> want] EXCEPT !.want = 1]
    BY <1>2
  <2> HIDE DEF first
  <2> QED BY <2>1
<1> HIDE DEF first
<1>6. first \in Lists!Fetches(Lists!Page)
  <2>1. 1 \in Nat \ {0} /\ 0 \in Nat OBVIOUS
  <2> QED BY <1>3, <1>5, <2>1 DEF Lists!Fetches
<1>7. Gapless(<<>>) BY DEF Gapless, Ordered, Known, Dense, Ended, On
<1> QED BY <1>2, <1>4, <1>5, <1>6, <1>7 DEF Position, first

LEMMA LoadMoreGap == ASSUME GapInv, Lists!LoadMore PROVE GapInv'
<1> DEFINE param == Lists!NextParam(Lists!Last(pages))
           want == Len(pages) + 1
<1>1. /\ list # "feed" /\ pages # None /\ param # None
      /\ fetch' = [got |-> pages, want |-> want, param |-> param,
                   total |-> None, more |-> TRUE]
      /\ UNCHANGED <<list, column, log, lastId, gen, rev, writes, pages, poll, seen>>
  BY DEF Lists!LoadMore, Lists!store
<1>2. pages \in Seq(Lists!Page) /\ pages # <<>> BY <1>1 DEF GapInv, ReaderTypes
<1>3. want \in Nat \ {0} BY <1>2, LenProperties
<1>4. Lists!Last(pages) = pages[Len(pages)] /\ pages[Len(pages)] \in Lists!Page
  <2>1. Len(pages) \in 1 .. Len(pages) BY <1>2, EmptySeq
  <2> QED BY <1>2, <2>1, ElementOfSeq DEF Lists!Last
<1>5. param \in Nat /\ (list # "board" => Position(pages, param))
  BY <1>1, <1>2, <1>4, NextParamTypes DEF GapInv, Position
<1> HIDE DEF param, want
<1>6. /\ fetch' \in Lists!Fetches(Lists!Page)
      /\ fetch'.got = pages /\ fetch'.param = param
  <2>1. fetch'.got = pages /\ fetch'.param = param BY <1>1
  <2> QED BY <1>1, <1>2, <1>3, <1>5, <2>1 DEF Lists!Fetches
<1> QED BY <1>1, <1>2, <1>5, <1>6, ReaderStep DEF GapInv, ReaderTypes

LEMMA FocusGap == ASSUME GapInv, Lists!Focus PROVE GapInv'
<1>1. /\ list # "feed" /\ fetch' = Lists!Refetch
      /\ UNCHANGED <<list, column, log, lastId, gen, rev, writes, pages, poll, seen>>
  BY DEF Lists!Focus, Lists!store
<1> QED BY <1>1, RefetchTypes, ReaderStep DEF GapInv, ReaderTypes

LEMMA PollGap == ASSUME GapInv, Lists!Polling PROVE GapInv'
<1>1. CASE Lists!PollRead
  <2>1. /\ list # "feed" /\ poll' = [gen |-> gen, rev |-> rev]
        /\ UNCHANGED <<list, column, log, lastId, gen, rev, writes, pages, fetch, seen>>
    BY <1>1 DEF Lists!PollRead, Lists!store, Lists!Revisions
  <2>2. poll' \in Lists!Polls BY <2>1 DEF Lists!Polls, GapInv, StoreTypes
  <2> QED BY <2>1, <2>2, ReaderStep DEF GapInv, ReaderTypes
<1>2. CASE Lists!PollDeliver
  <2>1. /\ poll # None /\ Lists!React /\ seen' = poll /\ poll' = None
        /\ UNCHANGED <<list, column, log, lastId, gen, rev, writes>>
    BY <1>2 DEF Lists!PollDeliver, Lists!store
  <2>2. /\ list # "feed" /\ seen' \in Lists!Polls BY <2>1 DEF GapInv, ReaderTypes
  <2>3. \/ UNCHANGED <<pages, fetch>>
        \/ pages' = None /\ fetch' = [Lists!Refetch EXCEPT !.want = 1]
        \/ fetch' = Lists!Refetch /\ UNCHANGED pages
    BY <2>1 DEF Lists!React
  <2>4. CASE UNCHANGED <<pages, fetch>>
    BY <2>1, <2>2, <2>4, ReaderStep DEF GapInv, ReaderTypes
  <2>5. CASE pages' = None /\ fetch' = [Lists!Refetch EXCEPT !.want = 1]
    <3>1. /\ fetch' \in Lists!Fetches(Lists!Page) /\ fetch'.got = <<>> /\ fetch'.param = 0
          /\ Gapless(fetch'.got) /\ Position(fetch'.got, fetch'.param)
      BY <2>5, RefetchTypes
    <3>2. pages' # <<>> BY <2>5, NoneIsNothing, EmptySeq
    <3> QED BY <2>1, <2>2, <2>5, <3>1, <3>2, ReaderStep
  <2>6. CASE fetch' = Lists!Refetch /\ UNCHANGED pages
    BY <2>1, <2>2, <2>6, RefetchTypes, ReaderStep DEF GapInv, ReaderTypes
  <2> QED BY <2>3, <2>4, <2>5, <2>6
<1> QED BY <1>1, <1>2 DEF Lists!Polling

\* The first column: some of the tasks, as they are.
LEMMA FirstColumn ==
    ASSUME NEW n \in 0 .. Lists!Cardinality(Tasks)
    PROVE  [i \in 1 .. n |-> [task |-> Lists!SetToSeq(Tasks)[i], version |-> 0]]
              \in Seq(Lists!Rows)
<1> DEFINE card == Cardinality(Tasks)
           f == Lists!SetToSeq(Tasks)
<1>1. /\ card \in Nat /\ Lists!Cardinality(Tasks) = card
      /\ ExistsBijection(1 .. card, Tasks)
  BY SizesAreNaturals, FS_CardinalityType, SameCardinality
<1>2. f \in [1 .. card -> Tasks]
  <2>1. PICK g \in Bijection(1 .. card, Tasks) : TRUE BY <1>1 DEF ExistsBijection
  <2>2. g \in [1 .. card -> Tasks] /\ Lists!IsInjective(g)
    BY <2>1 DEF Bijection, Injection, IsInjective, Lists!IsInjective
  <2>3. f = CHOOSE h \in [1 .. card -> Tasks] : Lists!IsInjective(h)
    BY <1>1 DEF Lists!SetToSeq
  <2> HIDE DEF f, card
  <2> QED BY <2>2, <2>3
<1> HIDE DEF f, card
<1>3. n \in Nat /\ \A i \in 1 .. n : i \in 1 .. card BY <1>1
<1>4. \A i \in 1 .. n : [task |-> f[i], version |-> 0] \in Lists!Rows
  BY <1>2, <1>3, SizesAreNaturals DEF Lists!Rows
<1> QED BY <1>3, <1>4 DEF f

LEMMA InitGap == ASSUME Lists!Init PROVE GapInv
<1>1. /\ list \in {"board", "activity", "feed"}
      /\ gen = 0 /\ rev = 0 /\ writes = 0
      /\ fetch = None /\ poll = None /\ seen = Lists!Revisions
      /\ lastId = Cardinality(log)
  BY SameCardinality DEF Lists!Init
<1>2. seen \in Lists!Polls BY <1>1 DEF Lists!Revisions, Lists!Polls
<1>3. CASE list = "board"
  <2>1. PICK n \in 0 .. Lists!Cardinality(Tasks) :
             column = [i \in 1 .. n |-> [task |-> Lists!SetToSeq(Tasks)[i], version |-> 0]]
    BY <1>3 DEF Lists!Init
  <2>2. column \in Seq(Lists!Rows) BY <2>1, FirstColumn
  <2>3. log = {} /\ pages = <<Lists!BoardPage(0, Len(column))>>
    BY <1>3 DEF Lists!Init
  <2>4. Cardinality(log) = 0 BY <2>3, FS_EmptySet
  <2>5. StoreTypes BY <1>1, <2>2, <2>3, <2>4, SizesAreNaturals DEF StoreTypes
  <2>6. Lists!BoardPage(0, Len(column)) \in Lists!Page
    <3>1. Len(column) \in Nat BY <2>2, LenProperties
    <3> QED BY <1>3, <2>5, <3>1, BoardPageType
  <2>7. pages \in Seq(Lists!Page) /\ pages # <<>> BY <2>3, <2>6
  <2> QED BY <1>1, <1>2, <1>3, <2>5, <2>7 DEF GapInv, ReaderTypes
<1>4. CASE list # "board"
  <2>1. /\ column = <<>> /\ log \in {1 .. n : n \in 0 .. Lists!Min({Keep, MaxId})}
        /\ pages = IF list = "feed" THEN <<>> ELSE <<Lists!ListActivity(0, 0)>>
    BY <1>4 DEF Lists!Init
  <2>2. PICK n \in 0 .. Lists!Min({Keep, MaxId}) : log = 1 .. n BY <2>1
  <2>3. n \in Nat /\ n <= Keep /\ n <= MaxId
    <3>1. Lists!Min({Keep, MaxId}) = IF Keep <= MaxId THEN Keep ELSE MaxId
      BY SizesAreNaturals, MaxOfTwo
    <3> QED BY <3>1, SizesAreNaturals
  <2>4. Cardinality(log) = n BY <2>2, <2>3, FS_Interval
  <2>5. StoreTypes
    <3>1. lastId = n BY <1>1, <2>4
    <3>2. log \subseteq 1 .. lastId BY <2>2, <3>1
    <3>3. n \in 0 .. MaxId /\ 0 \in 0 .. MaxWrites BY <2>3, SizesAreNaturals
    <3>4. column \in Seq(Lists!Rows) BY <2>1, EmptySeq
    <3> QED BY <1>1, <2>3, <2>4, <3>1, <3>2, <3>3, <3>4 DEF StoreTypes
  <2>6. <<>> \in Seq(Lists!EventPages) /\ Gapless(<<>>) /\ Position(<<>>, 0)
    <3>1. <<>> \in Seq(Lists!EventPages) /\ DOMAIN <<>> = {} BY EmptySeq
    <3> QED BY <3>1 DEF Gapless, Ordered, Known, Dense, Ended, On, Position
  <2>7. CASE list = "feed"
    <3>1. pages = <<>> BY <2>1, <2>7
    <3>2. pages \in Seq(Lists!Page) /\ pages # None
      BY <2>6, <2>7, <3>1, NoneIsNothing DEF Lists!Page
    <3> QED BY <1>1, <1>2, <2>5, <2>6, <2>7, <3>1, <3>2 DEF GapInv, ReaderTypes
  <2>8. CASE list = "activity"
    <3> DEFINE p == Lists!ListActivity(0, 0)
    <3>1. p \in Lists!EventPages BY <2>5, ActivityAnswer
    <3>2. Gapless(Append(<<>>, p)) BY <2>5, <2>6, <2>8, ReadOn
    <3>3. pages = <<p>> BY <2>1, <2>8
    <3> HIDE DEF p
    <3>4. pages = Append(<<>>, p) BY <3>3
    <3>5. pages \in Seq(Lists!EventPages) /\ pages # <<>> BY <2>6, <3>1, <3>4, AppendProperties
    <3>6. pages \in Seq(Lists!Page) BY <2>8, <3>5 DEF Lists!Page
    <3> QED BY <1>1, <1>2, <2>5, <2>8, <3>2, <3>4, <3>5, <3>6 DEF GapInv, ReaderTypes
  <2> QED BY <1>1, <1>4, <2>7, <2>8
<1> QED BY <1>3, <1>4

LEMMA NextGap == GapInv /\ [PageNext]_pageVars => GapInv'
<1> SUFFICES ASSUME GapInv, [PageNext]_pageVars PROVE GapInv'
  OBVIOUS
<1>1. CASE Lists!Next
  <2>1. ASSUME Lists!Writing PROVE GapInv'
    BY <2>1, WriteTaskGap, WriteActivityGap, RecreateGap DEF Lists!Writing
  <2>2. ASSUME Lists!Reading PROVE GapInv'
    BY <2>2, ReadActivityGap, CountTasksGap, SelectTasksGap, FollowGap DEF Lists!Reading
  <2> QED BY <1>1, <2>1, <2>2, LoadMoreGap, FocusGap, PollGap DEF Lists!Next
<1>2. CASE UNCHANGED listVars
  <2>1. UNCHANGED <<list, column, log, lastId, gen, rev, writes, pages, fetch, poll, seen>>
    BY <1>2 DEF listVars
  <2> QED BY <2>1, ReaderStep DEF GapInv, ReaderTypes
<1> QED BY <1>1, <1>2 DEF PageNext, Operating, Listing, pageVars

LEMMA GapInvImplies == GapInv => NoGaps
<1> SUFFICES ASSUME GapInv PROVE Lists!NoGaps
  BY DEF NoGaps
<1>1. Lists!TypeOK BY TypesTogether DEF GapInv
<1>2. ASSUME list # "board", pages \notin {None, <<>>}
      PROVE  /\ \A i, j \in DOMAIN pages : i # j => pages[i].items \cap pages[j].items = {}
             /\ \A e \in log, old, new \in Lists!Events :
                   old <= e /\ e <= new => e \in Lists!Events
             /\ list = "activity" /\ ~Lists!Last(pages).more =>
                   \A e \in log, new \in Lists!Events : e <= new => e \in Lists!Events
  <2>1. Gapless(pages) /\ pages \in Seq(Lists!Page) BY <1>2 DEF GapInv, ReaderTypes
  <2>2. \A e : e \in Lists!Events <=> On(pages, e) BY DEF Lists!Events, On
  <2>3. \A e : On(pages, e) => e \in 1 .. lastId BY <2>1 DEF Gapless, Known, On
  <2>4. ASSUME NEW i \in DOMAIN pages, NEW j \in DOMAIN pages, i # j,
               NEW e \in pages[i].items, e \in pages[j].items
        PROVE  FALSE
    <3>1. i \in Nat /\ j \in Nat BY <2>1, LenProperties
    <3>2. e \in Nat /\ lastId \in Nat BY <2>3, EventSets DEF On, GapInv
    <3>3. i < j \/ j < i BY <2>4, <3>1
    <3>4. e < e BY <2>1, <2>4, <3>3 DEF Gapless, Ordered
    <3> QED BY <3>2, <3>4
  <2>5. \A e \in log, old, new \in Lists!Events :
           old <= e /\ e <= new => e \in Lists!Events
    BY <2>1, <2>2, <2>3 DEF Gapless, Dense
  <2>6. list = "activity" /\ ~Lists!Last(pages).more =>
           \A e \in log, new \in Lists!Events : e <= new => e \in Lists!Events
    BY <1>2, <2>1, <2>2, <2>3 DEF Gapless, Ended, Lists!Last
  <2> QED BY <2>4, <2>5, <2>6
<1> QED BY <1>1, <1>2 DEF Lists!NoGaps

\* However events arrive and old ones are deleted between two pages, the
\* pages of the activity have no event twice and miss none between the newest
\* and the oldest they show (queries.go:345-402, ActivityPage.tsx:25-30).
THEOREM ActivityHasNoGaps == PageSpec => []NoGaps
<1>1. PageInit => GapInv BY InitGap DEF PageInit
<1> QED BY <1>1, NextGap, GapInvImplies, PTL DEF PageSpec

-----------------------------------------------------------------------------
(* The board                                                               *)

\* Consecutive pieces of a sequence, put together.
LEMMA Pieces ==
    ASSUME NEW S, NEW col \in Seq(S), NEW q \in Seq(Seq(S)), Len(q) # 0,
           NEW end \in [1 .. Len(q) -> 0 .. Len(col)],
           q[1] = SubSeq(col, 1, end[1]),
           \A i \in 2 .. Len(q) : /\ end[i - 1] <= end[i]
                                  /\ q[i] = SubSeq(col, end[i - 1] + 1, end[i])
    PROVE  Lists!FlattenSeq(q) = SubSeq(col, 1, end[Len(q)])
<1> DEFINE n == Len(q)
           Step(f) == [i \in 1 .. n |-> IF i = 1 THEN q[i] ELSE f[i - 1] \o q[i]]
           flat == CHOOSE f : f = Step(f)
           g == [i \in 1 .. n |-> SubSeq(col, 1, end[i])]
<1>1. n \in Nat /\ 1 \in 1 .. n /\ Len(col) \in Nat
  <2>1. n \in Nat /\ n # 0 /\ Len(col) \in Nat BY LenProperties
  <2> QED BY <2>1
<1>2. ASSUME NEW i \in 2 .. n
      PROVE  /\ i - 1 \in 1 .. n /\ i \in 1 .. n /\ i # 1
             /\ SubSeq(col, 1, end[i - 1]) \o q[i] = SubSeq(col, 1, end[i])
  <2>1. i - 1 \in 1 .. n /\ i \in 1 .. n /\ i # 1 BY <1>1, <1>2
  <2>2. q[i] = SubSeq(col, end[i - 1] + 1, end[i]) /\ end[i - 1] <= end[i] OBVIOUS
  <2>3. end[i - 1] \in 0 .. Len(col) /\ end[i] \in end[i - 1] .. Len(col)
    <3>1. end[i - 1] \in 0 .. Len(col) /\ end[i] \in 0 .. Len(col) BY <2>1
    <3> QED BY <1>1, <2>2, <3>1
  <2>4. 1 \in 1 .. Len(col) + 1 /\ end[i - 1] \in 1 - 1 .. Len(col) BY <1>1, <2>3
  <2>5. SubSeq(col, 1, end[i - 1]) \o SubSeq(col, end[i - 1] + 1, end[i])
           = SubSeq(col, 1, end[i])
    BY <2>3, <2>4, ConcatAdjacentSubSeq
  <2> QED BY <2>1, <2>2, <2>5
<1>3. g = Step(g)
  <2>1. ASSUME NEW i \in 1 .. n
        PROVE  g[i] = IF i = 1 THEN q[i] ELSE g[i - 1] \o q[i]
    <3>1. CASE i = 1 BY <3>1
    <3>2. CASE i # 1
      <4>1. i \in 2 .. n BY <1>1, <3>2
      <4>2. g[i] = SubSeq(col, 1, end[i]) OBVIOUS
      <4>3. i - 1 \in 1 .. n BY <1>2, <4>1
      <4>4. g[i - 1] = SubSeq(col, 1, end[i - 1]) BY <4>3
      <4> HIDE DEF g
      <4> QED BY <1>2, <3>2, <4>1, <4>2, <4>4
    <3> QED BY <3>1, <3>2
  <2> QED BY <2>1
<1>4. flat = Step(flat)
  <2> HIDE DEF g, Step
  <2> QED BY <1>3
<1>5. \A i \in 1 .. n : flat[i] = IF i = 1 THEN q[i] ELSE flat[i - 1] \o q[i]
  <2>1. \A i \in 1 .. n : Step(flat)[i] = IF i = 1 THEN q[i] ELSE flat[i - 1] \o q[i]
    <3> HIDE DEF flat
    <3> QED OBVIOUS
  <2> HIDE DEF flat, Step
  <2> QED BY <1>4, <2>1
<1>6. Lists!FlattenSeq(q) = flat[n] BY DEF Lists!FlattenSeq
<1>7. \A i \in 1 .. n : g[i] = SubSeq(col, 1, end[i]) OBVIOUS
<1> HIDE DEF flat, g
<1>8. \A i \in 1 .. n : flat[i] = g[i]
  <2> DEFINE Bad == {i \in 1 .. n : flat[i] # g[i]}
  <2> SUFFICES ASSUME Bad # {} PROVE FALSE
    OBVIOUS
  <2>1. Bad \in SUBSET (0 .. n)
    <3>1. 1 .. n \subseteq 0 .. n BY <1>1
    <3> QED BY <3>1
  <2>2. PICK b \in Bad : \A y \in Bad : b <= y
    <3> HIDE DEF Bad
    <3> QED BY <1>1, <2>1, LeastNatural
  <2>3. b \in 1 .. n /\ flat[b] # g[b] OBVIOUS
  <2>4. CASE b = 1 BY <1>1, <1>5, <1>7, <2>3, <2>4
  <2>5. CASE b # 1
    <3>1. b \in 2 .. n /\ b - 1 \in 1 .. n /\ ~(b <= b - 1) BY <1>1, <2>3, <2>5
    <3>2. flat[b - 1] = g[b - 1] BY <2>2, <3>1
    <3>3. flat[b] = g[b - 1] \o q[b] BY <1>5, <2>3, <2>5, <3>2
    <3> QED BY <1>2, <1>7, <2>3, <3>1, <3>3
  <2> QED BY <2>4, <2>5
<1>9. n \in 1 .. n BY <1>1
<1> QED BY <1>6, <1>7, <1>8, <1>9

\* A page as the column now gives it, and where it ends.
PageAt(col, from) ==
    [from |-> from, total |-> Len(col),
     items |-> SubSeq(col, from + 1, Lists!Min({from + Limit, Len(col)}))]
EndOf(p) == p.from + Len(p.items)

\* Pages as the column now gives them, each from where the one before ends.
Chain(pg, col) ==
    \A i \in DOMAIN pg :
        /\ pg[i].from \in 0 .. Len(col) /\ pg[i] = PageAt(col, pg[i].from)
        /\ pg[i].from = IF i = 1 THEN 0 ELSE EndOf(pg[i - 1])

\* What a fetch has and where it goes on.
FetchChain(got, param, total, col) ==
    /\ Chain(got, col) /\ total \in {None, Len(col)} /\ param \in 0 .. Len(col)
    /\ param = IF got = <<>> THEN 0 ELSE EndOf(got[Len(got)])

Past(r) == r.gen < gen \/ (r.gen = gen /\ r.rev <= rev)

BoardInv ==
    /\ GapInv
    /\ Past(seen) /\ (poll # None => Past(poll))
    /\ list = "board" => pages # None
    /\ list = "board" /\ seen = Lists!Revisions =>
          /\ fetch # None => FetchChain(fetch.got, fetch.param, fetch.total, column)
          /\ fetch = None \/ fetch.more => Chain(pages, column)

LEMMA PageEnd ==
    ASSUME NEW S, NEW col \in Seq(S), NEW from \in 0 .. Len(col)
    PROVE  LET p == PageAt(col, from)
           IN  /\ EndOf(p) \in from .. Len(col) /\ p.from = from /\ p.total = Len(col)
               /\ p.items = SubSeq(col, from + 1, EndOf(p))
               /\ p.items \in Seq(S)
<1> DEFINE p == PageAt(col, from)
           end == Lists!Min({from + Limit, Len(col)})
<1>1. Len(col) \in Nat /\ from \in Nat /\ from <= Len(col) BY LenProperties
<1>2. Limit \in Nat /\ Limit > 0 BY SizesAreNaturals
<1>3. end \in from .. Len(col)
  <2>1. from + Limit \in Nat BY <1>1, <1>2
  <2>2. end = IF from + Limit <= Len(col) THEN from + Limit ELSE Len(col)
    BY <1>1, <2>1, MaxOfTwo
  <2> HIDE DEF end
  <2> QED BY <1>1, <1>2, <2>1, <2>2
<1>4. p.from = from /\ p.total = Len(col) /\ p.items = SubSeq(col, from + 1, end)
  BY DEF PageAt
<1> HIDE DEF end, p
<1>5. SubSeq(col, from + 1, end) \in Seq(S) /\ Len(SubSeq(col, from + 1, end)) = end - from
  <2>1. \A j \in (from + 1) .. end : col[j] \in S
    <3>1. \A j \in (from + 1) .. end : j \in 1 .. Len(col) BY <1>1, <1>3
    <3> QED BY <3>1, ElementOfSeq
  <2>2. /\ SubSeq(col, from + 1, end) \in Seq(S)
        /\ Len(SubSeq(col, from + 1, end))
             = IF from + 1 <= end THEN end - (from + 1) + 1 ELSE 0
    <3>1. from + 1 \in Int /\ end \in Int BY <1>1, <1>3
    <3> QED BY <2>1, <3>1, SubSeqProperties
  <2> QED BY <1>1, <1>3, <2>2
<1>6. EndOf(p) = end BY <1>1, <1>3, <1>4, <1>5 DEF EndOf
<1> QED BY <1>3, <1>4, <1>5, <1>6 DEF p

LEMMA ChainOnward ==
    ASSUME NEW S, NEW col \in Seq(S), NEW P, NEW got \in Seq(P), NEW p \in P, NEW param,
           NEW total, FetchChain(got, param, total, col), p = PageAt(col, param)
    PROVE  Chain(Append(got, p), col)
<1> DEFINE pg == Append(got, p)
<1>1. /\ Len(got) \in Nat /\ DOMAIN got = 1 .. Len(got) /\ pg \in Seq(P)
      /\ Len(pg) = Len(got) + 1
      /\ \A i \in 1 .. Len(got) : pg[i] = got[i]
      /\ pg[Len(got) + 1] = p
  BY LenProperties, AppendProperties
<1>2. DOMAIN pg = 1 .. Len(got) + 1 BY <1>1, LenProperties
<1> HIDE DEF pg
<1>3. param \in 0 .. Len(col) /\ p.from = param BY PageEnd DEF FetchChain
<1> SUFFICES ASSUME NEW i \in DOMAIN pg
             PROVE  /\ pg[i].from \in 0 .. Len(col) /\ pg[i] = PageAt(col, pg[i].from)
                    /\ pg[i].from = IF i = 1 THEN 0 ELSE EndOf(pg[i - 1])
  BY DEF Chain, pg
<1>4. CASE i \in 1 .. Len(got)
  <2>1. pg[i] = got[i] /\ (i # 1 => pg[i - 1] = got[i - 1]) BY <1>1, <1>4
  <2> QED BY <1>1, <1>4, <2>1 DEF FetchChain, Chain
<1>5. CASE i = Len(got) + 1
  <2>1. pg[i] = p BY <1>1, <1>5
  <2>2. param = IF i = 1 THEN 0 ELSE EndOf(pg[i - 1])
    <3>1. CASE got = <<>>
      <4>1. i = 1 /\ param = 0 BY <1>5, <3>1, EmptySeq DEF FetchChain
      <4> QED BY <4>1
    <3>2. CASE got # <<>>
      <4>1. Len(got) # 0 BY <3>2, EmptySeq
      <4>2. i # 1 /\ i - 1 = Len(got) /\ pg[i - 1] = got[Len(got)] BY <1>1, <1>5, <4>1
      <4> QED BY <3>2, <4>2 DEF FetchChain
    <3> QED BY <3>1, <3>2
  <2> QED BY <1>3, <2>1, <2>2
<1> QED BY <1>1, <1>2, <1>4, <1>5

\* Such pages show the column up to where the last one ends.
LEMMA ChainShows ==
    ASSUME StoreTypes, list = "board", pages \in Seq(Lists!BoardPages), pages # <<>>,
           Chain(pages, column)
    PROVE  Lists!Exact
<1> DEFINE col == column
           n == Len(pages)
           end == [i \in 1 .. n |-> EndOf(pages[i])]
           q == [i \in DOMAIN pages |-> pages[i].items]
<1>1. n \in Nat /\ n >= 1 /\ DOMAIN pages = 1 .. n /\ 1 \in 1 .. n /\ n \in 1 .. n
  <2>1. n \in Nat /\ n # 0 /\ DOMAIN pages = 1 .. n BY LenProperties, EmptySeq
  <2> QED BY <2>1
<1>2. col \in Seq(Lists!Rows) /\ Len(col) \in Nat BY LenProperties DEF StoreTypes
<1>3. ASSUME NEW i \in 1 .. n
      PROVE  /\ pages[i].from \in 0 .. Len(col)
             /\ EndOf(pages[i]) \in pages[i].from .. Len(col)
             /\ pages[i].total = Len(col)
             /\ pages[i].items = SubSeq(col, pages[i].from + 1, EndOf(pages[i]))
             /\ pages[i].items \in Seq(Lists!Rows)
             /\ pages[i].from = IF i = 1 THEN 0 ELSE EndOf(pages[i - 1])
  <2>1. /\ pages[i].from \in 0 .. Len(col) /\ pages[i] = PageAt(col, pages[i].from)
        /\ pages[i].from = IF i = 1 THEN 0 ELSE EndOf(pages[i - 1])
    BY <1>1 DEF Chain
  <2> DEFINE from == pages[i].from
             p == PageAt(col, from)
  <2>2. from \in 0 .. Len(col) /\ pages[i] = p BY <2>1
  <2> HIDE DEF col, from
  <2>3. /\ EndOf(p) \in from .. Len(col) /\ p.total = Len(col)
        /\ p.items = SubSeq(col, from + 1, EndOf(p)) /\ p.items \in Seq(Lists!Rows)
    BY <1>2, <2>2, PageEnd
  <2> HIDE DEF p
  <2> QED BY <2>1, <2>2, <2>3 DEF from
<1>4. /\ q \in Seq(Seq(Lists!Rows)) /\ Len(q) = n
      /\ \A i \in 1 .. n : q[i] = pages[i].items
  <2>1. q = [i \in 1 .. n |-> pages[i].items] BY <1>1
  <2>2. \A i \in 1 .. n : pages[i].items \in Seq(Lists!Rows) BY <1>3
  <2> HIDE DEF q, n
  <2>3. q \in Seq(Seq(Lists!Rows)) BY <1>1, <2>1, <2>2
  <2>4. Len(q) = n
    <3>1. DOMAIN q = 1 .. n /\ DOMAIN q = 1 .. Len(q) /\ Len(q) \in Nat
      BY <2>1, <2>3, LenProperties
    <3> QED BY <1>1, <3>1
  <2> QED BY <2>1, <2>3, <2>4
<1>5. /\ end \in [1 .. n -> 0 .. Len(col)]
      /\ \A i \in 1 .. n : end[i] = EndOf(pages[i])
  <2>1. \A i \in 1 .. n : EndOf(pages[i]) \in 0 .. Len(col)
    <3> SUFFICES ASSUME NEW i \in 1 .. n PROVE EndOf(pages[i]) \in 0 .. Len(col)
      OBVIOUS
    <3>1. /\ pages[i].from \in 0 .. Len(col)
          /\ EndOf(pages[i]) \in pages[i].from .. Len(col)
      BY <1>3
    <3> QED BY <1>2, <3>1
  <2> QED BY <2>1
<1> HIDE DEF q, end, n
<1>6. q[1] = SubSeq(col, 1, end[1])
  <2>1. pages[1].from = 0 /\ pages[1].items = SubSeq(col, pages[1].from + 1, EndOf(pages[1]))
    BY <1>1, <1>3
  <2> QED BY <1>1, <1>4, <1>5, <2>1
<1>7. ASSUME NEW i \in 2 .. n
      PROVE  end[i - 1] <= end[i] /\ q[i] = SubSeq(col, end[i - 1] + 1, end[i])
  <2>1. i \in 1 .. n /\ i - 1 \in 1 .. n /\ i # 1 BY <1>1, <1>7
  <2>2. pages[i].from = end[i - 1] BY <1>3, <1>5, <2>1
  <2>3. end[i] \in pages[i].from .. Len(col) BY <1>3, <1>5, <2>1
  <2>4. q[i] = SubSeq(col, pages[i].from + 1, end[i])
    <3>1. q[i] = pages[i].items /\ end[i] = EndOf(pages[i]) BY <1>4, <1>5, <2>1
    <3>2. pages[i].items = SubSeq(col, pages[i].from + 1, EndOf(pages[i])) BY <1>3, <2>1
    <3> QED BY <3>1, <3>2
  <2>5. end[i - 1] \in 0 .. Len(col) /\ end[i] \in 0 .. Len(col) BY <1>5, <2>1
  <2> QED BY <1>2, <2>2, <2>3, <2>4, <2>5
<1>8. Lists!Shown = SubSeq(col, 1, end[n])
  <2>1. Len(q) # 0 /\ end \in [1 .. Len(q) -> 0 .. Len(col)] BY <1>1, <1>4, <1>5
  <2>2. \A i \in 2 .. Len(q) : /\ end[i - 1] <= end[i]
                               /\ q[i] = SubSeq(col, end[i - 1] + 1, end[i])
    BY <1>4, <1>7
  <2>3. Lists!FlattenSeq(q) = SubSeq(col, 1, end[Len(q)])
    <3> HIDE DEF col
    <3> QED BY <1>2, <1>4, <1>6, <2>1, <2>2, Pieces
  <2> QED BY <1>4, <2>3 DEF Lists!Shown, q
<1>9. end[n] \in 0 .. Len(col) /\ end[n] = EndOf(pages[n]) BY <1>1, <1>5
<1>10. /\ Len(Lists!Shown) = end[n]
       /\ \A i \in 1 .. end[n] : Lists!Shown[i] = col[i]
       /\ Lists!Shown \in Seq(Lists!Rows)
  <2>1. \A j \in 1 .. end[n] : col[j] \in Lists!Rows
    <3>1. \A j \in 1 .. end[n] : j \in 1 .. Len(col) BY <1>2, <1>9
    <3> QED BY <1>2, <3>1, ElementOfSeq
  <2> DEFINE s == SubSeq(col, 1, end[n])
  <2>2. /\ s \in Seq(Lists!Rows)
        /\ Len(s) = IF 1 <= end[n] THEN end[n] - 1 + 1 ELSE 0
        /\ \A i \in 1 .. end[n] - 1 + 1 : s[i] = col[1 + i - 1]
    <3>1. 1 \in Int /\ end[n] \in Int BY <1>2, <1>9
    <3> HIDE DEF col
    <3> QED BY <2>1, <3>1, SubSeqProperties
  <2> HIDE DEF s
  <2>3. Len(s) = end[n] BY <1>2, <1>9, <2>2
  <2>4. \A i \in 1 .. end[n] : i \in 1 .. end[n] - 1 + 1 /\ 1 + i - 1 = i BY <1>2, <1>9
  <2> QED BY <1>8, <2>2, <2>3, <2>4 DEF s
<1>11. Lists!IsPrefix(Lists!Shown, column)
  <2>1. SubSeq(Lists!Shown, 1, Len(Lists!Shown)) = Lists!Shown BY <1>10, SubSeqFull
  <2>2. Len(Lists!Shown) <= Len(column) BY <1>2, <1>9, <1>10
  <2> QED BY <1>8, <1>10, <2>1, <2>2 DEF Lists!IsPrefix
<1>12. pages[1].total = Len(column) BY <1>1, <1>3
<1>13. ASSUME Lists!NextParam(Lists!Last(pages)) = None PROVE Lists!Shown = column
  <2>1. Lists!Last(pages) = pages[n] BY DEF Lists!Last, n
  <2>2. Lists!NextParam(pages[n])
          = IF EndOf(pages[n]) < pages[n].total THEN EndOf(pages[n]) ELSE None
    BY DEF Lists!NextParam, EndOf
  <2>3. pages[n].total = Len(col) BY <1>1, <1>3
  <2>4. EndOf(pages[n]) # None BY <1>2, <1>9, NoneIsNothing
  <2>5. ~(end[n] < Len(col)) BY <1>9, <1>13, <2>1, <2>2, <2>3, <2>4
  <2>6. end[n] = Len(col) BY <1>2, <1>9, <2>5
  <2> QED BY <1>2, <1>8, <2>6, SubSeqFull
<1> QED BY <1>11, <1>12, <1>13 DEF Lists!Exact

\* A change of the store makes the page's revisions old.
LEMMA WriteBoard == ASSUME BoardInv, GapInv', Lists!Writing PROVE BoardInv'
<1>1. /\ UNCHANGED <<list, pages, fetch, poll, seen>>
      /\ \/ gen' = gen /\ rev' = rev + 1
         \/ gen' = gen + 1
  BY DEF Lists!Writing, Lists!WriteTask, Lists!WriteActivity, Lists!Recreate,
         Lists!Transaction
<1>2. gen \in Nat /\ rev \in Nat /\ seen \in Lists!Polls /\ poll \in Lists!Polls \cup {None}
  BY DEF BoardInv, GapInv, StoreTypes, ReaderTypes
<1>3. ASSUME NEW r \in Lists!Polls, Past(r)
      PROVE  /\ r.gen < gen' \/ (r.gen = gen' /\ r.rev <= rev')
             /\ r # [gen |-> gen', rev |-> rev']
  <2>1. r.gen \in Nat /\ r.rev \in Nat BY DEF Lists!Polls
  <2>2. r.gen < gen' \/ (r.gen = gen' /\ r.rev < rev') BY <1>1, <1>2, <1>3, <2>1 DEF Past
  <2>3. gen' \in Nat BY <1>1, <1>2
  <2>4. r.gen # gen' \/ r.rev # rev'
    <3>1. CASE r.gen < gen' BY <2>1, <2>3, <3>1
    <3>2. CASE r.gen = gen' /\ r.rev < rev'
      <4>1. rev' = rev + 1 \/ gen' = gen + 1 BY <1>1
      <4>2. CASE rev' = rev + 1 BY <1>2, <2>1, <3>2, <4>2
      <4>3. CASE gen' = gen + 1 BY <1>2, <1>3, <2>1, <3>2, <4>3 DEF Past
      <4> QED BY <4>1, <4>2, <4>3
    <3> QED BY <2>2, <3>1, <3>2
  <2>5. r # [gen |-> gen', rev |-> rev'] BY <2>4
  <2>6. r.gen < gen' \/ (r.gen = gen' /\ r.rev <= rev')
    <3>1. CASE r.gen < gen' BY <3>1
    <3>2. CASE r.gen = gen' /\ r.rev < rev'
      <4>1. CASE rev' = rev + 1 BY <1>2, <2>1, <3>2, <4>1
      <4>2. CASE gen' = gen + 1 BY <1>2, <1>3, <2>1, <3>2, <4>2 DEF Past
      <4> QED BY <1>1, <4>1, <4>2
    <3> QED BY <2>2, <3>1, <3>2
  <2> QED BY <2>5, <2>6
<1>4. Past(seen)' /\ (poll' # None => Past(poll)') BY <1>1, <1>2, <1>3 DEF BoardInv, Past
<1>5. ~(seen = Lists!Revisions)' BY <1>1, <1>2, <1>3 DEF BoardInv, Lists!Revisions
<1> QED BY <1>1, <1>4, <1>5 DEF BoardInv

\* The rest of the invariant, for a step that leaves the store alone.
LEMMA ReadBoard ==
    ASSUME BoardInv, GapInv', UNCHANGED <<list, column, gen, rev, poll, seen>>,
           list = "board" => pages' # None,
           list = "board" /\ seen = Lists!Revisions =>
              /\ fetch' # None =>
                    FetchChain(fetch'.got, fetch'.param, fetch'.total, column)
              /\ fetch' = None \/ fetch'.more => Chain(pages', column)
    PROVE  BoardInv'
<1>1. Past(seen)' /\ (poll' # None => Past(poll)') BY DEF BoardInv, Past
<1>2. (seen = Lists!Revisions)' <=> seen = Lists!Revisions BY DEF Lists!Revisions
<1> QED BY <1>1, <1>2 DEF BoardInv

\* A page of the board has been selected.
LEMMA SelectBoard == ASSUME BoardInv, GapInv', Lists!SelectTasks PROVE BoardInv'
<1> DEFINE p == Lists!BoardPage(fetch.param, fetch.total)
           got == Append(fetch.got, p)
<1>1. list = "board" /\ fetch # None /\ fetch.total # None /\ Lists!Answered(p)
  BY DEF Lists!SelectTasks
<1>2. /\ fetch.got \in Seq(Lists!BoardPages) /\ fetch.param \in Nat /\ fetch.total \in Nat
      /\ column \in Seq(Lists!Rows) /\ StoreTypes
  BY <1>1, FetchFields DEF BoardInv, GapInv, StoreTypes, Lists!Page
<1>3. p \in Lists!BoardPages BY <1>1, <1>2, BoardPageType DEF Lists!Page
<1>4. /\ UNCHANGED <<list, column, gen, rev, poll, seen>>
      /\ \/ pages' = got /\ fetch' = None
         \/ /\ Lists!NextParam(p) # None /\ UNCHANGED pages
            /\ fetch' = [fetch EXCEPT !.got = got, !.param = Lists!NextParam(p), !.total = None]
  BY <1>1 DEF Lists!Answered, Lists!store
<1>5. got \in Seq(Lists!BoardPages) /\ Len(got) \in Nat /\ got # <<>> /\ got[Len(got)] = p
  <2> HIDE DEF p
  <2> QED BY <1>2, <1>3, AppendProperties, LenProperties
<1>6. list = "board" => pages' # None
  <2>1. None \notin Seq(Lists!BoardPages) BY <1>1, NoneIsNothing DEF Lists!Page
  <2> HIDE DEF got
  <2> QED BY <1>4, <1>5, <2>1 DEF BoardInv
<1>7. ASSUME seen = Lists!Revisions
      PROVE  /\ fetch' # None =>
                   FetchChain(fetch'.got, fetch'.param, fetch'.total, column)
             /\ fetch' = None \/ fetch'.more => Chain(pages', column)
  <2>1. /\ FetchChain(fetch.got, fetch.param, fetch.total, column)
        /\ fetch.more => Chain(pages, column)
    BY <1>1, <1>7 DEF BoardInv
  <2>2. fetch.total = Len(column) /\ fetch.param \in 0 .. Len(column)
    BY <1>1, <2>1 DEF FetchChain
  <2>3. p = PageAt(column, fetch.param) BY <2>2 DEF Lists!BoardPage, PageAt
  <2>4. EndOf(p) \in 0 .. Len(column) /\ p.total = Len(column) /\ p.from = fetch.param
    <3> DEFINE from == fetch.param
             sheet == PageAt(column, from)
    <3>1. EndOf(sheet) \in from .. Len(column) /\ sheet.total = Len(column) /\ sheet.from = from
      <4> HIDE DEF from
      <4>1. from \in 0 .. Len(column) BY <2>2 DEF from
      <4> QED BY <1>2, <4>1, PageEnd
    <3>2. Len(column) \in Nat BY <1>2, LenProperties
    <3> HIDE DEF p
    <3> QED BY <2>2, <2>3, <3>1, <3>2
  <2>5. Chain(got, column)
    <3> HIDE DEF p
    <3> QED BY <1>2, <1>3, <2>1, <2>3, ChainOnward
  <2>6. CASE pages' = got /\ fetch' = None BY <2>5, <2>6
  <2>7. CASE /\ Lists!NextParam(p) # None /\ UNCHANGED pages
             /\ fetch' = [fetch EXCEPT !.got = got, !.param = Lists!NextParam(p),
                                       !.total = None]
    <3>1. Lists!NextParam(p) = EndOf(p)
      <4>1. Lists!NextParam(p) = IF EndOf(p) < p.total THEN EndOf(p) ELSE None
        BY <1>1 DEF Lists!NextParam, EndOf
      <4> HIDE DEF p
      <4> QED BY <2>7, <4>1
    <3>2. /\ fetch'.got = got /\ fetch'.param = EndOf(p) /\ fetch'.total = None
          /\ fetch'.more = fetch.more
          /\ fetch' = [got |-> got, want |-> fetch.want, param |-> EndOf(p), total |-> None,
                       more |-> fetch.more]
      <4> DEFINE f == fetch
                 param == Lists!NextParam(p)
      <4>1. f = [got |-> f.got, want |-> f.want, param |-> f.param, total |-> f.total,
                 more |-> f.more]
        BY <1>1, FetchFields DEF BoardInv, GapInv
      <4>2. fetch' = [f EXCEPT !.got = got, !.param = param, !.total = None] BY <2>7
      <4> HIDE DEF f, param, got
      <4>3. fetch' = [[got |-> f.got, want |-> f.want, param |-> f.param, total |-> f.total,
                       more |-> f.more] EXCEPT !.got = got, !.param = param, !.total = None]
        BY <4>1, <4>2
      <4>4. /\ fetch'.got = got /\ fetch'.param = param /\ fetch'.total = None
            /\ fetch'.more = f.more
            /\ fetch' = [got |-> got, want |-> f.want, param |-> param, total |-> None,
                         more |-> f.more]
        BY <4>3
      <4> QED BY <3>1, <4>4 DEF f, param
    <3> HIDE DEF p, got
    <3>3. FetchChain(fetch'.got, fetch'.param, fetch'.total, column)
      BY <1>5, <2>4, <2>5, <3>2 DEF FetchChain
    <3>4. fetch' # None
      <4>1. /\ got \in Seq(Lists!Page) /\ fetch.want \in Nat \ {0} /\ EndOf(p) \in Nat
            /\ fetch.more \in BOOLEAN
        BY <1>1, <1>2, <1>5, <2>4, FetchFields DEF BoardInv, GapInv, Lists!Page
      <4>2. fetch' \in Lists!Fetches(Lists!Page) BY <3>2, <4>1 DEF Lists!Fetches
      <4> QED BY <4>2, NoneIsNothing
    <3> QED BY <2>1, <2>7, <3>2, <3>3, <3>4
  <2> HIDE DEF p, got
  <2> QED BY <1>4, <2>6, <2>7
<1> HIDE DEF p, got
<1> QED BY <1>4, <1>6, <1>7, ReadBoard

LEMMA FirstFetch ==
    ASSUME column \in Seq(Lists!Rows)
    PROVE  Chain(<<>>, column) /\ FetchChain(<<>>, 0, None, column)
<1>1. Len(column) \in Nat BY LenProperties
<1>2. Chain(<<>>, column) BY DEF Chain
<1>3. 0 \in 0 .. Len(column) BY <1>1
<1> QED BY <1>2, <1>3 DEF FetchChain

LEMMA RefetchBoard ==
    ASSUME BoardInv, GapInv', fetch' = Lists!Refetch,
           UNCHANGED <<list, column, gen, rev, pages>>,
           Past(seen'), poll' # None => Past(poll')
    PROVE  BoardInv'
<1>1. /\ fetch' # None /\ fetch'.got = <<>> /\ fetch'.param = 0
      /\ fetch'.total = None /\ fetch'.more = FALSE
  BY RefetchTypes, NoneIsNothing DEF BoardInv
<1>2. FetchChain(fetch'.got, fetch'.param, fetch'.total, column)
  BY <1>1, FirstFetch DEF BoardInv, GapInv, StoreTypes
<1>3. Past(seen)' /\ (poll' # None => Past(poll)') BY DEF Past
<1> QED BY <1>1, <1>2, <1>3 DEF BoardInv

\* More pages are asked for, behind those the list shows.
LEMMA LoadMoreBoard ==
    ASSUME BoardInv, GapInv', ~LoadsDuringRefetch, Lists!LoadMore PROVE BoardInv'
<1> DEFINE last == Lists!Last(pages)
           param == Lists!NextParam(last)
<1>1. /\ pages # None /\ param # None /\ fetch = None
      /\ fetch'.got = pages /\ fetch'.param = param /\ fetch'.total = None
      /\ UNCHANGED <<list, column, gen, rev, pages, poll, seen>>
  BY DEF Lists!LoadMore, Lists!store
<1>2. ASSUME list = "board", seen = Lists!Revisions
      PROVE  /\ FetchChain(fetch'.got, fetch'.param, fetch'.total, column)
             /\ Chain(pages', column)
  <2>1. Chain(pages, column) BY <1>1, <1>2 DEF BoardInv
  <2>2. /\ pages \in Seq(Lists!Page) /\ pages # <<>> /\ column \in Seq(Lists!Rows)
    BY <1>1, <1>2 DEF BoardInv, GapInv, ReaderTypes, StoreTypes
  <2>3. Len(pages) \in DOMAIN pages /\ last = pages[Len(pages)]
    BY <2>2, EmptySeq, LenProperties DEF Lists!Last
  <2>4. last.from \in 0 .. Len(column) /\ last = PageAt(column, last.from)
    <3> HIDE DEF last
    <3> QED BY <2>1, <2>3 DEF Chain
  <2>5. EndOf(last) \in 0 .. Len(column)
    <3> DEFINE from == last.from
             sheet == PageAt(column, from)
    <3>1. from \in 0 .. Len(column) /\ last = sheet BY <2>4
    <3> HIDE DEF from, last
    <3>2. EndOf(sheet) \in from .. Len(column) BY <2>2, <3>1, PageEnd
    <3>3. Len(column) \in Nat BY <2>2, LenProperties
    <3> HIDE DEF sheet
    <3> QED BY <3>1, <3>2, <3>3
  <2>6. param = EndOf(last)
    <3>1. param = IF EndOf(last) < last.total THEN EndOf(last) ELSE None
      BY <1>2 DEF Lists!NextParam, EndOf
    <3> HIDE DEF last, param
    <3> QED BY <1>1, <3>1
  <2> HIDE DEF last, param
  <2> QED BY <1>1, <2>1, <2>2, <2>3, <2>5, <2>6 DEF FetchChain
<1> QED BY <1>1, <1>2, ReadBoard

LEMMA PollBoard == ASSUME BoardInv, GapInv', Lists!Polling PROVE BoardInv'
<1>1. CASE Lists!PollRead
  <2>1. /\ poll' = [gen |-> gen, rev |-> rev]
        /\ UNCHANGED <<list, column, gen, rev, pages, fetch, seen>>
    BY <1>1 DEF Lists!PollRead, Lists!store, Lists!Revisions
  <2>2. gen \in Nat /\ rev \in Nat BY DEF BoardInv, GapInv, StoreTypes
  <2>3. Past(seen)' /\ Past(poll)' BY <2>1, <2>2 DEF BoardInv, Past
  <2>4. (seen = Lists!Revisions)' <=> seen = Lists!Revisions BY <2>1 DEF Lists!Revisions
  <2> QED BY <2>1, <2>3, <2>4 DEF BoardInv
<1>2. CASE Lists!PollDeliver
  <2>1. /\ poll # None /\ Lists!React /\ seen' = poll /\ poll' = None
        /\ UNCHANGED <<list, column, gen, rev>>
    BY <1>2 DEF Lists!PollDeliver, Lists!store
  <2>2. Past(seen') /\ Past(seen)' BY <2>1 DEF BoardInv, Past
  <2>3. CASE list # "board" BY <2>1, <2>2, <2>3 DEF BoardInv
  <2>4. CASE list = "board" /\ poll = seen
    <3>1. UNCHANGED <<pages, fetch>> BY <2>1, <2>4 DEF Lists!React
    <3>2. (seen = Lists!Revisions)' <=> seen = Lists!Revisions
      BY <2>1, <2>4 DEF Lists!Revisions
    <3> QED BY <2>1, <2>2, <3>1, <3>2 DEF BoardInv
  <2>5. CASE list = "board" /\ poll # seen
    <3>1. fetch' = Lists!Refetch /\ UNCHANGED pages BY <2>1, <2>5 DEF Lists!React, BoardInv
    <3> QED BY <2>1, <2>2, <3>1, RefetchBoard
  <2> QED BY <2>3, <2>4, <2>5
<1> QED BY <1>1, <1>2 DEF Lists!Polling

LEMMA NextBoard ==
    ASSUME ~LoadsDuringRefetch
    PROVE  BoardInv /\ [PageNext]_pageVars => BoardInv'
<1> SUFFICES ASSUME BoardInv, [PageNext]_pageVars PROVE BoardInv'
  OBVIOUS
<1>0. GapInv' BY NextGap DEF BoardInv
<1>1. CASE Lists!Writing BY <1>0, <1>1, WriteBoard
<1>2. CASE Lists!ReadActivity \/ Lists!Follow
  <2>1. list # "board" /\ UNCHANGED <<list, column, gen, rev, poll, seen>>
    BY <1>2 DEF Lists!ReadActivity, Lists!Answered, Lists!Follow, Lists!store
  <2> QED BY <1>0, <2>1, ReadBoard
<1>3. CASE Lists!CountTasks
  <2>1. /\ list = "board" /\ fetch # None /\ fetch' = [fetch EXCEPT !.total = Len(column)]
        /\ UNCHANGED <<list, column, gen, rev, pages, poll, seen>>
    BY <1>3 DEF Lists!CountTasks, Lists!store
  <2>2. fetch \in Lists!Fetches(Lists!Page) BY <2>1 DEF BoardInv, GapInv, ReaderTypes
  <2>3. /\ fetch'.got = fetch.got /\ fetch'.param = fetch.param
        /\ fetch'.total = Len(column) /\ fetch'.more = fetch.more
    BY <2>1, <2>2 DEF Lists!Fetches
  <2>4. fetch' # None
    <3>1. Len(column) \in Nat BY LenProperties DEF BoardInv, GapInv, StoreTypes
    <3>2. fetch' \in Lists!Fetches(Lists!Page) BY <2>1, <2>2, <3>1 DEF Lists!Fetches
    <3> QED BY <3>2, NoneIsNothing
  <2>5. ASSUME seen = Lists!Revisions
        PROVE  /\ FetchChain(fetch'.got, fetch'.param, fetch'.total, column)
               /\ fetch'.more => Chain(pages', column)
    BY <2>1, <2>3, <2>5 DEF BoardInv, FetchChain
  <2> QED BY <1>0, <2>1, <2>4, <2>5, ReadBoard DEF BoardInv
<1>4. CASE Lists!SelectTasks BY <1>0, <1>4, SelectBoard
<1>5. CASE Lists!LoadMore BY <1>0, <1>5, LoadMoreBoard
<1>6. CASE Lists!Focus
  <2>1. /\ fetch' = Lists!Refetch
        /\ UNCHANGED <<list, column, gen, rev, pages, poll, seen>>
    BY <1>6 DEF Lists!Focus, Lists!store
  <2> QED BY <1>0, <2>1, RefetchBoard DEF BoardInv
<1>7. CASE Lists!Polling BY <1>0, <1>7, PollBoard
<1>8. CASE UNCHANGED listVars
  BY <1>0, <1>8, ReadBoard DEF listVars, BoardInv
<1> QED
  BY <1>1, <1>2, <1>3, <1>4, <1>5, <1>6, <1>7, <1>8
     DEF PageNext, Operating, Listing, pageVars, Lists!Next, Lists!Reading

LEMMA InitBoard == ASSUME Lists!Init PROVE BoardInv
<1>1. /\ GapInv /\ gen = 0 /\ rev = 0 /\ fetch = None /\ poll = None
      /\ seen = Lists!Revisions
  BY InitGap DEF Lists!Init
<1>2. Past(seen) BY <1>1 DEF Past, Lists!Revisions
<1>3. ASSUME list = "board" PROVE pages # None /\ Chain(pages, column)
  <2> DEFINE p == Lists!BoardPage(0, Len(column))
  <2>1. pages = <<p>> BY <1>3 DEF Lists!Init
  <2>2. column \in Seq(Lists!Rows) /\ StoreTypes /\ Len(column) \in Nat
    BY <1>1, LenProperties DEF GapInv, StoreTypes
  <2>3. p \in Lists!BoardPages BY <1>3, <2>2, BoardPageType DEF Lists!Page
  <2>4. p = PageAt(column, 0) BY DEF Lists!BoardPage, PageAt
  <2> HIDE DEF p
  <2>5. pages = Append(<<>>, p) BY <2>1
  <2>6. <<>> \in Seq(Lists!BoardPages) BY EmptySeq
  <2>7. Chain(Append(<<>>, p), column) BY <2>2, <2>3, <2>4, <2>6, FirstFetch, ChainOnward
  <2>8. pages \in Seq(Lists!BoardPages) BY <2>3, <2>5, <2>6, AppendProperties
  <2>9. pages # None BY <1>3, <2>8, NoneIsNothing DEF Lists!Page
  <2> QED BY <2>5, <2>7, <2>9
<1> QED BY <1>1, <1>2, <1>3 DEF BoardInv

LEMMA BoardInvImplies == BoardInv => BoardIsExact
<1> SUFFICES ASSUME BoardInv, list = "board", seen = Lists!Revisions,
                    ~(fetch # None /\ ~fetch.more)
             PROVE  Lists!Exact
  BY DEF BoardIsExact, Lists!BoardIsExact
<1>1. Chain(pages, column) BY DEF BoardInv
<1>2. /\ StoreTypes /\ pages \in Seq(Lists!BoardPages) /\ pages # <<>>
  BY DEF BoardInv, GapInv, ReaderTypes, Lists!Page
<1> QED BY <1>1, <1>2, ChainShows

\* A column of the board shows every task of its pages once, in order and as
\* it is, unless a refetch is under way or the page has still to learn of a
\* change, whatever moves between two pages or between the count and the
\* select (queries.go:55-60, TasksPage.tsx:46-64); as long as nobody asks for
\* more while a refetch is under way.
THEOREM BoardStaysExact == ~LoadsDuringRefetch => (PageSpec => []BoardIsExact)
<1> SUFFICES ASSUME ~LoadsDuringRefetch PROVE PageSpec => []BoardIsExact
  OBVIOUS
<1>1. PageInit => BoardInv BY InitBoard DEF PageInit
<1> QED BY <1>1, NextBoard, BoardInvImplies, PTL DEF PageSpec

=============================================================================
