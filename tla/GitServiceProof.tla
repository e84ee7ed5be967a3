----------------------------- MODULE GitServiceProof -----------------------------
(***************************************************************************)
(* Machine-checked proofs about the Git services: pushes, the cache of     *)
(* diffs, snapshots.                                                       *)
(*                                                                         *)
(* A behaviour of the process is one of each of the three (Parts), so that *)
(* each is proved from an invariant of its own:                            *)
(*                                                                         *)
(*   PushInv        what a push wants only grows with the branch, its ref  *)
(*                  is the upstream of the branch it read;                 *)
(*   CacheInv       a load and its entry belong together (LoadInv);        *)
(*   FreshCacheInv  a hash tells the trees since (HashInv), keys are of    *)
(*                  the past (KeyInv), and an answer is fresh for whoever  *)
(*                  has asked with its key or may still ask (FreshFor);    *)
(*   SlotInv        which results of worktrees there may be where a        *)
(*                  snapshot stands, with the count of the slots;          *)
(*   SnapInv        how exact a snapshot is so far if the repository has   *)
(*                  been in one state since it began (Progress).           *)
(***************************************************************************)
EXTENDS GitService, FiniteSetTheorems, WellFoundedInduction, TLAPS

LEMMA Parts ==
    /\ ServiceInit => Init /\ Pushes!Init /\ Diffs!Init
    /\ [ServiceNext]_serviceVars =>
          [Next]_vars /\ [Pushes!Next]_(Pushes!vars) /\ [Diffs!Next]_(Diffs!vars)
  <1>1. ServiceInit => Init /\ Pushes!Init /\ Diffs!Init
    BY DEF ServiceInit, NoSnapshots, NoPushes, NoDiffs
  <1>2. UNCHANGED pushVars => UNCHANGED Pushes!vars
    BY DEF pushVars, Pushes!vars, Pushes!repository
  <1>3. UNCHANGED cacheVars => UNCHANGED Diffs!vars
    BY DEF cacheVars, Diffs!vars, Diffs!tree, Diffs!db
  <1>4. QED
    BY <1>1, <1>2, <1>3 DEF ServiceNext, Snapshotting, Diffing, serviceVars

-----------------------------------------------------------------------------
(* Pushes.                                                                 *)

PushRecords == [phase : {"idle", "upstream", "push", "answered"},
                branch : Branches \cup {None}, ref : Refs \cup {None},
                answer : Pushes!Errors \cup {"pushed", None},
                wanted : SUBSET Nat, switched : BOOLEAN]

PushTypes ==
    /\ Pushes!TypeOK
    /\ upstream \in [Branches -> Refs \cup {None}]
    /\ push \in [Pushers -> PushRecords]

\* Upstreams are as configured; branches and refs only grow.
PushInv ==
    /\ PushTypes
    /\ \A r \in Pushers :
        LET b == push[r].branch IN
        /\ push[r].phase # "answered" => push[r].answer = None
        /\ push[r].phase \in {"upstream", "push"} => b \in Branches /\ push[r].wanted \subseteq tip[b]
        /\ push[r].phase = "push" => push[r].ref = upstream[b]
        /\ push[r].answer = "pushed" /\ ~push[r].switched =>
              /\ b \in Branches /\ push[r].ref \in Refs /\ push[r].ref = upstream[b]
              /\ push[r].wanted \subseteq remote[push[r].ref]

LEMMA PushInitInv == Pushes!Init => PushInv
  <1> SUFFICES ASSUME Pushes!Init PROVE PushInv
    OBVIOUS
  <1>1. Pushes!Idle \in PushRecords
    BY DEF PushRecords, Pushes!Idle
  <1>2. PushTypes
    <2>1. {0} \subseteq 0 .. commits /\ commits \in 0 .. MaxCommits
      BY PushAssumption DEF Pushes!Init
    <2>2. /\ tip \in [Branches -> SUBSET (0 .. commits)]
          /\ remote \in [Refs -> SUBSET (0 .. commits)]
          /\ push \in [Pushers -> PushRecords]
      BY <1>1, <2>1 DEF Pushes!Init
    <2>3. \A r \in Pushers : push[r] = Pushes!Idle
      BY DEF Pushes!Init
    <2>4. QED
      BY <1>1, <2>1, <2>2, <2>3 DEF PushTypes, Pushes!TypeOK, Pushes!Init, Pushes!Idle
  <1>3. QED
    BY <1>2, PushAssumption DEF PushInv, Pushes!Init, Pushes!Idle

\* What HEAD is, and what becomes of a request that moves.
LEMMA PushFacts ==
    ASSUME PushInv
    PROVE  /\ Pushes!HeadCommit \subseteq 0 .. commits /\ Pushes!HeadCommit \subseteq Nat
           /\ \A r \in Pushers, a \in Pushes!Errors \cup {"pushed"} :
                 /\ Pushes!Answer(r, a) \in PushRecords
                 /\ Pushes!Answer(r, a).phase = "answered" /\ Pushes!Answer(r, a).answer = a
                 /\ Pushes!Answer(r, a).branch = push[r].branch
                 /\ Pushes!Answer(r, a).ref = push[r].ref
                 /\ Pushes!Answer(r, a).wanted = push[r].wanted
                 /\ Pushes!Answer(r, a).switched = (checkedOut # push[r].branch)
  <1> USE DEF PushInv, PushTypes, Pushes!TypeOK
  <1>1. Pushes!HeadCommit \subseteq 0 .. commits /\ 0 .. commits \subseteq Nat
    <2>1. commits \in Nat
      BY PushAssumption
    <2>2. CASE checkedOut = None
      BY <2>1, <2>2 DEF Pushes!HeadCommit
    <2>3. CASE checkedOut # None
      <3>1. tip[checkedOut] \in SUBSET (0 .. commits)
        BY <2>3
      <3>2. QED
        BY <2>1, <2>3, <3>1 DEF Pushes!HeadCommit
    <2>4. QED
      BY <2>2, <2>3
  <1>2. ASSUME NEW r \in Pushers, NEW a \in Pushes!Errors \cup {"pushed"}
        PROVE  LET to == Pushes!Answer(r, a)
               IN  /\ to \in PushRecords /\ to.phase = "answered" /\ to.answer = a
                   /\ to.branch = push[r].branch /\ to.ref = push[r].ref
                   /\ to.wanted = push[r].wanted
                   /\ to.switched = (checkedOut # push[r].branch)
    <2>1. push[r] \in PushRecords /\ (checkedOut # push[r].branch) \in BOOLEAN
      OBVIOUS
    <2>2. QED
      BY <2>1 DEF PushRecords, Pushes!Answer
  <1>3. QED
    BY <1>1, <1>2

\* The user and others work on the repository.
LEMMA PushOthers ==
    ASSUME PushInv,
           \/ Pushes!Commit \/ Pushes!Pull \/ \E ref \in Refs : Pushes!OthersPush(ref)
           \/ \E b \in Branches \cup {None} : Pushes!Checkout(b)
           \/ UNCHANGED Pushes!vars
    PROVE  PushInv'
  <1> USE PushFacts DEF PushInv, PushTypes, Pushes!TypeOK
  <1>1. /\ UNCHANGED <<upstream, push>>
        /\ \A b \in Branches : tip[b] \subseteq tip'[b]
        /\ \A ref \in Refs : remote[ref] \subseteq remote'[ref]
    BY DEF Pushes!Commit, Pushes!Pull, Pushes!OthersPush, Pushes!Checkout, Pushes!vars,
           Pushes!repository
  <1>2. PushTypes'
    <2>1. CASE Pushes!Commit
      <3>1. commits' \in 0 .. MaxCommits /\ commits' = commits + 1
        BY <2>1, PushAssumption DEF Pushes!Commit, Pushes!NewCommit
      <3>2. \A S \in SUBSET (0 .. commits) : /\ S \cup {commits'} \subseteq 0 .. commits'
                                             /\ S \subseteq 0 .. commits'
        BY <3>1
      <3>3. tip' \in [Branches -> SUBSET (0 .. commits')] /\ detached' \subseteq 0 .. commits'
        BY <2>1, <3>2 DEF Pushes!Commit
      <3>4. QED
        BY <2>1, <3>1, <3>2, <3>3 DEF Pushes!Commit
    <2>2. CASE \E ref \in Refs : Pushes!OthersPush(ref)
      <3>1. commits' \in 0 .. MaxCommits /\ commits' = commits + 1
        BY <2>2, PushAssumption DEF Pushes!OthersPush, Pushes!NewCommit
      <3>2. \A S \in SUBSET (0 .. commits) : /\ S \cup {commits'} \subseteq 0 .. commits'
                                             /\ S \subseteq 0 .. commits'
        BY <3>1
      <3>3. QED
        BY <2>2, <3>1, <3>2 DEF Pushes!OthersPush
    <2>3. CASE Pushes!Pull
      BY <2>3 DEF Pushes!Pull
    <2>4. CASE \E b \in Branches \cup {None} : Pushes!Checkout(b)
      BY <2>4 DEF Pushes!Checkout
    <2>5. CASE UNCHANGED Pushes!vars
      BY <2>5 DEF Pushes!vars, Pushes!repository
    <2>6. QED
      BY <2>1, <2>2, <2>3, <2>4, <2>5
  <1>3. QED
    BY <1>1, <1>2 DEF PushRecords

\* One request moves on; the remote refs it touches hold what they held.
LEMMA PushMove ==
    ASSUME PushInv, NEW r \in Pushers, NEW from, NEW to \in PushRecords,
           Pushes!Move(r, from, to),
           remote' \in [Refs -> SUBSET (0 .. commits)],
           \A ref \in Refs : remote[ref] \subseteq remote'[ref],
           to.phase # "answered" => to.answer = None,
           to.phase \in {"upstream", "push"} =>
              to.branch \in Branches /\ to.wanted \subseteq tip[to.branch],
           to.phase = "push" => to.ref \in Refs /\ to.ref = upstream[to.branch],
           to.answer = "pushed" /\ ~to.switched =>
              /\ to.branch \in Branches /\ to.ref \in Refs /\ to.ref = upstream[to.branch]
              /\ to.wanted \subseteq remote'[to.ref]
    PROVE  PushInv'
  <1> USE DEF PushInv, PushTypes, Pushes!TypeOK
  <1>1. /\ UNCHANGED <<commits, tip, checkedOut, detached, upstream>>
        /\ push' = [push EXCEPT ![r] = to]
    BY DEF Pushes!Move, Pushes!repository
  <1>2. push'[r] = to /\ \A q \in Pushers \ {r} : push'[q] = push[q]
    BY <1>1
  <1>3. PushTypes'
    BY <1>1, <1>2 DEF PushRecords
  <1>4. QED
    BY <1>1, <1>2, <1>3 DEF PushRecords

LEMMA PushStep ==
    ASSUME PushInv, NEW r \in Pushers,
           \/ Pushes!ReadBranch(r) \/ Pushes!ReadUpstream(r) \/ Pushes!PushHead(r)
           \/ Pushes!PushFails(r) \/ Pushes!PushCut(r) \/ Pushes!Done(r)
    PROVE  PushInv'
  <1> USE PushFacts, PushAssumption DEF PushInv, PushTypes, Pushes!TypeOK
  <1>1. push[r] \in PushRecords /\ "pushed" \notin Pushes!Errors
        /\ {"detached_head", "upstream_missing", "push_failed"} \subseteq Pushes!Errors
    BY DEF Pushes!Errors
  <1>2. CASE Pushes!ReadBranch(r)
    <2>1. CASE checkedOut = None
      <3>1. Pushes!Move(r, "idle", Pushes!Answer(r, "detached_head")) /\ UNCHANGED remote
        BY <1>2, <2>1 DEF Pushes!ReadBranch
      <3>2. QED
        BY <1>1, <3>1, PushMove
    <2>2. CASE checkedOut # None
      <3> DEFINE to == [push[r] EXCEPT !.phase = "upstream", !.branch = checkedOut,
                                       !.wanted = Pushes!HeadCommit]
      <3>1. Pushes!Move(r, "idle", to) /\ UNCHANGED remote /\ push[r].phase = "idle"
        BY <1>2, <2>2 DEF Pushes!ReadBranch, Pushes!Move
      <3>2. to \in PushRecords /\ to.phase = "upstream" /\ to.answer = None
            /\ to.branch = checkedOut /\ to.wanted = tip[checkedOut]
        BY <1>1, <2>2, <3>1 DEF PushRecords, Pushes!HeadCommit
      <3> HIDE DEF to
      <3>3. QED
        BY <2>2, <3>1, <3>2, PushMove
    <2>3. QED
      BY <2>1, <2>2
  <1>3. CASE Pushes!ReadUpstream(r)
    <2>1. CASE upstream[push[r].branch] = None
      <3>1. Pushes!Move(r, "upstream", Pushes!Answer(r, "upstream_missing")) /\ UNCHANGED remote
        BY <1>3, <2>1 DEF Pushes!ReadUpstream
      <3>2. QED
        BY <1>1, <3>1, PushMove
    <2>2. CASE upstream[push[r].branch] # None
      <3> DEFINE to == [push[r] EXCEPT !.phase = "push", !.ref = upstream[push[r].branch]]
      <3>1. Pushes!Move(r, "upstream", to) /\ UNCHANGED remote /\ push[r].phase = "upstream"
        BY <1>3, <2>2 DEF Pushes!ReadUpstream, Pushes!Move
      <3>2. /\ push[r].answer = None /\ push[r].branch \in Branches
            /\ push[r].wanted \subseteq tip[push[r].branch]
            /\ upstream[push[r].branch] \in Refs
        BY <2>2, <3>1
      <3>3. to \in PushRecords /\ to.phase = "push" /\ to.answer = push[r].answer
            /\ to.branch = push[r].branch /\ to.wanted = push[r].wanted
            /\ to.ref = upstream[push[r].branch]
        BY <1>1, <3>2 DEF PushRecords
      <3> HIDE DEF to
      <3>4. \A ref \in Refs : remote[ref] \subseteq remote'[ref]
        BY <3>1
      <3>5. QED
        BY <3>1, <3>2, <3>3, <3>4, PushMove
    <2>3. QED
      BY <2>1, <2>2
  <1>4. CASE Pushes!PushHead(r) \/ Pushes!PushCut(r)
    <2>1. /\ push[r].phase = "push" /\ push[r].ref \in Refs
          /\ remote[push[r].ref] \subseteq Pushes!HeadCommit
          /\ remote' = [remote EXCEPT ![push[r].ref] = Pushes!HeadCommit]
          /\ \E a \in {"pushed", "push_failed"} : Pushes!Move(r, "push", Pushes!Answer(r, a))
      BY <1>4 DEF Pushes!PushHead, Pushes!PushCut, Pushes!Accepted, Pushes!Update
    <2>2. /\ remote' \in [Refs -> SUBSET (0 .. commits)]
          /\ \A ref \in Refs : remote[ref] \subseteq remote'[ref]
          /\ remote'[push[r].ref] = Pushes!HeadCommit
      BY <2>1
    <2>3. checkedOut = push[r].branch => push[r].wanted \subseteq Pushes!HeadCommit
      <3>1. push[r].branch \in Branches /\ push[r].wanted \subseteq tip[push[r].branch]
        BY <2>1
      <3>2. checkedOut = push[r].branch /\ checkedOut # None =>
               Pushes!HeadCommit = tip[push[r].branch]
        BY DEF Pushes!HeadCommit
      <3>3. checkedOut = push[r].branch => checkedOut # None
        BY <3>1
      <3>4. QED
        BY <3>1, <3>2, <3>3
    <2>4. PICK a \in {"pushed", "push_failed"} : Pushes!Move(r, "push", Pushes!Answer(r, a))
      BY <2>1
    <2>5. push[r].branch \in Branches /\ push[r].ref = upstream[push[r].branch]
      BY <2>1
    <2>6. a \in Pushes!Errors \cup {"pushed"}
      BY <1>1
    <2> DEFINE to == Pushes!Answer(r, a)
    <2>7. /\ to \in PushRecords /\ to.phase = "answered"
          /\ to.branch = push[r].branch /\ to.ref = push[r].ref /\ to.wanted = push[r].wanted
          /\ to.switched = (checkedOut # push[r].branch)
      BY <2>6
    <2> HIDE DEF to
    <2>8. Pushes!Move(r, "push", to)
      BY <2>4 DEF to
    <2>9. ~to.switched => to.wanted \subseteq remote'[to.ref]
      BY <2>2, <2>3, <2>7
    <2>10. QED
      BY <2>1, <2>2, <2>5, <2>7, <2>8, <2>9, PushMove
  <1>5. CASE Pushes!PushFails(r)
    BY <1>1, <1>5, PushMove DEF Pushes!PushFails
  <1>6. CASE Pushes!Done(r)
    <2>1. Pushes!Idle \in PushRecords /\ Pushes!Idle.phase = "idle" /\ Pushes!Idle.answer = None
      BY DEF PushRecords, Pushes!Idle
    <2>2. QED
      BY <1>6, <2>1, PushMove DEF Pushes!Done
  <1>7. QED
    BY <1>2, <1>3, <1>4, <1>5, <1>6

LEMMA PushInvStep == PushInv /\ [Pushes!Next]_(Pushes!vars) => PushInv'
  BY PushOthers, PushStep DEF Pushes!Next

LEMMA PushInvariance == ServiceSpec => []PushInv
  BY Parts, PushInitInv, PushInvStep, PTL DEF ServiceSpec

\* A branch the answer calls pushed has arrived: its upstream has all the
\* branch had when the request came, whatever was committed, pulled, checked
\* out or pushed by others between the three commands.
THEOREM PushedArrived == ServiceSpec => []PushedIsThere
  <1>1. PushInv => PushedIsThere
    BY DEF PushInv, PushTypes, PushedIsThere, Pushes!PushedIsThere
  <1>2. QED
    BY <1>1, PushInvariance, PTL

-----------------------------------------------------------------------------
(* The cache of diffs.                                                     *)

Requests == [pc : {"idle", "named", "keyed", "loading", "loaded", "waiting", "answered", "failed"},
             root : Roots \cup {None}, key : Diffs!Keys \cup {None},
             value : Diffs!Trees \cup {None}, of : Reqs \cup {None},
             fresh : SUBSET Diffs!Trees]
CacheEntries == [complete : BOOLEAN, leader : Reqs \cup {None}, value : Diffs!Trees \cup {None}]

Loading(r) == req[r].pc \in {"loading", "loaded"}

CacheTypes ==
    /\ Diffs!TypeOK
    /\ IsFiniteSet(DOMAIN entries) /\ entries \in [DOMAIN entries -> CacheEntries]
    /\ req \in [Reqs -> Requests]
    /\ taken = [s \in Diffs!Snapshotters |-> taken[s]]
    /\ \A s \in Diffs!Snapshotters : taken[s] # None =>
          taken[s] \in [hash : Roots \X Nat, since : SUBSET Diffs!Trees]
    /\ \A r \in Reqs : /\ req[r].pc = "named" \/ Diffs!Busy(r) => req[r].root \in Roots
                       /\ Diffs!Busy(r) => req[r].key \in Diffs!Keys

\* A load and its entry belong together, and who waits waits for one.
LoadInv ==
    /\ \A r \in Reqs : Loading(r) =>
          LET k == req[r].key
          IN  k \in DOMAIN entries /\ ~entries[k].complete /\ entries[k].leader = r
    /\ \A k \in DOMAIN entries : ~entries[k].complete =>
          LET r == entries[k].leader
          IN  r \in Reqs /\ Loading(r) /\ req[r].key = k
    /\ \A q \in Reqs : req[q].pc = "waiting" =>
          LET r == req[q].of
          IN  r \in Reqs /\ Loading(r) /\ req[r].key = req[q].key

CacheInv == CacheTypes /\ LoadInv /\ Diffs!Bounded

\* Cardinality in GitCache is that of FiniteSets.
LEMMA SameCardinality == \A S : Diffs!Cardinality(S) = Cardinality(S)
  BY DEF Diffs!Cardinality, Cardinality

LEMMA CacheInitInv == Diffs!Init => CacheInv
  <1> SUFFICES ASSUME Diffs!Init PROVE CacheInv
    OBVIOUS
  <1>1. Diffs!Idle \in Requests /\ Diffs!Idle.pc = "idle" /\ Diffs!Idle.fresh = {}
    BY DEF Requests, Diffs!Idle
  <1>2. \A r \in Reqs : req[r] = Diffs!Idle
    BY DEF Diffs!Init
  <1>3. DOMAIN entries = {} /\ IsFiniteSet({}) /\ Cardinality({}) = 0
    BY FS_EmptySet DEF Diffs!Init
  <1>4. /\ content \in [Roots -> Diffs!Contents] /\ treeEdits \in 0 .. MaxTreeEdits
        /\ root \in Roots /\ gen \in 0 .. MaxRecreates /\ rev \in Nat
        /\ since \subseteq Diffs!Trees /\ crossed = {}
    BY CacheAssumption DEF Diffs!Init, Diffs!Tree, Diffs!Trees, Diffs!Contents
  <1>5. entries \in [DOMAIN entries -> CacheEntries] /\ req \in [Reqs -> Requests]
    BY <1>1, <1>3 DEF Diffs!Init
  <1>6. /\ taken = [s \in Diffs!Snapshotters |-> taken[s]]
        /\ \A s \in Diffs!Snapshotters : taken[s] = None
    BY DEF Diffs!Init
  <1>7. CacheTypes
    BY <1>1, <1>2, <1>3, <1>4, <1>5, <1>6 DEF CacheTypes, Diffs!TypeOK, Diffs!Busy
  <1>8. LoadInv
    BY <1>1, <1>2, <1>3 DEF LoadInv, Loading
  <1>9. Diffs!Bounded
    <2>1. Cardinality(DOMAIN entries) = 0
      BY <1>3
    <2>2. QED
      BY <2>1, SameCardinality, CacheAssumption DEF Diffs!Bounded
  <1>10. QED
    BY <1>7, <1>8, <1>9 DEF CacheInv

\* What goes on around the cache touches no load.
LEMMA CacheAround ==
    ASSUME CacheInv,
           \/ \E r \in Roots : Diffs!Recreate(r) \/ \E c \in Diffs!Contents : Diffs!Edit(r, c)
           \/ \E s \in Diffs!Snapshotters : Diffs!Snapshot(s) \/ Diffs!ReplaceGitSnapshot(s)
           \/ UNCHANGED Diffs!vars
    PROVE  CacheInv'
  <1> USE DEF CacheInv, CacheTypes, Diffs!TypeOK, Diffs!Busy
  <1>1. CASE \E r \in Roots : \E c \in Diffs!Contents : Diffs!Edit(r, c)
    <2>1. PICK r \in Roots, c \in Diffs!Contents : Diffs!Edit(r, c)
      BY <1>1
    <2>2. UNCHANGED <<root, gen, rev, hash, entries, crossed>>
      BY <2>1 DEF Diffs!Edit, Diffs!db
    <2>3. \A trees \in SUBSET Diffs!Trees, x \in Roots \cup {None} :
             Diffs!With(trees, x, <<r, c>>) \in SUBSET Diffs!Trees
      BY DEF Diffs!Trees, Diffs!With
    <2>4. req' \in [Reqs -> Requests]
      <3>1. \A q \in Reqs : [req[q] EXCEPT !.fresh = Diffs!With(@, req[q].root, <<r, c>>)]
                                \in Requests
        BY <2>3 DEF Requests
      <3>2. QED
        BY <2>1, <3>1 DEF Diffs!Edit
    <2>5. \A q \in Reqs : /\ req'[q].pc = req[q].pc /\ req'[q].root = req[q].root
                          /\ req'[q].key = req[q].key /\ req'[q].value = req[q].value
                          /\ req'[q].of = req[q].of
      BY <2>1 DEF Diffs!Edit, Requests
    <2>6. /\ content' \in [Roots -> Diffs!Contents] /\ treeEdits' \in 0 .. MaxTreeEdits
          /\ since' \subseteq Diffs!Trees
      <3>1. treeEdits \in 0 .. MaxTreeEdits /\ treeEdits < MaxTreeEdits /\ treeEdits' = treeEdits + 1
        BY <2>1 DEF Diffs!Edit
      <3>2. treeEdits' \in 0 .. MaxTreeEdits
        BY <3>1, CacheAssumption
      <3>3. content' = [content EXCEPT ![r] = c] /\ since' = Diffs!With(since, root, <<r, c>>)
        BY <2>1 DEF Diffs!Edit
      <3>4. QED
        BY <2>3, <3>2, <3>3
    <2>7. /\ taken' = [s \in Diffs!Snapshotters |-> taken'[s]]
          /\ \A s \in Diffs!Snapshotters : taken'[s] # None =>
                taken'[s] \in [hash : Roots \X Nat, since : SUBSET Diffs!Trees]
      <3>1. taken' = [s \in Diffs!Snapshotters |->
                        IF taken[s] = None THEN None
                        ELSE [taken[s] EXCEPT !.since = Diffs!With(@, root, <<r, c>>)]]
        BY <2>1 DEF Diffs!Edit
      <3>2. ASSUME NEW t \in [hash : Roots \X Nat, since : SUBSET Diffs!Trees]
            PROVE  [t EXCEPT !.since = Diffs!With(@, root, <<r, c>>)]
                      \in [hash : Roots \X Nat, since : SUBSET Diffs!Trees]
        BY <2>3
      <3>3. QED
        BY <3>1, <3>2
    <2>8. \A q \in Reqs : req'[q].fresh \subseteq Diffs!Trees
      BY <2>4 DEF Requests
    <2>9. CacheTypes'
      BY <2>2, <2>4, <2>5, <2>6, <2>7, <2>8
    <2>10. LoadInv' /\ Diffs!Bounded'
      BY <2>2, <2>5 DEF LoadInv, Loading, Diffs!Bounded, Diffs!Complete
    <2>11. QED
      BY <2>9, <2>10
  <1>2. CASE \E r \in Roots : Diffs!Recreate(r)
    <2>1. PICK r \in Roots : Diffs!Recreate(r)
      BY <1>2
    <2>2. UNCHANGED <<content, treeEdits, entries, req, crossed>> /\ Diffs!Tree(r) \in Diffs!Trees
      BY <2>1 DEF Diffs!Recreate, Diffs!tree, Diffs!Tree, Diffs!Trees
    <2>3. /\ root' \in Roots /\ gen' \in 0 .. MaxRecreates /\ rev' \in Nat
          /\ since' \subseteq Diffs!Trees
      BY <2>1, CacheAssumption DEF Diffs!Recreate, Diffs!Trees, Diffs!Tree
    <2>4. taken' = [s \in Diffs!Snapshotters |->
                      IF s = "worker" \/ taken[s] = None THEN None
                      ELSE [taken[s] EXCEPT !.since = {Diffs!Tree(r)}]]
      BY <2>1 DEF Diffs!Recreate
    <2>5. /\ taken' = [s \in Diffs!Snapshotters |-> taken'[s]]
          /\ \A s \in Diffs!Snapshotters : taken'[s] # None =>
                taken'[s] \in [hash : Roots \X Nat, since : SUBSET Diffs!Trees]
      <3>1. ASSUME NEW t \in [hash : Roots \X Nat, since : SUBSET Diffs!Trees]
            PROVE  [t EXCEPT !.since = {Diffs!Tree(r)}]
                      \in [hash : Roots \X Nat, since : SUBSET Diffs!Trees]
        BY <2>2
      <3>2. QED
        BY <2>4, <3>1
    <2>6. CacheTypes'
      BY <2>2, <2>3, <2>5
    <2>7. LoadInv' /\ Diffs!Bounded'
      BY <2>2 DEF LoadInv, Loading, Diffs!Bounded, Diffs!Complete
    <2>8. QED
      BY <2>6, <2>7
  <1>3. CASE \E s \in Diffs!Snapshotters : Diffs!Snapshot(s) \/ Diffs!ReplaceGitSnapshot(s)
    <2>1. PICK s \in Diffs!Snapshotters : Diffs!Snapshot(s) \/ Diffs!ReplaceGitSnapshot(s)
      BY <1>3
    <2>2. UNCHANGED <<content, treeEdits, root, gen, entries, req, crossed>>
      BY <2>1 DEF Diffs!Snapshot, Diffs!ReplaceGitSnapshot, Diffs!tree, Diffs!db
    <2>3. rev' \in Nat /\ since' \subseteq Diffs!Trees
      BY <2>1 DEF Diffs!Snapshot, Diffs!ReplaceGitSnapshot, Diffs!db
    <2>4. PICK new : /\ taken' = [taken EXCEPT ![s] = new]
                     /\ new = None \/ new = [hash |-> Diffs!snapshotHash(Diffs!Tree(root)),
                                             since |-> {Diffs!Tree(root)}]
      BY <2>1 DEF Diffs!Snapshot, Diffs!ReplaceGitSnapshot
    <2>5. Diffs!Tree(root) \in Diffs!Trees /\ Diffs!snapshotHash(Diffs!Tree(root)) \in Roots \X Nat
      <3>1. content[root] \in Nat /\ content[root] \div 2 \in Nat
        BY DEF Diffs!Contents
      <3>2. QED
        BY <3>1 DEF Diffs!Tree, Diffs!Trees, Diffs!snapshotHash
    <2>6. /\ taken' = [q \in Diffs!Snapshotters |-> taken'[q]]
          /\ \A q \in Diffs!Snapshotters : taken'[q] # None =>
                taken'[q] \in [hash : Roots \X Nat, since : SUBSET Diffs!Trees]
      BY <2>4, <2>5
    <2>7. CacheTypes'
      BY <2>2, <2>3, <2>6
    <2>8. LoadInv' /\ Diffs!Bounded'
      BY <2>2 DEF LoadInv, Loading, Diffs!Bounded, Diffs!Complete
    <2>9. QED
      BY <2>7, <2>8
  <1>4. CASE UNCHANGED Diffs!vars
    BY <1>4 DEF Diffs!vars, Diffs!tree, Diffs!db, LoadInv, Loading, Diffs!Bounded, Diffs!Complete
  <1>5. QED
    BY <1>1, <1>2, <1>3, <1>4

BusyPc == {"keyed", "loading", "loaded", "waiting"}
LoadingPc == {"loading", "loaded"}

\* A request moves on and no load begins or ends.
LEMMA CacheMove ==
    ASSUME CacheInv, NEW r \in Reqs, NEW new \in Requests, Diffs!Become(r, new),
           UNCHANGED <<content, treeEdits, root, gen, rev, hash, taken, entries, since>>,
           crossed' \subseteq Diffs!Keys,
           new.pc = "named" \/ new.pc \in BusyPc => new.root \in Roots,
           new.pc \in BusyPc => new.key \in Diffs!Keys,
           new.pc \in {"loaded", "answered"} => new.value \in Diffs!Trees,
           Loading(r) <=> new.pc \in LoadingPc,
           Loading(r) => new.key = req[r].key,
           new.pc = "waiting" =>
              new.of \in Reqs /\ Loading(new.of) /\ req[new.of].key = new.key
    PROVE  CacheInv'
  <1> USE DEF CacheInv, CacheTypes, Diffs!TypeOK, Diffs!Busy, BusyPc, LoadingPc
  <1>1. req' = [req EXCEPT ![r] = new]
    BY DEF Diffs!Become
  <1>2. req'[r] = new /\ \A q \in Reqs \ {r} : req'[q] = req[q]
    BY <1>1
  <1>3. req' \in [Reqs -> Requests] /\ \A q \in Reqs : req'[q] \in Requests
    BY <1>1
  <1>4. CacheTypes'
    BY <1>2, <1>3 DEF Requests
  <1>5. \A q \in Reqs : /\ Loading(q)' <=> Loading(q)
                        /\ Loading(q) => req'[q].key = req[q].key
    BY <1>2 DEF Loading
  <1>6. LoadInv'
    BY <1>2, <1>5 DEF LoadInv
  <1>7. Diffs!Bounded'
    BY DEF Diffs!Bounded, Diffs!Complete
  <1>8. QED
    BY <1>4, <1>6, <1>7

\* What a request answered or given up is.
LEMMA EndedFacts ==
    ASSUME CacheInv, NEW r \in Reqs, NEW pc \in {"answered", "failed"},
           NEW value \in Diffs!Trees \cup {None}
    PROVE  /\ Diffs!Ended(r, pc, value) \in Requests
           /\ Diffs!Ended(r, pc, value).pc = pc /\ Diffs!Ended(r, pc, value).value = value
           /\ Diffs!Ended(r, pc, value).fresh = req[r].fresh
           /\ Diffs!Ended(r, pc, value).key = req[r].key
  <1>1. req[r].fresh \in SUBSET Diffs!Trees /\ req[r].key \in Diffs!Keys \cup {None}
    BY DEF CacheInv, CacheTypes, Requests
  <1>2. QED
    BY <1>1 DEF Diffs!Ended, Diffs!Idle, Requests

LEMMA CacheAsk ==
    ASSUME CacheInv, NEW r \in Reqs,
           \/ Diffs!GetProject(r) \/ Diffs!gitCacheVersion(r) \/ Diffs!Hit(r) \/ Diffs!Join(r)
           \/ Diffs!Diff(r) \/ Diffs!Cancel(r)
    PROVE  CacheInv'
  <1> USE DEF BusyPc, LoadingPc
  <1>1. /\ UNCHANGED <<content, treeEdits, root, gen, rev, hash, taken, entries, since>>
        /\ req[r] \in Requests /\ crossed' \subseteq Diffs!Keys
    BY DEF Diffs!GetProject, Diffs!gitCacheVersion, Diffs!Hit, Diffs!Join, Diffs!Diff,
           Diffs!Cancel, Diffs!tree, Diffs!db, CacheInv, CacheTypes, Diffs!TypeOK, Diffs!Key,
           Diffs!Keys
  <1>2. CASE Diffs!GetProject(r)
    <2> DEFINE new == [Diffs!Idle EXCEPT !.pc = "named", !.root = root]
    <2>1. Diffs!Become(r, new) /\ ~Loading(r)
      BY <1>2 DEF Diffs!GetProject, Loading
    <2>2. new \in Requests /\ new.pc = "named" /\ new.root \in Roots
      BY DEF Diffs!Idle, Requests, CacheInv, CacheTypes, Diffs!TypeOK
    <2> HIDE DEF new
    <2>3. QED
      BY <1>1, <2>1, <2>2, CacheMove
  <1>3. CASE Diffs!gitCacheVersion(r)
    <2> DEFINE new == [req[r] EXCEPT !.pc = "keyed", !.key = Diffs!Key, !.fresh = since]
    <2>1. Diffs!Become(r, new) /\ ~Loading(r) /\ req[r].pc = "named"
      BY <1>3 DEF Diffs!gitCacheVersion, Loading
    <2>2. Diffs!Key \in Diffs!Keys
      BY DEF Diffs!Key, Diffs!Keys, CacheInv, CacheTypes, Diffs!TypeOK
    <2>3. req[r].root \in Roots /\ since \subseteq Diffs!Trees
      BY <2>1 DEF CacheInv, CacheTypes, Diffs!TypeOK
    <2>4. new \in Requests /\ new.pc = "keyed" /\ new.root \in Roots /\ new.key \in Diffs!Keys
      BY <1>1, <2>2, <2>3 DEF Requests
    <2> HIDE DEF new
    <2>5. QED
      BY <1>1, <2>1, <2>4, CacheMove
  <1>4. CASE Diffs!Hit(r)
    <2> DEFINE value == entries[req[r].key].value
    <2>1. Diffs!Become(r, Diffs!Ended(r, "answered", value)) /\ ~Loading(r)
      BY <1>4 DEF Diffs!Hit, Loading
    <2>2. value \in Diffs!Trees
      BY <1>4 DEF Diffs!Hit, Diffs!Complete, CacheInv, CacheTypes, Diffs!TypeOK
    <2> HIDE DEF value
    <2>3. QED
      BY <1>1, <2>1, <2>2, EndedFacts, CacheMove
  <1>5. CASE Diffs!Join(r)
    <2> DEFINE l == entries[req[r].key].leader
               new == [req[r] EXCEPT !.pc = "waiting", !.of = l]
    <2>1. Diffs!Become(r, new) /\ ~Loading(r) /\ Diffs!Busy(r)
      BY <1>5 DEF Diffs!Join, Loading, Diffs!Busy
    <2>2. req[r].root \in Roots /\ req[r].key \in Diffs!Keys
      BY <2>1 DEF CacheInv, CacheTypes
    <2>3. l \in Reqs /\ Loading(l) /\ req[l].key = req[r].key
      BY <1>5 DEF Diffs!Join, Diffs!Complete, CacheInv, LoadInv
    <2> HIDE DEF l
    <2>4. /\ new \in Requests /\ new.pc = "waiting" /\ new.root = req[r].root
          /\ new.key = req[r].key /\ new.of = l
      BY <1>1, <2>3 DEF Requests
    <2> HIDE DEF new
    <2>5. QED
      BY <1>1, <2>1, <2>2, <2>3, <2>4, CacheMove
  <1>6. CASE Diffs!Diff(r)
    <2> DEFINE new == [req[r] EXCEPT !.pc = "loaded", !.value = Diffs!Tree(req[r].root)]
    <2>1. Diffs!Become(r, new) /\ Loading(r) /\ Diffs!Busy(r)
      BY <1>6 DEF Diffs!Diff, Loading, Diffs!Busy
    <2>2. req[r].root \in Roots /\ req[r].key \in Diffs!Keys
      BY <2>1 DEF CacheInv, CacheTypes
    <2>3. Diffs!Tree(req[r].root) \in Diffs!Trees
      BY <2>2 DEF Diffs!Tree, Diffs!Trees, CacheInv, CacheTypes, Diffs!TypeOK
    <2>4. /\ new \in Requests /\ new.pc = "loaded" /\ new.root = req[r].root
          /\ new.key = req[r].key /\ new.value \in Diffs!Trees
      BY <1>1, <2>3 DEF Requests
    <2> HIDE DEF new
    <2>5. QED
      BY <1>1, <2>1, <2>2, <2>4, CacheMove
  <1>7. CASE Diffs!Cancel(r)
    <2>1. Diffs!Become(r, Diffs!Ended(r, "failed", None)) /\ ~Loading(r)
      BY <1>7 DEF Diffs!Cancel, Loading
    <2>2. QED
      BY <1>1, <2>1, EndedFacts, CacheMove
  <1>8. QED
    BY <1>2, <1>3, <1>4, <1>5, <1>6, <1>7

\* Only answers are evicted: as many as asked for, or all there are.
LEMMA Evicted ==
    ASSUME NEW cache, IsFiniteSet(DOMAIN cache), NEW n \in Nat, NEW e \in Diffs!Evictions(cache, n)
    PROVE  /\ e \subseteq Diffs!Complete(cache)
           /\ Cardinality(e) \in Nat /\ IsFiniteSet(DOMAIN cache \ e)
           /\ Cardinality(DOMAIN cache \ e) = Cardinality(DOMAIN cache) - Cardinality(e)
           /\ Cardinality(e) = n \/ (Cardinality(e) < n /\ e = Diffs!Complete(cache))
  <1>1. /\ e \subseteq Diffs!Complete(cache)
        /\ Cardinality(e) = n \/ (Cardinality(e) < n /\ e = Diffs!Complete(cache))
    BY SameCardinality DEF Diffs!Evictions
  <1>2. e \in SUBSET (DOMAIN cache)
    BY <1>1 DEF Diffs!Complete
  <1>3. IsFiniteSet(e) /\ Cardinality(e) \in Nat
    BY <1>2, FS_Subset, FS_CardinalityType
  <1>4. DOMAIN cache \cap e = e
    BY <1>2
  <1>5. /\ IsFiniteSet(DOMAIN cache \ e)
        /\ Cardinality(DOMAIN cache \ e) = Cardinality(DOMAIN cache) - Cardinality(e)
    BY <1>4, FS_Difference
  <1>6. QED
    BY <1>1, <1>3, <1>5

LEMMA CacheMiss ==
    ASSUME CacheInv, NEW r \in Reqs, Diffs!Miss(r)
    PROVE  CacheInv'
  <1> DEFINE k == req[r].key
             new == [req[r] EXCEPT !.pc = "loading", !.of = r]
             entry == [complete |-> FALSE, leader |-> r, value |-> None]
             n == IF Cardinality(DOMAIN entries) < MaxEntries THEN 0 ELSE 1
  <1>1. /\ req[r].pc = "keyed" /\ k \notin DOMAIN entries
        /\ req' = [req EXCEPT ![r] = new]
        /\ UNCHANGED <<content, treeEdits, root, gen, rev, hash, taken, since, crossed>>
    BY DEF Diffs!Miss, Diffs!Become, Diffs!tree, Diffs!db
  <1>2. PICK e \in Diffs!Evictions(entries, n) :
           entries' = Diffs!Put(Diffs!Without(e), k, entry)
    BY SameCardinality DEF Diffs!Miss
  <1>3. /\ DOMAIN entries' = (DOMAIN entries \ e) \cup {k}
        /\ entries'[k] = entry
        /\ \A x \in DOMAIN entries \ e : entries'[x] = entries[x]
        /\ entries' = [x \in DOMAIN entries' |-> entries'[x]]
    BY <1>1, <1>2 DEF Diffs!Put, Diffs!Without
  <1>4. /\ IsFiniteSet(DOMAIN entries) /\ n \in Nat /\ req[r] \in Requests
        /\ r \in Reqs /\ req[r].root \in Roots /\ k \in Diffs!Keys
    BY <1>1 DEF CacheInv, CacheTypes, Diffs!Busy
  <1>5. /\ new \in Requests /\ new.pc = "loading" /\ new.key = k /\ new.root = req[r].root
        /\ new.of = r /\ new.fresh = req[r].fresh
    BY <1>4 DEF Requests
  <1>6. /\ req'[r] = new /\ \A q \in Reqs \ {r} : req'[q] = req[q]
        /\ req' \in [Reqs -> Requests]
    BY <1>1, <1>5 DEF CacheInv, CacheTypes
  <1>7. /\ e \subseteq Diffs!Complete(entries) /\ IsFiniteSet(DOMAIN entries \ e)
        /\ Cardinality(e) \in Nat
        /\ Cardinality(DOMAIN entries \ e) = Cardinality(DOMAIN entries) - Cardinality(e)
        /\ Cardinality(e) = n \/ (Cardinality(e) < n /\ e = Diffs!Complete(entries))
    BY <1>4, Evicted
  <1>8. /\ IsFiniteSet(DOMAIN entries')
        /\ Cardinality(DOMAIN entries') = Cardinality(DOMAIN entries) - Cardinality(e) + 1
    <2>1. k \notin DOMAIN entries \ e
      BY <1>1
    <2>2. /\ IsFiniteSet((DOMAIN entries \ e) \cup {k})
          /\ Cardinality((DOMAIN entries \ e) \cup {k}) = Cardinality(DOMAIN entries \ e) + 1
      BY <1>7, <2>1, FS_AddElement
    <2>3. QED
      BY <1>3, <1>7, <2>2
  <1>9. entry \in CacheEntries /\ entry.complete = FALSE /\ entry.leader = r
    BY <1>4 DEF CacheEntries
  <1> HIDE DEF new, entry
  <1>10. entries' \in [DOMAIN entries' -> CacheEntries]
    BY <1>3, <1>9 DEF CacheInv, CacheTypes
  <1>11. CacheTypes'
    BY <1>1, <1>3, <1>4, <1>5, <1>6, <1>8, <1>9, <1>10
       DEF CacheInv, CacheTypes, Diffs!TypeOK, Diffs!Busy, Requests
  <1>12. \A q \in Reqs : /\ req'[q].pc \in LoadingPc <=> Loading(q) \/ q = r
                         /\ q # r => req'[q].key = req[q].key
    BY <1>5, <1>6 DEF Loading, LoadingPc
  <1>13. LoadInv'
    <2>1. \A x \in DOMAIN entries : ~entries[x].complete =>
             x \in DOMAIN entries' /\ entries'[x] = entries[x] /\ x # k
      BY <1>1, <1>3, <1>7 DEF Diffs!Complete
    <2>2. ~Loading(r)
      BY <1>1 DEF Loading
    <2>3. \A q \in Reqs : req'[q].pc \in LoadingPc =>
             LET x == req'[q].key
             IN  x \in DOMAIN entries' /\ ~entries'[x].complete /\ entries'[x].leader = q
      BY <1>3, <1>5, <1>6, <1>9, <1>12, <2>1 DEF CacheInv, LoadInv
    <2>4. \A x \in DOMAIN entries' : ~entries'[x].complete =>
             LET q == entries'[x].leader
             IN  q \in Reqs /\ req'[q].pc \in LoadingPc /\ req'[q].key = x
      BY <1>3, <1>4, <1>5, <1>6, <1>9, <1>12, <2>2 DEF CacheInv, LoadInv
    <2>5. \A q \in Reqs : req'[q].pc = "waiting" =>
             LET l == req'[q].of
             IN  l \in Reqs /\ req'[l].pc \in LoadingPc /\ req'[l].key = req'[q].key
      <3>1. \A q \in Reqs : req'[q].pc = "waiting" => q # r /\ req'[q] = req[q]
        BY <1>5, <1>6
      <3>2. QED
        BY <1>12, <2>2, <3>1 DEF CacheInv, LoadInv
    <2>6. QED
      BY <2>3, <2>4, <2>5 DEF LoadInv, Loading, LoadingPc
  <1>14. Diffs!Bounded'
    <2> SUFFICES ASSUME Cardinality(DOMAIN entries') > MaxEntries
                 PROVE  Diffs!Complete(entries') = {}
      BY SameCardinality DEF Diffs!Bounded
    <2>1. Cardinality(DOMAIN entries) \in Nat
      BY <1>4, FS_CardinalityType
    <2>2. Diffs!Complete(entries) \subseteq e
      <3>1. CASE Cardinality(e) < n
        BY <1>7, <3>1
      <3>2. CASE Cardinality(e) = n
        <4>1. Cardinality(DOMAIN entries) > MaxEntries
          BY <1>8, <2>1, <3>2, CacheAssumption
        <4>2. Diffs!Complete(entries) = {}
          BY <4>1, SameCardinality DEF CacheInv, Diffs!Bounded
        <4>3. QED
          BY <4>2
      <3>3. QED
        BY <1>7, <3>1, <3>2
    <2>3. QED
      BY <1>3, <1>9, <2>2 DEF Diffs!Complete
  <1>15. QED
    BY <1>11, <1>13, <1>14 DEF CacheInv

\* A load ends, with or without an answer, for itself and those that wait.
LEMMA CacheRelease ==
    ASSUME CacheInv, NEW r \in Reqs, Loading(r),
           NEW pc \in {"answered", "failed"}, NEW value \in Diffs!Trees \cup {None},
           pc = "answered" => value \in Diffs!Trees,
           Diffs!Release(r, pc, value),
           UNCHANGED <<content, treeEdits, root, gen, rev, hash, taken, since, crossed>>,
           entries' = [x \in DOMAIN entries' |-> entries'[x]],
           IsFiniteSet(DOMAIN entries'),
           \A x \in DOMAIN entries : x # req[r].key /\ ~entries[x].complete =>
              x \in DOMAIN entries',
           \A x \in DOMAIN entries' :
              \/ x # req[r].key /\ x \in DOMAIN entries /\ entries'[x] = entries[x]
              \/ /\ x = req[r].key /\ entries'[x] \in CacheEntries
                 /\ entries'[x].complete /\ entries'[x].value \in Diffs!Trees
    PROVE  CacheTypes' /\ LoadInv'
  <1> USE DEF LoadingPc
  <1> DEFINE released(q) == q = r \/ (req[q].pc = "waiting" /\ req[q].of = r)
  <1>1. \A q \in Reqs :
          /\ released(q) => /\ req'[q] \in Requests /\ req'[q].pc = pc
                            /\ req'[q].value = value
          /\ ~released(q) => req'[q] = req[q]
    BY EndedFacts DEF Diffs!Release
  <1>2. req' \in [Reqs -> Requests]
    <2>1. req' = [q \in Reqs |-> req'[q]]
      BY DEF Diffs!Release
    <2>2. \A q \in Reqs : req'[q] \in Requests
      BY <1>1 DEF CacheInv, CacheTypes
    <2>3. QED
      BY <2>1, <2>2
  <1>3. \A x \in DOMAIN entries' : x \in Diffs!Keys /\ entries'[x] \in CacheEntries
    BY DEF CacheInv, CacheTypes, Diffs!TypeOK, Diffs!Busy, Loading
  <1>4. entries' \in [DOMAIN entries' -> CacheEntries]
    BY <1>3
  <1>5. CacheTypes'
    BY <1>1, <1>2, <1>3, <1>4 DEF CacheInv, CacheTypes, Diffs!TypeOK, Diffs!Busy, Requests
  <1>6. \A q \in Reqs : /\ req'[q].pc \in LoadingPc <=> Loading(q) /\ q # r
                        /\ req'[q].pc \in LoadingPc => req'[q] = req[q]
                        /\ req'[q].pc = "waiting" => req'[q] = req[q] /\ req[q].of # r
    BY <1>1 DEF Loading
  <1>7. \A q \in Reqs : Loading(q) /\ q # r => req[q].key # req[r].key
    BY DEF CacheInv, LoadInv
  <1>8. \A q \in Reqs : req'[q].pc \in LoadingPc =>
           LET x == req'[q].key
           IN  x \in DOMAIN entries' /\ ~entries'[x].complete /\ entries'[x].leader = q
    BY <1>6, <1>7 DEF CacheInv, LoadInv
  <1>9. \A x \in DOMAIN entries' : ~entries'[x].complete =>
           LET q == entries'[x].leader
           IN  q \in Reqs /\ req'[q].pc \in LoadingPc /\ req'[q].key = x
    <2> TAKE x \in DOMAIN entries'
    <2> HAVE ~entries'[x].complete
    <2>1. x # req[r].key /\ x \in DOMAIN entries /\ entries'[x] = entries[x]
      OBVIOUS
    <2>2. LET q == entries[x].leader
          IN  q \in Reqs /\ Loading(q) /\ req[q].key = x
      BY <2>1 DEF CacheInv, LoadInv
    <2>3. QED
      BY <1>1, <2>1, <2>2 DEF Loading
  <1>10. \A q \in Reqs : req'[q].pc = "waiting" =>
           LET l == req'[q].of
           IN  l \in Reqs /\ req'[l].pc \in LoadingPc /\ req'[l].key = req'[q].key
    <2> TAKE q \in Reqs
    <2> HAVE req'[q].pc = "waiting"
    <2>1. req'[q] = req[q] /\ req[q].of # r
      BY <1>6
    <2>2. LET l == req[q].of
          IN  l \in Reqs /\ Loading(l) /\ req[l].key = req[q].key
      BY <2>1 DEF CacheInv, LoadInv
    <2>3. QED
      BY <1>6, <2>1, <2>2
  <1>11. LoadInv'
    BY <1>8, <1>9, <1>10 DEF LoadInv, Loading
  <1>12. QED
    BY <1>5, <1>11

LEMMA CacheStore ==
    ASSUME CacheInv, NEW r \in Reqs, Diffs!Store(r)
    PROVE  CacheInv'
  <1> DEFINE k == req[r].key
             entry == [complete |-> TRUE, leader |-> None, value |-> req[r].value]
             stored == Diffs!Put(entries, k, entry)
             n == Diffs!Excess(stored)
  <1>1. /\ Loading(r) /\ req[r].pc = "loaded" /\ req[r].value \in Diffs!Trees
        /\ k \in DOMAIN entries /\ IsFiniteSet(DOMAIN entries)
    BY DEF Diffs!Store, Loading, CacheInv, CacheTypes, Diffs!TypeOK, LoadInv
  <1>2. /\ Diffs!Release(r, "answered", req[r].value)
        /\ UNCHANGED <<content, treeEdits, root, gen, rev, hash, taken, since, crossed>>
    BY DEF Diffs!Store, Diffs!tree, Diffs!db
  <1>3. PICK e \in Diffs!Evictions(stored, n) : entries' = [x \in DOMAIN stored \ e |-> stored[x]]
    BY DEF Diffs!Store
  <1>4. entry \in CacheEntries /\ entry.complete = TRUE /\ entry.value = req[r].value
    BY <1>1 DEF CacheEntries
  <1>5. /\ DOMAIN stored = DOMAIN entries /\ stored[k] = entry
        /\ \A x \in DOMAIN entries \ {k} : stored[x] = entries[x]
    BY <1>1 DEF Diffs!Put
  <1>6. Cardinality(DOMAIN stored) \in Nat /\ IsFiniteSet(DOMAIN stored)
    BY <1>1, <1>5, FS_CardinalityType
  <1>7. n \in Nat /\ Cardinality(DOMAIN stored) - n <= MaxEntries
    BY <1>6, SameCardinality, CacheAssumption DEF Diffs!Excess
  <1> HIDE DEF stored, n, entry
  <1>8. /\ e \subseteq Diffs!Complete(stored) /\ IsFiniteSet(DOMAIN stored \ e)
        /\ Cardinality(e) \in Nat
        /\ Cardinality(DOMAIN stored \ e) = Cardinality(DOMAIN stored) - Cardinality(e)
        /\ Cardinality(e) = n \/ (Cardinality(e) < n /\ e = Diffs!Complete(stored))
    BY <1>6, <1>7, Evicted
  <1>9. /\ DOMAIN entries' = DOMAIN stored \ e
        /\ \A x \in DOMAIN entries' : entries'[x] = stored[x]
        /\ entries' = [x \in DOMAIN entries' |-> entries'[x]]
    BY <1>3
  <1>10. \A x \in DOMAIN entries : x # k /\ ~entries[x].complete => x \in DOMAIN entries'
    BY <1>5, <1>8, <1>9 DEF Diffs!Complete
  <1>11. \A x \in DOMAIN entries' :
           \/ x # k /\ x \in DOMAIN entries /\ entries'[x] = entries[x]
           \/ /\ x = k /\ entries'[x] \in CacheEntries
              /\ entries'[x].complete /\ entries'[x].value \in Diffs!Trees
    BY <1>1, <1>4, <1>5, <1>9
  <1>12. CacheTypes' /\ LoadInv'
    <2>1. IsFiniteSet(DOMAIN entries')
      BY <1>8, <1>9
    <2>2. QED
      BY <1>1, <1>2, <1>9, <1>10, <1>11, <2>1, CacheRelease
  <1>13. Diffs!Bounded'
    <2> SUFFICES ASSUME Cardinality(DOMAIN entries') > MaxEntries
                 PROVE  Diffs!Complete(entries') = {}
      BY SameCardinality DEF Diffs!Bounded
    <2>1. Cardinality(e) # n
      BY <1>6, <1>7, <1>8, <1>9, CacheAssumption
    <2>2. e = Diffs!Complete(stored)
      BY <1>8, <2>1
    <2>3. QED
      BY <1>9, <2>2 DEF Diffs!Complete
  <1>14. QED
    BY <1>12, <1>13 DEF CacheInv

LEMMA CacheFail ==
    ASSUME CacheInv, NEW r \in Reqs, Diffs!Fail(r)
    PROVE  CacheInv'
  <1> DEFINE k == req[r].key
  <1>1. /\ Loading(r) /\ k \in DOMAIN entries /\ IsFiniteSet(DOMAIN entries)
    BY DEF Diffs!Fail, Loading, CacheInv, CacheTypes, LoadInv
  <1>2. /\ Diffs!Release(r, "failed", None)
        /\ UNCHANGED <<content, treeEdits, root, gen, rev, hash, taken, since, crossed>>
    BY DEF Diffs!Fail, Diffs!tree, Diffs!db
  <1>3. /\ DOMAIN entries' = DOMAIN entries \ {k}
        /\ \A x \in DOMAIN entries' : entries'[x] = entries[x]
        /\ entries' = [x \in DOMAIN entries' |-> entries'[x]]
    BY DEF Diffs!Fail, Diffs!Without
  <1>4. /\ IsFiniteSet(DOMAIN entries') /\ Cardinality(DOMAIN entries) \in Nat
        /\ Cardinality(DOMAIN entries') = Cardinality(DOMAIN entries) - 1
    BY <1>1, <1>3, FS_RemoveElement, FS_CardinalityType
  <1>5. CacheTypes' /\ LoadInv'
    BY <1>1, <1>2, <1>3, <1>4, CacheRelease
  <1>6. Diffs!Bounded'
    BY <1>3, <1>4, SameCardinality, CacheAssumption DEF CacheInv, Diffs!Bounded, Diffs!Complete
  <1>7. QED
    BY <1>5, <1>6 DEF CacheInv

LEMMA CacheInvStep == CacheInv /\ [Diffs!Next]_(Diffs!vars) => CacheInv'
  BY CacheAround, CacheAsk, CacheMiss, CacheStore, CacheFail DEF Diffs!Next, Diffs!Serve

LEMMA CacheInvariance == ServiceSpec => []CacheInv
  BY Parts, CacheInitInv, CacheInvStep, PTL DEF ServiceSpec

\* An entry without an answer has exactly one request that loads it, and who
\* waits waits for the load of its own entry: no load runs twice, none is
\* waited for that has ended (git_cache.go:35-100).
THEOREM LoadsAreSingle == ServiceSpec => []OneLoad
  <1>1. CacheInv => OneLoad
    BY DEF CacheInv, LoadInv, Loading, OneLoad, Diffs!OneLoad
  <1>2. QED
    BY <1>1, CacheInvariance, PTL

\* There is always a tree to answer with.
HashInv ==
    /\ Diffs!Tree(root) \in since
    /\ \A s \in Diffs!Snapshotters : taken[s] # None => Diffs!Tree(root) \in taken[s].since

Past(k) == k.gen <= gen /\ (k.gen = gen => k.rev <= rev)

KeyInv ==
    /\ \A k \in DOMAIN entries : Past(k)
    /\ \A r \in Reqs : Diffs!Busy(r) => Past(req[r].key)

\* A request whose project had not moved when it got its key.
Straight(r) == Diffs!Busy(r) /\ req[r].key \notin crossed

\* Those of one registration have one root.
RootInv ==
    /\ \A q \in Reqs : Straight(q) /\ req[q].key.gen = gen => req[q].root = root
    /\ \A q, r \in Reqs : Straight(q) /\ Straight(r) /\ req[q].key.gen = req[r].key.gen
          => req[q].root = req[r].root

\* What is an answer for a key is fresh for whoever asks with that key, or is
\* still to ask.
FreshFor(k, value) ==
    k \notin crossed =>
        /\ k = Diffs!Key => value \in since
        /\ \A q \in Reqs : Diffs!Busy(q) /\ req[q].key = k => value \in req[q].fresh

FreshInv ==
    /\ \A q \in Reqs : Straight(q) => Diffs!Tree(req[q].root) \in req[q].fresh
    /\ \A k \in DOMAIN entries : entries[k].complete => FreshFor(k, entries[k].value)
    /\ \A r \in Reqs : req[r].pc = "loaded" => FreshFor(req[r].key, req[r].value)
    /\ \A r \in Reqs : req[r].pc = "answered"
          => req[r].key \in crossed \/ req[r].value \in req[r].fresh

FreshCacheInv == CacheInv /\ HashInv /\ KeyInv /\ RootInv /\ FreshInv

LEMMA FreshInitInv == Diffs!Init => FreshCacheInv
  <1> SUFFICES ASSUME Diffs!Init PROVE FreshCacheInv
    OBVIOUS
  <1>1. /\ DOMAIN entries = {} /\ \A r \in Reqs : req[r].pc = "idle"
        /\ \A s \in Diffs!Snapshotters : taken[s] = None
        /\ since = {Diffs!Tree(root)}
    BY DEF Diffs!Init, Diffs!Idle
  <1>2. HashInv /\ KeyInv /\ RootInv /\ FreshInv
    BY <1>1 DEF HashInv, KeyInv, RootInv, FreshInv, Straight, Diffs!Busy
  <1>3. QED
    BY <1>2, CacheInitInv DEF FreshCacheInv

\* An edit changes one tree, which everything about its root gains.
LEMMA FreshEdit ==
    ASSUME FreshCacheInv, NEW r \in Roots, NEW c \in Diffs!Contents, Diffs!Edit(r, c)
    PROVE  HashInv' /\ KeyInv' /\ RootInv' /\ FreshInv'
  <1> DEFINE t == <<r, c>>
  <1>1. /\ content' = [content EXCEPT ![r] = c]
        /\ since' = Diffs!With(since, root, t)
        /\ UNCHANGED <<root, gen, rev, hash, entries, crossed>>
        /\ content \in [Roots -> Diffs!Contents] /\ root \in Roots
    BY DEF Diffs!Edit, Diffs!db, FreshCacheInv, CacheInv, CacheTypes, Diffs!TypeOK
  <1>2. \A x \in Roots : Diffs!Tree(x)' = IF x = r THEN t ELSE Diffs!Tree(x)
    BY <1>1 DEF Diffs!Tree
  <1>3. \A trees, x : /\ trees \subseteq Diffs!With(trees, x, t)
                      /\ x = r => t \in Diffs!With(trees, x, t)
    BY DEF Diffs!With
  <1>4. \A q \in Reqs : /\ req'[q].pc = req[q].pc /\ req'[q].root = req[q].root
                        /\ req'[q].key = req[q].key /\ req'[q].value = req[q].value
                        /\ req'[q].fresh = IF Diffs!Busy(q)
                                           THEN Diffs!With(req[q].fresh, req[q].root, t)
                                           ELSE req[q].fresh
    BY DEF Diffs!Edit, FreshCacheInv, CacheInv, CacheTypes, Requests
  <1>5. \A s \in Diffs!Snapshotters :
           taken'[s] # None => /\ taken[s] # None
                               /\ taken'[s].since = Diffs!With(taken[s].since, root, t)
    <2>1. taken' = [s \in Diffs!Snapshotters |->
                      IF taken[s] = None THEN None
                      ELSE [taken[s] EXCEPT !.since = Diffs!With(@, root, t)]]
      BY DEF Diffs!Edit
    <2>2. \A s \in Diffs!Snapshotters : taken[s] # None =>
             taken[s] \in [hash : Roots \X Nat, since : SUBSET Diffs!Trees]
      BY DEF FreshCacheInv, CacheInv, CacheTypes
    <2>3. QED
      BY <2>1, <2>2
  <1> HIDE DEF t
  <1>6. HashInv'
    BY <1>1, <1>2, <1>3, <1>5 DEF FreshCacheInv, HashInv
  <1>7. KeyInv'
    BY <1>1, <1>4 DEF FreshCacheInv, KeyInv, Past, Diffs!Busy
  <1>8. \A q \in Reqs : /\ Diffs!Busy(q)' <=> Diffs!Busy(q)
                        /\ Straight(q)' <=> Straight(q)
                        /\ req[q].fresh \subseteq req'[q].fresh
    BY <1>1, <1>3, <1>4 DEF Straight, Diffs!Busy
  <1>9. RootInv'
    BY <1>1, <1>4, <1>8 DEF FreshCacheInv, RootInv
  <1>10. FreshInv'
    <2>1. \A q \in Reqs : Straight(q) => Diffs!Tree(req[q].root)' \in req'[q].fresh
      <3> SUFFICES ASSUME NEW q \in Reqs, Straight(q)
                   PROVE  Diffs!Tree(req[q].root)' \in req'[q].fresh
        OBVIOUS
      <3>1. /\ req[q].root \in Roots /\ Diffs!Busy(q)
            /\ Diffs!Tree(req[q].root) \in req[q].fresh
        BY DEF Straight, FreshCacheInv, FreshInv, CacheInv, CacheTypes
      <3>2. req'[q].fresh = Diffs!With(req[q].fresh, req[q].root, t)
        BY <1>4, <3>1
      <3>3. CASE req[q].root = r
        BY <1>1, <1>2, <1>3, <1>4, <3>1, <3>2, <3>3 DEF Diffs!Tree
      <3>4. CASE req[q].root # r
        BY <1>1, <1>2, <1>3, <1>4, <3>1, <3>2, <3>4 DEF Diffs!Tree
      <3>5. QED
        BY <3>3, <3>4
    <2>2. ASSUME NEW k, NEW value, FreshFor(k, value)
          PROVE  FreshFor(k, value)'
      BY <1>1, <1>3, <1>4, <1>8, <2>2 DEF FreshFor, Diffs!Key
    <2>3. \A q \in Reqs : req[q].pc = "loaded" => FreshFor(req[q].key, req[q].value)'
      <3> TAKE q \in Reqs
      <3> HAVE req[q].pc = "loaded"
      <3>1. FreshFor(req[q].key, req[q].value)
        BY DEF FreshCacheInv, FreshInv
      <3>2. PICK k, value : k = req[q].key /\ value = req[q].value
        OBVIOUS
      <3>3. FreshFor(k, value)'
        BY <2>2, <3>1, <3>2
      <3>4. QED
        BY <1>4, <3>2, <3>3 DEF FreshFor
    <2>4. \A k \in DOMAIN entries : entries[k].complete => FreshFor(k, entries[k].value)'
      <3> TAKE k \in DOMAIN entries
      <3> HAVE entries[k].complete
      <3>1. PICK value : value = entries[k].value
        OBVIOUS
      <3>2. FreshFor(k, value)'
        BY <2>2, <3>1 DEF FreshCacheInv, FreshInv
      <3>3. QED
        BY <1>1, <3>1, <3>2 DEF FreshFor
    <2>5. \A q \in Reqs : Straight(q)' => (Diffs!Tree(req[q].root) \in req[q].fresh)'
      <3> TAKE q \in Reqs
      <3>1. Diffs!Tree(req[q].root)' = <<req'[q].root, content'[req'[q].root]>>
        BY DEF Diffs!Tree
      <3>2. QED
        BY <1>8, <2>1
    <2>6. \A q \in Reqs : req'[q].pc = "answered"
             => req'[q].key \in crossed' \/ req'[q].value \in req'[q].fresh
      BY <1>1, <1>4, <1>8 DEF FreshCacheInv, FreshInv
    <2>7. \A k \in DOMAIN entries' : entries'[k].complete => FreshFor(k, entries[k].value)'
      BY <1>1, <2>4
    <2>8. \A q \in Reqs : req'[q].pc = "loaded" => FreshFor(req[q].key, req[q].value)'
      BY <1>4, <2>3
    <2>9. QED
      BY <2>5, <2>6, <2>7, <2>8 DEF FreshInv
  <1>11. QED
    BY <1>6, <1>7, <1>9, <1>10

\* A key of the future is nobody's; one that stays keeps the trees since.
LEMMA FreshSnapshots ==
    ASSUME FreshCacheInv,
           \/ \E r \in Roots : Diffs!Recreate(r)
           \/ \E s \in Diffs!Snapshotters : Diffs!Snapshot(s) \/ Diffs!ReplaceGitSnapshot(s)
    PROVE  HashInv' /\ KeyInv' /\ RootInv' /\ FreshInv'
  <1>1. /\ UNCHANGED <<content, treeEdits, entries, req, crossed>>
        /\ gen \in Nat /\ rev \in Nat
    BY CacheAssumption
       DEF Diffs!Recreate, Diffs!Snapshot, Diffs!ReplaceGitSnapshot, Diffs!tree,
           FreshCacheInv, CacheInv, CacheTypes, Diffs!TypeOK
  <1>2. \A x : Diffs!Tree(x)' = Diffs!Tree(x)
    BY <1>1 DEF Diffs!Tree
  <1>3. \/ UNCHANGED <<root, gen, rev, since>>
        \/ UNCHANGED <<root, gen>> /\ rev' = rev + 1
        \/ gen' = gen + 1
    BY DEF Diffs!Recreate, Diffs!Snapshot, Diffs!ReplaceGitSnapshot, Diffs!db
  <1>4. HashInv'
    <2>1. \A s \in Diffs!Snapshotters : taken[s] # None =>
             taken[s] \in [hash : Roots \X Nat, since : SUBSET Diffs!Trees]
      BY DEF FreshCacheInv, CacheInv, CacheTypes
    <2>2. CASE \E r \in Roots : Diffs!Recreate(r)
      <3>1. PICK r \in Roots : Diffs!Recreate(r)
        BY <2>2
      <3>2. /\ root' = r /\ since' = {Diffs!Tree(r)}
            /\ taken' = [s \in Diffs!Snapshotters |->
                           IF s = "worker" \/ taken[s] = None THEN None
                           ELSE [taken[s] EXCEPT !.since = {Diffs!Tree(r)}]]
        BY <3>1 DEF Diffs!Recreate
      <3>3. \A s \in Diffs!Snapshotters : taken'[s] # None => Diffs!Tree(r) \in taken'[s].since
        BY <2>1, <3>2
      <3>4. QED
        BY <1>1, <3>2, <3>3 DEF HashInv, Diffs!Tree
    <2>3. CASE \E s \in Diffs!Snapshotters : Diffs!Snapshot(s)
      <3>1. PICK s \in Diffs!Snapshotters : Diffs!Snapshot(s)
        BY <2>3
      <3>2. /\ UNCHANGED <<root, since>>
            /\ taken' = [taken EXCEPT ![s] = [hash |-> Diffs!snapshotHash(Diffs!Tree(root)),
                                              since |-> {Diffs!Tree(root)}]]
        BY <3>1 DEF Diffs!Snapshot, Diffs!db
      <3>3. \A q \in Diffs!Snapshotters :
               taken'[q] # None => Diffs!Tree(root) \in taken'[q].since
        BY <3>2 DEF FreshCacheInv, CacheInv, CacheTypes, HashInv
      <3>4. QED
        BY <1>1, <3>2, <3>3 DEF FreshCacheInv, HashInv, Diffs!Tree
    <2>4. CASE \E s \in Diffs!Snapshotters : Diffs!ReplaceGitSnapshot(s)
      <3>1. PICK s \in Diffs!Snapshotters : Diffs!ReplaceGitSnapshot(s)
        BY <2>4
      <3>2. /\ taken[s] # None /\ root' = root
            /\ since' = since \/ since' = taken[s].since
            /\ taken' = [taken EXCEPT ![s] = None]
        BY <3>1 DEF Diffs!ReplaceGitSnapshot
      <3>3. \A q \in Diffs!Snapshotters : taken'[q] # None => taken'[q] = taken[q]
        BY <3>2 DEF FreshCacheInv, CacheInv, CacheTypes
      <3>4. Diffs!Tree(root) \in since' /\
            \A q \in Diffs!Snapshotters : taken'[q] # None => Diffs!Tree(root) \in taken'[q].since
        BY <3>2, <3>3 DEF FreshCacheInv, HashInv
      <3>5. QED
        BY <1>1, <3>2, <3>4 DEF HashInv, Diffs!Tree
    <2>5. QED
      BY <2>2, <2>3, <2>4
  <1>5. \A k \in Diffs!Keys : Past(k) =>
           /\ Past(k)'
           /\ k = Diffs!Key' => since' = since /\ k = Diffs!Key
           /\ k.gen = gen' => root' = root /\ gen' = gen
    <2> SUFFICES ASSUME NEW k \in Diffs!Keys, Past(k)
                 PROVE  /\ Past(k)'
                        /\ k = Diffs!Key' => since' = since /\ k = Diffs!Key
                        /\ k.gen = gen' => root' = root /\ gen' = gen
      OBVIOUS
    <2>1. k.gen \in Nat /\ k.rev \in Nat
      BY CacheAssumption DEF Diffs!Keys
    <2>2. k = Diffs!Key' => k.gen = gen' /\ k.rev = rev'
      BY DEF Diffs!Key
    <2>3. QED
      BY <1>1, <1>3, <2>1, <2>2 DEF Past, Diffs!Key
  <1>6. /\ \A k \in DOMAIN entries : k \in Diffs!Keys /\ Past(k)
        /\ \A r \in Reqs : Diffs!Busy(r) => req[r].key \in Diffs!Keys /\ Past(req[r].key)
    BY DEF FreshCacheInv, CacheInv, CacheTypes, Diffs!TypeOK, KeyInv
  <1>7. KeyInv'
    BY <1>1, <1>5, <1>6 DEF KeyInv, Diffs!Busy, Past
  <1>8. RootInv'
    BY <1>1, <1>5, <1>6 DEF FreshCacheInv, RootInv, Straight, Diffs!Busy
  <1>9. ASSUME NEW k \in Diffs!Keys, Past(k), NEW value, FreshFor(k, value)
        PROVE  FreshFor(k, value)'
    BY <1>1, <1>5, <1>9 DEF FreshFor, Diffs!Busy
  <1>10. FreshInv'
    <2>1. \A k \in DOMAIN entries : entries[k].complete => FreshFor(k, entries[k].value)'
      <3> TAKE k \in DOMAIN entries
      <3> HAVE entries[k].complete
      <3>1. FreshFor(k, entries[k].value)
        BY DEF FreshCacheInv, FreshInv
      <3>2. PICK value : value = entries[k].value
        OBVIOUS
      <3>3. FreshFor(k, value)'
        BY <1>6, <1>9, <3>1, <3>2
      <3>4. QED
        BY <1>1, <3>2, <3>3 DEF FreshFor
    <2>2. \A r \in Reqs : req[r].pc = "loaded" => FreshFor(req[r].key, req[r].value)'
      <3> TAKE r \in Reqs
      <3> HAVE req[r].pc = "loaded"
      <3>1. FreshFor(req[r].key, req[r].value)
        BY DEF FreshCacheInv, FreshInv
      <3>2. req[r].key \in Diffs!Keys /\ Past(req[r].key)
        BY <1>6 DEF Diffs!Busy
      <3>3. PICK k, value : k \in Diffs!Keys /\ k = req[r].key /\ value = req[r].value
        BY <3>2
      <3>4. FreshFor(k, value)'
        BY <1>9, <3>1, <3>2, <3>3
      <3>5. QED
        BY <1>1, <3>3, <3>4 DEF FreshFor
    <2>3. \A q \in Reqs : Straight(q)' => (Diffs!Tree(req[q].root) \in req[q].fresh)'
      BY <1>1 DEF FreshCacheInv, FreshInv, Straight, Diffs!Busy, Diffs!Tree
    <2>4. QED
      BY <1>1, <2>1, <2>2, <2>3 DEF FreshCacheInv, FreshInv
  <1>11. QED
    BY <1>4, <1>7, <1>8, <1>10

\* A step of requests leaves the trees and what they are known by alone.
LEMMA FreshStands ==
    ASSUME FreshCacheInv, UNCHANGED <<content, treeEdits, root, gen, rev, hash, taken, since>>
    PROVE  /\ HashInv' /\ (\A k : Past(k)' <=> Past(k)) /\ Diffs!Key' = Diffs!Key
           /\ \A x : Diffs!Tree(x)' = Diffs!Tree(x)
  BY DEF FreshCacheInv, HashInv, Past, Diffs!Key, Diffs!Tree

\* A request gets its key.
LEMMA FreshKeyed ==
    ASSUME FreshCacheInv, NEW r \in Reqs, Diffs!gitCacheVersion(r)
    PROVE  HashInv' /\ KeyInv' /\ RootInv' /\ FreshInv'
  <1> USE DEF Diffs!Busy
  <1>1. /\ UNCHANGED <<content, treeEdits, root, gen, rev, hash, taken, entries, since>>
        /\ req \in [Reqs -> Requests] /\ req[r] \in Requests /\ req[r].pc = "named"
        /\ gen \in Nat /\ rev \in Nat
        /\ crossed' = IF req[r].root = root THEN crossed ELSE crossed \cup {Diffs!Key}
        /\ req' = [req EXCEPT ![r] = [req[r] EXCEPT !.pc = "keyed", !.key = Diffs!Key,
                                                    !.fresh = since]]
    BY CacheAssumption
       DEF Diffs!gitCacheVersion, Diffs!Become, Diffs!tree, Diffs!db, FreshCacheInv, CacheInv,
           CacheTypes, Diffs!TypeOK
  <1>2. /\ HashInv' /\ (\A k : Past(k)' <=> Past(k)) /\ Diffs!Key' = Diffs!Key
        /\ \A x : Diffs!Tree(x)' = Diffs!Tree(x)
    BY <1>1, FreshStands
  <1>3. /\ \A q \in Reqs \ {r} : req'[q] = req[q]
        /\ req'[r].pc = "keyed" /\ req'[r].key = Diffs!Key /\ req'[r].fresh = since
        /\ req'[r].root = req[r].root
    BY <1>1 DEF Requests
  <1>4. Past(Diffs!Key) /\ Diffs!Tree(root) \in since /\ Diffs!Key.gen = gen
    BY <1>1 DEF Past, Diffs!Key, FreshCacheInv, HashInv
  <1>5. KeyInv'
    BY <1>1, <1>2, <1>3, <1>4 DEF FreshCacheInv, KeyInv
  <1>6. /\ Straight(r)' => req[r].root = root
        /\ \A q \in Reqs \ {r} : Straight(q)' => Straight(q)
    BY <1>1, <1>3 DEF Straight
  <1>7. RootInv'
    <2>1. \A q \in Reqs \ {r} : Straight(q) /\ req[q].key.gen = gen => req[q].root = root
      BY DEF FreshCacheInv, RootInv
    <2>2. \A p, q \in Reqs \ {r} : Straight(p) /\ Straight(q) /\ req[p].key.gen = req[q].key.gen
             => req[p].root = req[q].root
      BY DEF FreshCacheInv, RootInv
    <2>3. \A q \in Reqs : Straight(q)' /\ req'[q].key.gen = gen => req'[q].root = root
      BY <1>3, <1>6, <2>1
    <2>4. \A p, q \in Reqs : Straight(p)' /\ Straight(q)' /\ req'[p].key.gen = req'[q].key.gen
             => req'[p].root = req'[q].root
      BY <1>3, <1>4, <1>6, <2>1, <2>2
    <2>5. QED
      BY <1>1, <2>3, <2>4 DEF RootInv
  <1>8. ASSUME NEW k, NEW value, FreshFor(k, value)
        PROVE  FreshFor(k, value)'
    BY <1>1, <1>2, <1>3, <1>8 DEF FreshFor
  <1>9. FreshInv'
    <2>1. \A q \in Reqs : Straight(q)' => (Diffs!Tree(req[q].root) \in req[q].fresh)'
      BY <1>1, <1>3, <1>4, <1>6 DEF FreshCacheInv, FreshInv, Diffs!Tree
    <2>2. \A k \in DOMAIN entries' : entries'[k].complete => FreshFor(k, entries[k].value)'
      <3> TAKE k \in DOMAIN entries'
      <3> HAVE entries'[k].complete
      <3>1. PICK value : value = entries[k].value
        OBVIOUS
      <3>2. FreshFor(k, value)'
        BY <1>1, <1>8, <3>1 DEF FreshCacheInv, FreshInv
      <3>3. QED
        BY <1>1, <3>1, <3>2 DEF FreshFor
    <2>3. \A q \in Reqs : req'[q].pc = "loaded" => FreshFor(req[q].key, req[q].value)'
      <3> TAKE q \in Reqs
      <3> HAVE req'[q].pc = "loaded"
      <3>1. q # r /\ req'[q] = req[q]
        BY <1>3
      <3>2. PICK k, value : k = req[q].key /\ value = req[q].value
        OBVIOUS
      <3>3. FreshFor(k, value)'
        BY <1>8, <3>1, <3>2 DEF FreshCacheInv, FreshInv
      <3>4. QED
        BY <3>1, <3>2, <3>3 DEF FreshFor
    <2>4. \A q \in Reqs : req'[q].pc = "answered"
             => req'[q].key \in crossed' \/ req'[q].value \in req'[q].fresh
      BY <1>1, <1>3 DEF FreshCacheInv, FreshInv
    <2>5. QED
      BY <2>1, <2>2, <2>3, <2>4 DEF FreshInv
  <1>10. QED
    BY <1>2, <1>5, <1>7, <1>9

\* The other steps of a request: those busy keep root, key and trees, and what
\* is loaded or in the cache is fresh.
LEMMA FreshEntries ==
    ASSUME FreshCacheInv,
           UNCHANGED <<content, treeEdits, root, gen, rev, hash, taken, since, crossed>>,
           \A q \in Reqs :
              /\ req'[q].pc \in BusyPc =>
                    /\ Diffs!Busy(q) /\ req'[q].key = req[q].key
                    /\ req'[q].root = req[q].root /\ req'[q].fresh = req[q].fresh
              /\ req'[q].pc = "loaded" => FreshFor(req'[q].key, req'[q].value)
              /\ req'[q].pc = "answered"
                    => req'[q].key \in crossed \/ req'[q].value \in req'[q].fresh,
           \A k \in DOMAIN entries' :
              Past(k) /\ (entries'[k].complete => FreshFor(k, entries'[k].value))
    PROVE  HashInv' /\ KeyInv' /\ RootInv' /\ FreshInv'
  <1> USE DEF BusyPc, Diffs!Busy
  <1>1. /\ HashInv' /\ (\A k : Past(k)' <=> Past(k)) /\ Diffs!Key' = Diffs!Key
        /\ \A x : Diffs!Tree(x)' = Diffs!Tree(x)
    BY FreshStands
  <1>2. KeyInv'
    <2>1. \A q \in Reqs : req'[q].pc \in BusyPc => Past(req'[q].key)
      BY DEF FreshCacheInv, KeyInv
    <2>2. QED
      BY <2>1 DEF KeyInv, Past
  <1>3. \A q \in Reqs : Straight(q)' => /\ Straight(q) /\ req'[q].key = req[q].key
                                        /\ req'[q].root = req[q].root
                                        /\ req'[q].fresh = req[q].fresh
    BY DEF Straight
  <1>4. RootInv'
    BY <1>3 DEF FreshCacheInv, RootInv
  <1>5. ASSUME NEW k, NEW value, FreshFor(k, value)
        PROVE  FreshFor(k, value)'
    <2>1. \A q \in Reqs : req'[q].pc \in BusyPc /\ req'[q].key = k => 
             Diffs!Busy(q) /\ req[q].key = k /\ req'[q].fresh = req[q].fresh
      OBVIOUS
    <2>2. QED
      BY <1>1, <1>5, <2>1 DEF FreshFor
  <1>6. \A q \in Reqs : Straight(q)' => (Diffs!Tree(req[q].root) \in req[q].fresh)'
    BY <1>3 DEF FreshCacheInv, FreshInv, Diffs!Tree
  <1>7. \A k \in DOMAIN entries' : entries'[k].complete => FreshFor(k, entries[k].value)'
    <2> TAKE k \in DOMAIN entries'
    <2> HAVE entries'[k].complete
    <2>1. PICK value : value = entries'[k].value
      OBVIOUS
    <2>2. FreshFor(k, value)'
      BY <1>5, <2>1
    <2>3. QED
      BY <2>1, <2>2 DEF FreshFor
  <1>8. \A q \in Reqs : req'[q].pc = "loaded" => FreshFor(req[q].key, req[q].value)'
    <2> TAKE q \in Reqs
    <2> HAVE req'[q].pc = "loaded"
    <2>1. PICK k, value : k = req'[q].key /\ value = req'[q].value
      OBVIOUS
    <2>2. FreshFor(k, value)'
      BY <1>5, <2>1
    <2>3. QED
      BY <2>1, <2>2 DEF FreshFor
  <1>9. FreshInv'
    BY <1>6, <1>7, <1>8 DEF FreshInv
  <1>10. QED
    BY <1>1, <1>2, <1>4, <1>9

LEMMA FreshAsk ==
    ASSUME FreshCacheInv, NEW r \in Reqs,
           Diffs!GetProject(r) \/ Diffs!Hit(r) \/ Diffs!Join(r) \/ Diffs!Diff(r) \/ Diffs!Cancel(r)
    PROVE  HashInv' /\ KeyInv' /\ RootInv' /\ FreshInv'
  <1> USE DEF Diffs!Busy
  <1>1. /\ UNCHANGED <<content, treeEdits, root, gen, rev, hash, taken, entries, since, crossed>>
        /\ req \in [Reqs -> Requests] /\ req[r] \in Requests
    BY DEF Diffs!GetProject, Diffs!Hit, Diffs!Join, Diffs!Diff, Diffs!Cancel, Diffs!tree,
           Diffs!db, FreshCacheInv, CacheInv, CacheTypes
  <1>2. \A q \in Reqs \ {r} : req'[q] = req[q]
    BY <1>1 DEF Diffs!GetProject, Diffs!Hit, Diffs!Join, Diffs!Diff, Diffs!Cancel, Diffs!Become
  <1>3. /\ req'[r].pc \in BusyPc =>
              /\ Diffs!Busy(r) /\ req'[r].key = req[r].key
              /\ req'[r].root = req[r].root /\ req'[r].fresh = req[r].fresh
        /\ req'[r].pc = "loaded" => FreshFor(req'[r].key, req'[r].value)
        /\ req'[r].pc = "answered" => req'[r].key \in crossed \/ req'[r].value \in req'[r].fresh
    <2>1. CASE Diffs!GetProject(r)
      <3>1. req'[r] = [Diffs!Idle EXCEPT !.pc = "named", !.root = root]
        BY <1>1, <2>1 DEF Diffs!GetProject, Diffs!Become
      <3>2. req'[r].pc = "named"
        BY <3>1 DEF Diffs!Idle
      <3>3. QED
        BY <3>2 DEF BusyPc
    <2>2. CASE Diffs!Hit(r)
      <3>1. /\ req[r].pc = "keyed" /\ req[r].key \in DOMAIN entries
            /\ entries[req[r].key].complete
            /\ req'[r] = Diffs!Ended(r, "answered", entries[req[r].key].value)
        BY <1>1, <2>2 DEF Diffs!Hit, Diffs!Become, Diffs!Complete
      <3>2. /\ entries[req[r].key].value \in Diffs!Trees
            /\ req[r].key \in crossed \/ entries[req[r].key].value \in req[r].fresh
        BY <3>1 DEF FreshCacheInv, FreshInv, FreshFor, CacheInv, CacheTypes, Diffs!TypeOK
      <3>3. /\ req'[r].pc = "answered" /\ req'[r].value = entries[req[r].key].value
            /\ req'[r].fresh = req[r].fresh /\ req'[r].key = req[r].key
        BY <3>1, <3>2, EndedFacts DEF FreshCacheInv
      <3>4. QED
        BY <3>2, <3>3 DEF BusyPc
    <2>3. CASE Diffs!Join(r)
      <3>1. /\ req[r].pc = "keyed"
            /\ req'[r] = [req[r] EXCEPT !.pc = "waiting", !.of = entries[req[r].key].leader]
        BY <1>1, <2>3 DEF Diffs!Join, Diffs!Become
      <3>2. /\ req'[r].pc = "waiting" /\ req'[r].key = req[r].key
            /\ req'[r].fresh = req[r].fresh /\ req'[r].root = req[r].root
        BY <1>1, <3>1 DEF Requests
      <3>3. QED
        BY <3>1, <3>2
    <2>4. CASE Diffs!Diff(r)
      <3> DEFINE t == Diffs!Tree(req[r].root)
      <3>1. /\ req[r].pc = "loading"
            /\ req'[r] = [req[r] EXCEPT !.pc = "loaded", !.value = t]
        BY <1>1, <2>4 DEF Diffs!Diff, Diffs!Become
      <3>2. /\ req'[r].pc = "loaded" /\ req'[r].key = req[r].key /\ req'[r].value = t
            /\ req'[r].fresh = req[r].fresh /\ req'[r].root = req[r].root
        BY <1>1, <3>1 DEF Requests
      <3>3. ASSUME req[r].key \notin crossed
            PROVE  /\ req[r].key = Diffs!Key => t \in since
                   /\ \A q \in Reqs : Diffs!Busy(q) /\ req[q].key = req[r].key
                         => t \in req[q].fresh
        <4>1. Straight(r)
          BY <3>1, <3>3 DEF Straight
        <4>2. req[r].key = Diffs!Key => req[r].key.gen = gen
          BY DEF Diffs!Key
        <4>3. req[r].key = Diffs!Key => t \in since
          BY <4>1, <4>2 DEF FreshCacheInv, RootInv, HashInv
        <4>4. \A q \in Reqs : Diffs!Busy(q) /\ req[q].key = req[r].key
                 => Straight(q) /\ req[q].root = req[r].root
          BY <3>3, <4>1 DEF FreshCacheInv, RootInv, Straight
        <4>5. \A q \in Reqs : Straight(q) => Diffs!Tree(req[q].root) \in req[q].fresh
          BY DEF FreshCacheInv, FreshInv
        <4>6. QED
          BY <4>3, <4>4, <4>5
      <3> HIDE DEF t
      <3>4. FreshFor(req[r].key, t)
        BY <3>3 DEF FreshFor
      <3>5. QED
        BY <3>1, <3>2, <3>4
    <2>5. CASE Diffs!Cancel(r)
      <3>1. req'[r].pc = "failed"
        BY <1>1, <2>5, EndedFacts DEF Diffs!Cancel, Diffs!Become, FreshCacheInv
      <3>2. QED
        BY <3>1 DEF BusyPc
    <2>6. QED
      BY <2>1, <2>2, <2>3, <2>4, <2>5
  <1>4. \A q \in Reqs :
          /\ req'[q].pc \in BusyPc =>
                /\ Diffs!Busy(q) /\ req'[q].key = req[q].key
                /\ req'[q].root = req[q].root /\ req'[q].fresh = req[q].fresh
          /\ req'[q].pc = "loaded" => FreshFor(req'[q].key, req'[q].value)
          /\ req'[q].pc = "answered"
                => req'[q].key \in crossed \/ req'[q].value \in req'[q].fresh
    BY <1>2, <1>3 DEF FreshCacheInv, FreshInv, BusyPc
  <1>5. \A k \in DOMAIN entries' :
           Past(k) /\ (entries'[k].complete => FreshFor(k, entries'[k].value))
    BY <1>1 DEF FreshCacheInv, KeyInv, FreshInv
  <1>6. QED
    BY <1>1, <1>4, <1>5, FreshEntries

LEMMA FreshLoads ==
    ASSUME FreshCacheInv, NEW r \in Reqs,
           Diffs!Miss(r) \/ Diffs!Store(r) \/ Diffs!Fail(r)
    PROVE  HashInv' /\ KeyInv' /\ RootInv' /\ FreshInv'
  <1> USE DEF BusyPc, Diffs!Busy
  <1>1. /\ UNCHANGED <<content, treeEdits, root, gen, rev, hash, taken, since, crossed>>
        /\ req \in [Reqs -> Requests] /\ req[r] \in Requests
        /\ \A q \in Reqs : req[q] \in Requests
    BY DEF Diffs!Miss, Diffs!Store, Diffs!Fail, Diffs!tree, Diffs!db, FreshCacheInv, CacheInv,
           CacheTypes
  <1>2. /\ \A k \in DOMAIN entries :
              Past(k) /\ (entries[k].complete => FreshFor(k, entries[k].value))
        /\ \A q \in Reqs : /\ req[q].pc = "loaded" => FreshFor(req[q].key, req[q].value)
                           /\ req[q].pc = "answered"
                                 => req[q].key \in crossed \/ req[q].value \in req[q].fresh
    BY DEF FreshCacheInv, KeyInv, FreshInv
  <1>3. CASE Diffs!Miss(r)
    <2> DEFINE k == req[r].key
               new == [req[r] EXCEPT !.pc = "loading", !.of = r]
    <2>1. /\ req[r].pc = "keyed" /\ Past(k)
          /\ req'[r] = new /\ \A q \in Reqs \ {r} : req'[q] = req[q]
      BY <1>1, <1>3 DEF Diffs!Miss, Diffs!Become, FreshCacheInv, KeyInv
    <2>2. /\ new.pc = "loading" /\ new.key = k /\ new.fresh = req[r].fresh
          /\ new.root = req[r].root
      BY <1>1 DEF Requests
    <2>3. \A x \in DOMAIN entries' :
             \/ x \in DOMAIN entries /\ entries'[x] = entries[x]
             \/ x = k /\ entries'[x].complete = FALSE
      BY <1>3 DEF Diffs!Miss, Diffs!Put, Diffs!Without
    <2>4. \A x \in DOMAIN entries' :
             Past(x) /\ (entries'[x].complete => FreshFor(x, entries'[x].value))
      BY <1>2, <2>1, <2>3
    <2> HIDE DEF new
    <2>5. \A q \in Reqs :
             /\ req'[q].pc \in BusyPc =>
                   /\ Diffs!Busy(q) /\ req'[q].key = req[q].key
                   /\ req'[q].root = req[q].root /\ req'[q].fresh = req[q].fresh
             /\ req'[q].pc = "loaded" => FreshFor(req'[q].key, req'[q].value)
             /\ req'[q].pc = "answered"
                   => req'[q].key \in crossed \/ req'[q].value \in req'[q].fresh
      BY <1>2, <2>1, <2>2
    <2>6. QED
      BY <1>1, <2>4, <2>5, FreshEntries
  <1>4. CASE Diffs!Store(r) \/ Diffs!Fail(r)
    <2>1. PICK pc \in {"answered", "failed"}, value \in Diffs!Trees \cup {None} :
             /\ Diffs!Release(r, pc, value)
             /\ pc = "answered" => req[r].pc = "loaded" /\ value = req[r].value
      BY <1>4 DEF Diffs!Store, Diffs!Fail, FreshCacheInv, CacheInv, CacheTypes, Diffs!TypeOK
    <2> DEFINE released(q) == q = r \/ (req[q].pc = "waiting" /\ req[q].of = r)
    <2>2. \A q \in Reqs :
            /\ released(q) => /\ req'[q].pc = pc /\ req'[q].value = value
                              /\ req'[q].fresh = req[q].fresh /\ req'[q].key = req[q].key
            /\ ~released(q) => req'[q] = req[q]
      BY <2>1, EndedFacts DEF Diffs!Release, FreshCacheInv
    <2>3. \A q \in Reqs : released(q) => Diffs!Busy(q) /\ req[q].key = req[r].key
      BY <1>4 DEF Diffs!Store, Diffs!Fail, FreshCacheInv, CacheInv, LoadInv
    <2>4. \A q \in Reqs : released(q) /\ pc = "answered"
             => req[q].key \in crossed \/ value \in req[q].fresh
      BY <1>2, <2>1, <2>3 DEF FreshFor
    <2>5. \A q \in Reqs :
             /\ req'[q].pc \in BusyPc =>
                   /\ Diffs!Busy(q) /\ req'[q].key = req[q].key
                   /\ req'[q].root = req[q].root /\ req'[q].fresh = req[q].fresh
             /\ req'[q].pc = "loaded" => FreshFor(req'[q].key, req'[q].value)
             /\ req'[q].pc = "answered"
                   => req'[q].key \in crossed \/ req'[q].value \in req'[q].fresh
      BY <1>2, <2>2, <2>4
    <2>6. \A x \in DOMAIN entries' :
             \/ x \in DOMAIN entries /\ entries'[x] = entries[x]
             \/ /\ x \in DOMAIN entries /\ x = req[r].key
                /\ req[r].pc = "loaded" /\ entries'[x].value = req[r].value
      <3>1. req[r].key \in DOMAIN entries
        BY <1>4 DEF Diffs!Store, Diffs!Fail, FreshCacheInv, CacheInv, LoadInv, Loading
      <3>2. QED
        <4>1. CASE Diffs!Store(r)
          <5> DEFINE entry == [complete |-> TRUE, leader |-> None, value |-> req[r].value]
                     stored == Diffs!Put(entries, req[r].key, entry)
          <5>1. req[r].pc = "loaded" /\ \E e : entries' = [x \in DOMAIN stored \ e |-> stored[x]]
            BY <4>1 DEF Diffs!Store
          <5>2. /\ DOMAIN stored = DOMAIN entries /\ stored[req[r].key].value = req[r].value
                /\ \A x \in DOMAIN entries \ {req[r].key} : stored[x] = entries[x]
            BY <3>1 DEF Diffs!Put
          <5> HIDE DEF stored
          <5>3. QED
            BY <5>1, <5>2
        <4>2. CASE Diffs!Fail(r)
          BY <4>2 DEF Diffs!Fail, Diffs!Without
        <4>3. QED
          BY <1>4, <4>1, <4>2
    <2>7. \A x \in DOMAIN entries' :
             Past(x) /\ (entries'[x].complete => FreshFor(x, entries'[x].value))
      BY <1>2, <2>6
    <2>8. QED
      BY <1>1, <2>5, <2>7, FreshEntries
  <1>5. QED
    BY <1>3, <1>4

LEMMA FreshStep == FreshCacheInv /\ [Diffs!Next]_(Diffs!vars) => FreshCacheInv'
  <1> SUFFICES ASSUME FreshCacheInv, [Diffs!Next]_(Diffs!vars)
               PROVE  FreshCacheInv'
    OBVIOUS
  <1>1. CacheInv'
    BY CacheInvStep DEF FreshCacheInv
  <1>2. CASE UNCHANGED Diffs!vars
    BY <1>1, <1>2 DEF Diffs!vars, Diffs!tree, Diffs!db, FreshCacheInv, HashInv, KeyInv, RootInv,
                      FreshInv, Straight, Past, FreshFor, Diffs!Busy, Diffs!Key, Diffs!Tree
  <1>3. CASE Diffs!Next
    BY <1>1, <1>3, FreshEdit, FreshSnapshots, FreshKeyed, FreshAsk, FreshLoads
       DEF Diffs!Next, Diffs!Serve, FreshCacheInv
  <1>4. QED
    BY <1>2, <1>3

\* A diff shows a tree that the project has had since the snapshot was read that
\* gave it its revision, whatever is edited, undone or registered again, and only
\* loads under way exceed the bound of the cache (git_cache.go:21, 83-100); left
\* out are the keys under which a request loads whose project moved to another
\* root after it was read (git.go:97-104).
THEOREM FreshAnswers == ServiceSpec => []AnswersAreFresh
  <1>1. ServiceInit => FreshCacheInv
    BY Parts, FreshInitInv
  <1>2. FreshCacheInv /\ [ServiceNext]_serviceVars => FreshCacheInv'
    BY Parts, FreshStep
  <1>3. FreshCacheInv => AnswersAreFresh
    BY DEF FreshCacheInv, CacheInv, CacheTypes, FreshInv, AnswersAreFresh, Diffs!AnswersAreFresh
  <1>4. QED
    BY <1>1, <1>2, <1>3, PTL DEF ServiceSpec

-----------------------------------------------------------------------------
(* Snapshots.                                                              *)

Snapshots == [head : Nat, changed : SUBSET Files, untracked : SUBSET Files,
              lines : [Files -> Nat], listed : SUBSET Trees, dirty : SUBSET Trees]
JobStates == Results \cup {"none", "listed", "queued", "waiting", "running"}
Phases == Commands \cup {"idle", "check", "trees", "done"}

SnapTypes ==
    /\ TypeOK /\ free \in Nat
    /\ out \in [Snaps -> Snapshots]
    /\ moments = [s \in Snaps |-> moments[s]]
    /\ \A s \in Snaps : IsFiniteSet(moments[s])

\* Which results there may be where a snapshot stands.
JobsOf(s) ==
    \A t \in Trees :
        /\ phase[s] \in Commands \cup {"idle", "check"} => job[s][t] \in {"none", "listed"}
        /\ phase[s] = "done" => job[s][t] \notin {"queued", "waiting", "running"}
        /\ phase[s] = "done" /\ error[s] \in Trees /\ t < error[s] => job[s][t] # "failed"

JobInv == \A s \in Snaps : JobsOf(s)

Under(s) == phase[s] \notin {"idle", "done"}

\* Before the first commit no file is tracked.
FileInv == head = 0 => \A f \in Files : file[f] \in {"untracked", "absent"}

MomentInv == \A s \in Snaps : Under(s) => repo \in moments[s]

\* How far a snapshot of a repository that has not changed is.
StatusExact(snapshot, m) ==
    /\ snapshot.head = m[1]
    /\ snapshot.changed = {x \in Files : m[2][x] = "changed"}
    /\ snapshot.untracked = {x \in Files : m[2][x] = "untracked"}
LinesExact(snapshot, m, states) ==
    \A x \in Files : snapshot.lines[x] = IF m[2][x] \in states THEN 1 ELSE 0
ListExact(snapshot, m) == snapshot.listed = {x \in Trees : m[3][x] # "removed"}

Progress(s, m) ==
    /\ phase[s] \in {"lines", "intent", "untracked", "list", "check", "trees"} => StatusExact(out[s], m)
    /\ phase[s] \in {"intent", "untracked"} => LinesExact(out[s], m, {"changed"})
    /\ phase[s] \in {"list", "check", "trees"} => LinesExact(out[s], m, {"changed", "untracked"})
    /\ phase[s] \in {"check", "trees"} => ListExact(out[s], m)
    /\ phase[s] = "check" => \A t \in Trees :
          job[s][t] = IF m[3][t] \in {"clean", "dirty"} THEN "listed" ELSE "none"
    /\ phase[s] = "trees" => \A t \in Trees :
          IF m[3][t] \in {"clean", "dirty"}
          THEN job[s][t] \in {"queued", "waiting", "running", "failed", m[3][t]}
          ELSE job[s][t] = "none"
    /\ Returned(s) => Exact(out[s], m)

ExactInv == \A s \in Snaps : \A m \in moments[s] : moments[s] = {m} => Progress(s, m)

SlotInv == SnapTypes /\ JobInv
SnapInv == SlotInv /\ FileInv /\ MomentInv /\ ExactInv

\* The first of some worktrees: one of them, and none before it.
LEMMA FirstLeast ==
    ASSUME NEW S \in SUBSET Trees, S # {}
    PROVE  First(S) \in S /\ \A u \in S : First(S) <= u
  <1>1. LastTree \in Nat /\ \A u \in Trees : u \in Nat /\ 1 .. u \in SUBSET Trees
    BY TreesAssumption DEF Trees
  <1> DEFINE R == StrictSubsetOrdering(Trees)
             T == {1 .. u : u \in S}
  <1>2. IsWellFoundedOn(R, SUBSET Trees)
    <2>1. IsFiniteSet(Trees)
      BY <1>1, FS_Interval DEF Trees
    <2>2. QED
      BY <2>1, FS_FiniteSubsetsOfFinite, FS_StrictSubsetOrderingWellFounded
  <1>3. T \subseteq SUBSET Trees /\ T # {}
    BY <1>1
  <1>4. PICK x \in T : \A y \in T : ~ (<<y, x>> \in R)
    <2> HIDE DEF R, T
    <2> QED
      BY <1>2, <1>3, WFMin
  <1>5. PICK t \in S : x = 1 .. t
    BY <1>4
  <1>6. \A u \in S : t <= u
    <2> SUFFICES ASSUME NEW u \in S, u < t PROVE FALSE
      BY <1>1
    <2>1. u \in Nat /\ t \in Nat /\ t >= 1 /\ u >= 1
      BY <1>1 DEF Trees
    <2>2. 1 .. u \subseteq 1 .. t /\ t \in 1 .. t /\ t \notin 1 .. u
      BY <2>1
    <2>3. <<1 .. u, 1 .. t>> \in R
      BY <1>1, <2>2 DEF StrictSubsetOrdering
    <2>4. QED
      BY <1>4, <1>5, <2>3
  <1>7. QED
    BY <1>6 DEF First

\* The slots in use, when one command takes or gives one.
LEMMA Holders ==
    ASSUME NEW f \in [Snaps -> BOOLEAN], NEW g \in [Snaps -> BOOLEAN], NEW s \in Snaps,
           \A q \in Snaps \ {s} : g[q] = f[q]
    PROVE  LET before == Cardinality({q \in Snaps : f[q]})
               after == Cardinality({q \in Snaps : g[q]})
           IN  /\ before \in Nat /\ after \in Nat
               /\ f[s] = g[s] => after = before
               /\ g[s] /\ ~f[s] => after = before + 1
               /\ f[s] /\ ~g[s] => after = before - 1
  <1> DEFINE F == {q \in Snaps : f[q]}
             G == {q \in Snaps : g[q]}
  <1>1. IsFiniteSet(F) /\ IsFiniteSet(G)
    BY SnapsAssumption, FS_Subset
  <1>2. /\ f[s] = g[s] => G = F
        /\ g[s] /\ ~f[s] => G = F \cup {s} /\ s \notin F
        /\ f[s] /\ ~g[s] => G = F \ {s} /\ s \in F
    OBVIOUS
  <1> HIDE DEF F, G
  <1>3. /\ Cardinality(F) \in Nat /\ Cardinality(G) \in Nat
        /\ f[s] = g[s] => Cardinality(G) = Cardinality(F)
        /\ g[s] /\ ~f[s] => Cardinality(G) = Cardinality(F) + 1
        /\ f[s] /\ ~g[s] => Cardinality(G) = Cardinality(F) - 1
    BY <1>1, <1>2, FS_CardinalityType, FS_AddElement, FS_RemoveElement
  <1>4. QED
    BY <1>3 DEF F, G

Running(f) == {st \in Snaps \X Trees : f[st[1]][st[2]] = "running"}

LEMMA Runners ==
    ASSUME NEW f, NEW g, NEW s \in Snaps, NEW t \in Trees,
           \A q \in Snaps, u \in Trees :
              <<q, u>> # <<s, t>> => (g[q][u] = "running" <=> f[q][u] = "running")
    PROVE  /\ Cardinality(Running(f)) \in Nat /\ Cardinality(Running(g)) \in Nat
           /\ (g[s][t] = "running" <=> f[s][t] = "running") =>
                 Cardinality(Running(g)) = Cardinality(Running(f))
           /\ g[s][t] = "running" /\ f[s][t] # "running" =>
                 Cardinality(Running(g)) = Cardinality(Running(f)) + 1
           /\ f[s][t] = "running" /\ g[s][t] # "running" =>
                 Cardinality(Running(g)) = Cardinality(Running(f)) - 1
  <1>1. IsFiniteSet(Running(f)) /\ IsFiniteSet(Running(g))
    <2>1. IsFiniteSet(Trees)
      BY TreesAssumption, FS_Interval DEF Trees
    <2>2. IsFiniteSet(Snaps \X Trees)
      BY <2>1, SnapsAssumption, FS_Product
    <2>3. QED
      BY <2>2, FS_Subset DEF Running
  <1>2. /\ \A q \in Snaps, u \in Trees : <<q, u>> \in Running(f) <=> f[q][u] = "running"
        /\ \A q \in Snaps, u \in Trees : <<q, u>> \in Running(g) <=> g[q][u] = "running"
        /\ Running(f) \subseteq Snaps \X Trees /\ Running(g) \subseteq Snaps \X Trees
    BY DEF Running
  <1>3. /\ (g[s][t] = "running" <=> f[s][t] = "running") => Running(g) = Running(f)
        /\ g[s][t] = "running" /\ f[s][t] # "running" =>
              Running(g) = Running(f) \cup {<<s, t>>} /\ <<s, t>> \notin Running(f)
        /\ f[s][t] = "running" /\ g[s][t] # "running" =>
              Running(g) = Running(f) \ {<<s, t>>} /\ <<s, t>> \in Running(f)
    BY <1>2
  <1>4. QED
    BY <1>1, <1>3, FS_CardinalityType, FS_AddElement, FS_RemoveElement

LEMMA SameRunning ==
    ASSUME NEW f, NEW g,
           \A q \in Snaps, u \in Trees : g[q][u] = "running" <=> f[q][u] = "running"
    PROVE  Running(g) = Running(f)
  BY DEF Running

LEMMA SlotInitInv == Init => SlotInv
  <1> SUFFICES ASSUME Init PROVE SlotInv
    OBVIOUS
  <1>1. Empty \in Snapshots
    BY DEF Empty, Snapshots
  <1>2. NoJobs \in [Trees -> JobStates] /\ \A t \in Trees : NoJobs[t] = "none"
    BY DEF NoJobs, JobStates
  <1>3. {s \in Snaps : holding[s]} = {} /\ Running(job) = {}
    BY <1>2 DEF Init, Running
  <1>4. free + Cardinality({s \in Snaps : holding[s]}) + Cardinality(Running(job)) = Slots
    <2>1. Cardinality({s \in Snaps : holding[s]}) = 0 /\ Cardinality(Running(job)) = 0
      BY <1>3, FS_EmptySet
    <2>2. QED
      BY <2>1, SlotsAssumption DEF Init
  <1>5. head \in Nat /\ edits \in 0 .. MaxEdits /\ faults \in 0 .. MaxFaults /\ free \in Nat
    BY BoundsAssumption, SlotsAssumption DEF Init
  <1>6. /\ file \in [Files -> {"clean", "changed", "untracked", "absent"}]
        /\ tree \in [Trees -> {"clean", "dirty", "missing", "removed"}]
    BY DEF Init
  <1>7. /\ phase \in [Snaps -> Phases] /\ holding \in [Snaps -> BOOLEAN]
        /\ expired \in [Snaps -> BOOLEAN]
        /\ error \in [Snaps -> {None, CommandError} \cup Trees]
        /\ job \in [Snaps -> [Trees -> JobStates]]
        /\ out \in [Snaps -> Snapshots]
        /\ moments = [s \in Snaps |-> moments[s]]
        /\ \A s \in Snaps : IsFiniteSet(moments[s]) /\ phase[s] = "idle" /\ job[s] = NoJobs
    BY <1>1, <1>2, FS_EmptySet DEF Init, Phases
  <1>8. SnapTypes
    BY <1>4, <1>5, <1>6, <1>7 DEF SnapTypes, TypeOK, Running, Phases, JobStates
  <1>9. JobInv
    BY <1>2, <1>7 DEF JobInv, JobsOf, Commands
  <1>10. QED
    BY <1>8, <1>9 DEF SlotInv

Frame(s) ==
    /\ UNCHANGED <<head, file, tree, edits>>
    /\ \A q \in Snaps \ {s} :
          /\ phase'[q] = phase[q] /\ error'[q] = error[q] /\ job'[q] = job[q]
          /\ out'[q] = out[q] /\ moments'[q] = moments[q]

\* One snapshot goes on; what is left to show of it.
LEMMA SlotOne ==
    ASSUME SlotInv, NEW s \in Snaps, Frame(s),
           faults' \in 0 .. MaxFaults, free' \in Nat,
           phase' \in [Snaps -> Phases], holding' \in [Snaps -> BOOLEAN],
           expired' \in [Snaps -> BOOLEAN],
           error' \in [Snaps -> {None, CommandError} \cup Trees],
           job' \in [Snaps -> [Trees -> JobStates]], out' \in [Snaps -> Snapshots],
           moments' = [q \in Snaps |-> moments'[q]], IsFiniteSet(moments'[s]),
           free' + Cardinality({q \in Snaps : holding'[q]}) + Cardinality(Running(job'))
              = free + Cardinality({q \in Snaps : holding[q]}) + Cardinality(Running(job)),
           JobsOf(s)'
    PROVE  SlotInv'
  <1>1. free + Cardinality({q \in Snaps : holding[q]}) + Cardinality(Running(job)) = Slots
    BY DEF SlotInv, SnapTypes, TypeOK, Running
  <1>2. SnapTypes'
    <2>1. \A q \in Snaps : IsFiniteSet(moments'[q])
      BY DEF Frame, SlotInv, SnapTypes
    <2>2. QED
      BY <1>1, <2>1 DEF SlotInv, SnapTypes, TypeOK, Frame, Running, Phases, JobStates
  <1>3. JobInv'
    BY DEF SlotInv, JobInv, JobsOf, Frame
  <1>4. QED
    BY <1>2, <1>3 DEF SlotInv

\* What the types say of the parts.
LEMMA SnapParts ==
    ASSUME SlotInv
    PROVE  /\ faults \in 0 .. MaxFaults /\ free \in Nat
           /\ phase \in [Snaps -> Phases] /\ holding \in [Snaps -> BOOLEAN]
           /\ expired \in [Snaps -> BOOLEAN]
           /\ error \in [Snaps -> {None, CommandError} \cup Trees]
           /\ job \in [Snaps -> [Trees -> JobStates]] /\ out \in [Snaps -> Snapshots]
           /\ moments = [q \in Snaps |-> moments[q]]
           /\ \A s \in Snaps : IsFiniteSet(moments[s]) /\ JobsOf(s)
           /\ head \in Nat
           /\ file \in [Files -> {"clean", "changed", "untracked", "absent"}]
           /\ tree \in [Trees -> {"clean", "dirty", "missing", "removed"}]
           /\ Cardinality({q \in Snaps : holding[q]}) \in Nat /\ Cardinality(Running(job)) \in Nat
           /\ None \notin {CommandError} \cup Trees /\ CommandError \notin Trees
  <1>1. IsFiniteSet(Trees)
    BY TreesAssumption, FS_Interval DEF Trees
  <1>2. IsFiniteSet(Snaps \X Trees)
    BY <1>1, SnapsAssumption, FS_Product
  <1>3. IsFiniteSet({q \in Snaps : holding[q]}) /\ IsFiniteSet(Running(job))
    BY <1>2, SnapsAssumption, FS_Subset DEF Running
  <1>4. Cardinality({q \in Snaps : holding[q]}) \in Nat /\ Cardinality(Running(job)) \in Nat
    BY <1>3, FS_CardinalityType
  <1>5. None \notin {CommandError} \cup Trees /\ CommandError \notin Trees
    BY NoneAssumption, TreesAssumption DEF CommandError, Trees
  <1>6. QED
    BY <1>4, <1>5 DEF SlotInv, SnapTypes, TypeOK, JobInv, Phases, JobStates

LEMMA Released ==
    ASSUME SlotInv, NEW s \in Snaps, Release(s)
    PROVE  /\ holding' \in [Snaps -> BOOLEAN] /\ free' \in Nat
           /\ free' + Cardinality({q \in Snaps : holding'[q]})
                 = free + Cardinality({q \in Snaps : holding[q]})
  <1>1. holding \in [Snaps -> BOOLEAN] /\ free \in Nat
    BY SnapParts
  <1>2. /\ holding' \in [Snaps -> BOOLEAN] /\ ~holding'[s]
        /\ \A q \in Snaps \ {s} : holding'[q] = holding[q]
        /\ free' = IF holding[s] THEN free + 1 ELSE free
    BY <1>1 DEF Release
  <1>3. /\ Cardinality({q \in Snaps : holding[q]}) \in Nat
        /\ holding[s] => Cardinality({q \in Snaps : holding'[q]})
                            = Cardinality({q \in Snaps : holding[q]}) - 1
        /\ ~holding[s] => Cardinality({q \in Snaps : holding'[q]})
                            = Cardinality({q \in Snaps : holding[q]})
    BY <1>1, <1>2, Holders
  <1>4. QED
    BY <1>1, <1>2, <1>3

\* The steps that touch no result of a worktree.
LEMMA SlotCommand ==
    ASSUME SlotInv, NEW s \in Snaps, Frame(s), Release(s),
           phase[s] \in Commands, faults' \in 0 .. MaxFaults, UNCHANGED <<expired, moments, job>>,
           out' \in [Snaps -> Snapshots], phase' \in [Snaps -> Phases],
           error' \in [Snaps -> {None, CommandError} \cup Trees],
           \/ phase'[s] = "done" /\ error'[s] = CommandError
           \/ phase'[s] \in Commands
    PROVE  SlotInv'
  <1>1. \A t \in Trees : job[s][t] \in {"none", "listed"}
    BY SnapParts DEF JobsOf
  <1>2. JobsOf(s)'
    BY <1>1, SnapParts DEF JobsOf, Commands
  <1>3. free' + Cardinality({q \in Snaps : holding'[q]}) + Cardinality(Running(job'))
           = free + Cardinality({q \in Snaps : holding[q]}) + Cardinality(Running(job))
    BY Released
  <1>4. holding' \in [Snaps -> BOOLEAN] /\ free' \in Nat
    BY Released
  <1>5. QED
    BY <1>2, <1>3, <1>4, SnapParts, SlotOne

LEMMA SlotBegin ==
    ASSUME SlotInv, NEW s \in Snaps, Begin(s) \/ Expire(s)
    PROVE  SlotInv'
  <1>1. CASE Begin(s)
    <2>1. /\ UNCHANGED <<head, file, tree, edits, faults, holding, free>>
          /\ phase' = [phase EXCEPT ![s] = "status"]
          /\ expired' = [expired EXCEPT ![s] = FALSE]
          /\ out' = [out EXCEPT ![s] = Empty]
          /\ error' = [error EXCEPT ![s] = None]
          /\ job' = [job EXCEPT ![s] = NoJobs]
          /\ moments' = [moments EXCEPT ![s] = {repo}]
          /\ phase[s] \in {"idle", "done"}
      BY <1>1 DEF Begin, repo
    <2>2. Empty \in Snapshots /\ NoJobs \in [Trees -> JobStates]
          /\ \A t \in Trees : NoJobs[t] = "none"
      BY DEF Empty, Snapshots, NoJobs, JobStates
    <2>3. /\ phase' \in [Snaps -> Phases] /\ expired' \in [Snaps -> BOOLEAN]
          /\ error' \in [Snaps -> {None, CommandError} \cup Trees]
          /\ job' \in [Snaps -> [Trees -> JobStates]] /\ out' \in [Snaps -> Snapshots]
      BY <2>1, <2>2, SnapParts DEF Phases, Commands
    <2>4. moments' = [q \in Snaps |-> moments'[q]] /\ IsFiniteSet(moments'[s])
      <3>1. moments = [q \in Snaps |-> moments[q]]
        BY SnapParts
      <3>2. moments' = [q \in Snaps |-> moments'[q]] /\ moments'[s] = {repo}
        BY <2>1, <3>1
      <3>3. QED
        BY <3>2, FS_Singleton
    <2>5. \A t \in Trees : job[s][t] # "running" /\ job'[s][t] = "none"
      BY <2>1, <2>2, SnapParts DEF JobsOf
    <2>6. \A q \in Snaps, t \in Trees : job'[q][t] = "running" <=> job[q][t] = "running"
      <3>1. \A q \in Snaps \ {s} : job'[q] = job[q]
        BY <2>1, SnapParts
      <3>2. QED
        BY <2>5, <3>1
    <2>7. Running(job') = Running(job)
      BY <2>6, SameRunning
    <2>8. Frame(s)
      BY <2>1, SnapParts DEF Frame
    <2>9. JobsOf(s)'
      BY <2>1, <2>5, SnapParts DEF JobsOf
    <2>10. faults' \in 0 .. MaxFaults /\ free' \in Nat /\ holding' \in [Snaps -> BOOLEAN]
      BY <2>1, SnapParts
    <2>11. free' + Cardinality({q \in Snaps : holding'[q]}) + Cardinality(Running(job'))
             = free + Cardinality({q \in Snaps : holding[q]}) + Cardinality(Running(job))
      BY <2>1, <2>7
    <2>12. QED
      BY <2>3, <2>4, <2>8, <2>9, <2>10, <2>11, SlotOne
  <1>2. CASE Expire(s)
    <2>1. /\ UNCHANGED <<head, file, tree, edits, faults, phase, holding, free, out, error, job, moments>>
          /\ expired' = [expired EXCEPT ![s] = TRUE]
      BY <1>2 DEF Expire, repo
    <2>2. expired' \in [Snaps -> BOOLEAN]
      BY <2>1, SnapParts
    <2>3. Frame(s) /\ JobsOf(s)'
      BY <2>1, SnapParts DEF Frame, JobsOf
    <2>4. QED
      BY <2>1, <2>2, <2>3, SnapParts, SlotOne
  <1>3. QED
    BY <1>1, <1>2

LEMMA SlotAcquire ==
    ASSUME SlotInv, NEW s \in Snaps, Acquire(s)
    PROVE  SlotInv'
  <1>1. /\ UNCHANGED <<head, file, tree, edits, faults, phase, expired, out, error, job, moments>>
        /\ holding' = [holding EXCEPT ![s] = TRUE] /\ ~holding[s]
        /\ free > 0 /\ free' = free - 1
    BY DEF Acquire, repo
  <1>2. /\ holding' \in [Snaps -> BOOLEAN] /\ holding'[s] /\ free' \in Nat
        /\ \A q \in Snaps \ {s} : holding'[q] = holding[q]
    BY <1>1, SnapParts
  <1>3. Cardinality({q \in Snaps : holding'[q]}) = Cardinality({q \in Snaps : holding[q]}) + 1
    <2>1. holding \in [Snaps -> BOOLEAN]
      BY SnapParts
    <2>2. QED
      BY <1>1, <1>2, <2>1, Holders
  <1>4. free' + Cardinality({q \in Snaps : holding'[q]}) + Cardinality(Running(job'))
           = free + Cardinality({q \in Snaps : holding[q]}) + Cardinality(Running(job))
    BY <1>1, <1>3, SnapParts
  <1>5. Frame(s) /\ JobsOf(s)'
    BY <1>1, SnapParts DEF Frame, JobsOf
  <1>6. QED
    BY <1>1, <1>2, <1>4, <1>5, SnapParts, SlotOne

\* The outputs a command may put into the snapshot are snapshots.
LEMMA SlotCommands ==
    ASSUME SlotInv, NEW s \in Snaps,
           CommandFails(s) \/ Status(s) \/ TrackedLines(s) \/ IntentToAdd(s) \/ UntrackedLines(s)
    PROVE  SlotInv'
  <1> DEFINE lines == [f \in Files |-> IF file[f] = "changed" THEN 1 ELSE 0]
             more == [f \in Files |-> out[s].lines[f] +
                        IF f \in out[s].untracked /\ file[f] # "absent" THEN 1 ELSE 0]
             status == [Empty EXCEPT !.head = head, !.changed = Of("changed"),
                                     !.untracked = Of("untracked")]
  <1>1. /\ Release(s) /\ phase[s] \in Commands /\ UNCHANGED <<expired, moments, job>>
        /\ UNCHANGED <<head, file, tree, edits>>
    BY DEF CommandFails, Status, TrackedLines, IntentToAdd, UntrackedLines, Ran, Commands, repo
  <1>2. out[s] \in Snapshots
    BY SnapParts
  <1>3. /\ status \in Snapshots
        /\ [out[s] EXCEPT !.lines = lines] \in Snapshots
        /\ [out[s] EXCEPT !.lines = more] \in Snapshots
    <2>1. Empty \in Snapshots /\ head \in Nat /\ Of("changed") \in SUBSET Files
          /\ Of("untracked") \in SUBSET Files /\ lines \in [Files -> Nat]
      BY SnapParts DEF Empty, Snapshots, Of
    <2>2. more \in [Files -> Nat]
      BY <1>2 DEF Snapshots
    <2> HIDE DEF lines, more
    <2>3. QED
      BY <1>2, <2>1, <2>2 DEF Snapshots
  <1>4. \E o \in Snapshots : out' = [out EXCEPT ![s] = o]
    <2>1. UNCHANGED out => out' = [out EXCEPT ![s] = out[s]]
      BY SnapParts
    <2>2. QED
      BY <1>2, <1>3, <2>1
         DEF CommandFails, Status, TrackedLines, IntentToAdd, UntrackedLines, Found
  <1>5. \E p \in Commands \cup {"done"} : phase' = [phase EXCEPT ![s] = p]
    BY DEF CommandFails, Status, TrackedLines, IntentToAdd, UntrackedLines, Found, Fail, AfterLines,
           Commands
  <1>6. \/ phase'[s] = "done" /\ error' = [error EXCEPT ![s] = CommandError]
        \/ phase'[s] \in Commands /\ UNCHANGED error
    BY SnapParts
       DEF CommandFails, Status, TrackedLines, IntentToAdd, UntrackedLines, Found, Fail, AfterLines,
           Commands
  <1>7. faults' \in 0 .. MaxFaults
    BY SnapParts, BoundsAssumption
       DEF CommandFails, Status, TrackedLines, IntentToAdd, UntrackedLines, Ran
  <1>8. /\ out' \in [Snaps -> Snapshots] /\ phase' \in [Snaps -> Phases]
        /\ error' \in [Snaps -> {None, CommandError} \cup Trees]
    BY <1>4, <1>5, <1>6, SnapParts DEF Phases
  <1>9. Frame(s)
    BY <1>1, <1>4, <1>5, <1>6, SnapParts DEF Frame
  <1>10. \/ phase'[s] = "done" /\ error'[s] = CommandError
         \/ phase'[s] \in Commands
    BY <1>6, SnapParts
  <1>11. QED
    BY <1>1, <1>7, <1>8, <1>9, <1>10, SlotCommand

LEMMA SlotList ==
    ASSUME SlotInv, NEW s \in Snaps, List(s) \/ CheckTrees(s)
    PROVE  SlotInv'
  <1>1. \A t \in Trees : job[s][t] \in {"none", "listed"}
    BY SnapParts DEF JobsOf, List, CheckTrees, Commands
  <1>2. CASE List(s)
    <2> DEFINE found == [out[s] EXCEPT !.listed = {t \in Trees : tree[t] # "removed"}]
               listed == [t \in Trees |-> IF tree[t] \in {"clean", "dirty"} THEN "listed" ELSE "none"]
    <2>1. /\ Release(s) /\ UNCHANGED <<head, file, tree, edits, faults, expired, moments, error>>
          /\ phase' = [phase EXCEPT ![s] = "check"]
          /\ out' = [out EXCEPT ![s] = found] /\ job' = [job EXCEPT ![s] = listed]
      BY <1>2 DEF List, Found, repo
    <2>2. found \in Snapshots
      <3>1. out[s] \in Snapshots
        BY SnapParts
      <3>2. QED
        BY <3>1 DEF Snapshots
    <2>3. listed \in [Trees -> JobStates] /\ \A t \in Trees : listed[t] \in {"none", "listed"}
      BY DEF JobStates
    <2> HIDE DEF found, listed
    <2>4. /\ phase' \in [Snaps -> Phases] /\ out' \in [Snaps -> Snapshots]
          /\ job' \in [Snaps -> [Trees -> JobStates]] /\ phase'[s] = "check" /\ job'[s] = listed
      BY <2>1, <2>2, <2>3, SnapParts DEF Phases
    <2>5. JobsOf(s)'
      BY <2>3, <2>4 DEF JobsOf
    <2>6. Frame(s)
      BY <2>1, SnapParts DEF Frame
    <2>7. \A q \in Snaps, t \in Trees : job'[q][t] = "running" <=> job[q][t] = "running"
      BY <1>1, <2>3, <2>4, <2>6 DEF Frame
    <2>8. free' + Cardinality({q \in Snaps : holding'[q]}) + Cardinality(Running(job'))
             = free + Cardinality({q \in Snaps : holding[q]}) + Cardinality(Running(job))
      <3>1. Running(job') = Running(job)
        BY <2>7, SameRunning
      <3>2. free' + Cardinality({q \in Snaps : holding'[q]})
               = free + Cardinality({q \in Snaps : holding[q]})
        BY <2>1, Released
      <3>3. QED
        BY <3>1, <3>2
    <2>9. holding' \in [Snaps -> BOOLEAN] /\ free' \in Nat
      BY <2>1, Released
    <2>10. QED
      BY <2>1, <2>4, <2>5, <2>6, <2>8, <2>9, SnapParts, SlotOne
  <1>3. CASE CheckTrees(s)
    <2> DEFINE lost == {t \in Listed(s, "listed") : tree[t] \in {"missing", "removed"}}
               queued == [t \in Trees |-> IF job[s][t] = "listed" THEN "queued" ELSE "none"]
    <2>1. /\ UNCHANGED <<head, file, tree, edits, faults, holding, free, expired, out, moments>>
          /\ \/ /\ phase' = [phase EXCEPT ![s] = "trees"] /\ job' = [job EXCEPT ![s] = queued]
                /\ UNCHANGED error
             \/ /\ lost # {} /\ phase' = [phase EXCEPT ![s] = "done"]
                /\ error' = [error EXCEPT ![s] = First(lost)] /\ UNCHANGED job
      BY <1>3 DEF CheckTrees, Fail, repo
    <2>2. lost # {} => First(lost) \in Trees
      BY FirstLeast DEF Listed
    <2>3. queued \in [Trees -> JobStates] /\ \A t \in Trees : queued[t] \in {"none", "queued"}
      BY DEF JobStates
    <2> HIDE DEF lost, queued
    <2>4. /\ phase' \in [Snaps -> Phases]
          /\ error' \in [Snaps -> {None, CommandError} \cup Trees]
          /\ job' \in [Snaps -> [Trees -> JobStates]]
          /\ \/ phase'[s] = "trees" /\ job'[s] = queued
             \/ phase'[s] = "done" /\ job'[s] = job[s]
      <3>1. /\ phase \in [Snaps -> Phases] /\ job \in [Snaps -> [Trees -> JobStates]]
            /\ error \in [Snaps -> {None, CommandError} \cup Trees]
            /\ {"trees", "done"} \subseteq Phases
        BY SnapParts DEF Phases
      <3>2. QED
        BY <2>1, <2>2, <2>3, <3>1
    <2>5. JobsOf(s)'
      BY <1>1, <2>4 DEF JobsOf, Commands
    <2>6. Frame(s)
      BY <2>1, SnapParts DEF Frame
    <2>7. \A q \in Snaps, t \in Trees : job'[q][t] = "running" <=> job[q][t] = "running"
      BY <1>1, <2>3, <2>4, <2>6 DEF Frame
    <2>8. Running(job') = Running(job)
      BY <2>7, SameRunning
    <2>9. QED
      BY <2>1, <2>4, <2>5, <2>6, <2>8, SnapParts, SlotOne
  <1>4. QED
    BY <1>2, <1>3

\* A result of a worktree changes: its command takes a slot or gives it back.
LEMMA SlotJob ==
    ASSUME SlotInv, NEW s \in Snaps, NEW t \in Trees,
           NEW to \in JobStates \ {"none", "listed"},
           phase[s] = "trees", job' = [job EXCEPT ![s] = [@ EXCEPT ![t] = to]],
           \/ to = "running" /\ job[s][t] # "running" /\ free > 0 /\ free' = free - 1
           \/ to # "running" /\ job[s][t] = "running" /\ free' = free + 1
           \/ to # "running" /\ job[s][t] # "running" /\ free' = free,
           faults' \in 0 .. MaxFaults,
           UNCHANGED <<repo, edits, phase, holding, expired, out, error, moments>>
    PROVE  SlotInv'
  <1>1. job[s] \in [Trees -> JobStates] /\ job \in [Snaps -> [Trees -> JobStates]] /\ free \in Nat
    BY SnapParts
  <1>2. /\ job' \in [Snaps -> [Trees -> JobStates]] /\ job'[s][t] = to
        /\ \A u \in Trees \ {t} : job'[s][u] = job[s][u]
        /\ \A q \in Snaps \ {s} : job'[q] = job[q]
    BY <1>1
  <1>3. \A q \in Snaps, u \in Trees :
           <<q, u>> # <<s, t>> => (job'[q][u] = "running" <=> job[q][u] = "running")
    BY <1>2
  <1>4. free' \in Nat
    BY <1>1
  <1>5. /\ free' + Cardinality(Running(job')) = free + Cardinality(Running(job))
        /\ Cardinality(Running(job')) \in Nat
    <2>1. /\ Cardinality(Running(job)) \in Nat /\ Cardinality(Running(job')) \in Nat
          /\ (job'[s][t] = "running" <=> job[s][t] = "running") =>
                Cardinality(Running(job')) = Cardinality(Running(job))
          /\ job'[s][t] = "running" /\ job[s][t] # "running" =>
                Cardinality(Running(job')) = Cardinality(Running(job)) + 1
          /\ job[s][t] = "running" /\ job'[s][t] # "running" =>
                Cardinality(Running(job')) = Cardinality(Running(job)) - 1
      <3> DEFINE f == job
                 g == job'
      <3>1. \A q \in Snaps, u \in Trees :
               <<q, u>> # <<s, t>> => (g[q][u] = "running" <=> f[q][u] = "running")
        BY <1>3
      <3> HIDE DEF f, g
      <3>2. /\ Cardinality(Running(f)) \in Nat /\ Cardinality(Running(g)) \in Nat
            /\ (g[s][t] = "running" <=> f[s][t] = "running") =>
                  Cardinality(Running(g)) = Cardinality(Running(f))
            /\ g[s][t] = "running" /\ f[s][t] # "running" =>
                  Cardinality(Running(g)) = Cardinality(Running(f)) + 1
            /\ f[s][t] = "running" /\ g[s][t] # "running" =>
                  Cardinality(Running(g)) = Cardinality(Running(f)) - 1
        BY <3>1, Runners, Zenon
      <3>3. QED
        BY <3>2 DEF f, g
    <2>2. QED
      BY <1>1, <1>2, <2>1
  <1>6. Frame(s) /\ JobsOf(s)'
    BY <1>2 DEF Frame, JobsOf, repo, Commands
  <1>7. free' + Cardinality({q \in Snaps : holding'[q]}) + Cardinality(Running(job'))
           = free + Cardinality({q \in Snaps : holding[q]}) + Cardinality(Running(job))
    <2>1. /\ Cardinality({q \in Snaps : holding'[q]}) = Cardinality({q \in Snaps : holding[q]})
          /\ Cardinality({q \in Snaps : holding[q]}) \in Nat
          /\ Cardinality(Running(job)) \in Nat
      BY SnapParts
    <2>2. QED
      BY <1>1, <1>4, <1>5, <2>1
  <1>8. QED
    BY <1>2, <1>4, <1>6, <1>7, SnapParts, SlotOne

LEMMA SlotTree ==
    ASSUME SlotInv, NEW s \in Snaps,
           TakeJob(s) \/ \E t \in Trees : AcquireForTree(s, t) \/ ReadTree(s, t) \/ TreeFails(s, t)
    PROVE  SlotInv'
  <1>1. /\ faults \in 0 .. MaxFaults /\ MaxFaults \in Nat /\ JobsOf(s) /\ free \in Nat
        /\ phase[s] \in Phases /\ job \in [Snaps -> [Trees -> JobStates]]
    BY SnapParts, BoundsAssumption
  <1>2. \A t \in Trees : job[s][t] \in {"queued", "waiting", "running"} => phase[s] = "trees"
    BY <1>1 DEF JobsOf, Phases
  <1>3. CASE TakeJob(s)
    <2> DEFINE t == First(Listed(s, "queued"))
    <2>1. t \in Trees /\ job[s][t] = "queued"
      <3>1. Listed(s, "queued") \in SUBSET Trees /\ Listed(s, "queued") # {}
        BY <1>3 DEF TakeJob, Listed
      <3>2. QED
        BY <3>1, FirstLeast DEF Listed
    <2>2. /\ phase[s] = "trees" /\ job' = [job EXCEPT ![s][t] = "waiting"]
          /\ UNCHANGED <<repo, edits, faults, phase, holding, free, expired, out, error, moments>>
      BY <1>3 DEF TakeJob
    <2> HIDE DEF t
    <2>3. job' = [job EXCEPT ![s] = [@ EXCEPT ![t] = "waiting"]]
      BY <2>2
    <2>4. "waiting" \in JobStates \ {"none", "listed"} /\ faults' \in 0 .. MaxFaults
      BY <1>1, <2>2 DEF JobStates
    <2>5. QED
      BY <2>1, <2>2, <2>3, <2>4, SlotJob
  <1>4. ASSUME NEW t \in Trees, AcquireForTree(s, t)
        PROVE  SlotInv'
    <2>1. /\ job[s][t] = "waiting" /\ free > 0 /\ free' = free - 1
          /\ job' = [job EXCEPT ![s] = [@ EXCEPT ![t] = "running"]]
          /\ UNCHANGED <<repo, edits, faults, phase, holding, expired, out, error, moments>>
      BY <1>4 DEF AcquireForTree
    <2>2. "running" \in JobStates \ {"none", "listed"} /\ faults' \in 0 .. MaxFaults
      BY <1>1, <2>1 DEF JobStates
    <2>3. QED
      BY <1>2, <2>1, <2>2, SlotJob
  <1>5. ASSUME NEW t \in Trees, ReadTree(s, t) \/ TreeFails(s, t)
        PROVE  SlotInv'
    <2>1. PICK to \in Results :
             /\ job' = [job EXCEPT ![s] = [@ EXCEPT ![t] = to]]
             /\ free' = IF job[s][t] = "running" THEN free + 1 ELSE free
             /\ UNCHANGED <<repo, edits, phase, holding, expired, out, error, moments>>
      BY <1>5 DEF ReadTree, TreeFails, TreeEnds, Results
    <2>2. job[s][t] \in {"waiting", "running"} /\ faults' \in 0 .. MaxFaults
      BY <1>1, <1>5 DEF ReadTree, TreeFails, Busy, Listed
    <2>3. to \in JobStates \ {"none", "listed"} /\ to # "running"
      BY DEF JobStates, Results
    <2>4. QED
      BY <1>2, <2>1, <2>2, <2>3, SlotJob
  <1>6. QED
    BY <1>3, <1>4, <1>5

LEMMA SlotCollect ==
    ASSUME SlotInv, NEW s \in Snaps, Collect(s)
    PROVE  SlotInv'
  <1> DEFINE failed == Listed(s, "failed")
  <1>1. /\ phase[s] = "trees" /\ \A t \in Trees : job[s][t] \in {"none"} \cup Results
        /\ UNCHANGED <<head, file, tree, edits, faults, holding, free, expired, job, moments>>
        /\ phase' = [phase EXCEPT ![s] = "done"]
        /\ \/ failed # {} /\ error' = [error EXCEPT ![s] = First(failed)]
           \/ failed = {} /\ error' = error
    BY DEF Collect, AllEnded, Report, Fail, Found, repo
  <1>2. /\ failed \in SUBSET Trees /\ \A t \in Trees : t \in failed <=> job[s][t] = "failed"
        /\ failed # {} => First(failed) \in Trees /\ \A t \in failed : First(failed) <= t
    BY FirstLeast DEF Listed
  <1>3. \E o \in Snapshots : out' = [out EXCEPT ![s] = o]
    <2>1. \A dirty \in SUBSET Trees : [out[s] EXCEPT !.dirty = dirty] \in Snapshots
      <3>1. out[s] \in Snapshots
        BY SnapParts
      <3>2. QED
        BY <3>1 DEF Snapshots
    <2>2. PICK dirty \in SUBSET Trees : out' = [out EXCEPT ![s] = [out[s] EXCEPT !.dirty = dirty]]
      <3>1. CASE failed # {}
        <4>1. out' = [out EXCEPT ![s].dirty = {t \in Listed(s, "dirty") : t < First(failed)}]
          BY <3>1 DEF Collect, Report
        <4>2. {t \in Listed(s, "dirty") : t < First(failed)} \in SUBSET Trees
          BY DEF Listed
        <4>3. QED
          BY <4>1, <4>2
      <3>2. CASE failed = {}
        <4>1. out' = [out EXCEPT ![s] = [out[s] EXCEPT !.dirty = Listed(s, "dirty")]]
          BY <3>2 DEF Collect, Report, Found
        <4>2. QED
          BY <4>1 DEF Listed
      <3>3. QED
        BY <3>1, <3>2
    <2>3. QED
      BY <2>1, <2>2
  <1> HIDE DEF failed
  <1>4. /\ out' \in [Snaps -> Snapshots] /\ phase' \in [Snaps -> Phases]
        /\ error' \in [Snaps -> {None, CommandError} \cup Trees] /\ phase'[s] = "done"
    <2>1. "done" \in Phases
      BY DEF Phases
    <2>2. QED
      BY <1>1, <1>2, <1>3, <2>1, SnapParts
  <1>5. Frame(s)
    BY <1>1, <1>3, SnapParts DEF Frame
  <1>6. JobsOf(s)'
    <2>1. \A t \in Trees : job'[s][t] \notin {"queued", "waiting", "running"}
      BY <1>1 DEF Results
    <2>2. \A t \in Trees : error'[s] \in Trees /\ t < error'[s] => job'[s][t] # "failed"
      <3>1. CASE failed = {}
        BY <1>1, <1>2, <3>1
      <3>2. CASE failed # {}
        <4>1. error'[s] = First(failed)
          BY <1>1, <3>2, SnapParts
        <4>2. \A t \in Trees : t \in Nat
          BY DEF Trees
        <4>3. QED
          BY <1>1, <1>2, <3>2, <4>1, <4>2
      <3>3. QED
        BY <3>1, <3>2
    <2>3. QED
      BY <1>4, <2>1, <2>2 DEF JobsOf, Commands
  <1>7. QED
    BY <1>1, <1>4, <1>5, <1>6, SnapParts, SlotOne

\* The user: no snapshot moves.
LEMMA SlotEdit ==
    ASSUME SlotInv, \/ \E f \in Files : ChangeFile(f)
                    \/ Commit
                    \/ \E t \in Trees : ChangeTree(t)
    PROVE  SlotInv'
  <1>1. /\ UNCHANGED <<faults, phase, holding, free, expired, out, error, job>>
        /\ edits < MaxEdits /\ edits' = edits + 1
        /\ moments' = [s \in Snaps |-> IF phase[s] \in {"idle", "done"} THEN moments[s]
                                       ELSE moments[s] \cup {<<head', file', tree'>>}]
    BY DEF ChangeFile, Commit, ChangeTree, Edit
  <1>2. edits' \in 0 .. MaxEdits
    BY <1>1, BoundsAssumption DEF SlotInv, SnapTypes, TypeOK
  <1>3. /\ head' \in Nat
        /\ file' \in [Files -> {"clean", "changed", "untracked", "absent"}]
        /\ tree' \in [Trees -> {"clean", "dirty", "missing", "removed"}]
    <2>1. CASE \E f \in Files : ChangeFile(f)
      <3>1. PICK f \in Files : ChangeFile(f)
        BY <2>1
      <3>2. file[f] \in {"clean", "changed", "untracked", "absent"}
        BY SnapParts
      <3>3. \E to \in {"clean", "changed", "untracked", "absent"} : file' = [file EXCEPT ![f] = to]
        BY <3>1, <3>2 DEF ChangeFile
      <3>4. QED
        BY <3>1, <3>3, SnapParts DEF ChangeFile
    <2>2. CASE Commit
      BY <2>2, SnapParts DEF Commit
    <2>3. CASE \E t \in Trees : ChangeTree(t)
      BY <2>3, SnapParts DEF ChangeTree
    <2>4. QED
      BY <2>1, <2>2, <2>3
  <1>4. /\ moments' = [s \in Snaps |-> moments'[s]]
        /\ \A s \in Snaps : IsFiniteSet(moments'[s])
    <2>1. \A m : \A s \in Snaps : IsFiniteSet(moments[s]) /\ IsFiniteSet(moments[s] \cup {m})
      BY SnapParts, FS_AddElement
    <2>2. QED
      BY <1>1, <2>1
  <1>5. SnapTypes'
    BY <1>1, <1>2, <1>3, <1>4 DEF SlotInv, SnapTypes, TypeOK
  <1>6. JobInv'
    BY <1>1 DEF SlotInv, JobInv, JobsOf
  <1>7. QED
    BY <1>5, <1>6 DEF SlotInv

LEMMA SlotStep == SlotInv /\ [Next]_vars => SlotInv'
  <1>1. SlotInv /\ UNCHANGED vars => SlotInv'
    BY DEF vars, repo, snapping, SlotInv, SnapTypes, TypeOK, JobInv, JobsOf
  <1>2. SlotInv /\ Next => SlotInv'
    BY SlotEdit, SlotBegin, SlotAcquire, SlotCommands, SlotList, SlotTree, SlotCollect
       DEF Next, Step
  <1>3. QED
    BY <1>1, <1>2

LEMMA SlotInvariance == ServiceSpec => []SlotInv
  BY Parts, SlotInitInv, SlotStep, PTL DEF ServiceSpec

\* The error of a snapshot is that of the first worktree that failed, no worker
\* is left behind when it ends, and every slot of the semaphore is free or held
\* by one command under way (inspector.go:463-472, 556, 616).
THEOREM FirstErrorReported == ServiceSpec => []FirstErrorWins
  <1>1. SlotInv => FirstErrorWins
    BY DEF SlotInv, SnapTypes, JobInv, JobsOf, FirstErrorWins, Busy, Listed
  <1>2. QED
    BY <1>1, SlotInvariance, PTL

LEMMA QuietInit == Init => FileInv /\ MomentInv /\ ExactInv
  BY DEF Init, FileInv, MomentInv, ExactInv, Under

\* An edit adds a moment to every snapshot under way: the repository has been
\* as it is only if it is still as it was.
LEMMA QuietEdit ==
    ASSUME SnapInv, \/ \E f \in Files : ChangeFile(f)
                    \/ Commit
                    \/ \E t \in Trees : ChangeTree(t)
    PROVE  FileInv' /\ MomentInv' /\ ExactInv'
  <1>1. /\ UNCHANGED <<phase, error, out, job>>
        /\ moments' = [s \in Snaps |-> IF phase[s] \in {"idle", "done"} THEN moments[s]
                                       ELSE moments[s] \cup {<<head', file', tree'>>}]
    BY DEF ChangeFile, Commit, ChangeTree, Edit
  <1>2. FileInv'
    <2>1. CASE \E f \in Files : ChangeFile(f)
      <3>1. PICK f \in Files : ChangeFile(f)
        BY <2>1
      <3>2. UNCHANGED head /\ file \in [Files -> {"clean", "changed", "untracked", "absent"}]
        BY <3>1, SnapParts DEF ChangeFile, SnapInv
      <3>3. file[f] \in {"untracked", "absent"} =>
               \E to \in {"untracked", "absent"} : file' = [file EXCEPT ![f] = to]
        BY <3>1 DEF ChangeFile
      <3>4. QED
        BY <3>2, <3>3 DEF SnapInv, FileInv
    <2>2. CASE Commit
      <3>1. head' = head + 1 /\ head \in Nat
        BY <2>2, SnapParts DEF Commit, SnapInv
      <3>2. QED
        BY <3>1 DEF FileInv
    <2>3. CASE \E t \in Trees : ChangeTree(t)
      BY <2>3 DEF ChangeTree, SnapInv, FileInv
    <2>4. QED
      BY <2>1, <2>2, <2>3
  <1>3. MomentInv'
    BY <1>1 DEF MomentInv, Under, repo
  <1>4. ExactInv'
    <2> SUFFICES ASSUME NEW s \in Snaps, NEW m \in moments'[s], moments'[s] = {m}
                 PROVE  Progress(s, m)'
      BY DEF ExactInv
    <2>1. moments[s] = {m}
      <3>1. CASE Under(s)
        BY <1>1, <3>1 DEF Under, SnapInv, MomentInv
      <3>2. CASE ~Under(s)
        BY <1>1, <3>2 DEF Under
      <3>3. QED
        BY <3>1, <3>2
    <2>2. Progress(s, m)
      BY <2>1 DEF SnapInv, ExactInv
    <2>3. QED
      BY <1>1, <2>2 DEF Progress, Returned, StatusExact, LinesExact, ListExact, Exact
  <1>5. QED
    BY <1>2, <1>3, <1>4

\* A snapshot under way goes on: what it has is of the repository as it is.
LEMMA QuietOne ==
    ASSUME SnapInv, NEW s \in Snaps, Frame(s), Under(s), UNCHANGED moments,
           Progress(s, repo) => Progress(s, repo)'
    PROVE  FileInv' /\ MomentInv' /\ ExactInv'
  <1>1. UNCHANGED repo /\ repo \in moments[s]
    BY DEF Frame, repo, SnapInv, MomentInv
  <1>2. FileInv' /\ MomentInv'
    BY <1>1 DEF Frame, SnapInv, FileInv, MomentInv, Under, repo
  <1>3. ExactInv'
    <2> SUFFICES ASSUME NEW q \in Snaps, NEW m \in moments[q], moments[q] = {m}
                 PROVE  Progress(q, m)'
      BY DEF ExactInv
    <2>1. Progress(q, m)
      BY DEF SnapInv, ExactInv
    <2>2. CASE q = s
      <3>1. m = repo /\ m = repo'
        BY <1>1, <2>2
      <3>2. Progress(s, repo)'
        BY <2>1, <2>2, <3>1
      <3>3. QED
        BY <2>2, <3>1, <3>2
           DEF Progress, Returned, StatusExact, LinesExact, ListExact, Exact
    <2>3. CASE q # s
      BY <2>1, <2>3
         DEF Frame, Progress, Returned, StatusExact, LinesExact, ListExact, Exact
    <2>4. QED
      BY <2>2, <2>3
  <1>4. QED
    BY <1>2, <1>3

LEMMA QuietBegin ==
    ASSUME SnapInv, NEW s \in Snaps, Begin(s) \/ Expire(s) \/ Acquire(s)
    PROVE  FileInv' /\ MomentInv' /\ ExactInv'
  <1>1. CASE Begin(s)
    <2>1. /\ UNCHANGED <<head, file, tree>>
          /\ \A q \in Snaps \ {s} : /\ phase'[q] = phase[q] /\ error'[q] = error[q]
                                    /\ job'[q] = job[q] /\ out'[q] = out[q]
                                    /\ moments'[q] = moments[q]
          /\ phase'[s] = "status" /\ moments'[s] = {repo}
      BY <1>1, SnapParts DEF Begin, SnapInv, repo
    <2>2. FileInv' /\ MomentInv'
      BY <2>1 DEF SnapInv, FileInv, MomentInv, Under, repo
    <2>3. \A m : Progress(s, m)'
      BY <2>1 DEF Progress, Returned
    <2>4. \A q \in Snaps \ {s} : \A m : Progress(q, m) => Progress(q, m)'
      BY <2>1 DEF Progress, Returned, StatusExact, LinesExact, ListExact, Exact
    <2>5. ExactInv'
      <3>1. \A q \in Snaps \ {s} : \A m \in moments[q] : moments[q] = {m} => Progress(q, m)
        BY DEF SnapInv, ExactInv
      <3>2. QED
        BY <2>1, <2>3, <2>4, <3>1 DEF ExactInv
    <2>6. QED
      BY <2>2, <2>5
  <1>2. CASE Expire(s) \/ Acquire(s)
    BY <1>2 DEF Expire, Acquire, repo, SnapInv, FileInv, MomentInv, ExactInv, Under, Progress,
                Returned, StatusExact, LinesExact, ListExact, Exact
  <1>3. QED
    BY <1>1, <1>2

\* What Progress says of the repository as it is.
LEMMA ProgressNow ==
    ASSUME NEW s, Progress(s, repo)
    PROVE  /\ phase[s] \in {"lines", "intent", "untracked", "list", "check", "trees"} =>
                 /\ out[s].head = head /\ out[s].changed = Of("changed")
                 /\ out[s].untracked = Of("untracked")
           /\ phase[s] \in {"intent", "untracked"} =>
                 \A f \in Files : out[s].lines[f] = IF file[f] = "changed" THEN 1 ELSE 0
           /\ phase[s] \in {"list", "check", "trees"} =>
                 \A f \in Files :
                    out[s].lines[f] = IF file[f] \in {"changed", "untracked"} THEN 1 ELSE 0
           /\ phase[s] \in {"check", "trees"} => out[s].listed = {t \in Trees : tree[t] # "removed"}
           /\ phase[s] = "check" => \A t \in Trees :
                 job[s][t] = IF tree[t] \in {"clean", "dirty"} THEN "listed" ELSE "none"
           /\ phase[s] = "trees" => \A t \in Trees :
                 IF tree[t] \in {"clean", "dirty"}
                 THEN job[s][t] \in {"queued", "waiting", "running", "failed", tree[t]}
                 ELSE job[s][t] = "none"
  BY DEF Progress, repo, StatusExact, LinesExact, ListExact, Of

\* The commands before the worktrees, one after the other.
LEMMA QuietCommands ==
    ASSUME SnapInv, NEW s \in Snaps,
           CommandFails(s) \/ Status(s) \/ TrackedLines(s) \/ IntentToAdd(s) \/ UntrackedLines(s)
    PROVE  FileInv' /\ MomentInv' /\ ExactInv'
  <1>1. /\ Frame(s) /\ Under(s) /\ UNCHANGED <<moments, job, head, file, tree>>
        /\ phase \in [Snaps -> Phases] /\ error \in [Snaps -> {None, CommandError} \cup Trees]
        /\ out \in [Snaps -> Snapshots] /\ out[s] \in Snapshots /\ CommandError # None
        /\ head \in Nat /\ file \in [Files -> {"clean", "changed", "untracked", "absent"}]
    BY SnapParts
       DEF CommandFails, Status, TrackedLines, IntentToAdd, UntrackedLines, Ran, Found, Fail,
           Frame, Under, SnapInv, repo, Commands
  <1> SUFFICES ASSUME Progress(s, repo) PROVE Progress(s, repo)'
    BY <1>1, QuietOne
  <1> USE DEF AfterLines
  <1>2. CASE phase'[s] = "done" /\ error'[s] = CommandError
    BY <1>1, <1>2 DEF Progress, Returned
  <1>3. CASE Status(s)
    <2> DEFINE found == [Empty EXCEPT !.head = head, !.changed = Of("changed"),
                                      !.untracked = Of("untracked")]
    <2>1. phase'[s] = (IF head > 0 THEN "lines" ELSE AfterLines(Of("untracked"))) /\ out'[s] = found
      BY <1>1, <1>3 DEF Status, Found
    <2>2. /\ found.head = head /\ found.changed = Of("changed")
          /\ found.untracked = Of("untracked") /\ \A f \in Files : found.lines[f] = 0
      BY DEF Empty
    <2> HIDE DEF found
    <2>3. head = 0 => \A f \in Files : file[f] # "changed"
      BY DEF SnapInv, FileInv
    <2>4. CASE head > 0
      BY <1>1, <2>1, <2>2, <2>4
         DEF Progress, Returned, StatusExact, LinesExact, ListExact, repo, Of
    <2>5. CASE head = 0 /\ Of("untracked") # {}
      <3>1. phase'[s] = "intent"
        BY <2>1, <2>5
      <3>2. QED
        BY <1>1, <2>1, <2>2, <2>3, <2>5, <3>1
           DEF Progress, Returned, StatusExact, LinesExact, repo, Of
    <2>6. CASE head = 0 /\ Of("untracked") = {}
      <3>1. phase'[s] = "list"
        BY <2>1, <2>6
      <3>2. \A f \in Files : file[f] \notin {"changed", "untracked"}
        BY <2>3, <2>6 DEF Of
      <3>3. QED
        BY <1>1, <2>1, <2>2, <3>1, <3>2
           DEF Progress, Returned, StatusExact, LinesExact, repo, Of
    <2>7. QED
      BY <1>1, <2>4, <2>5, <2>6
  <1>4. CASE TrackedLines(s)
    <2> DEFINE lines == [f \in Files |-> IF file[f] = "changed" THEN 1 ELSE 0]
               found == [out[s] EXCEPT !.lines = lines]
    <2>1. /\ phase[s] = "lines" /\ phase'[s] = AfterLines(out[s].untracked) /\ out'[s] = found
      BY <1>1, <1>4 DEF TrackedLines, Ran, Found
    <2>2. /\ found.head = out[s].head /\ found.changed = out[s].changed
          /\ found.untracked = out[s].untracked /\ found.lines = lines
      BY <1>1 DEF Snapshots
    <2> HIDE DEF found
    <2>3. /\ out[s].head = head /\ out[s].changed = Of("changed")
          /\ out[s].untracked = Of("untracked")
      BY <2>1, ProgressNow
    <2>4. CASE Of("untracked") # {}
      <3>1. phase'[s] = "intent"
        BY <2>1, <2>3, <2>4
      <3>2. QED
        BY <1>1, <2>1, <2>2, <2>3, <3>1
           DEF Progress, Returned, StatusExact, LinesExact, repo, Of
    <2>5. CASE Of("untracked") = {}
      <3>1. phase'[s] = "list"
        BY <2>1, <2>3, <2>5
      <3>2. \A f \in Files : file[f] # "untracked"
        BY <2>5 DEF Of
      <3>3. QED
        BY <1>1, <2>1, <2>2, <2>3, <3>1, <3>2
           DEF Progress, Returned, StatusExact, LinesExact, repo, Of
    <2>6. QED
      BY <2>4, <2>5
  <1>5. CASE IntentToAdd(s) /\ phase'[s] = "untracked"
    <2>1. phase[s] = "intent" /\ out'[s] = out[s]
      BY <1>1, <1>5 DEF IntentToAdd, Ran, Found, Fail
    <2>2. QED
      BY <1>1, <1>5, <2>1 DEF Progress, Returned, StatusExact, LinesExact, repo
  <1>6. CASE UntrackedLines(s)
    <2> DEFINE lines == [f \in Files |-> out[s].lines[f] +
                           IF f \in out[s].untracked /\ file[f] # "absent" THEN 1 ELSE 0]
               found == [out[s] EXCEPT !.lines = lines]
    <2>1. phase[s] = "untracked" /\ phase'[s] = "list" /\ out'[s] = found
      BY <1>1, <1>6 DEF UntrackedLines, Ran, Found
    <2>2. /\ found.head = out[s].head /\ found.changed = out[s].changed
          /\ found.untracked = out[s].untracked /\ found.lines = lines
      BY <1>1 DEF Snapshots
    <2>3. /\ out[s].head = head /\ out[s].changed = Of("changed")
          /\ out[s].untracked = Of("untracked")
          /\ \A f \in Files : out[s].lines[f] = IF file[f] = "changed" THEN 1 ELSE 0
      BY <2>1, ProgressNow
    <2>4. \A f \in Files : lines[f] = IF file[f] \in {"changed", "untracked"} THEN 1 ELSE 0
      BY <2>3 DEF Of
    <2> HIDE DEF found, lines
    <2>5. QED
      BY <1>1, <2>1, <2>2, <2>3, <2>4
         DEF Progress, Returned, StatusExact, LinesExact, repo, Of
  <1>7. QED
    <2>1. CommandFails(s) => phase'[s] = "done" /\ error'[s] = CommandError
      BY <1>1 DEF CommandFails, Fail
    <2>2. IntentToAdd(s) => \/ phase'[s] = "untracked"
                            \/ phase'[s] = "done" /\ error'[s] = CommandError
      BY <1>1 DEF IntentToAdd, Found, Fail
    <2>3. QED
      BY <1>2, <1>3, <1>4, <1>5, <1>6, <2>1, <2>2

LEMMA QuietList ==
    ASSUME SnapInv, NEW s \in Snaps, List(s) \/ CheckTrees(s)
    PROVE  FileInv' /\ MomentInv' /\ ExactInv'
  <1>1. /\ Frame(s) /\ Under(s) /\ UNCHANGED <<moments, head, file, tree>>
        /\ phase \in [Snaps -> Phases] /\ error \in [Snaps -> {None, CommandError} \cup Trees]
        /\ out \in [Snaps -> Snapshots] /\ out[s] \in Snapshots
        /\ job \in [Snaps -> [Trees -> JobStates]]
    BY SnapParts
       DEF List, CheckTrees, Found, Fail, Frame, Under, SnapInv, repo
  <1> SUFFICES ASSUME Progress(s, repo) PROVE Progress(s, repo)'
    BY <1>1, QuietOne
  <1>2. CASE List(s)
    <2> DEFINE found == [out[s] EXCEPT !.listed = {t \in Trees : tree[t] # "removed"}]
    <2>1. /\ phase[s] = "list" /\ phase'[s] = "check" /\ out'[s] = found
          /\ job'[s] = [t \in Trees |-> IF tree[t] \in {"clean", "dirty"} THEN "listed" ELSE "none"]
      BY <1>1, <1>2 DEF List, Found
    <2>2. /\ found.head = out[s].head /\ found.changed = out[s].changed
          /\ found.untracked = out[s].untracked /\ found.lines = out[s].lines
          /\ found.listed = {t \in Trees : tree[t] # "removed"}
      BY <1>1 DEF Snapshots
    <2> HIDE DEF found
    <2>3. /\ out[s].head = head /\ out[s].changed = Of("changed")
          /\ out[s].untracked = Of("untracked")
          /\ \A f \in Files :
                out[s].lines[f] = IF file[f] \in {"changed", "untracked"} THEN 1 ELSE 0
      BY <2>1, ProgressNow
    <2>4. QED
      BY <1>1, <2>1, <2>2, <2>3
         DEF Progress, Returned, StatusExact, LinesExact, ListExact, repo, Of
  <1>3. CASE CheckTrees(s)
    <2>1. phase[s] = "check" /\ out' = out
      BY <1>3 DEF CheckTrees
    <2>2. \A t \in Trees :
             job[s][t] = IF tree[t] \in {"clean", "dirty"} THEN "listed" ELSE "none"
      BY <2>1, ProgressNow
    <2>3. {t \in Listed(s, "listed") : tree[t] \in {"missing", "removed"}} = {}
      BY <2>2 DEF Listed
    <2>4. /\ phase'[s] = "trees"
          /\ job'[s] = [t \in Trees |-> IF job[s][t] = "listed" THEN "queued" ELSE "none"]
      BY <1>1, <1>3, <2>3 DEF CheckTrees
    <2>5. \A t \in Trees :
             job'[s][t] = IF tree[t] \in {"clean", "dirty"} THEN "queued" ELSE "none"
      BY <2>2, <2>4
    <2>6. QED
      BY <1>1, <2>1, <2>4, <2>5
         DEF Progress, Returned, StatusExact, LinesExact, ListExact, repo
  <1>4. QED
    BY <1>2, <1>3

\* A worktree's result is the state it is in, or a failure.
LEMMA QuietTree ==
    ASSUME SnapInv, NEW s \in Snaps,
           TakeJob(s) \/ \E t \in Trees : AcquireForTree(s, t) \/ ReadTree(s, t) \/ TreeFails(s, t)
    PROVE  FileInv' /\ MomentInv' /\ ExactInv'
  <1>1. job \in [Snaps -> [Trees -> JobStates]] /\ JobsOf(s) /\ phase[s] \in Phases
    BY SnapParts DEF SnapInv
  <1>2. \A t \in Trees : job[s][t] \in {"queued", "waiting", "running"} => phase[s] = "trees"
    BY <1>1 DEF JobsOf, Phases
  <1> DEFINE moved(t, to) ==
                /\ job[s][t] \in {"queued", "waiting", "running"}
                /\ job' = [job EXCEPT ![s] = [@ EXCEPT ![t] = to]]
                /\ \/ to \in {"waiting", "running", "failed"}
                   \/ tree[t] \in {"clean", "dirty"} /\ to = tree[t]
  <1>3. \E t \in Trees : \E to : moved(t, to)
    <2>1. CASE TakeJob(s)
      <3>1. Listed(s, "queued") \in SUBSET Trees /\ Listed(s, "queued") # {}
        BY <2>1 DEF TakeJob, Listed
      <3>2. First(Listed(s, "queued")) \in Trees /\ job[s][First(Listed(s, "queued"))] = "queued"
        BY <3>1, FirstLeast DEF Listed
      <3>3. moved(First(Listed(s, "queued")), "waiting")
        BY <2>1, <3>2 DEF TakeJob
      <3> HIDE DEF moved
      <3>4. QED
        BY <3>2, <3>3
    <2>2. ASSUME NEW t \in Trees, AcquireForTree(s, t)
          PROVE  moved(t, "running")
      BY <2>2 DEF AcquireForTree
    <2>3. ASSUME NEW t \in Trees, ReadTree(s, t)
          PROVE  \E to : moved(t, to)
      <3> DEFINE to == IF tree[t] \in {"clean", "dirty"} THEN tree[t] ELSE "failed"
      <3>1. moved(t, to)
        BY <2>3 DEF ReadTree, TreeEnds
      <3> HIDE DEF moved, to
      <3>2. QED
        BY <3>1
    <2>4. ASSUME NEW t \in Trees, TreeFails(s, t)
          PROVE  moved(t, "failed")
      BY <2>4 DEF TreeFails, TreeEnds, Busy, Listed
    <2> HIDE DEF moved
    <2>5. QED
      BY <2>1, <2>2, <2>3, <2>4
  <1>4. PICK t, to : t \in Trees /\ moved(t, to)
    <2> HIDE DEF moved
    <2> QED
      BY <1>3
  <1>5. UNCHANGED <<repo, edits, phase, out, error, moments>> /\ phase[s] = "trees"
    BY <1>2, <1>4 DEF TakeJob, AcquireForTree, ReadTree, TreeFails, TreeEnds
  <1>6. /\ job'[s][t] = to /\ \A u \in Trees \ {t} : job'[s][u] = job[s][u]
        /\ \A q \in Snaps \ {s} : job'[q] = job[q]
    BY <1>1, <1>4
  <1>7. Frame(s) /\ Under(s)
    BY <1>5, <1>6 DEF Frame, Under, repo
  <1> SUFFICES ASSUME Progress(s, repo) PROVE Progress(s, repo)'
    BY <1>5, <1>7, QuietOne
  <1>8. \A u \in Trees : IF tree[u] \in {"clean", "dirty"}
                         THEN job'[s][u] \in {"queued", "waiting", "running", "failed", tree[u]}
                         ELSE job'[s][u] = "none"
    <2>1. \A u \in Trees : IF tree[u] \in {"clean", "dirty"}
                           THEN job[s][u] \in {"queued", "waiting", "running", "failed", tree[u]}
                           ELSE job[s][u] = "none"
      BY <1>5, ProgressNow
    <2>2. QED
      BY <1>4, <1>6, <2>1
  <1>9. QED
    BY <1>5, <1>8 DEF Progress, Returned, StatusExact, LinesExact, ListExact, repo

LEMMA QuietCollect ==
    ASSUME SnapInv, NEW s \in Snaps, Collect(s)
    PROVE  FileInv' /\ MomentInv' /\ ExactInv'
  <1> DEFINE failed == Listed(s, "failed")
  <1>1. /\ phase \in [Snaps -> Phases] /\ error \in [Snaps -> {None, CommandError} \cup Trees]
        /\ out \in [Snaps -> Snapshots] /\ out[s] \in Snapshots /\ None \notin Trees
    BY SnapParts DEF SnapInv
  <1>2. /\ phase[s] = "trees" /\ \A t \in Trees : job[s][t] \in {"none"} \cup Results
        /\ UNCHANGED <<head, file, tree, edits, job, moments>>
        /\ phase' = [phase EXCEPT ![s] = "done"]
        /\ \/ failed # {} /\ error' = [error EXCEPT ![s] = First(failed)]
                          /\ \E o : out' = [out EXCEPT ![s] = o]
           \/ failed = {} /\ error' = error
                          /\ out' = [out EXCEPT ![s] = [out[s] EXCEPT !.dirty = Listed(s, "dirty")]]
    <2>1. failed # {} => \E o : out' = [out EXCEPT ![s] = o]
      <3> HAVE failed # {}
      <3>1. out' = [out EXCEPT ![s].dirty = {t \in Listed(s, "dirty") : t < First(failed)}]
        BY DEF Collect, Report
      <3>2. QED
        BY <3>1
    <2>2. QED
      BY <2>1 DEF Collect, AllEnded, Report, Fail, Found, repo
  <1>3. failed # {} => First(failed) \in Trees
    BY FirstLeast DEF Listed
  <1> HIDE DEF failed
  <1>4. Frame(s) /\ Under(s) /\ phase'[s] = "done"
    BY <1>1, <1>2 DEF Frame, Under
  <1> SUFFICES ASSUME Progress(s, repo) PROVE Progress(s, repo)'
    BY <1>2, <1>4, QuietOne
  <1>5. CASE failed # {}
    BY <1>1, <1>2, <1>3, <1>4, <1>5 DEF Progress, Returned
  <1>6. CASE failed = {}
    <2> DEFINE found == [out[s] EXCEPT !.dirty = Listed(s, "dirty")]
    <2>1. /\ found.head = out[s].head /\ found.changed = out[s].changed
          /\ found.untracked = out[s].untracked /\ found.lines = out[s].lines
          /\ found.listed = out[s].listed /\ found.dirty = Listed(s, "dirty")
      BY <1>1 DEF Snapshots
    <2>2. out'[s] = found
      BY <1>1, <1>2, <1>6
    <2> HIDE DEF found
    <2>3. \A t \in Trees : job[s][t] # "failed"
      BY <1>6 DEF failed, Listed
    <2>4. \A t \in Trees : IF tree[t] \in {"clean", "dirty"} THEN job[s][t] = tree[t]
                           ELSE job[s][t] = "none"
      <3>1. \A t \in Trees :
               IF tree[t] \in {"clean", "dirty"}
               THEN job[s][t] \in {"queued", "waiting", "running", "failed", tree[t]}
               ELSE job[s][t] = "none"
        BY <1>2, ProgressNow
      <3>2. QED
        BY <1>2, <2>3, <3>1 DEF Results
    <2>5. Listed(s, "dirty") = {t \in Trees : tree[t] = "dirty"}
      BY <2>4 DEF Listed
    <2>6. /\ out[s].head = head /\ out[s].changed = Of("changed")
          /\ out[s].untracked = Of("untracked")
          /\ \A f \in Files :
                out[s].lines[f] = IF file[f] \in {"changed", "untracked"} THEN 1 ELSE 0
          /\ out[s].listed = {t \in Trees : tree[t] # "removed"}
      BY <1>2, ProgressNow
    <2>7. Exact(found, <<head, file, tree>>)
      BY <2>1, <2>5, <2>6 DEF Exact, Of
    <2>8. QED
      BY <1>2, <1>4, <2>2, <2>7 DEF Progress, repo, Exact
  <1>7. QED
    BY <1>5, <1>6

LEMMA SnapStep == SnapInv /\ [Next]_vars => SnapInv'
  <1> SUFFICES ASSUME SnapInv, [Next]_vars PROVE SnapInv'
    OBVIOUS
  <1>1. SlotInv'
    BY SlotStep DEF SnapInv
  <1>2. CASE UNCHANGED vars
    BY <1>1, <1>2 DEF vars, repo, snapping, SnapInv, FileInv, MomentInv, ExactInv, Under, Progress,
                      Returned, StatusExact, LinesExact, ListExact, Exact
  <1>3. CASE Next
    BY <1>1, <1>3, QuietEdit, QuietBegin, QuietCommands, QuietList, QuietTree, QuietCollect
       DEF Next, Step, SnapInv
  <1>4. QED
    BY <1>2, <1>3

LEMMA SnapInvariance == ServiceSpec => []SnapInv
  <1>1. Init => SnapInv
    BY SlotInitInv, QuietInit DEF SnapInv
  <1>2. QED
    BY <1>1, Parts, SnapStep, PTL DEF ServiceSpec

\* The snapshot of a repository that nobody touched meanwhile is exact, however
\* the commands of several snapshots and the workers interleave
\* (inspector.go:90-151, 548-624).
THEOREM QuietSnapshots == ServiceSpec => []QuietIsExact
  <1>1. SnapInv => QuietIsExact
    <2> SUFFICES ASSUME SnapInv, NEW s \in Snaps, Returned(s), Cardinality(moments[s]) = 1,
                        NEW m \in moments[s]
                 PROVE  Exact(out[s], m)
      BY DEF QuietIsExact
    <2>1. IsFiniteSet(moments[s])
      BY SnapParts DEF SnapInv
    <2>2. moments[s] = {m}
      BY <2>1, FS_Singleton
    <2>3. Progress(s, m)
      BY <2>2 DEF SnapInv, ExactInv
    <2>4. QED
      BY <2>3 DEF Progress
  <1>2. QED
    BY <1>1, SnapInvariance, PTL

=============================================================================
