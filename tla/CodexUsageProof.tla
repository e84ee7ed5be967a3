----------------------------- MODULE CodexUsageProof -----------------------------
(***************************************************************************)
(* Machine-checked proofs about the token statistics: what the service and *)
(* its cache file hold is true of the logs, and a summary is current, for  *)
(* every number of sessions and requests, every size and every number of   *)
(* faults.                                                                 *)
(*                                                                         *)
(* A log only grows, so that an entry is between two of its sizes: at      *)
(* least the events under its fingerprint, at most those of the log        *)
(* (Sound).  A session is deleted once and for all, and archived in one    *)
(* direction only, the one in which discover takes the directories, so     *)
(* that no log slips from a directory still to be read into one that has   *)
(* been (FoundInv).                                                        *)
(***************************************************************************)
EXTENDS CodexUsage, FiniteSetTheorems, TLAPS

\* An entry has no less than what its fingerprint says, no more than the log.
Sound(entry, p) ==
    entry # None =>
        /\ entry.fp <= log[p[2]]
        /\ Events(entry.fp) <= entry.events
        /\ entry.events <= Events(log[p[2]])

SoundContents(contents) == \A p \in Paths : Sound(contents[p], p)

EntryInv ==
    /\ SoundContents(files)
    /\ cache \notin {None, Damaged} => SoundContents(cache)
    /\ job # Idle => SoundContents(job.next)

UnbornInv == \A s \in Sessions : place[s] = "unborn" => log[s] = 0

\* What a request saw is gone for ever, or has not shrunk.
SeenInv ==
    \A c \in Callers : asked[c] # None =>
        \A s \in Sessions :
            /\ asked[c][s] = None => place[s] = "deleted"
            /\ asked[c][s] # None => asked[c][s] <= log[s]

\* How far the refresh is with each file.
TodoInv == job # Idle =>
    /\ job.phase \in Dirs \cup {"load"} => job.todo = {} /\ job.next = NoFiles
    /\ job.phase = "aggregate" => job.todo = {} /\ files = job.next
    /\ \A p \in Paths :
          /\ job.found[p] # None => job.found[p] <= log[p[2]]
          /\ job.next[p] # None => job.found[p] # None /\ job.next[p].fp = job.found[p]
          /\ job.phase \in {"files", "aggregate"} /\ job.found[p] # None /\ ~job.skipped =>
                p \in job.todo \/ job.next[p] # None

\* The log is as large in the listing as the request saw it.
FoundSince(dir, s) ==
    job.found[<<dir, s>>] # None /\ asked[job.caller][s] <= job.found[<<dir, s>>]

FoundInv == job # Idle =>
    \A s \in Sessions :
        /\ asked[job.caller][s] = None => \A dir \in Dirs : job.found[<<dir, s>>] = None
        /\ ~job.skipped /\ place[s] # "deleted" /\ asked[job.caller][s] \notin {None, 0} =>
              /\ job.phase = Archived => FoundSince(Active, s) \/ place[s] = Archived
              /\ job.phase \in {"load", "files", "aggregate"} =>
                    \E dir \in Dirs : FoundSince(dir, s)

Inv == TypeOK /\ EntryInv /\ UnbornInv /\ SeenInv /\ TodoInv /\ FoundInv

-----------------------------------------------------------------------------
(* Operators.                                                              *)

LEMMA EventsMonotone ==
    \A a, b \in Nat : a <= b => Events(a) <= Events(b)
  BY SMT DEF Events

LEMMA EventsBound ==
    \A n \in 0 .. MaxSize : Events(n) \in 0 .. MaxSize
  BY SizeAssumption, SMT DEF Events

LEMMA PathsType ==
    /\ \A p \in Paths : p = <<p[1], p[2]>> /\ p[1] \in Dirs /\ p[2] \in Sessions
    /\ \A dir \in Dirs, s \in Sessions :
          <<dir, s>> \in Paths /\ <<dir, s>>[1] = dir /\ <<dir, s>>[2] = s
    /\ \A p \in Paths : p[1] = Active \/ p[1] = Archived
  BY DEF Paths, Dirs

LEMMA PathsFinite == \A S \in SUBSET Paths : Cardinality(S) \in Nat
  <1>1. IsFiniteSet(Dirs)
    <2>1. Dirs = ({} \cup {Active}) \cup {Archived}
      BY DEF Dirs
    <2>2. QED
      BY <2>1, FS_EmptySet, FS_AddElement
  <1>2. IsFiniteSet(Paths)
    BY <1>1, SessionsAssumption, FS_Product DEF Paths
  <1>3. QED
    BY <1>2, FS_Subset, FS_CardinalityType

LEMMA NoFilesType == NoFiles \in Contents /\ NoFiles \in Sizes
  BY DEF NoFiles, Contents, Sizes

\* A log that grows leaves what is sound sound.
LEMMA SoundGrows ==
    ASSUME TypeOK, TypeOK', \A s \in Sessions : log[s] <= log'[s],
           NEW contents \in Contents, SoundContents(contents)
    PROVE  \A p \in Paths : /\ contents[p] # None => contents[p].fp <= log'[p[2]]
                            /\ contents[p] # None => Events(contents[p].fp) <= contents[p].events
                            /\ contents[p] # None => contents[p].events <= Events(log'[p[2]])
  <1> SUFFICES ASSUME NEW p \in Paths, contents[p] # None
               PROVE  /\ contents[p].fp <= log'[p[2]]
                      /\ Events(contents[p].fp) <= contents[p].events
                      /\ contents[p].events <= Events(log'[p[2]])
    OBVIOUS
  <1>1. p[2] \in Sessions /\ contents[p] \in Entries
    BY PathsType DEF Contents
  <1>2. log[p[2]] \in 0 .. MaxSize /\ log'[p[2]] \in 0 .. MaxSize
    BY <1>1 DEF TypeOK
  <1>3. Events(log[p[2]]) <= Events(log'[p[2]])
    BY <1>1, <1>2, EventsMonotone
  <1>4. /\ contents[p].fp \in Nat /\ contents[p].events \in Nat
        /\ Events(log[p[2]]) \in Nat /\ Events(log'[p[2]]) \in Nat
    BY <1>1, <1>2, EventsBound DEF Entries
  <1>5. /\ contents[p].fp <= log[p[2]] /\ Events(contents[p].fp) <= contents[p].events
        /\ contents[p].events <= Events(log[p[2]])
    BY DEF SoundContents, Sound
  <1>6. log[p[2]] <= log'[p[2]]
    BY <1>1
  <1>7. QED
    BY <1>2, <1>3, <1>4, <1>5, <1>6

-----------------------------------------------------------------------------
(* Type correctness.                                                       *)

LEMMA InitInv == Init => Inv
  <1> SUFFICES ASSUME Init PROVE Inv
    OBVIOUS
  <1>1. TypeOK
    <2>1. log \in [Sessions -> 0 .. MaxSize] /\ reference \in Sizes
      BY PathsType DEF Init, Sizes, NoFiles
    <2>2. /\ place \in [Sessions -> {"unborn", "deleted"} \cup Dirs]
          /\ faults \in 0 .. MaxFaults
      BY <2>1, FaultsAssumption DEF Init, Dirs
    <2>3. QED
      BY <2>1, <2>2, NoFilesType DEF Init, TypeOK
  <1>2. EntryInv
    BY DEF Init, EntryInv, SoundContents, Sound, NoFiles
  <1>3. UnbornInv
    BY DEF Init, UnbornInv, Active
  <1>4. SeenInv /\ TodoInv /\ FoundInv
    BY DEF Init, SeenInv, TodoInv, FoundInv
  <1>5. QED
    BY <1>1, <1>2, <1>3, <1>4 DEF Inv

LEMMA JobType ==
    ASSUME TypeOK
    PROVE  /\ job # Idle <=> job.phase # "idle"
           /\ job # Idle => job \in Jobs
           /\ "idle" \notin Dirs \cup {"load", "files", "aggregate"}
  BY DEF TypeOK, Jobs, Idle, Dirs, Active, Archived

LEMMA TypeStep == Inv /\ [Next]_vars => TypeOK'
  <1> SUFFICES ASSUME Inv, [Next]_vars PROVE TypeOK'
    OBVIOUS
  <1> USE JobType DEF Inv, TypeOK, Busy, logs, service
  <1>1. ASSUME NEW s \in Sessions, Append(s) PROVE TypeOK'
    BY <1>1, SizeAssumption DEF Append, Dirs
  <1>2. ASSUME NEW s \in Sessions, Archive(s) \/ Delete(s) PROVE TypeOK'
    BY <1>2 DEF Archive, Delete, Move, Dirs
  <1>3. CASE Restart \/ Damage
    <2>1. faults' \in 0 .. MaxFaults
      BY <1>3, FaultsAssumption DEF Restart, Damage, Fault
    <2>2. CASE Restart
      BY <2>1, <2>2, NoFilesType DEF Restart
    <2>3. CASE Damage
      BY <2>1, <2>3 DEF Damage
    <2>4. QED
      BY <1>3, <2>2, <2>3
  <1>4. ASSUME NEW c \in Callers, Request(c) PROVE TypeOK'
    BY <1>4 DEF Request
  <1>5. ASSUME NEW c \in Callers, Lock(c) PROVE TypeOK'
    <2>1. /\ job' \in Jobs /\ job'.todo = {} /\ job'.caller = c
          /\ job'.phase \notin {"files", "aggregate"}
      BY <1>5, NoFilesType DEF Lock, Jobs, Following, Dirs, Active
    <2>2. QED
      BY <1>5, <2>1 DEF Lock
  <1>6. ASSUME NEW dir \in Dirs, Discover(dir) PROVE TypeOK'
    <2>1. PICK failed \in SUBSET {p \in Paths : p[1] = dir /\ OnDisk(p)} :
            /\ Faults(failed)
            /\ job' = [job EXCEPT
                  !.phase = Following[dir],
                  !.found = [p \in Paths |->
                      IF p[1] = dir /\ OnDisk(p) /\ p \notin failed
                      THEN log[p[2]] ELSE job.found[p]],
                  !.skipped = @ \/ failed # {}]
      BY <1>6 DEF Discover
    <2>2. Cardinality(failed) \in Nat
      BY PathsFinite
    <2>3. faults' \in 0 .. MaxFaults
      BY <2>1, <2>2, FaultsAssumption DEF Faults
    <2>4. /\ Following[dir] \in {Archived, "load"} /\ job \in Jobs /\ job.todo = {}
          /\ job.phase = dir
      BY <1>6 DEF Discover, Following, Dirs, Active, Archived, TodoInv
    <2>5. [p \in Paths |-> IF p[1] = dir /\ OnDisk(p) /\ p \notin failed
                           THEN log[p[2]] ELSE job.found[p]] \in Sizes
      BY <2>4, PathsType DEF Jobs, Sizes
    <2>6. job' \in Jobs /\ job'.todo = {} /\ job'.caller = job.caller
          /\ job'.phase \in {Archived, "load"}
      BY <2>1, <2>4, <2>5 DEF Jobs, Dirs
    <2>7. QED
      BY <1>6, <2>3, <2>4, <2>6 DEF Discover, Dirs, Archived
  <1>7. ASSUME NEW done \in BOOLEAN, Load(done) PROVE TypeOK'
    <2>1. files' \in Contents
      BY <1>7 DEF Load, FirstFiles
    <2>2. job' \in Jobs /\ job'.todo \subseteq Held(job'.found) /\ job'.caller = job.caller
      BY <1>7 DEF Load, Jobs, Held, Sizes, NoFiles
    <2>3. QED
      BY <1>7, <2>1, <2>2, FaultsAssumption DEF Load
  <1>8. ASSUME NEW p \in Paths, NEW entry \in Entries \cup {None}, NEW b \in BOOLEAN,
               Looking(p), Take(p, entry, b), faults' \in 0 .. MaxFaults
        PROVE  TypeOK'
    <2>1. job' \in Jobs /\ job'.todo \subseteq Held(job'.found) /\ job'.caller = job.caller
      BY <1>8 DEF Looking, Take, Jobs, Contents, Held
    <2>2. QED
      BY <1>8, <2>1 DEF Looking, Take
  <1>9. ASSUME NEW p \in Paths, Reuse(p) \/ Import(p) \/ Parse(p) \/ Skip(p) PROVE TypeOK'
    <2>1. files[p] \in Entries \cup {None} /\ p[2] \in Sessions /\ log[p[2]] \in 0 .. MaxSize
      BY PathsType DEF Contents
    <2>2. CASE Reuse(p)
      BY <1>8, <2>1, <2>2 DEF Reuse
    <2>3. job.phase = "files" => job.found[p] \in (0 .. MaxSize) \cup {None}
      BY DEF Jobs, Sizes
    <2>4. Looking(p) => job.found[p] \in 0 .. MaxSize
      BY <2>3 DEF Looking, Held
    <2>5. CASE Import(p) \/ Parse(p)
      <3>1. [fp |-> job.found[p], events |-> Events(job.found[p])] \in Entries
        BY <2>4, <2>5, EventsBound DEF Import, Parse, Entries
      <3>2. [fp |-> job.found[p], events |-> Events(log[p[2]])] \in Entries
        BY <2>1, <2>4, <2>5, EventsBound DEF Import, Parse, Entries
      <3>3. QED
        BY <1>8, <2>5, <3>1, <3>2 DEF Import, Parse
    <2>6. CASE Skip(p)
      <3>1. faults' \in 0 .. MaxFaults
        BY <2>6, FaultsAssumption DEF Skip
      <3>2. QED
        BY <1>8, <2>6, <3>1 DEF Skip
    <2>7. QED
      BY <1>9, <2>2, <2>5, <2>6
  <1>10. ASSUME NEW done \in BOOLEAN, Save(done) PROVE TypeOK'
    <2>1. job \in Jobs /\ job.next \in Contents
      BY <1>10 DEF Save, Jobs
    <2>2. job' \in Jobs /\ job'.todo = {} /\ job'.caller = job.caller
      BY <1>10, <2>1 DEF Save, Jobs
    <2>3. QED
      BY <1>10, <2>1, <2>2, FaultsAssumption DEF Save
  <1>11. CASE Answer \/ Cancel
    BY <1>11 DEF Answer, Cancel, Finish
  <1>12. CASE UNCHANGED vars
    BY <1>12 DEF vars
  <1>13. QED
    BY <1>1, <1>2, <1>3, <1>4, <1>5, <1>6, <1>7, <1>9, <1>10, <1>11, <1>12
       DEF Next, Environment, Refresh

-----------------------------------------------------------------------------
(* The invariant is inductive.                                             *)

LEMMA LogsStep ==
    ASSUME Inv, TypeOK', UNCHANGED <<service, asked>>,
           \A s \in Sessions :
              /\ log[s] <= log'[s]
              /\ place[s] = "deleted" => place'[s] = "deleted"
              /\ place[s] = Archived => place'[s] \in {Archived, "deleted"}
              /\ place'[s] = "unborn" => log'[s] = 0
    PROVE  Inv'
  <1> USE JobType DEF Inv, service
  <1>1. EntryInv'
    <2>1. \A contents \in Contents : SoundContents(contents) =>
             \A p \in Paths : Sound(contents[p], p)'
      BY SoundGrows DEF Sound
    <2>2. files \in Contents /\ (cache \notin {None, Damaged} => cache \in Contents)
          /\ (job # Idle => job.next \in Contents)
      BY DEF TypeOK, Jobs
    <2>3. QED
      BY <2>1, <2>2 DEF EntryInv, SoundContents, Sound
  <1>2. UnbornInv'
    BY DEF UnbornInv
  <1>3. SeenInv'
    <2> SUFFICES ASSUME NEW c \in Callers, asked[c] # None, NEW s \in Sessions
                 PROVE  /\ asked[c][s] = None => place'[s] = "deleted"
                        /\ asked[c][s] # None => asked[c][s] <= log'[s]
      BY DEF SeenInv
    <2>1. asked[c][s] \in (0 .. MaxSize) \cup {None} /\ log[s] \in Nat /\ log'[s] \in Nat
      BY DEF TypeOK
    <2>2. QED
      BY <2>1 DEF SeenInv
  <1>4. TodoInv'
    <2> SUFFICES ASSUME job # Idle
                 PROVE  \A p \in Paths : job.found[p] # None => job.found[p] <= log'[p[2]]
      BY DEF TodoInv
    <2> SUFFICES ASSUME NEW p \in Paths, job.found[p] # None
                 PROVE  job.found[p] <= log'[p[2]]
      OBVIOUS
    <2>1. /\ p[2] \in Sessions /\ log[p[2]] \in Nat /\ log'[p[2]] \in Nat
          /\ job.found[p] \in 0 .. MaxSize
      BY PathsType DEF TypeOK, Jobs, Sizes
    <2>2. QED
      BY <2>1 DEF TodoInv
  <1>5. FoundInv'
    BY DEF FoundInv, FoundSince
  <1>6. QED
    BY <1>1, <1>2, <1>3, <1>4, <1>5

LEMMA LogStep ==
    ASSUME Inv, TypeOK', NEW s \in Sessions, Append(s) \/ Archive(s) \/ Delete(s)
    PROVE  Inv'
  <1>1. UNCHANGED <<service, asked>>
    BY DEF Append, Archive, Delete, Move
  <1>2. ASSUME NEW t \in Sessions
        PROVE  /\ log[t] <= log'[t]
               /\ place[t] = "deleted" => place'[t] = "deleted"
               /\ place[t] = Archived => place'[t] \in {Archived, "deleted"}
               /\ place'[t] = "unborn" => log'[t] = 0
    <2>1. log[t] \in Nat
      BY DEF Inv, TypeOK
    <2>2. CASE Append(s)
      BY <2>1, <2>2 DEF Append, Active, Archived, Inv, TypeOK, UnbornInv
    <2>3. CASE Archive(s) \/ Delete(s)
      BY <2>1, <2>3 DEF Archive, Delete, Move, Dirs, Active, Archived, Inv, TypeOK, UnbornInv
    <2>4. QED
      BY <2>2, <2>3
  <1>3. QED
    BY <1>1, <1>2, LogsStep

LEMMA ProcessStep == Inv /\ TypeOK' /\ (Restart \/ Damage) => Inv'
  <1> SUFFICES ASSUME Inv, TypeOK', Restart \/ Damage PROVE Inv'
    OBVIOUS
  <1> USE DEF Inv, logs
  <1>1. UnbornInv'
    BY DEF Restart, Damage, UnbornInv
  <1>2. CASE Restart
    <2>1. EntryInv'
      BY <1>2 DEF Restart, EntryInv, SoundContents, Sound, NoFiles
    <2>2. SeenInv' /\ TodoInv' /\ FoundInv'
      BY <1>2 DEF Restart, SeenInv, TodoInv, FoundInv
    <2>3. QED
      BY <1>1, <2>1, <2>2
  <1>3. CASE Damage
    <2>1. EntryInv'
      BY <1>3 DEF Damage, EntryInv, SoundContents, Sound
    <2>2. SeenInv' /\ TodoInv' /\ FoundInv'
      BY <1>3 DEF Damage, SeenInv, TodoInv, FoundInv, FoundSince
    <2>3. QED
      BY <1>1, <2>1, <2>2
  <1>4. QED
    BY <1>2, <1>3

LEMMA RequestStep ==
    ASSUME Inv, TypeOK', NEW c \in Callers, Request(c) \/ Lock(c)
    PROVE  Inv'
  <1> USE JobType DEF Inv, logs, service, Busy
  <1>1. UnbornInv'
    BY DEF Request, Lock, UnbornInv
  <1>2. CASE Request(c)
    <2>1. EntryInv' /\ TodoInv'
      BY <1>2 DEF Request, EntryInv, SoundContents, Sound, TodoInv
    <2>2. SeenInv'
      <3> SUFFICES ASSUME NEW d \in Callers, asked'[d] # None, NEW s \in Sessions
                   PROVE  /\ asked'[d][s] = None => place[s] = "deleted"
                          /\ asked'[d][s] # None => asked'[d][s] <= log[s]
        BY <1>2 DEF Request, SeenInv
      <3>1. CASE d = c
        <4>1. asked'[d][s] = IF place[s] = "deleted" THEN None ELSE log[s]
          BY <1>2, <3>1 DEF Request, TypeOK
        <4>2. log[s] \in Nat
          BY DEF TypeOK
        <4>3. QED
          BY <4>1, <4>2, NoneAssumption
      <3>2. CASE d # c
        BY <1>2, <3>2 DEF Request, SeenInv, TypeOK
      <3>3. QED
        BY <3>1, <3>2
    <2>3. FoundInv'
      <3>1. job # Idle => job.caller # c /\ job.caller \in Callers
        BY <1>2 DEF Request, TypeOK, Jobs
      <3>2. job # Idle => asked'[job.caller] = asked[job.caller]
        BY <1>2, <3>1 DEF Request, TypeOK
      <3>3. QED
        BY <1>2, <3>2 DEF Request, FoundInv, FoundSince
    <2>4. QED
      BY <1>1, <2>1, <2>2, <2>3
  <1>3. CASE Lock(c)
    <2>1. /\ job'.phase = Active /\ job'.todo = {} /\ job'.found = NoFiles
          /\ job'.next = NoFiles /\ job'.caller = c
      BY <1>3 DEF Lock, Following
    <2>2. EntryInv'
      BY <1>3, <2>1 DEF Lock, EntryInv, SoundContents, Sound, NoFiles
    <2>3. SeenInv'
      BY <1>3 DEF Lock, SeenInv
    <2>4. TodoInv'
      BY <2>1 DEF TodoInv, Active, NoFiles
    <2>5. FoundInv'
      BY <2>1, PathsType DEF FoundInv, Active, Archived, NoFiles
    <2>6. QED
      BY <1>1, <2>2, <2>3, <2>4, <2>5
  <1>4. QED
    BY <1>2, <1>3

LEMMA DiscoverStep ==
    ASSUME Inv, TypeOK', NEW dir \in Dirs, Discover(dir)
    PROVE  Inv'
  <1> USE JobType DEF Inv, logs, service, Busy
  <1>1. PICK failed \in SUBSET {p \in Paths : p[1] = dir /\ OnDisk(p)} :
           job' = [job EXCEPT
              !.phase = Following[dir],
              !.found = [p \in Paths |->
                  IF p[1] = dir /\ OnDisk(p) /\ p \notin failed
                  THEN log[p[2]] ELSE job.found[p]],
              !.skipped = @ \/ failed # {}]
    BY DEF Discover
  <1>2. job # Idle /\ job \in Jobs /\ job.phase = dir
    BY DEF Discover
  <1>3. /\ job'.phase = Following[dir] /\ job'.todo = job.todo /\ job'.next = job.next
        /\ job'.caller = job.caller /\ (~job'.skipped => ~job.skipped /\ failed = {})
        /\ \A p \in Paths : job'.found[p] =
              IF p[1] = dir /\ OnDisk(p) /\ p \notin failed THEN log[p[2]] ELSE job.found[p]
        /\ UNCHANGED <<place, log, files, cache, asked>>
    BY <1>1, <1>2 DEF Discover, Jobs
  <1>4. /\ dir = Active => Following[dir] = Archived
        /\ dir = Archived => Following[dir] = "load"
        /\ dir \in {Active, Archived} /\ Active # Archived
        /\ Archived \notin {"load", "files", "aggregate"}
    BY DEF Dirs, Following, Active, Archived
  <1>5. job.todo = {} /\ job.next = NoFiles
    BY <1>2 DEF TodoInv
  <1>6. EntryInv' /\ UnbornInv' /\ SeenInv'
    BY <1>2, <1>3 DEF EntryInv, SoundContents, Sound, UnbornInv, SeenInv
  <1>7. TodoInv'
    <2>1. \A p \in Paths : /\ job'.next[p] = None
                           /\ job'.found[p] # None => job'.found[p] <= log[p[2]]
      <3> SUFFICES ASSUME NEW p \in Paths, job'.found[p] # None
                   PROVE  job'.found[p] <= log[p[2]]
        BY <1>3, <1>5 DEF NoFiles
      <3>1. log[p[2]] \in Nat
        BY PathsType DEF TypeOK
      <3>2. QED
        BY <1>2, <1>3, <3>1 DEF TodoInv
    <2>2. QED
      BY <1>3, <1>4, <1>5, <2>1 DEF TodoInv, Dirs
  <1>8. FoundInv'
    <2> SUFFICES ASSUME NEW s \in Sessions
                 PROVE  /\ asked[job.caller][s] = None =>
                              \A d \in Dirs : job'.found[<<d, s>>] = None
                        /\ ~job'.skipped /\ place[s] # "deleted"
                              /\ asked[job.caller][s] \notin {None, 0} =>
                           /\ job'.phase = Archived => FoundSince(Active, s)' \/ place[s] = Archived
                           /\ job'.phase \in {"load", "files", "aggregate"} =>
                                 \E d \in Dirs : FoundSince(d, s)'
      BY <1>3 DEF FoundInv
    <2> DEFINE before == asked[job.caller][s]
    <2>1. /\ job.caller \in Callers /\ asked[job.caller] # None
          /\ before \in (0 .. MaxSize) \cup {None} /\ log[s] \in Nat
          /\ before = None => place[s] = "deleted"
          /\ before # None => before <= log[s]
      BY <1>2 DEF Jobs, TypeOK, SeenInv
    <2>2. \A d \in Dirs :
             job'.found[<<d, s>>] = IF d = dir /\ place[s] = d /\ <<d, s>> \notin failed
                                    THEN log[s] ELSE job.found[<<d, s>>]
      BY <1>3, PathsType DEF OnDisk
    <2>3. "deleted" \notin Dirs
      BY DEF Dirs, Active, Archived
    <2>4. ASSUME before = None, NEW d \in Dirs PROVE job'.found[<<d, s>>] = None
      BY <1>2, <2>1, <2>2, <2>3, <2>4 DEF FoundInv
    <2>5. ASSUME ~job'.skipped, place[s] # "deleted", before \notin {None, 0}
          PROVE  /\ job'.phase = Archived => FoundSince(Active, s)' \/ place[s] = Archived
                 /\ job'.phase \in {"load", "files", "aggregate"} =>
                       \E d \in Dirs : FoundSince(d, s)'
      <3>1. failed = {} /\ ~job.skipped
        BY <1>3, <2>5
      <3>2. \A d \in Dirs : d = dir /\ place[s] = d => FoundSince(d, s)'
        BY <1>3, <2>1, <2>2, <2>5, <3>1, NoneAssumption DEF FoundSince
      <3>3. place[s] \in {Active, Archived}
        <4>1. place[s] # "unborn"
          BY <2>1, <2>5 DEF UnbornInv
        <4>2. QED
          BY <2>5, <4>1 DEF TypeOK, Dirs
      <3>4. CASE dir = Active
        BY <1>3, <1>4, <3>2, <3>3, <3>4 DEF Dirs
      <3>5. CASE dir = Archived
        <4>1. FoundSince(Active, s) \/ place[s] = Archived
          BY <1>2, <2>5, <3>1, <3>5 DEF FoundInv
        <4>2. FoundSince(Active, s) => FoundSince(Active, s)'
          BY <1>3, <1>4, <2>2, <3>5 DEF FoundSince, Dirs
        <4>3. QED
          BY <1>3, <1>4, <3>2, <3>5, <4>1, <4>2 DEF Dirs
      <3>6. QED
        BY <1>4, <3>4, <3>5
    <2>6. QED
      BY <2>4, <2>5
  <1>9. QED
    BY <1>6, <1>7, <1>8

LEMMA LoadStep ==
    ASSUME Inv, TypeOK', NEW done \in BOOLEAN, Load(done)
    PROVE  Inv'
  <1> USE JobType DEF Inv, logs, Busy
  <1>1. job # Idle /\ job \in Jobs /\ job.phase = "load"
    BY DEF Load
  <1>2. /\ job'.phase = "files" /\ job'.todo = Held(job.found) /\ job'.next = job.next
        /\ job'.caller = job.caller /\ job'.found = job.found /\ job'.skipped = job.skipped
        /\ files' \in {files, cache} /\ (files' # files => cache \notin {None, Damaged})
        /\ UNCHANGED <<place, log, cache, asked>>
    BY <1>1 DEF Load, FirstFiles, Jobs
  <1>3. EntryInv' /\ UnbornInv' /\ SeenInv'
    BY <1>1, <1>2 DEF EntryInv, SoundContents, Sound, UnbornInv, SeenInv
  <1>4. TodoInv'
    BY <1>1, <1>2 DEF TodoInv, Held, Dirs, Active, Archived
  <1>5. FoundInv'
    BY <1>1, <1>2 DEF FoundInv, FoundSince, Archived
  <1>6. QED
    BY <1>3, <1>4, <1>5

LEMMA TakeStep ==
    ASSUME Inv, TypeOK', NEW p \in Paths, Looking(p),
           NEW entry, NEW b \in BOOLEAN, Take(p, entry, b),
           Sound(entry, p), entry # None => entry.fp = job.found[p]
    PROVE  Inv'
  <1> USE JobType DEF Inv, logs, Busy
  <1>1. /\ job # Idle /\ job \in Jobs /\ job.phase = "files" /\ job.found[p] # None
    BY DEF Looking, TypeOK, Held
  <1>2. /\ job'.phase = "files" /\ job'.todo = job.todo \ {p}
        /\ job'.next = [job.next EXCEPT ![p] = entry]
        /\ job'.caller = job.caller /\ job'.found = job.found
        /\ ~job'.skipped => ~job.skipped /\ entry # None
        /\ UNCHANGED <<place, log, cache, files, asked>>
    BY <1>1 DEF Take, Jobs
  <1>3. job'.next[p] = entry /\ \A q \in Paths : q # p => job'.next[q] = job.next[q]
    BY <1>1, <1>2 DEF Jobs, Contents
  <1>4. EntryInv'
    <2>1. SoundContents(job'.next)
      BY <1>1, <1>3 DEF EntryInv, SoundContents
    <2>2. QED
      BY <1>2, <2>1 DEF EntryInv, SoundContents, Sound
  <1>5. UnbornInv' /\ SeenInv'
    BY <1>2 DEF UnbornInv, SeenInv
  <1>6. TodoInv'
    BY <1>1, <1>2, <1>3 DEF TodoInv, Dirs, Active, Archived
  <1>7. FoundInv'
    BY <1>1, <1>2 DEF FoundInv, FoundSince, Archived
  <1>8. QED
    BY <1>4, <1>5, <1>6, <1>7

LEMMA FileStep ==
    ASSUME Inv, TypeOK', NEW p \in Paths, Reuse(p) \/ Import(p) \/ Parse(p) \/ Skip(p)
    PROVE  Inv'
  <1> USE JobType DEF Inv, Busy
  <1>1. Looking(p) /\ job # Idle /\ job \in Jobs
    BY DEF Reuse, Import, Parse, Skip, Looking
  <1>2. /\ job.found[p] \in 0 .. MaxSize /\ log[p[2]] \in 0 .. MaxSize
        /\ job.found[p] <= log[p[2]]
    BY <1>1, PathsType DEF Looking, TypeOK, Jobs, Sizes, Held, TodoInv
  <1>3. Events(job.found[p]) <= Events(log[p[2]])
    BY <1>2, EventsMonotone
  <1>4. Events(job.found[p]) \in Nat /\ Events(log[p[2]]) \in Nat
    BY <1>2, EventsBound
  <1>5. CASE Reuse(p)
    <2>1. Sound(files[p], p) /\ files[p].fp = job.found[p]
      BY <1>5 DEF Reuse, Unchanged, EntryInv, SoundContents
    <2>2. QED
      BY <1>1, <1>5, <2>1, TakeStep DEF Reuse
  <1>6. CASE Import(p) \/ Parse(p)
    <2>1. PICK n \in {Events(job.found[p]), Events(log[p[2]])} :
             Take(p, [fp |-> job.found[p], events |-> n], TRUE)
      BY <1>6 DEF Import, Parse
    <2>2. Sound([fp |-> job.found[p], events |-> n], p)
      BY <1>2, <1>3, <1>4, <2>1 DEF Sound
    <2>3. QED
      BY <1>1, <2>1, <2>2, TakeStep
  <1>7. CASE Skip(p)
    BY <1>1, <1>7, TakeStep DEF Skip, Sound
  <1>8. QED
    BY <1>5, <1>6, <1>7

LEMMA SaveStep ==
    ASSUME Inv, TypeOK', NEW done \in BOOLEAN, Save(done)
    PROVE  Inv'
  <1> USE JobType DEF Inv, logs, Busy
  <1>1. job # Idle /\ job \in Jobs /\ job.phase = "files" /\ job.todo = {}
    BY DEF Save
  <1>2. /\ job'.phase = "aggregate" /\ job'.todo = {} /\ job'.next = job.next
        /\ job'.caller = job.caller /\ job'.found = job.found /\ job'.skipped = job.skipped
        /\ files' = job.next /\ cache' \in {cache, job.next}
        /\ UNCHANGED <<place, log, asked>>
    BY <1>1 DEF Save, Jobs
  <1>3. EntryInv' /\ UnbornInv' /\ SeenInv'
    BY <1>1, <1>2 DEF EntryInv, SoundContents, Sound, UnbornInv, SeenInv
  <1>4. TodoInv'
    BY <1>1, <1>2 DEF TodoInv, Dirs, Active, Archived
  <1>5. FoundInv'
    BY <1>1, <1>2 DEF FoundInv, FoundSince, Archived
  <1>6. QED
    BY <1>3, <1>4, <1>5

LEMMA FinishStep == Inv /\ TypeOK' /\ Finish => Inv'
  <1> SUFFICES ASSUME Inv, TypeOK', Finish PROVE Inv'
    OBVIOUS
  <1>1. EntryInv' /\ UnbornInv' /\ TodoInv' /\ FoundInv'
    BY DEF Inv, Finish, logs, EntryInv, SoundContents, Sound, UnbornInv, TodoInv, FoundInv
  <1>2. SeenInv'
    BY DEF Inv, Finish, logs, SeenInv, TypeOK
  <1>3. QED
    BY <1>1, <1>2 DEF Inv

LEMMA InvStep == Inv /\ [Next]_vars => Inv'
  <1> SUFFICES ASSUME Inv, [Next]_vars PROVE Inv'
    OBVIOUS
  <1>1. TypeOK'
    BY TypeStep
  <1>2. CASE Environment
    BY <1>1, <1>2, LogStep, ProcessStep DEF Environment
  <1>3. CASE Refresh
    BY <1>1, <1>3, DiscoverStep, LoadStep, SaveStep, FileStep DEF Refresh
  <1>4. ASSUME NEW c \in Callers, Request(c) \/ Lock(c) PROVE Inv'
    BY <1>1, <1>4, RequestStep
  <1>5. CASE Answer \/ Cancel
    BY <1>1, <1>5, FinishStep DEF Answer, Cancel
  <1>6. CASE UNCHANGED vars
    <2>1. /\ UNCHANGED <<service, asked, place, log>>
          /\ \A s \in Sessions : log[s] \in Nat
      BY <1>6 DEF vars, logs, Inv, TypeOK
    <2>2. \A s \in Sessions : /\ log[s] <= log'[s]
                              /\ place[s] = "deleted" => place'[s] = "deleted"
                              /\ place[s] = Archived => place'[s] \in {Archived, "deleted"}
                              /\ place'[s] = "unborn" => log'[s] = 0
      BY <2>1 DEF Inv, UnbornInv
    <2>3. QED
      BY <1>1, <2>1, <2>2, LogsStep
  <1>7. QED
    BY <1>2, <1>3, <1>4, <1>5, <1>6 DEF Next

LEMMA Invariance == Spec => []Inv
  BY InitInv, InvStep, PTL DEF Spec

-----------------------------------------------------------------------------
(* What follows from it.                                                   *)

\* An entry with the fingerprint of its log holds the log's events: the next
\* refresh may take it over without reading the file, however the log grew
\* while it was parsed and wherever a damaged or lost cache came in.
THEOREM TrueEntries == Spec => []EntriesAreTrue
  <1>1. Inv => EntriesAreTrue
    <2> SUFFICES ASSUME Inv PROVE EntriesAreTrue
      OBVIOUS
    <2>1. ASSUME NEW contents \in Contents, SoundContents(contents), NEW p \in Paths
          PROVE  Truthful(contents[p], p)
      <3> SUFFICES ASSUME contents[p] # None, contents[p].fp = log[p[2]]
                   PROVE  contents[p].events = Events(log[p[2]])
        BY DEF Truthful
      <3>1. contents[p].events \in Nat /\ Events(log[p[2]]) \in Nat
        BY PathsType, EventsBound DEF Contents, Entries, Inv, TypeOK
      <3>2. QED
        BY <2>1, <3>1 DEF SoundContents, Sound
    <2>2. QED
      BY <2>1 DEF EntriesAreTrue, Inv, TypeOK, EntryInv
  <1>2. QED
    BY <1>1, Invariance, PTL

\* Of the one or two files of a session aggregate takes one with the most events.
LEMMA ChosenIsMost ==
    ASSUME TypeOK, NEW s \in Sessions, NEW p \in Held(files), p[2] = s
    PROVE  /\ Chosen(s) # {}
           /\ \A q \in Chosen(s) : files[p].events <= files[q].events
  <1> DEFINE a == <<Active, s>>
             b == <<Archived, s>>
  <1>1. \A q \in Held(files) : /\ q \in Paths /\ files[q].events \in Nat
                               /\ q[2] = s => q = a \/ q = b
    BY PathsType DEF TypeOK, Held, Contents, Entries
  <1>2. \A q \in Chosen(s) : files[p].events <= files[q].events
    BY DEF Chosen
  <1>3. a[2] = s /\ b[2] = s
    OBVIOUS
  <1>4. \/ p \in Chosen(s)
        \/ \E q \in Held(files) : q[2] = s /\ ~(files[q].events <= files[p].events)
    BY DEF Chosen
  <1>5. ASSUME NEW q \in Held(files), q[2] = s, ~(files[q].events <= files[p].events)
        PROVE  q \in Chosen(s)
    BY <1>1, <1>5 DEF Chosen
  <1>6. QED
    BY <1>2, <1>4, <1>5

\* A summary counts what was logged when the request came, unless it reports a
\* skipped file, and nothing that was not, wherever the logs were moved while
\* the directories were read.
THEOREM CurrentAnswers == Spec => []AnswersAreCurrent
  <1>1. Inv => AnswersAreCurrent
    <2> SUFFICES ASSUME Inv, Busy("aggregate"), NEW s \in Sessions
                 PROVE  LET before == asked[job.caller][s] IN
                        /\ Counted(s) <= Events(log[s])
                        /\ before = None => Counted(s) = 0
                        /\ before # None /\ ~job.skipped /\ place[s] # "deleted" =>
                              Counted(s) >= Events(before)
      BY DEF AnswersAreCurrent
    <2> DEFINE before == asked[job.caller][s]
    <2>1. /\ job # Idle /\ job \in Jobs /\ job.phase = "aggregate"
          /\ job.todo = {} /\ files = job.next
      BY JobType DEF Inv, Busy, TodoInv
    <2>2. /\ before \in (0 .. MaxSize) \cup {None} /\ log[s] \in 0 .. MaxSize
          /\ Events(log[s]) \in Nat
      BY <2>1, EventsBound DEF Inv, TypeOK, Jobs
    <2>3. \A p \in Held(files) : p \in Paths /\ files[p] \in Entries /\ Sound(files[p], p)
      BY DEF Inv, TypeOK, Held, Contents, EntryInv, SoundContents
    <2>4. Chosen(s) # {} => \E p \in Chosen(s) : Counted(s) = files[p].events
      BY DEF Counted
    <2>5. Chosen(s) = {} => Counted(s) = 0
      BY DEF Counted
    <2>6. Counted(s) \in Nat /\ Counted(s) <= Events(log[s])
      <3>1. CASE Chosen(s) = {}
        BY <2>2, <2>5, <3>1
      <3>2. CASE Chosen(s) # {}
        <4>1. PICK p \in Chosen(s) : Counted(s) = files[p].events
          BY <2>4, <3>2
        <4>2. p \in Held(files) /\ p[2] = s
          BY DEF Chosen
        <4>3. QED
          BY <2>2, <2>3, <4>1, <4>2 DEF Sound, Entries, Held
      <3>3. QED
        BY <3>1, <3>2
    <2>7. ASSUME before = None PROVE Counted(s) = 0
      <3>1. \A p \in Paths : p[2] = s => job.found[p] = None
        BY <2>1, <2>7, PathsType DEF Inv, FoundInv
      <3>2. Chosen(s) = {}
        BY <2>1, <3>1 DEF Chosen, Held, Inv, TodoInv
      <3>3. QED
        BY <2>5, <3>2
    <2>8. ASSUME before # None, ~job.skipped, place[s] # "deleted"
          PROVE  Counted(s) >= Events(before)
      <3>1. CASE before = 0
        <4>1. Events(0) = 0
          BY SMT DEF Events
        <4>2. QED
          BY <2>6, <3>1, <4>1
      <3>2. CASE before # 0
        <4>1. PICK dir \in Dirs : FoundSince(dir, s)
          BY <2>1, <2>8, <3>2 DEF Inv, FoundInv
        <4> DEFINE p == <<dir, s>>
        <4>2. p \in Paths /\ p[2] = s
          BY PathsType
        <4>3. /\ files[p] # None /\ files[p].fp = job.found[p]
          BY <2>1, <2>8, <4>1, <4>2 DEF FoundSince, Inv, TodoInv
        <4>4. p \in Held(files) /\ files[p] \in Entries
          BY <2>3, <4>2, <4>3 DEF Held
        <4>5. job.found[p] \in 0 .. MaxSize /\ before <= job.found[p]
          BY <4>1, <4>3, <4>4 DEF FoundSince, Entries
        <4>6. Events(before) <= Events(job.found[p])
          BY <2>2, <2>8, <4>5, EventsMonotone
        <4>7. Events(job.found[p]) <= files[p].events
          BY <2>3, <4>3, <4>4 DEF Sound
        <4>8. Chosen(s) # {} /\ \A q \in Chosen(s) : files[p].events <= files[q].events
          BY <4>2, <4>4, ChosenIsMost DEF Inv
        <4>9. files[p].events <= Counted(s)
          BY <2>4, <4>8
        <4>10. Events(before) \in Nat /\ Events(job.found[p]) \in Nat /\ files[p].events \in Nat
          BY <2>2, <2>8, <4>4, <4>5, EventsBound DEF Entries
        <4>11. QED
          BY <2>6, <4>6, <4>7, <4>9, <4>10
      <3>3. QED
        BY <3>1, <3>2
    <2>9. QED
      BY <2>6, <2>7, <2>8
  <1>2. QED
    BY <1>1, Invariance, PTL

=============================================================================
