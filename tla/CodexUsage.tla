------------------------------ MODULE CodexUsage ------------------------------
(***************************************************************************)
(* The token statistics of internal/codexusage: Service.Summary walks the  *)
(* log directories of Codex, takes over the entries of its cache whose     *)
(* fingerprint is that of the file, parses the other files, saves the      *)
(* cache and adds up.  Codex goes on writing, archiving and deleting its   *)
(* logs; the process stops and starts again; the cache file is damaged.    *)
(*                                                                         *)
(* A log is written two pieces to a line, each line an event, and its      *)
(* fingerprint is its size: a log only grows, and archiving it keeps size  *)
(* and time.  A session is known from the first line of its log.           *)
(***************************************************************************)
EXTENDS Naturals, FiniteSets

CONSTANTS
    Sessions,  \* the sessions of Codex
    Callers,   \* the requests for a summary
    None,
    Damaged,   \* a cache file that cannot be decoded
    MaxSize,   \* bound on the size of a log
    MaxFaults  \* bound on restarts, I/O errors and damage to the cache

ASSUME SessionsAssumption == IsFiniteSet(Sessions)
ASSUME SizeAssumption == MaxSize \in Nat
ASSUME FaultsAssumption == MaxFaults \in Nat
ASSUME NoneAssumption == None \notin Nat

VARIABLES
    place,      \* where the log of a session is
    log,        \* its size
    reference,  \* sizes of the logs another tool has parsed: index-v1.json
    cache,      \* the file CachePathForDatabase names
    loaded, files,
    job,        \* the Summary that holds the mutex
    asked,      \* the logs as each request found them when it came
    faults

logs == <<place, log>>
service == <<cache, loaded, files, job>>
vars == <<logs, reference, service, asked, faults>>

Active == "sessions"
Archived == "archived_sessions"
Dirs == {Active, Archived}
Paths == Dirs \X Sessions

Events(size) == size \div 2

\* A file of the cache: its fingerprint and the events parsed out of it.
Entries == [fp : 0 .. MaxSize, events : 0 .. MaxSize]
NoFiles == [p \in Paths |-> None]

OnDisk(p) == place[p[2]] = p[1]

Held(contents) == {p \in Paths : contents[p] # None}

Idle == [phase |-> "idle"]
Busy(phase) == job.phase = phase

-----------------------------------------------------------------------------
(* Codex *)

Append(s) ==
    /\ place[s] \in {"unborn", Active} /\ log[s] < MaxSize
    /\ log' = [log EXCEPT ![s] = @ + 1]
    /\ place' = [place EXCEPT ![s] = Active]
    /\ UNCHANGED <<reference, service, asked, faults>>

Move(s, from, to) ==
    /\ place[s] = from
    /\ place' = [place EXCEPT ![s] = to]
    /\ UNCHANGED <<log, reference, service, asked, faults>>

Archive(s) == Move(s, Active, Archived)
Delete(s) == \E from \in Dirs : Move(s, from, "deleted")

-----------------------------------------------------------------------------
(* Summary *)

\* The request comes; it may have to wait for the mutex.
Request(c) ==
    /\ asked[c] = None
    /\ asked' = [asked EXCEPT ![c] =
          [s \in Sessions |-> IF place[s] = "deleted" THEN None ELSE log[s]]]
    /\ UNCHANGED <<logs, reference, service, faults>>

\* What discover does next, and in which order it takes the directories.
FollowingReversed ==
    [lock |-> Archived, archived_sessions |-> Active, sessions |-> "load"]
Following == [lock |-> Active, sessions |-> Archived, archived_sessions |-> "load"]

Lock(c) ==
    /\ Busy("idle") /\ asked[c] # None
    /\ job' = [phase |-> Following.lock, caller |-> c, found |-> NoFiles,
               todo |-> {}, next |-> NoFiles, seeds |-> NoFiles,
               skipped |-> FALSE, changed |-> FALSE, own |-> FALSE]
    /\ UNCHANGED <<logs, reference, cache, loaded, files, asked, faults>>

\* How many of some things failed, and whether that many may.
Faults(failed) ==
    /\ faults + Cardinality(failed) <= MaxFaults
    /\ faults' = faults + Cardinality(failed)

\* One directory; an entry that cannot be read, is too large or is one too
\* many is skipped.
Discover(dir) ==
    /\ Busy(dir)
    /\ \E failed \in SUBSET {p \in Paths : p[1] = dir /\ OnDisk(p)} :
        /\ Faults(failed)
        /\ job' = [job EXCEPT
              !.phase = Following[dir],
              !.found = [p \in Paths |->
                  IF p[1] = dir /\ OnDisk(p) /\ p \notin failed
                  THEN log[p[2]] ELSE job.found[p]],
              !.skipped = @ \/ failed # {}]
    /\ UNCHANGED <<logs, reference, cache, loaded, files, asked>>

\* files as the first refresh of the process finds them: readOwnCache.
FirstFiles(readable) ==
    IF readable /\ cache \notin {None, Damaged} THEN cache ELSE files

Load(readable) ==
    /\ Busy("load") /\ (~loaded \/ readable)
    /\ faults < MaxFaults \/ readable
    /\ faults' = IF readable THEN faults ELSE faults + 1
    /\ files' = IF loaded THEN files ELSE FirstFiles(readable)
    /\ loaded' = TRUE
    /\ LET own == ~loaded /\ readable /\ cache # None IN
       job' = [job EXCEPT
          !.phase = "files",
          !.todo = Held(job.found),
          !.own = own,
          !.seeds = IF ~own /\ Held(files') = {} THEN reference ELSE NoFiles,
          !.changed = Cardinality(Held(files')) # Cardinality(Held(job.found))]
    /\ UNCHANGED <<logs, reference, cache, asked>>

Take(p, entry, changed) ==
    /\ job' = [job EXCEPT !.todo = @ \ {p},
                          !.next[p] = entry,
                          !.changed = @ \/ changed,
                          !.skipped = @ \/ entry = None]
    /\ UNCHANGED <<logs, reference, cache, loaded, files, asked>>

Looking(p) == Busy("files") /\ p \in job.todo

Unchanged(p) == files[p] # None /\ files[p].fp = job.found[p]

\* The entry of the last refresh still has the fingerprint of the file.
Reuse(p) ==
    /\ Looking(p) /\ Unchanged(p)
    /\ Take(p, files[p], FALSE)
    /\ UNCHANGED faults

\* importReferenceFile: the seed has the fingerprint; the session and its
\* directory are read from the file.
Import(p) ==
    /\ Looking(p) /\ ~Unchanged(p) /\ job.seeds[p] = job.found[p] /\ OnDisk(p)
    /\ Take(p, [fp |-> job.found[p], events |-> Events(job.seeds[p])], TRUE)
    /\ UNCHANGED faults

ParseThenStat(p) ==
    /\ Looking(p) /\ ~Unchanged(p) /\ OnDisk(p)
    /\ Take(p, [fp |-> log[p[2]], events |-> Events(job.found[p])], TRUE)
    /\ UNCHANGED faults

\* parseSessionFile reads the file as it is by now, under the fingerprint
\* discover found, also where an import has failed; a last line only half
\* written is no event yet.
Parse(p) ==
    /\ Looking(p) /\ ~Unchanged(p) /\ OnDisk(p)
    /\ Take(p, [fp |-> job.found[p], events |-> Events(log[p[2]])], TRUE)
    /\ UNCHANGED faults

\* The file was moved away, or cannot be read.
Skip(p) ==
    /\ Looking(p) /\ ~Unchanged(p)
    /\ IF OnDisk(p) THEN faults < MaxFaults /\ faults' = faults + 1
                    ELSE UNCHANGED faults
    /\ Take(p, None, TRUE)

\* s.files = next, and writeOwnCache where something changed.
Save(written) ==
    /\ Busy("files") /\ job.todo = {}
    /\ files' = job.next
    /\ LET due == /\ job.changed
                  /\ Held(job.found) # {} \/ Held(files) # {} \/ job.own IN
       /\ due \/ written
       /\ faults < MaxFaults \/ written
       /\ faults' = IF written THEN faults ELSE faults + 1
       /\ cache' = IF due /\ written THEN job.next ELSE cache
    /\ job' = [job EXCEPT !.phase = "aggregate"]
    /\ UNCHANGED <<logs, reference, loaded, asked>>

\* dedupeFiles: of the files of a session the one with the most events.
Chosen(s) == {p \in Held(files) :
    p[2] = s /\ \A q \in Held(files) : q[2] = s => files[q].events <= files[p].events}

\* aggregate: the events it counts for a session.
Counted(s) ==
    IF Chosen(s) = {} THEN 0 ELSE files[CHOOSE p \in Chosen(s) : TRUE].events

Finish ==
    /\ job' = Idle
    /\ asked' = [asked EXCEPT ![job.caller] = None]
    /\ UNCHANGED <<logs, reference, cache, loaded, files, faults>>

Answer == Busy("aggregate") /\ Finish

\* The client went away: refresh returns before it stores anything.
Cancel == job.phase \in Dirs \cup {"load", "files"} /\ Finish

-----------------------------------------------------------------------------
(* The process and its cache *)

Fault == faults < MaxFaults /\ faults' = faults + 1

Restart ==
    /\ Fault
    /\ loaded' = FALSE /\ files' = NoFiles /\ job' = Idle
    /\ asked' = [c \in Callers |-> None]
    /\ UNCHANGED <<logs, reference, cache>>

\* Written by another version, or cut short by hand.
Damage ==
    /\ Fault
    /\ cache \notin {None, Damaged} /\ cache' = Damaged
    /\ UNCHANGED <<logs, reference, loaded, files, job, asked>>

-----------------------------------------------------------------------------
Init ==
    /\ log \in [Sessions -> 0 .. MaxSize]
    /\ place = [s \in Sessions |-> IF log[s] = 0 THEN "unborn" ELSE Active]
    /\ reference \in {NoFiles,
         [p \in Paths |-> IF p[1] = Active /\ log[p[2]] # 0 THEN log[p[2]] ELSE None]}
    /\ cache = None /\ loaded = FALSE /\ files = NoFiles
    /\ job = Idle
    /\ asked = [c \in Callers |-> None]
    /\ faults = 0

Environment ==
    \/ \E s \in Sessions : Append(s) \/ Archive(s) \/ Delete(s)
    \/ Restart
    \/ Damage

Refresh ==
    \/ \E dir \in Dirs : Discover(dir)
    \/ \E done \in BOOLEAN : Load(done) \/ Save(done)
    \/ \E p \in Paths : Reuse(p) \/ Import(p) \/ Parse(p) \/ Skip(p)

Next ==
    \/ Environment
    \/ \E c \in Callers : Request(c) \/ Lock(c)
    \/ Refresh
    \/ Answer
    \/ Cancel

Spec == Init /\ [][Next]_vars

-----------------------------------------------------------------------------
(* Properties *)

Contents == [Paths -> Entries \cup {None}]
Sizes == [Paths -> (0 .. MaxSize) \cup {None}]

Jobs == [phase : Dirs \cup {"load", "files", "aggregate"}, caller : Callers,
         found : Sizes, todo : SUBSET Paths, next : Contents, seeds : Sizes,
         skipped : BOOLEAN, changed : BOOLEAN, own : BOOLEAN]

\* The types; the holder of the mutex is a request; what is left to look at
\* was found; once it looks at files the cache has been read, whatever came
\* of that (service.go:113-122).
TypeOK ==
    /\ place \in [Sessions -> {"unborn", "deleted"} \cup Dirs]
    /\ log \in [Sessions -> 0 .. MaxSize]
    /\ reference \in Sizes
    /\ cache \in Contents \cup {None, Damaged}
    /\ loaded \in BOOLEAN
    /\ files \in Contents
    /\ job \in Jobs \cup {Idle}
    /\ asked \in [Callers -> [Sessions -> (0 .. MaxSize) \cup {None}] \cup {None}]
    /\ faults \in 0 .. MaxFaults
    /\ job # Idle =>
         /\ asked[job.caller] # None
         /\ job.todo \subseteq Held(job.found)
         /\ job.phase \in {"files", "aggregate"} => loaded
    /\ ~loaded => files = NoFiles

Truthful(entry, p) ==
    entry # None /\ entry.fp = log[p[2]] => entry.events = Events(log[p[2]])

\* An entry, of the service or of its cache file, that has the fingerprint of
\* the log holds the events of the log: the next refresh takes it over unread
\* (service.go:135).  Logs grow while they are parsed.
EntriesAreTrue ==
    /\ TypeOK
    /\ \A p \in Paths :
          /\ Truthful(files[p], p)
          /\ cache \notin {None, Damaged} => Truthful(cache[p], p)

\* A summary counts no event twice and none that was not logged, nothing of a
\* session deleted before the request came, and, when it reports no skipped
\* file, every event logged by then of a session that is still there:
\* wherever the log was archived to in the meantime, and whatever the cache
\* held (service.go:91-167, 287-306).
AnswersAreCurrent ==
    Busy("aggregate") =>
        \A s \in Sessions :
            LET before == asked[job.caller][s] IN
            /\ Counted(s) <= Events(log[s])
            /\ before = None => Counted(s) = 0
            /\ before # None /\ ~job.skipped /\ place[s] # "deleted" =>
                   Counted(s) >= Events(before)

=============================================================================
