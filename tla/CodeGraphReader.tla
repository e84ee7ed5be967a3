--------------------------- MODULE CodeGraphReader ---------------------------
(***************************************************************************)
(* How internal/codegraph/reader.go reads an index that another program    *)
(* writes: Reader.open looks at the files, decides whether the database    *)
(* can be read as immutable, opens it and checks its schema unless the     *)
(* cache knows the files, and queries it.  A page asks again when the      *)
(* fingerprint of the revision polling changes.                            *)
(*                                                                         *)
(* The index is a SQLite database in WAL mode with two pages, and the      *)
(* query reads one after the other; the schema is on page 1.  What a page  *)
(* holds is the number of a commit, and the time of a file the number of   *)
(* its changes: no two of them leave it with the same one.                 *)
(***************************************************************************)
EXTENDS Naturals

CONSTANTS
    Reqs,        \* requests under way at the same time
    Page,        \* the one of the page, in Reqs
    None,
    MaxCommits,  \* bound on the commits and rebuilds of the writer
    MaxFaults    \* bound on the losses of the shared memory file

ASSUME PageAssumption == Page \in Reqs
ASSUME BoundsAssumption == MaxCommits \in Nat /\ MaxFaults \in Nat

VARIABLES
    version,     \* the content of the index
    compatible,  \* the contents whose schema the reader knows
    inode,       \* the file at .codegraph/codegraph.db
    pages,       \* of every file there was, what its pages hold
    stamp,       \* when the main file and its WAL last changed
    wal,         \* "none", "empty" or with "frames"
    shm,         \* is there a shared memory file
    faults,
    req,         \* the requests
    cache,       \* schemaCache of the path
    polled,      \* the fingerprint of the last poll
    shown        \* what the page shows

index == <<version, compatible, inode, pages, stamp, wal, shm, faults>>
reader == <<req, cache>>
page == <<polled, shown>>
vars == <<index, reader, page>>

PageNos == {1, 2}

\* Size, time and mode of the database and its WAL.
Fingerprint == <<stamp.main, wal, stamp.wal>>

\* A process may read the WAL only through its shared memory.
Readable == wal = "frames" => shm

\* What the reader goes by to know the files again.
Identities == [info : [inode : Nat, stamp : Nat], wal : Nat \cup {None}, shm : BOOLEAN]
Errors == {"busy", "unreadable", "incompatible"}

ASSUME NoneAssumption == None \notin Nat \cup Identities \cup Errors

Failed(error) == [error |-> error, pages |-> None]
Found(pair) == [error |-> None, pages |-> pair]

Idle == [phase |-> "idle", asked |-> 0, info |-> None, wal |-> None, shm |-> FALSE,
         immutable |-> FALSE, inode |-> 0, first |-> 0, answer |-> None]

-----------------------------------------------------------------------------
(* The writer: codegraph sync, codegraph index *)

Touch(file) == stamp' = [stamp EXCEPT ![file] = @ + 1]

Commit ==
    /\ version < MaxCommits /\ version' = version + 1
    /\ compatible' \in {compatible, compatible \cup {version'}}
    /\ Touch("wal")
    /\ wal' = "frames" /\ shm' = TRUE
    /\ UNCHANGED <<inode, pages, faults, reader, page>>

CheckpointPage(p) ==
    /\ wal = "frames" /\ shm /\ pages[inode][p] # version
    /\ pages' = [pages EXCEPT ![inode][p] = version]
    /\ Touch("main")
    /\ UNCHANGED <<version, compatible, inode, wal, shm, faults, reader, page>>

\* The WAL is truncated, or removed with the shared memory.
EndCheckpoint ==
    /\ wal = "frames" /\ shm /\ \A p \in PageNos : pages[inode][p] = version
    /\ \/ wal' = "empty" /\ UNCHANGED shm
       \/ wal' = "none" /\ shm' = FALSE
    /\ Touch("wal")
    /\ UNCHANGED <<version, compatible, inode, pages, faults, reader, page>>

\* A new index takes the place of the old one.
Replace ==
    /\ wal = "none"
    /\ version < MaxCommits /\ version' = version + 1
    /\ compatible' \in {compatible, compatible \cup {version'}}
    /\ inode' = inode + 1
    /\ pages' = [pages EXCEPT ![inode'] = [p \in PageNos |-> version']]
    /\ Touch("main")
    /\ UNCHANGED <<wal, shm, faults, reader, page>>

\* The writer crashed and its shared memory was not kept.
LoseShm ==
    /\ faults < MaxFaults /\ faults' = faults + 1
    /\ wal = "frames" /\ shm /\ shm' = FALSE
    /\ UNCHANGED <<version, compatible, inode, pages, stamp, wal, reader, page>>

\* The next writer opens the index.
Recover ==
    /\ wal = "frames" /\ ~shm /\ shm' = TRUE
    /\ UNCHANGED <<version, compatible, inode, pages, stamp, wal, faults, reader, page>>

-----------------------------------------------------------------------------
(* A request *)

At(r, from, to) ==
    /\ req[r].phase = from
    /\ req' = [req EXCEPT ![r] = [to EXCEPT !.asked = req[r].asked]]
    /\ UNCHANGED index

Answered(r, answer) == [Idle EXCEPT !.phase = "done", !.answer = answer]

Starting == [Idle EXCEPT !.phase = "main", !.asked = version]

\* A page opens, or its window gets the focus.
Ask(r) ==
    /\ req[r].phase = "idle"
    /\ req' = [req EXCEPT ![r] = Starting]
    /\ UNCHANGED <<index, cache, page>>

StatMain(r) ==
    /\ At(r, "main", [req[r] EXCEPT !.phase = "wal",
                        !.info = [inode |-> inode, stamp |-> stamp.main]])
    /\ UNCHANGED <<cache, page>>

StatWalTrusting(r) ==
    /\ At(r, "wal", [req[r] EXCEPT !.phase = "shm", !.immutable = TRUE,
                       !.wal = IF wal = "none" THEN None ELSE stamp.wal])
    /\ UNCHANGED <<cache, page>>

StatWal(r) ==
    /\ At(r, "wal", [req[r] EXCEPT !.phase = "shm", !.immutable = wal # "frames",
                       !.wal = IF wal = "none" THEN None ELSE stamp.wal])
    /\ UNCHANGED <<cache, page>>

\* Immutable when there is nothing in the WAL; busy without shared memory.
StatShm(r) ==
    /\ At(r, "shm", IF req[r].immutable \/ shm
                    THEN [req[r] EXCEPT !.phase = "open", !.shm = shm]
                    ELSE Answered(r, Failed("busy")))
    /\ UNCHANGED <<cache, page>>

Open(r) ==
    /\ At(r, "open", [req[r] EXCEPT !.phase = "schema", !.inode = inode])
    /\ UNCHANGED <<cache, page>>

\* An immutable database is its main file, whatever becomes of it; a file that
\* was replaced had no WAL; else SQLite gives the content of that moment, or an
\* error when its shared memory is gone.
View(r, p) ==
    IF req[r].immutable \/ req[r].inode # inode THEN pages[req[r].inode][p]
    ELSE IF Readable THEN version ELSE None

Identity(r) == [info |-> req[r].info, wal |-> req[r].wal, shm |-> req[r].shm]

\* ensureSchema: only a check that succeeded is remembered, for these files;
\* the queries have no use for them.
Checked(r, known) ==
    IF known \/ View(r, 1) \in compatible
    THEN /\ At(r, "schema", [req[r] EXCEPT !.phase = "first", !.info = None, !.wal = None,
                                           !.shm = FALSE])
         /\ cache' = IF known THEN cache ELSE Identity(r)
    ELSE /\ At(r, "schema", Answered(r, Failed(IF View(r, 1) = None THEN "unreadable"
                                               ELSE "incompatible")))
         /\ UNCHANGED cache

CheckSchema(r) ==
    /\ req[r].phase = "schema"
    /\ Checked(r, cache = Identity(r))
    /\ UNCHANGED page

\* A query on a schema that is not the expected one fails.
QueryFirst(r) ==
    /\ req[r].phase = "first"
    /\ At(r, "first", IF View(r, 1) \in compatible
                      THEN [req[r] EXCEPT !.phase = "second", !.first = View(r, 1)]
                      ELSE Answered(r, Failed("unreadable")))
    /\ UNCHANGED <<cache, page>>

\* SQLite reads the second page as it was with the first one, or as it is.
QuerySecond(r) ==
    /\ req[r].phase = "second"
    /\ At(r, "second", Answered(r, Found(<<req[r].first,
                           IF req[r].immutable THEN View(r, 2) ELSE req[r].first>>)))
    /\ UNCHANGED <<cache, page>>

\* The answer arrives; only that of the page matters.
Deliver(r) ==
    /\ req[r].phase = "done"
    /\ req' = [req EXCEPT ![r] = Idle]
    /\ shown' = IF r = Page THEN req[r].answer ELSE shown
    /\ UNCHANGED <<index, cache, polled>>

PollForMain ==
    /\ stamp.main # polled[1]
    /\ polled' = Fingerprint
    /\ req' = [req EXCEPT ![Page] = Starting]
    /\ UNCHANGED <<index, cache, shown>>

PollJoining ==
    /\ Fingerprint # polled
    /\ polled' = Fingerprint
    /\ req' = [req EXCEPT ![Page] = IF @.phase = "idle" THEN Starting
                                   ELSE [@ EXCEPT !.asked = version]]
    /\ UNCHANGED <<index, cache, shown>>

\* The poll finds another fingerprint: the query of the page starts again.
Poll ==
    /\ Fingerprint # polled
    /\ polled' = Fingerprint
    /\ req' = [req EXCEPT ![Page] = Starting]
    /\ UNCHANGED <<index, cache, shown>>

-----------------------------------------------------------------------------
\* A checkpointed index, and a page that shows it.
Init ==
    /\ version = 0 /\ compatible = {0}
    /\ inode = 1
    /\ pages = [i \in 1 .. MaxCommits + 1 |-> [p \in PageNos |-> 0]]
    /\ stamp = [main |-> 0, wal |-> 0]
    /\ wal = "none" /\ shm = FALSE /\ faults = 0
    /\ req = [r \in Reqs |-> Idle]
    /\ cache = None
    /\ polled = Fingerprint /\ shown = Found(<<0, 0>>)

Step(r) ==
    \/ StatMain(r)
    \/ StatWal(r)
    \/ StatShm(r)
    \/ Open(r)
    \/ CheckSchema(r)
    \/ QueryFirst(r)
    \/ QuerySecond(r)
    \/ Deliver(r)

Next ==
    \/ Commit
    \/ \E p \in PageNos : CheckpointPage(p)
    \/ EndCheckpoint
    \/ Replace
    \/ LoseShm
    \/ Recover
    \/ \E r \in Reqs : Ask(r) \/ Step(r)
    \/ Poll

Fairness == WF_vars(Poll) /\ WF_vars(Step(Page))

Spec == Init /\ [][Next]_vars
FairSpec == Spec /\ Fairness

-----------------------------------------------------------------------------
(* Properties *)

HasAnswer(r) == req[r].phase = "done" /\ req[r].answer.error = None

\* The types: no request opens an index whose WAL it could not read.
TypeOK ==
    /\ version \in 0 .. MaxCommits /\ compatible \subseteq 0 .. version
    /\ inode \in DOMAIN pages
    /\ \A i \in DOMAIN pages : pages[i] \in [PageNos -> 0 .. version]
    /\ stamp \in [main : Nat, wal : Nat]
    /\ wal \in {"none", "empty", "frames"} /\ shm \in BOOLEAN
    /\ faults \in 0 .. MaxFaults
    /\ \A r \in Reqs :
        /\ req[r].phase \in {"idle", "main", "wal", "shm", "open", "schema", "first", "second", "done"}
        /\ req[r].phase \in {"open", "schema"} => req[r].immutable \/ req[r].shm
    /\ polled[2] \in {"none", "empty", "frames"}

\* What an answer holds is no older than the index was when it was asked for,
\* so that an answer asked for after a poll shows what the poll announced
\* (reader.go:76-95, 339-387).
NotOlderThanAsked ==
    \A r \in Reqs : HasAnswer(r)
        => \A p \in PageNos : req[r].answer.pages[p] >= req[r].asked

\* When the files are those the cache knows, their schema is the expected one:
\* the time between looking at the files and checking the database cannot make
\* the cache vouch for an index that was never checked (reader.go:399-418).
CacheIsTrue ==
    /\ TypeOK
    /\ cache = [info |-> [inode |-> inode, stamp |-> stamp.main],
                wal |-> IF wal = "none" THEN None ELSE stamp.wal, shm |-> shm]
           => version \in compatible

\* What the page ought to show.
Current ==
    IF ~Readable THEN {Failed("busy"), Failed("unreadable")}
    ELSE IF version \in compatible THEN {Found(<<version, version>>)}
    ELSE {Failed("incompatible"), Failed("unreadable")}

\* The page comes to show the index as it is, as long as the shared memory is
\* not lost: when it comes back the fingerprint is the same (reader.go:76-95).
PageFollows == <>[](faults > 0 \/ shown \in Current)

=============================================================================
