------------------------------- MODULE GitCache -------------------------------
(***************************************************************************)
(* The cache of Git results in front of the diff and commit handlers       *)
(* (internal/api/git_cache.go, git.go): one entry for each generation and  *)
(* Git revision of the project, one load for the requests that want the    *)
(* same entry, a bound on the entries.  Around it: the working tree the    *)
(* user edits, the Git snapshots of the worker and of pushes, which raise  *)
(* the revision when the hash of the snapshot changes.                     *)
(***************************************************************************)
EXTENDS Naturals, FiniteSets

CONSTANTS
    Reqs,         \* requests for the same diff
    Roots,        \* where the project may be registered
    None,
    MaxEntries,   \* maxGitCacheEntries
    MaxEdits, MaxRecreates    \* bounds on the changes

VARIABLES
    content, edits,    \* the working tree of each root
    root, gen, rev,    \* of the project, in the store
    hash,              \* of the stored snapshot
    taken,             \* the snapshots that the worker and a push are storing
    entries,           \* of the cache
    req,               \* the requests
    since,             \* history: the project's trees since it was registered and
                       \* the snapshot was read that gave it its revision
    crossed            \* history: the keys a request had that had named another
                       \* root before

tree == <<content, edits>>
db == <<root, gen, rev, hash>>
vars == <<tree, db, taken, entries, req, since, crossed>>

\* What a tree may hold.
Contents == 0 .. 2
Trees == Roots \X Contents
Tree(r) == <<r, content[r]>>

\* snapshotHash tells trees apart by status and line counts, which an edit may
\* leave as they are: it has 0 and 1 for the same.
snapshotHash(t) == <<t[1], t[2] \div 2>>

Snapshotters == {"worker", "push"}

Idle == [pc |-> "idle", root |-> None, key |-> None, value |-> None, of |-> None, fresh |-> {}]

\* The request awaits or prepares an answer for its key.
Busy(r) == req[r].pc \in {"keyed", "loading", "loaded", "waiting"}

-----------------------------------------------------------------------------
(* The working tree *)

\* Trees that a tree is added to, if it is one of that root.
With(trees, at, t) == IF t[1] = at THEN trees \cup {t} ELSE trees

\* Any edit, be it that it undoes others.  The trees a request may be answered
\* with are those of its root since the snapshot it asked for was read.
Edit(r, c) ==
    /\ edits < MaxEdits /\ edits' = edits + 1
    /\ c # content[r]
    /\ content' = [content EXCEPT ![r] = c]
    /\ since' = With(since, root, <<r, c>>)
    /\ taken' = [s \in Snapshotters |->
                    IF taken[s] = None THEN None
                    ELSE [taken[s] EXCEPT !.since = With(@, root, <<r, c>>)]]
    /\ req' = [q \in Reqs |->
                    IF Busy(q) THEN [req[q] EXCEPT !.fresh = With(@, req[q].root, <<r, c>>)]
                    ELSE req[q]]
    /\ UNCHANGED <<db, entries, crossed>>

-----------------------------------------------------------------------------
(* Snapshots *)

Snapshot(s) ==
    /\ taken[s] = None
    /\ taken' = [taken EXCEPT ![s] = [hash |-> snapshotHash(Tree(root)), since |-> {Tree(root)}]]
    /\ UNCHANGED <<tree, db, entries, req, since, crossed>>

ReplaceGitSnapshot(s) ==
    /\ taken[s] # None
    /\ taken' = [taken EXCEPT ![s] = None]
    /\ hash' = taken[s].hash
    /\ IF hash = taken[s].hash THEN UNCHANGED <<rev, since>>
       ELSE rev' = rev + 1 /\ since' = taken[s].since
    /\ UNCHANGED <<tree, root, gen, entries, req, crossed>>

\* The project is deleted and registered again; Remove waits for the worker,
\* but a push may still store what it read where the project was.
Recreate(r) ==
    /\ gen < MaxRecreates /\ gen' = gen + 1
    /\ root' = r /\ rev' = 0 /\ hash' = None
    /\ since' = {Tree(r)}
    /\ taken' = [s \in Snapshotters |->
                    IF s = "worker" \/ taken[s] = None THEN None
                    ELSE [taken[s] EXCEPT !.since = {Tree(r)}]]
    /\ UNCHANGED <<tree, entries, req, crossed>>

-----------------------------------------------------------------------------
(* Requests *)

Become(r, new) == req' = [req EXCEPT ![r] = new]

Ended(r, pc, value) ==
    [Idle EXCEPT !.pc = pc, !.key = req[r].key, !.value = value, !.fresh = req[r].fresh]

GetProject(r) ==
    /\ req[r].pc = "idle"
    /\ Become(r, [Idle EXCEPT !.pc = "named", !.root = root])
    /\ UNCHANGED <<tree, db, taken, entries, since, crossed>>

\* Mutant: the key does not name the generation.
KeyOfRevision == [gen |-> 0, rev |-> rev]

Key == [gen |-> gen, rev |-> rev]

gitCacheVersion(r) ==
    /\ req[r].pc = "named"
    /\ Become(r, [req[r] EXCEPT !.pc = "keyed", !.key = Key, !.fresh = since])
    /\ crossed' = IF req[r].root = root THEN crossed ELSE crossed \cup {Key}
    /\ UNCHANGED <<tree, db, taken, entries, since>>

Without(keys) == [k \in DOMAIN entries \ keys |-> entries[k]]
Put(cache, k, e) == [x \in DOMAIN cache \cup {k} |-> IF x = k THEN e ELSE cache[x]]
Complete(cache) == {k \in DOMAIN cache : cache[k].complete}

\* evictOldestCompleteLocked, n times or until nothing is complete; the age of
\* the entries is left out.
Evictions(cache, n) ==
    {e \in SUBSET Complete(cache) :
        Cardinality(e) = n \/ (Cardinality(e) < n /\ e = Complete(cache))}

\* The entries over the limit.
Excess(cache) ==
    IF Cardinality(DOMAIN cache) > MaxEntries
    THEN Cardinality(DOMAIN cache) - MaxEntries ELSE 0

\* The answer is there.
Hit(r) ==
    LET k == req[r].key
    IN  /\ req[r].pc = "keyed" /\ k \in Complete(entries)
        /\ Become(r, Ended(r, "answered", entries[k].value))
        /\ UNCHANGED <<tree, db, taken, entries, since, crossed>>

\* Mutant: a second request loads beside the first.
JoinNever(r) ==
    /\ req[r].pc = "keyed" /\ req[r].key \in DOMAIN entries \ Complete(entries)
    /\ Become(r, [req[r] EXCEPT !.pc = "loading", !.of = r])
    /\ UNCHANGED <<tree, db, taken, entries, since, crossed>>

\* Another request is loading it.
Join(r) ==
    LET k == req[r].key
    IN  /\ req[r].pc = "keyed" /\ k \in DOMAIN entries \ Complete(entries)
        /\ Become(r, [req[r] EXCEPT !.pc = "waiting", !.of = entries[k].leader])
        /\ UNCHANGED <<tree, db, taken, entries, since, crossed>>

\* Mutant: a load waits until the cache has room.
MissWithRoom(r) ==
    LET k == req[r].key
    IN  /\ req[r].pc = "keyed" /\ k \notin DOMAIN entries
        /\ Cardinality(DOMAIN entries) < MaxEntries
        /\ Become(r, [req[r] EXCEPT !.pc = "loading", !.of = r])
        /\ entries' = Put(entries, k, [complete |-> FALSE, leader |-> r, value |-> None])
        /\ UNCHANGED <<tree, db, taken, since, crossed>>

Miss(r) ==
    LET k == req[r].key
    IN  /\ req[r].pc = "keyed" /\ k \notin DOMAIN entries
        /\ Become(r, [req[r] EXCEPT !.pc = "loading", !.of = r])
        /\ \E evicted \in Evictions(entries, IF Cardinality(DOMAIN entries) < MaxEntries THEN 0 ELSE 1) :
              entries' = Put(Without(evicted), k,
                             [complete |-> FALSE, leader |-> r, value |-> None])
        /\ UNCHANGED <<tree, db, taken, since, crossed>>

\* git diff reads the tree of the root that GetProject named.
Diff(r) ==
    /\ req[r].pc = "loading"
    /\ Become(r, [req[r] EXCEPT !.pc = "loaded", !.value = Tree(req[r].root)])
    /\ UNCHANGED <<tree, db, taken, entries, since, crossed>>

\* The leader and the requests that wait for it get the same outcome.
Release(r, pc, value) ==
    req' = [q \in Reqs |->
               IF q = r \/ (req[q].pc = "waiting" /\ req[q].of = r)
               THEN Ended(q, pc, value) ELSE req[q]]

Store(r) ==
    LET stored == Put(entries, req[r].key, [complete |-> TRUE, leader |-> None, value |-> req[r].value])
    IN  /\ req[r].pc = "loaded"
        /\ Release(r, "answered", req[r].value)
        /\ \E evicted \in Evictions(stored, Excess(stored)) :
              entries' = [k \in DOMAIN stored \ evicted |-> stored[k]]
        /\ UNCHANGED <<tree, db, taken, since, crossed>>

\* Git fails, or the client of the leader goes away.
Fail(r) ==
    /\ req[r].pc = "loading"
    /\ Release(r, "failed", None)
    /\ entries' = Without({req[r].key})
    /\ UNCHANGED <<tree, db, taken, since, crossed>>

\* The client of a waiting request goes away.
Cancel(r) ==
    /\ req[r].pc = "waiting"
    /\ Become(r, Ended(r, "failed", None))
    /\ UNCHANGED <<tree, db, taken, entries, since, crossed>>

-----------------------------------------------------------------------------
Init ==
    /\ content = [r \in Roots |-> 0] /\ edits = 0
    /\ root \in Roots /\ gen = 0 /\ rev = 0 /\ hash = None
    /\ taken = [s \in Snapshotters |-> None]
    /\ entries = [k \in {} |-> None]
    /\ req = [r \in Reqs |-> Idle]
    /\ since = {Tree(root)} /\ crossed = {}

Serve(r) ==
    gitCacheVersion(r) \/ Hit(r) \/ Join(r) \/ Miss(r) \/ Diff(r) \/ Store(r)

Next ==
    \/ \E r \in Roots : Recreate(r) \/ \E c \in Contents : Edit(r, c)
    \/ \E s \in Snapshotters : Snapshot(s) \/ ReplaceGitSnapshot(s)
    \/ \E r \in Reqs : GetProject(r) \/ Serve(r) \/ Fail(r) \/ Cancel(r)

Spec == Init /\ [][Next]_vars

\* A handler goes on; Git commands end, they run under a timeout.
FairSpec == Spec /\ \A r \in Reqs : WF_vars(Serve(r))

-----------------------------------------------------------------------------
Keys == [gen : 0 .. MaxRecreates, rev : Nat]

TypeOK ==
    /\ content \in [Roots -> Contents] /\ edits \in 0 .. MaxEdits
    /\ root \in Roots /\ gen \in 0 .. MaxRecreates /\ rev \in Nat
    /\ since \subseteq Trees /\ crossed \subseteq Keys
    /\ \A s \in Snapshotters : taken[s] # None => taken[s].since \subseteq Trees
    /\ \A k \in DOMAIN entries :
          /\ k \in Keys
          /\ entries[k].complete => entries[k].value \in Trees
    /\ \A r \in Reqs :
          /\ req[r].pc \in {"idle", "named", "keyed", "loading", "loaded",
                            "waiting", "answered", "failed"}
          /\ req[r].fresh \subseteq Trees
          /\ req[r].pc \in {"loaded", "answered"} => req[r].value \in Trees

\* Every entry without an answer has exactly one request that loads it, and a
\* request waits only for one that will answer it (git_cache.go:20).
OneLoad ==
    /\ \A q, r \in Reqs :
          /\ req[q].pc \in {"loading", "loaded"} /\ req[r].pc \in {"loading", "loaded"}
          /\ req[q].key = req[r].key
          => q = r
    /\ \A k \in DOMAIN entries :
          ~entries[k].complete =>
              LET r == entries[k].leader
              IN  req[r].pc \in {"loading", "loaded"} /\ req[r].key = k
    /\ \A q \in Reqs :
          req[q].pc = "waiting" =>
              LET r == req[q].of
              IN  req[r].pc \in {"loading", "loaded"} /\ req[r].key = req[q].key

\* The cache exceeds its bound only by loads under way.
Bounded == Cardinality(DOMAIN entries) > MaxEntries => Complete(entries) = {}

\* A request is answered with a tree that the project has had since the snapshot
\* was read that gave it its revision, never with an older one and never with
\* one of an earlier registration, and the bound of the cache is exceeded only
\* by loads under way (git_cache.go:21, 83-100).  Edits that keep the line counts
\* or are undone before the next snapshot give no new revision (git.go:97-104),
\* so that an answer may be that old.  Left out are the keys under which a
\* request loads whose project moved to another root after it was read.
AnswersAreFresh ==
    /\ TypeOK /\ Bounded
    /\ \A r \in Reqs : req[r].pc = "answered"
          => req[r].key \in crossed \/ req[r].value \in req[r].fresh

\* Every request ends.
RequestsEnd == \A r \in Reqs : Busy(r) ~> req[r].pc \in {"answered", "failed"}

=============================================================================
