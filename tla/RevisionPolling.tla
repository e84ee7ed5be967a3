--------------------------- MODULE RevisionPolling ---------------------------
(***************************************************************************)
(* One browser page that shows views of one project: the API handlers with *)
(* their ETags (internal/api/tasks.go, projects.go, git.go), the ETag      *)
(* cache of frontend/src/api/client.ts, and the revision polling of        *)
(* frontend/src/hooks/useProjectPolling.ts.                                *)
(*                                                                         *)
(* What the store holds is a set of parts; the value of a part is the      *)
(* number of the transaction that last changed it.  Which revisions a      *)
(* transaction raises at least is what RevisionedStore promises and        *)
(* IndexCache checks of it.                                                *)
(***************************************************************************)
EXTENDS Naturals, FiniteSets, FiniteSetsExt, Sequences

CONSTANTS
    Pages,        \* the pages that may be open, each the set of views it shows
    None,
    MaxWrites,    \* bound on the transactions
    MaxFaults,    \* bound on lost answers and evicted responses
    LateAnswers   \* may an answer take longer than a polling interval

VARIABLES
    content, rev, gen, writes,   \* the store: parts, revisions, generation
    views,     \* the views of the open page
    data,      \* what each view shows
    cache,     \* responseCache and etagCache of the client
    requests,  \* the fetches under way
    poll,      \* the revisions on their way to the page
    seen,      \* previous: the revisions of the last poll
    visible,   \* the page is in the foreground
    faults

store == <<content, rev, gen, writes>>
page == <<views, data, cache, requests, poll, seen, visible, faults>>
vars == <<store, page>>

\* The day is a part like the others, and its date is polled like a revision.
Parts == {"facts", "runtime", "context", "flow", "sessions", "activity", "git", "day"}
Resources == {"tasks", "sessions", "activity", "git", "day"}

-----------------------------------------------------------------------------
(* The handlers: the parts each one reads before it has its ETag, one set  *)
(* for each query, those it reads after, and what the ETag covers.         *)

DetailReads == <<{"context"}, {"sessions"}, {"activity"}>>
DashboardReads == <<{"facts", "runtime"}, {"day"}, {"sessions"}, {"git"}, {"activity"}>>
GitReads == <<{"git"}, {"facts"}>>

Early == [list |-> <<>>, detail |-> <<{"facts", "runtime"}>>, sessions |-> <<>>,
          workflow |-> <<>>, dashboard |-> DashboardReads, git |-> GitReads]

Late == [list |-> <<{"facts", "runtime"}>>, detail |-> DetailReads,
         sessions |-> <<{"sessions"}>>, workflow |-> <<{"flow"}>>,
         dashboard |-> <<>>, git |-> <<>>]

PartsOf(reads) == UNION {reads[i] : i \in DOMAIN reads}
Shown(v) == PartsOf(Early[v]) \cup PartsOf(Late[v])

\* The revisions in the ETag of a view; the others have a hash of their body.
TagOf == [list |-> {"tasks"}, detail |-> {"tasks", "sessions", "activity"},
          sessions |-> {"sessions"}, workflow |-> {"tasks"}]

Payload == {"dashboard", "git"}
payloadETag(v, body) == [p \in Shown(v) |-> body[p]]

\* Mutant: the generation is left out.
TagOfRevisions(v, body) ==
    IF v \in Payload THEN payloadETag(v, body)
    ELSE [gen |-> 0, rev |-> [r \in TagOf[v] |-> rev[r]]]

\* The ETag of a view whose handler has read body.
Tag(v, body) ==
    IF v \in Payload THEN payloadETag(v, body)
    ELSE [gen |-> gen, rev |-> [r \in TagOf[v] |-> rev[r]]]

\* The revisions that announce a change of a part, as the store promises.
Promised == INSTANCE RevisionedStore WITH Views <- Parts, revision <- rev
Announces == Promised!Covers

\* The parts of a response that its ETag vouches for.
Covered(v) ==
    IF v \in Payload THEN Shown(v)
    ELSE {p \in PartsOf(Late[v]) : Announces[p] \subseteq TagOf[v]}

\* Mutant: every view depends on the resource in its query key only.
TriggersByKey ==
    [list |-> [tasks |-> 1], detail |-> [tasks |-> 1], workflow |-> [tasks |-> 1],
     sessions |-> [sessions |-> 1], git |-> [git |-> 1],
     dashboard |-> [r \in Resources |-> 1]]

\* How often a change of a resource invalidates a view.
Triggers ==
    [list |-> [tasks |-> 1, sessions |-> 1], workflow |-> [tasks |-> 1, sessions |-> 1],
     detail |-> [tasks |-> 1, sessions |-> 2, activity |-> 1],
     sessions |-> [sessions |-> 1], git |-> [git |-> 1, tasks |-> 1],
     dashboard |-> [r \in Resources |-> 1]]

-----------------------------------------------------------------------------
(* The store.  Parts no view of the page shows are left alone, and so are  *)
(* revisions none reacts to.  A transaction that changes only some of the  *)
(* parts named leaves less to announce: nothing but the properties and the *)
(* hashed ETags depends on the value of a part.                            *)

Displayed == UNION {Shown(v) : v \in views}

Watched == UNION {DOMAIN Triggers[v] : v \in views}

Write(parts, resources) ==
    /\ parts \cap Displayed # {} \/ resources \cap Watched # {}
    /\ writes < MaxWrites /\ writes' = writes + 1
    /\ content' = [p \in Parts |-> IF p \in parts \cap Displayed THEN writes + 1 ELSE content[p]]
    /\ rev' = [r \in Resources |-> IF r \in resources \cap Watched THEN rev[r] + 1 ELSE rev[r]]
    /\ UNCHANGED <<gen, page>>

WriteTasks ==
    Write({"facts", "runtime", "context", "flow", "activity"}, {"tasks", "activity"})

WriteSessions == Write({"sessions", "runtime", "activity"}, {"sessions", "activity"})

WriteGit == Write({"git", "activity"}, {"git", "activity"})

\* Index errors.
WriteActivity == Write({"activity"}, {"activity"})

Midnight == Write({"day"}, {"day"})

\* The project is deleted and registered again: revisions start over, under
\* a new generation.
Recreate ==
    /\ writes < MaxWrites /\ writes' = writes + 1
    /\ gen' = gen + 1
    /\ rev' = [r \in Resources |-> IF r = "day" THEN rev[r] ELSE 0]
    /\ content' = [p \in Parts |-> IF p \in Displayed \ {"day"} THEN writes + 1 ELSE content[p]]
    /\ UNCHANGED page

-----------------------------------------------------------------------------
(* Requests *)

NoBody == [p \in Parts |-> None]

New(v) ==
    [view |-> v, live |-> TRUE, tries |-> 0,
     inm |-> IF cache[v] = None THEN None ELSE cache[v].tag,
     tag |-> None, body |-> NoBody, next |-> 1, status |-> "reading"]

Become(r, new) == requests' = (requests \ {r}) \cup new

ReadParts(r, parts) ==
    [r EXCEPT !.next = @ + 1,
              !.body = [p \in Parts |-> IF p \in parts THEN content[p] ELSE r.body[p]]]

ReadEarly(r) ==
    /\ r.status = "reading" /\ r.next <= Len(Early[r.view])
    /\ Become(r, {ReadParts(r, Early[r.view][r.next])})
    /\ UNCHANGED <<store, views, data, cache, poll, seen, visible, faults>>

\* GetRevisions, unless the body is hashed, and setCacheValidator.
ReadRevisions(r) ==
    LET tag == Tag(r.view, r.body)
    IN  /\ r.status = "reading" /\ r.next = Len(Early[r.view]) + 1
        /\ Become(r, {[r EXCEPT !.next = @ + 1, !.tag = tag,
                                !.status = IF r.inm = tag THEN "same"
                                           ELSE IF Late[r.view] = <<>> THEN "ok" ELSE @]})
        /\ UNCHANGED <<store, views, data, cache, poll, seen, visible, faults>>

ReadLate(r) ==
    LET i == r.next - Len(Early[r.view]) - 1
    IN  /\ r.status = "reading" /\ i \in 1 .. Len(Late[r.view])
        /\ Become(r, {[ReadParts(r, Late[r.view][i]) EXCEPT
                          !.status = IF i = Len(Late[r.view]) THEN "ok" ELSE @]})
        /\ UNCHANGED <<store, views, data, cache, poll, seen, visible, faults>>

\* The query tries twice more; nobody awaits the answer to a cancelled one.
Retry(r) ==
    Become(r, IF r.live /\ r.tries < 2 THEN {[New(r.view) EXCEPT !.tries = r.tries + 1]} ELSE {})

\* A 200: the response enters the client's cache even when its query was
\* cancelled, the view shows it when it was not.
Receive(r) ==
    /\ r.status = "ok"
    /\ cache' = [cache EXCEPT ![r.view] = [tag |-> r.tag, body |-> r.body]]
    /\ data' = IF r.live THEN [data EXCEPT ![r.view] = r.body] ELSE data
    /\ Become(r, {})
    /\ UNCHANGED <<store, views, poll, seen, visible, faults>>

\* A 304: the view shows the cached response; without one it is an error.
ReceiveNotModified(r) ==
    /\ r.status = "same"
    /\ \/ /\ cache[r.view] # None
          /\ data' = IF r.live THEN [data EXCEPT ![r.view] = cache[r.view].body] ELSE data
          /\ Become(r, {})
       \/ /\ cache[r.view] = None
          /\ Retry(r) /\ UNCHANGED data
    /\ UNCHANGED <<store, views, cache, poll, seen, visible, faults>>

Fault == faults < MaxFaults /\ faults' = faults + 1

Fail(r) ==
    /\ Fault /\ Retry(r)
    /\ UNCHANGED <<store, views, data, cache, poll, seen, visible>>

\* The cache of responses is bounded.
Evict(v) ==
    /\ Fault /\ cache[v] # None
    /\ cache' = [cache EXCEPT ![v] = None]
    /\ UNCHANGED <<store, views, data, requests, poll, seen, visible>>

-----------------------------------------------------------------------------
(* Polling *)

\* How often the effect invalidates a view when the page learns of revisions
\* new; for the dashboard all revisions count as one.
Invalidations(v, new) ==
    LET changed == {r \in DOMAIN Triggers[v] : new.rev[r] # seen.rev[r]}
        once == IF v = "dashboard" /\ changed \ {"day"} # {}
                THEN (changed \cap {"day"}) \cup {CHOOSE r \in changed : r # "day"}
                ELSE changed
    IN  IF seen = None THEN 0
        ELSE MapThenSumSet(LAMBDA r : Triggers[v][r], once)
             + IF new.gen # seen.gen THEN 1 ELSE 0

Awaited(v) == {r \in requests : r.view = v /\ r.live}
Cancelled(v) == {[r EXCEPT !.live = FALSE] : r \in Awaited(v)}

\* An invalidation fetches the view again.  It cancels the fetch under way,
\* the one a previous invalidation started included, unless the view has
\* nothing to show yet: then it joins that fetch.
Refetches(v, times) ==
    IF times = 0 THEN Awaited(v)
    ELSE IF data[v] = None THEN (IF Awaited(v) = {} THEN {New(v)} ELSE Awaited(v))
    ELSE Cancelled(v) \cup {New(v)}
         \cup (IF times > 1 THEN {[New(v) EXCEPT !.live = FALSE]} ELSE {})

\* All requests have been answered, unless answers may be late.
InTime == LateAnswers \/ requests = {}

PollRead ==
    /\ visible /\ poll = None
    /\ poll' = [gen |-> gen, rev |-> rev]
    /\ UNCHANGED <<store, views, data, cache, requests, seen, visible, faults>>

PollDeliver ==
    /\ poll # None /\ InTime
    /\ requests' = {r \in requests : ~r.live}
                   \cup UNION {Refetches(v, Invalidations(v, poll)) : v \in views}
    /\ seen' = poll /\ poll' = None
    /\ UNCHANGED <<store, views, data, cache, visible, faults>>

PollLost ==
    /\ poll # None /\ Fault
    /\ poll' = None
    /\ UNCHANGED <<store, views, data, cache, requests, seen, visible>>

Hide ==
    /\ visible /\ visible' = FALSE
    /\ UNCHANGED <<store, views, data, cache, requests, poll, seen, faults>>

\* The views whose data is older than staleTime are fetched again.
Show(stale) ==
    /\ ~visible /\ visible' = TRUE /\ InTime
    /\ requests' = requests \cup {New(v) : v \in {w \in stale : Awaited(w) = {}}}
    /\ UNCHANGED <<store, views, data, cache, poll, seen, faults>>

-----------------------------------------------------------------------------
\* The page has just been opened.
Init ==
    /\ content = [p \in Parts |-> 0] /\ rev = [r \in Resources |-> 0]
    /\ gen = 0 /\ writes = 0
    /\ views \in Pages
    /\ data = [v \in views |-> None] /\ cache = [v \in views |-> None]
    /\ requests = {New(v) : v \in views}
    /\ poll = None /\ seen = None /\ visible = TRUE /\ faults = 0

\* A page that has loaded its views and polled once.
Loaded ==
    /\ content = [p \in Parts |-> 0] /\ rev = [r \in Resources |-> 0]
    /\ gen = 0 /\ writes = 0
    /\ views \in Pages
    /\ data = [v \in views |-> [p \in Parts |-> IF p \in Shown(v) THEN 0 ELSE None]]
    /\ cache = [v \in views |-> [tag |-> Tag(v, content), body |-> data[v]]]
    /\ requests = {} /\ poll = None
    /\ seen = [gen |-> 0, rev |-> rev]
    /\ visible = TRUE /\ faults = 0

Transaction ==
    \/ WriteTasks \/ WriteSessions \/ WriteGit \/ WriteActivity
    \/ Midnight \/ Recreate

Answer ==
    \E r \in requests :
        \/ ReadEarly(r) \/ ReadRevisions(r) \/ ReadLate(r)
        \/ Receive(r) \/ ReceiveNotModified(r)

Next ==
    \/ Transaction \/ Answer
    \/ \E r \in requests : Fail(r)
    \/ \E v \in views : Evict(v)
    \/ PollRead \/ PollDeliver \/ PollLost
    \/ Hide \/ \E stale \in SUBSET views : Show(stale)

Spec == Init /\ [][Next]_vars

\* Requests are answered; a visible page polls; nothing makes the user return
\* to a hidden one.
Progress == PollRead \/ PollDeliver \/ Answer
Fairness == WF_vars(Progress)

FairSpec == Spec /\ Fairness
LoadedSpec == Loaded /\ [][Next]_vars /\ Fairness

-----------------------------------------------------------------------------
Revs == [gen : Nat, rev : [Resources -> Nat]]
Tags(v) == IF v \in Payload THEN [Shown(v) -> Nat]
           ELSE [gen : Nat, rev : [TagOf[v] -> Nat]]
Bodies == [Parts -> Nat \cup {None}]
Responses(v) == [tag : Tags(v), body : Bodies]

Views == DOMAIN Early

ASSUME PagesAssumption == Pages \subseteq SUBSET Views
ASSUME NoneAssumption ==
    /\ None \notin Nat \cup Bodies \cup Revs
    /\ \A v \in Views : None \notin Tags(v) \cup Responses(v)

TypeOK ==
    /\ content \in [Parts -> Nat] /\ rev \in [Resources -> Nat]
    /\ gen \in Nat /\ writes \in Nat
    /\ \A v \in views : /\ data[v] \in Bodies \cup {None}
                        /\ cache[v] \in Responses(v) \cup {None}
    /\ \A r \in requests :
          /\ r.view \in views /\ r.live \in BOOLEAN /\ r.tries \in 0 .. 2
          /\ r.inm \in Tags(r.view) \cup {None} /\ r.tag \in Tags(r.view) \cup {None}
          /\ r.body \in Bodies /\ r.status \in {"reading", "same", "ok"}
          /\ r.next \in 1 .. Len(Early[r.view]) + Len(Late[r.view]) + 2
    /\ \A v \in views : \A r, s \in Awaited(v) : r = s
    /\ poll \in Revs \cup {None} /\ seen \in Revs \cup {None}
    /\ visible \in BOOLEAN

\* A response, cached or under way, that carries the current ETag of its view
\* has the current value of every part the ETag covers: a 304 is never wrong
\* about them (tasks.go reads the revisions before it reads these parts, the
\* dashboard and the Git status are hashed, projects.go:200, git.go:30).
TagVouches(v, tag, body) ==
    tag = Tag(v, content) => \A p \in Covered(v) : body[p] \in {content[p], None}

ETagDescribesBody ==
    /\ TypeOK
    /\ \A v \in views : cache[v] # None => TagVouches(v, cache[v].tag, cache[v].body)
    /\ \A r \in requests : TagVouches(r.view, r.tag, r.body)

UpToDate(v, parts) == data[v] # None /\ \A p \in parts : data[v][p] = content[p]

\* A page that stays visible comes to show the current value of every part
\* the views' ETags cover.
CoveredConverges == <>[]visible => <>[](\A v \in views : UpToDate(v, Covered(v)))

\* The task list of a page that stays visible comes to show the phases its
\* sessions give the tasks, as useProjectPolling.ts:58 has it.
PhasesConverge ==
    <>[]visible => <>[](\A v \in views \cap {"list"} : UpToDate(v, {"runtime"}))

=============================================================================
