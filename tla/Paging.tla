-------------------------------- MODULE Paging --------------------------------
(***************************************************************************)
(* Lists that are read page after page while they change: a column of the  *)
(* task board (ListTasks, by offset), the activity page and a client that  *)
(* follows the activity (ListActivity, by event), the trimming of old      *)
(* events, and the infinite queries of TasksPage.tsx and ActivityPage.tsx  *)
(* under the polling of useProjectPolling.ts.                              *)
(*                                                                         *)
(* The page is open and has polled.  ETags are left out: a 304 stands for  *)
(* what the query would answer at that moment (RevisionPolling).           *)
(***************************************************************************)
EXTENDS Naturals, FiniteSets, FiniteSetsExt, SequencesExt

CONSTANTS
    Tasks, None,
    Limit,               \* entries of a page: BOARD_PAGE_SIZE, 200 events
    Keep,                \* maxActivityPerProject
    MaxWrites, MaxId,    \* bounds on the transactions and on the event ids
    LoadsDuringRefetch   \* may the user ask for more while a refetch is under way

VARIABLES
    list,               \* what is read: "board", "activity" or "feed"
    column,             \* the tasks of the column in the order of the query
    log, lastId,        \* the stored events of the project, the last id given
    gen, rev, writes,   \* generation and revision (of tasks, of activity)
    pages,              \* data: the pages the list shows
    fetch,              \* the fetch under way
    poll, seen          \* revisions on their way to the page, those of the last poll

store == <<column, log, lastId, gen, rev, writes>>
vars == <<list, store, pages, fetch, poll, seen>>

Revisions == [gen |-> gen, rev |-> rev]

-----------------------------------------------------------------------------
(* The queries *)

BoardPage(offset, total) ==
    [from |-> offset, total |-> total,
     items |-> SubSeq(column, offset + 1, Min({offset + Limit, Len(column)}))]

Smallest(S) == {e \in S : Cardinality({f \in S : f < e}) < Limit}
Greatest(S, n) == {e \in S : Cardinality({f \in S : f > e}) < n}

\* Mutant: the page before an event is read in ascending order, too.
ListActivityUpwards(after, before) ==
    LET events == IF before > 0 THEN {e \in log : e < before} ELSE {e \in log : e > after}
    IN  [items |-> IF before > 0 \/ after > 0 THEN Smallest(events) ELSE Greatest(events, Limit),
         more |-> Cardinality(events) > Limit]

\* The newest events, those next before an event, or those next after one.
ListActivity(after, before) ==
    LET events == IF before > 0 THEN {e \in log : e < before} ELSE {e \in log : e > after}
    IN  [items |-> IF before = 0 /\ after > 0 THEN Smallest(events) ELSE Greatest(events, Limit),
         more |-> Cardinality(events) > Limit]

-----------------------------------------------------------------------------
(* The store *)

Transaction ==
    /\ writes < MaxWrites /\ writes' = writes + 1
    /\ UNCHANGED <<list, pages, fetch, poll, seen>>

OtherTasks(t) == RemoveFirstMatch(column, LAMBDA row : row.task = t)

\* A task changes: it takes another place in the column, joins it, leaves it
\* or belongs to another one.
WriteTask(t) ==
    LET others == OtherTasks(t)
    IN  /\ list = "board"
        /\ \/ column' = others
           \/ \E i \in 1 .. Len(others) + 1 :
                 column' = InsertAt(others, i, [task |-> t, version |-> writes + 1])
        /\ rev' = rev + 1
        /\ Transaction
        /\ UNCHANGED <<log, lastId, gen>>

\* insertActivity and pruneActivity; ids are shared with other projects.
WriteActivity(ids) ==
    /\ list # "board"
    /\ log' = Greatest(log \cup ids, Keep)
    /\ lastId' = Max(ids)
    /\ rev' = rev + 1
    /\ Transaction
    /\ UNCHANGED <<column, gen>>

\* The project is deleted and registered again.
Recreate ==
    /\ column' = <<>> /\ log' = {}
    /\ gen' = gen + 1 /\ rev' = 0
    /\ Transaction
    /\ UNCHANGED lastId

-----------------------------------------------------------------------------
(* The infinite queries *)

\* getNextPageParam
NextParam(p) ==
    IF list = "board"
    THEN LET offset == p.from + Len(p.items) IN IF offset < p.total THEN offset ELSE None
    ELSE IF p.more /\ p.items # {} THEN Min(p.items) ELSE None

\* Every page is read again, each from where the one before it now ends.
Refetch ==
    [got |-> <<>>, param |-> 0, total |-> None, more |-> FALSE,
     want |-> IF pages = None THEN 1 ELSE Max({1, Len(pages)})]

\* A page has been answered.
Answered(p) ==
    LET got == Append(fetch.got, p)
    IN  /\ IF Len(got) = fetch.want \/ NextParam(p) = None
           THEN pages' = got /\ fetch' = None
           ELSE /\ fetch' = [fetch EXCEPT !.got = got, !.param = NextParam(p), !.total = None]
                /\ UNCHANGED pages
        /\ UNCHANGED <<list, store, poll, seen>>

ReadActivity ==
    /\ list = "activity" /\ fetch # None
    /\ Answered(ListActivity(0, fetch.param))

\* ListTasks counts first ...
CountTasks ==
    /\ list = "board" /\ fetch # None /\ fetch.total = None
    /\ fetch' = [fetch EXCEPT !.total = Len(column)]
    /\ UNCHANGED <<list, store, pages, poll, seen>>

\* ... and selects the page in a second statement.
SelectTasks ==
    /\ list = "board" /\ fetch # None /\ fetch.total # None
    /\ Answered(BoardPage(fetch.param, fetch.total))

\* fetchNextPage: a refetch under way is cancelled, the pages stay as they are.
LoadMore ==
    /\ list # "feed" /\ pages # None /\ NextParam(Last(pages)) # None
    /\ fetch # None => LoadsDuringRefetch /\ ~fetch.more
    /\ fetch' = [got |-> pages, want |-> Len(pages) + 1, param |-> NextParam(Last(pages)),
                 total |-> None, more |-> TRUE]
    /\ UNCHANGED <<list, store, pages, poll, seen>>

\* The window gets the focus and the data is older than staleTime.
Focus ==
    /\ list # "feed" /\ pages # None /\ fetch = None
    /\ fetch' = Refetch
    /\ UNCHANGED <<list, store, pages, poll, seen>>

\* A client of the API that asks for what came after the last event it has.
Follow ==
    LET have == UNION {pages[i].items : i \in DOMAIN pages}
        p == ListActivity(IF have = {} THEN 0 ELSE Max(have), 0)
    IN  /\ list = "feed"
        /\ pages' = IF p.items = {} THEN pages ELSE Append(pages, p)
        /\ UNCHANGED <<list, store, fetch, poll, seen>>

-----------------------------------------------------------------------------
(* Polling *)

PollRead ==
    /\ list # "feed" /\ poll = None
    /\ poll' = Revisions
    /\ UNCHANGED <<list, store, pages, fetch, seen>>

\* Mutant: another generation is no change.
ReactToRevision ==
    IF poll.rev = seen.rev THEN UNCHANGED <<pages, fetch>>
    ELSE IF list = "activity"
    THEN pages' = None /\ fetch' = [Refetch EXCEPT !.want = 1]
    ELSE fetch' = Refetch /\ UNCHANGED pages

\* Mutant: new activity empties the page and fetches nothing.
ReactToActivity ==
    IF poll = seen THEN UNCHANGED <<pages, fetch>>
    ELSE IF list = "activity" /\ poll.rev # seen.rev
    THEN pages' = None /\ fetch' = None
    ELSE IF pages = None THEN UNCHANGED <<pages, fetch>>
    ELSE fetch' = Refetch /\ UNCHANGED pages

\* New activity resets the page to the newest events; any other change
\* fetches all pages again, unless the first fetch has not ended.
React ==
    IF poll = seen THEN UNCHANGED <<pages, fetch>>
    ELSE IF list = "activity" /\ poll.rev # seen.rev
    THEN pages' = None /\ fetch' = [Refetch EXCEPT !.want = 1]
    ELSE IF pages = None THEN UNCHANGED <<pages, fetch>>
    ELSE fetch' = Refetch /\ UNCHANGED pages

PollDeliver ==
    /\ poll # None
    /\ React
    /\ seen' = poll /\ poll' = None
    /\ UNCHANGED <<list, store>>

-----------------------------------------------------------------------------
\* The first page has been read, and the revisions.  Tasks differ in their
\* names only, so that their first order is any one.
Init ==
    /\ list \in {"board", "activity", "feed"}
    /\ gen = 0 /\ rev = 0 /\ writes = 0
    /\ IF list = "board"
       THEN /\ \E n \in 0 .. Cardinality(Tasks) :
                  column = [i \in 1 .. n |-> [task |-> SetToSeq(Tasks)[i], version |-> 0]]
            /\ log = {} /\ pages = <<BoardPage(0, Len(column))>>
       ELSE /\ column = <<>> /\ log \in {1 .. n : n \in 0 .. Min({Keep, MaxId})}
            /\ pages = IF list = "feed" THEN <<>> ELSE <<ListActivity(0, 0)>>
    /\ lastId = Cardinality(log)
    /\ fetch = None /\ poll = None /\ seen = Revisions

Writing ==
    \/ \E t \in Tasks : WriteTask(t)
    \/ \E ids \in (SUBSET (lastId + 1 .. MaxId)) \ {{}} : WriteActivity(ids)
    \/ Recreate

Reading == ReadActivity \/ CountTasks \/ SelectTasks \/ Follow

Polling == PollRead \/ PollDeliver

Next == Writing \/ Reading \/ LoadMore \/ Focus \/ Polling

\* Requests are answered, a page that is visible polls, a follower asks again.
Spec ==
    /\ Init /\ [][Next]_vars
    /\ WF_vars(Reading) /\ WF_vars(Polling)

-----------------------------------------------------------------------------
(* Properties *)

Rows == [task : Tasks, version : 0 .. MaxWrites]
BoardPages == [from : Nat, total : Nat, items : Seq(Rows)]
EventPages == [items : SUBSET (1 .. MaxId), more : BOOLEAN]
Fetches(P) == [got : Seq(P), want : Nat \ {0}, param : Nat,
               total : Nat \cup {None}, more : BOOLEAN]
Polls == [gen : Nat, rev : Nat]

\* What the constants have to be.
Sizes ==
    /\ IsFiniteSet(Tasks) /\ Limit \in Nat \ {0}
    /\ Keep \in Nat /\ MaxWrites \in Nat /\ MaxId \in Nat
NoneIsNoData ==
    /\ None \notin Nat /\ None \notin Polls
    /\ None \notin Seq(BoardPages) /\ None \notin Fetches(BoardPages)
    /\ None \notin Seq(EventPages) /\ None \notin Fetches(EventPages)

Page == IF list = "board" THEN BoardPages ELSE EventPages

TypeOK ==
    /\ list \in {"board", "activity", "feed"}
    /\ column \in Seq(Rows) /\ log \subseteq 1 .. lastId /\ lastId \in 0 .. MaxId
    /\ Cardinality(log) <= Keep
    /\ gen \in Nat /\ rev \in Nat /\ writes \in 0 .. MaxWrites
    /\ pages \in Seq(Page) \cup {None}
    /\ fetch \in Fetches(Page) \cup {None}
    /\ poll \in Polls \cup {None} /\ seen \in Polls

Events == UNION {pages[i].items : i \in DOMAIN pages}

\* However events arrive and old ones are deleted between two pages, the
\* pages of the activity have no event twice and none of the stored events
\* between the oldest and the newest they show is missing; a last page leaves
\* no older event out (queries.go:345-402, ActivityPage.tsx:25-30).
NoGaps ==
    /\ TypeOK
    /\ list # "board" /\ pages \notin {None, <<>>} =>
          /\ \A i, j \in DOMAIN pages : i # j => pages[i].items \cap pages[j].items = {}
          /\ \A e \in log, old, new \in Events : old <= e /\ e <= new => e \in Events
          /\ list = "activity" /\ ~Last(pages).more =>
                \A e \in log, new \in Events : e <= new => e \in Events

\* What the column of the board shows, over all its pages.
Shown == FlattenSeq([i \in DOMAIN pages |-> pages[i].items])

Exact ==
    /\ IsPrefix(Shown, column)
    /\ pages[1].total = Len(column)
    /\ NextParam(Last(pages)) = None => Shown = column

\* A column shows every task of its pages once, in order and as it is, with
\* the right total, unless a refetch is under way or the page has still to
\* learn of a change: tasks that move between two pages, or between the count
\* and the select, are not lost or doubled for good (queries.go:55-60,
\* TasksPage.tsx:46-64, useProjectPolling.ts:44-66).
BoardIsExact ==
    list = "board" => \/ seen # Revisions
                      \/ fetch # None /\ ~fetch.more
                      \/ Exact

\* Once the store rests, the board is exact, the activity page shows the
\* newest events and a follower has the last one (useProjectPolling.ts:44-66).
PagesConverge ==
    <>[](CASE list = "board" -> Exact
           [] list = "activity" -> pages # None /\ Greatest(log, Limit) \subseteq Events
           [] list = "feed" -> log # {} => Max(log) \in Events)

=============================================================================
