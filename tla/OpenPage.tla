------------------------------- MODULE OpenPage -------------------------------
(***************************************************************************)
(* A page of the frontend that keeps more state than the answers it shows: *)
(* the CodeGraph page with the operation it follows (CodeGraphSync), or a  *)
(* page with a list it has read in part (Paging).  One page is open at a   *)
(* time.                                                                   *)
(***************************************************************************)
EXTENDS CodeGraphSync

CONSTANTS Tasks, Limit, Keep, MaxWrites, MaxId, LoadsDuringRefetch  \* of Paging

VARIABLES
    listing,  \* is it a page with a list
    \* of Paging
    list, column, log, lastId, gen, rev, writes, pages, fetch, poll, seen

listVars == <<list, column, log, lastId, gen, rev, writes, pages, fetch, poll, seen>>
pageVars == <<listing, vars, listVars>>

Lists == INSTANCE Paging

ASSUME PagingAssumption == Lists!Sizes /\ Lists!NoneIsNoData

PageInit ==
    /\ listing \in BOOLEAN
    /\ Init /\ Lists!Init
    /\ ~listing => list = "feed" /\ log = {}

Operating(action) == ~listing /\ action /\ UNCHANGED <<listing, listVars>>
Listing(action) == listing /\ action /\ UNCHANGED <<listing, vars>>

PageNext == Operating(Next) \/ Listing(Lists!Next)

\* The fairness of both.
PageFairness ==
    /\ WF_pageVars(Operating(HandleStatus))
    /\ \A t \in Tabs : WF_pageVars(Operating(HandlePost(t)))
    /\ WF_pageVars(Operating(Deliver))
    /\ WF_pageVars(Operating(Interval)) /\ WF_pageVars(Operating(Poll))
    /\ \A n \in Runs : WF_pageVars(Operating(Ends(n)))
    /\ WF_pageVars(Listing(Lists!Reading)) /\ WF_pageVars(Listing(Lists!Polling))

PageSpec == PageInit /\ [][PageNext]_pageVars /\ PageFairness

-----------------------------------------------------------------------------
(* Properties, beside those of CodeGraphSync *)

\* However events arrive and old ones are deleted between two pages, the
\* pages of the activity have no event twice and miss none between the newest
\* and the oldest they show (queries.go:345-402, ActivityPage.tsx:25-30).
NoGaps == Lists!NoGaps

\* A column of the board shows every task of its pages once, in order and as
\* it is, unless a refetch is under way or the page has still to learn of a
\* change, whatever moves between two pages or between the count and the
\* select (queries.go:55-60, TasksPage.tsx:46-64).
BoardIsExact == Lists!BoardIsExact

\* Once the store rests, the board is exact, the activity page shows the
\* newest events and a follower has the last one (useProjectPolling.ts:44-66).
PagesConverge == Lists!PagesConverge

=============================================================================
