---------------------------- MODULE CodeGraphSync ----------------------------
(***************************************************************************)
(* The CodeGraph page and the operation it starts: SyncManager of          *)
(* internal/codegraph/sync.go runs the command of one project, the         *)
(* handlers of internal/api/codegraph.go start it and report on it, and    *)
(* CodeGraphPage.tsx follows it with its status query.  Another tab starts *)
(* operations too.  The page is visible all the time.                      *)
(***************************************************************************)
EXTENDS Naturals, FiniteSets

CONSTANTS
    None,
    MaxRuns,      \* bound on the operations started
    MaxFaults,    \* bound on the requests that fail
    LateAnswers   \* may the status be on its way while an operation is started

ASSUME BoundsAssumption == MaxRuns \in Nat \ {0} /\ MaxFaults \in Nat

VARIABLES
    index,    \* the content of .codegraph/codegraph.db
    record,   \* operations[key] of the SyncManager
    command,  \* each run: its goroutine and its command
    post,     \* the POST each tab is waiting for
    flight,   \* the status request the page awaits
    shown,    \* the data of its status query
    handled,  \* handledOperationRef
    polled,   \* the index as the revision polling of the page last saw it
    faults,   \* the requests that have failed so far
    unheard   \* the runs whose POST succeeded but was not answered

manager == <<index, record, command>>
page == <<shown, handled, polled>>
losses == <<faults, unheard>>
vars == <<manager, post, flight, page, losses>>

Runs == 1 .. MaxRuns
Tabs == {"page", "other"}

Operation(run, state) == [run |-> run, state |-> state]
Records == [run : Runs, state : {"running", "succeeded", "failed"}]
Operations == Records \cup {None}
Statuses == [ok : BOOLEAN, index : 0 .. MaxRuns, op : Operations]

ASSUME NoneAssumption == None \notin Records \cup Statuses \cup Runs

Running(op) == op # None /\ op.state = "running"

\* A request for the status, with nothing read yet.
Asking == [stage |-> "asking", ok |-> FALSE, index |-> 0, op |-> None]
Posting == [stage |-> "asking", run |-> None]

AtWork(n) == command[n].stage = "running"

\* The reader may find the database busy while a command writes it.
Readable(ok) == ok \/ \E n \in Runs : AtWork(n)

\* The bound on the operations: one is left for every POST under way.
Unborn == {n \in Runs : command[n].stage = "unborn"}
MayPost == Cardinality({t \in Tabs : post[t] # None}) < Cardinality(Unborn)

-----------------------------------------------------------------------------
(* SyncManager *)

\* The handler has found the index readable and starts the operation.
StartUnchecked(t) ==
    /\ post[t] # None /\ post[t].stage = "checked"
    /\ \E n \in Unborn :
        /\ \A k \in Unborn : n <= k
        /\ record' = Operation(n, "running")
        /\ command' = [command EXCEPT ![n].stage = "running"]
        /\ post' = [post EXCEPT ![t] = [stage |-> "answered", run |-> n]]
    /\ UNCHANGED <<index, flight, page, losses>>

Start(t) == ~Running(record) /\ StartUnchecked(t)

Conflict(t) ==
    /\ post[t] # None /\ post[t].stage = "checked"
    /\ Running(record)
    /\ post' = [post EXCEPT ![t] = [stage |-> "answered", run |-> None]]
    /\ UNCHANGED <<manager, flight, page, losses>>

\* The command writes the index, once.
WriteIndex(n) ==
    /\ AtWork(n) /\ ~command[n].wrote
    /\ index' = index + 1
    /\ command' = [command EXCEPT ![n].wrote = TRUE]
    /\ UNCHANGED <<record, post, flight, page, losses>>

\* A child of the command may outlive it and hold its output.
Leave(n, ok, held) ==
    /\ AtWork(n)
    /\ command' = [command EXCEPT ![n].stage = "exited", ![n].ok = ok, ![n].held = held]
    /\ UNCHANGED <<index, record, post, flight, page, losses>>

Exit(n) == \E ok, held \in BOOLEAN : Leave(n, ok, held)

ExpireNever(n) == FALSE /\ Exit(n)

\* 30 minutes are over: the context kills the command, not its children.
Expire(n) == \E held \in BOOLEAN : Leave(n, FALSE, held)

\* The last child that holds the output ends, whenever that is.
CloseOutput(n) ==
    /\ command[n].held
    /\ command' = [command EXCEPT ![n].held = FALSE]
    /\ UNCHANGED <<index, record, post, flight, page, losses>>

\* command.Run returns once the command has exited and its output is closed.
Finish(n) ==
    /\ command[n].stage = "exited" /\ ~command[n].held
    /\ command' = [command EXCEPT ![n].stage = "finished"]
    /\ record' = IF record.run = n
                 THEN Operation(n, IF command[n].ok THEN "succeeded" ELSE "failed")
                 ELSE record
    /\ UNCHANGED <<index, post, flight, page, losses>>

-----------------------------------------------------------------------------
(* The handlers *)

\* syncCodeGraph asks the reader for the status first.
Check(t, ok) ==
    /\ post[t] # None /\ post[t].stage = "asking" /\ Readable(ok)
    /\ post' = [post EXCEPT ![t].stage = IF ok THEN "checked" ELSE "answered"]
    /\ UNCHANGED <<manager, flight, page, losses>>

\* getCodeGraphStatus reads the index and then the operation.
ReadIndex(ok) ==
    /\ flight # None /\ flight.stage = "asking" /\ Readable(ok)
    /\ flight' = [flight EXCEPT !.stage = "read", !.ok = ok,
                                !.index = IF ok THEN index ELSE 0]
    /\ UNCHANGED <<manager, post, page, losses>>

ReadOperation ==
    /\ flight # None /\ flight.stage = "read"
    /\ flight' = [flight EXCEPT !.stage = "answered", !.op = record]
    /\ UNCHANGED <<manager, post, page, losses>>

-----------------------------------------------------------------------------
(* The page *)

\* May this start while the other of the two is under way.
Beside(other) == LateAnswers \/ other = None

\* The buttons are enabled: an index, and no operation running or starting.
Post ==
    /\ shown # None /\ shown.ok /\ ~Running(shown.op)
    /\ post["page"] = None /\ MayPost /\ Beside(flight)
    /\ post' = [post EXCEPT !["page"] = Posting]
    /\ UNCHANGED <<manager, flight, page, losses>>

PostElsewhere ==
    /\ post["other"] = None /\ MayPost
    /\ post' = [post EXCEPT !["other"] = Posting]
    /\ UNCHANGED <<manager, flight, page, losses>>

ReceivePostSilently(t) ==
    /\ post[t] # None /\ post[t].stage = "answered"
    /\ post' = [post EXCEPT ![t] = None]
    /\ UNCHANGED <<manager, flight, page, losses>>

\* onSuccess puts the operation into the data of the status query.
ReceivePost(t) ==
    /\ post[t] # None /\ post[t].stage = "answered"
    /\ post' = [post EXCEPT ![t] = None]
    /\ shown' = IF t = "page" /\ post[t].run # None
                THEN [shown EXCEPT !.op = Operation(post[t].run, "running")]
                ELSE shown
    /\ UNCHANGED <<manager, flight, handled, polled, losses>>

Fetch ==
    /\ flight = None /\ Beside(post["page"])
    /\ flight' = Asking
    /\ UNCHANGED <<manager, post, page, losses>>

\* refetchInterval, and the focus coming back to the window.
Interval == shown # None /\ Running(shown.op) /\ Fetch
Focus == Fetch

\* The revision polling sees the database changed; the fetch under way is
\* cancelled and its answer ignored.
Poll ==
    /\ polled # index /\ Beside(post["page"])
    /\ polled' = index
    /\ flight' = Asking
    /\ UNCHANGED <<manager, post, shown, handled, losses>>

\* The answer becomes the data; a success the page has not handled yet makes
\* it read everything again.
Deliver ==
    /\ flight # None /\ flight.stage = "answered"
    /\ shown' = [ok |-> flight.ok, index |-> flight.index, op |-> flight.op]
    /\ LET ended == flight.op # None /\ ~Running(flight.op) IN
       /\ handled' = IF ended THEN flight.op ELSE handled
       /\ flight' = IF ended /\ handled # flight.op /\ flight.op.state = "succeeded"
                    THEN Asking ELSE None
    /\ UNCHANGED <<manager, post, polled, losses>>

\* The request failed, and so did its retries.
Lose ==
    /\ flight # None /\ faults < MaxFaults
    /\ flight' = None /\ faults' = faults + 1
    /\ UNCHANGED <<manager, post, page, unheard>>

\* So may a POST, before the server has it or after it has started a run: the
\* page shows a message and keeps the data it has.
LosePost(t) ==
    /\ post[t] # None /\ post[t].stage \in {"asking", "answered"}
    /\ faults < MaxFaults
    /\ post' = [post EXCEPT ![t] = None]
    /\ faults' = faults + 1
    /\ unheard' = unheard \cup ({post[t].run} \ {None})
    /\ UNCHANGED <<manager, flight, page>>

-----------------------------------------------------------------------------
Init ==
    /\ index = 0 /\ polled = 0
    /\ record = None
    /\ command = [n \in Runs |->
         [stage |-> "unborn", ok |-> FALSE, wrote |-> FALSE, held |-> FALSE]]
    /\ post = [t \in Tabs |-> None]
    /\ flight = Asking
    /\ shown = None /\ handled = None
    /\ faults = 0 /\ unheard = {}

HandlePost(t) ==
    \/ \E ok \in BOOLEAN : Check(t, ok)
    \/ Start(t)
    \/ Conflict(t)
    \/ ReceivePost(t)

HandleStatus == ReadOperation \/ \E ok \in BOOLEAN : ReadIndex(ok)

Ends(n) == Expire(n) \/ Finish(n)

Next ==
    \/ \E t \in Tabs : HandlePost(t) \/ LosePost(t)
    \/ HandleStatus
    \/ \E n \in Runs : WriteIndex(n) \/ Exit(n) \/ Ends(n) \/ CloseOutput(n)
    \/ Post
    \/ PostElsewhere
    \/ Interval
    \/ Focus
    \/ Poll
    \/ Deliver
    \/ Lose

Spec == Init /\ [][Next]_vars

\* Requests are answered, the timers of the page and of the context fire.
\* Nobody has to start an operation, and nothing makes a child end.
FairSpec ==
    /\ Spec
    /\ WF_vars(HandleStatus)
    /\ \A t \in Tabs : WF_vars(HandlePost(t))
    /\ WF_vars(Deliver) /\ WF_vars(Interval) /\ WF_vars(Poll)
    /\ \A n \in Runs : WF_vars(Ends(n))

-----------------------------------------------------------------------------
(* Properties *)

\* The types; an operation the page handled has ended (CodeGraphPage.tsx:141).
TypeOK ==
    /\ index \in 0 .. MaxRuns /\ polled \in 0 .. MaxRuns
    /\ record \in Operations
    /\ command \in [Runs -> [stage : {"unborn", "running", "exited", "finished"},
                             ok : BOOLEAN, wrote : BOOLEAN, held : BOOLEAN]]
    /\ post \in [Tabs -> {None}
          \cup [stage : {"asking", "checked", "answered"}, run : Runs \cup {None}]]
    /\ flight \in {None} \cup [stage : {"asking", "read", "answered"}, ok : BOOLEAN,
                               index : 0 .. MaxRuns, op : Operations]
    /\ shown \in {None} \cup Statuses
    /\ handled \in Operations /\ ~Running(handled)
    /\ faults \in 0 .. MaxFaults /\ unheard \subseteq Runs

\* While a command of the project runs, the record says so, and of that run:
\* no second command ever writes the same index (sync.go:101-111, 141).
RunningIsRecorded ==
    /\ TypeOK
    /\ \A n \in Runs :
        command[n].stage \in {"running", "exited"} => record = Operation(n, "running")

OutputIsHeld == \E n \in Runs : command[n].held

\* No operation runs for ever, as the bounded context it runs in promises,
\* unless a child of the command never closes its output (sync.go:89, 118).
OperationEnds == []<>~Running(record) \/ <>[]OutputIsHeld

\* The page that started an operation gets to show how it, or a later one,
\* ended, unless the output is held.  Where the answer to the POST was lost the
\* page knows of no operation, and learns of this one when the index changes
\* (CodeGraphPage.tsx:108-151, useProjectPolling.ts:47-54).
OwnRunIsFollowed ==
    \A n \in Runs :
        post["page"] # None /\ post["page"].run = n
            ~> \/ OutputIsHeld
               \/ n \in unheard /\ ~command[n].wrote
               \/ shown # None /\ shown.op # None /\ shown.op.run >= n /\ ~Running(shown.op)

=============================================================================
