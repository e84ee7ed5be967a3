---------------------------- MODULE EventWatching ----------------------------
(***************************************************************************)
(* The event loop of internal/watcher/watcher.go: on Linux and Windows     *)
(* fsnotify watches every directory of a project, Watcher.runLoop takes    *)
(* its events one by one, walks directories that appeared (addRecursive,   *)
(* streamwalk.Walk) to watch them too, and reports the changes once the    *)
(* debounce timer has fired.  Meanwhile directories are written to,        *)
(* created, moved in with all they hold, removed and created again.        *)
(***************************************************************************)
EXTENDS Naturals

CONSTANTS
    None,
    MaxEdits   \* bound on the changes of the tree

VARIABLES
    exists,    \* the directories there are
    edits,
    native,    \* the directories fsnotify watches
    events,    \* what fsnotify has yet to hand over, in the order of the changes
    known,     \* watchedPaths
    walk,      \* the addRecursive under way
    pending,   \* is a path pending, and the debounce timer running
    stopped,   \* has runLoop returned with an error
    unseen,    \* history: did the tree change since onChange was last called
    gaveUp     \* history: did an addRecursive end at an entry that had gone

tree == <<exists, edits>>
loop == <<known, walk, pending, stopped>>
vars == <<tree, native, events, loop, unseen, gaveUp>>

\* tasks, a task in it, and two directories of that task.
Root == "tasks"
Dirs == {Root, "task", "docs", "notes"}
Children == [tasks |-> {"task"}, task |-> {"docs", "notes"}, docs |-> {}, notes |-> {}]

Within(d) == {d} \cup Children[d] \cup UNION {Children[c] : c \in Children[d]}

Parents(d) == {p \in Dirs : d \in Children[p]}

Changes ==
    [op : {"write", "create", "remove"}, dir : Dirs, by : Dirs, at : 1 .. MaxEdits]

\* A change of directory d is an event if the directory that reports it is
\* watched; it carries the number of the change.
Notified(op, d, reporter) ==
    IF reporter \notin native THEN events
    ELSE events \cup {[op |-> op, dir |-> d, by |-> reporter, at |-> edits + 1]}

IsFirst(e, queue) == e \in queue /\ \A f \in queue : e.at <= f.at

\* native.Remove: the events of a watch that ended are dropped, but for the one
\* the loop may be about to receive.
Unwatch(gone, queue) ==
    /\ native' = native \ gone
    /\ \E sent \in SUBSET {e \in queue : IsFirst(e, queue)} :
          events' = {e \in queue : e.by \notin gone} \cup sent

-----------------------------------------------------------------------------
(* The project *)

Edit ==
    /\ edits < MaxEdits /\ edits' = edits + 1
    /\ unseen' = TRUE
    /\ UNCHANGED <<loop, gaveUp>>

\* A file of a directory is written, created or removed.
Write(d) ==
    /\ d \in exists /\ Edit
    /\ events' = Notified("write", d, d)
    /\ UNCHANGED <<exists, native>>

\* A directory is created or moved in, with some of its children in it.
Create(d, held) ==
    /\ d \in Dirs \ exists /\ Parents(d) \subseteq exists /\ Edit
    /\ exists' = exists \cup {d} \cup held
    /\ \E up \in Parents(d) : events' = Notified("create", d, up)
    /\ UNCHANGED native

\* A directory is removed, after all it held; the system ends its watch, and
\* fsnotify reports the removal once.
Remove(d) ==
    /\ d \in exists \ {Root} /\ Children[d] \cap exists = {}
    /\ Edit
    /\ exists' = exists \ {d}
    /\ \E up \in Parents(d) :
          events' = Notified("remove", d, IF up \in native THEN up ELSE d)
    /\ native' = native \ {d}

-----------------------------------------------------------------------------
(* The loop *)

\* What addRecursive walks: entries it has listed, directories it has yet to
\* open, in whatever order.
Walks == [listed : SUBSET Dirs, stack : SUBSET Dirs]
Walking(listed, stack) == [listed |-> listed, stack |-> stack]

ForgetNative(d, queue) ==
    Unwatch(Within(d) \cap known, queue) /\ UNCHANGED known

\* forgetPath: the watches at and below the path, and what is known of them.
ForgetPath(d, queue) ==
    /\ Unwatch(Within(d) \cap known, queue)
    /\ known' = known \ Within(d)

\* native.Remove fails if fsnotify still has a watch that the system has ended:
\* the loop returns, and the watcher is closed with what is left to report.
ForgetFails(d) ==
    /\ (Within(d) \cap known) \ native # {}
    /\ known' = known \ Within(d)
    /\ native' = {} /\ events' = {} /\ pending' = FALSE
    /\ stopped' = TRUE

\* One event; every path below tasks is relevant.
TakeEvent(op, e) ==
    /\ walk = None
    /\ IsFirst(e, events) /\ e.op = op
    /\ UNCHANGED <<tree, unseen, gaveUp>>

TakeWrite(e) ==
    /\ TakeEvent("write", e)
    /\ events' = events \ {e}
    /\ pending' = TRUE
    /\ UNCHANGED <<native, known, walk, stopped>>

TakeRemove(e) ==
    /\ TakeEvent("remove", e)
    /\ \/ /\ ForgetPath(e.dir, events \ {e})
          /\ pending' = TRUE
          /\ UNCHANGED stopped
       \/ ForgetFails(e.dir)
    /\ UNCHANGED walk

TakeCreate(e) ==
    /\ TakeEvent("create", e)
    /\ events' = events \ {e}
    /\ IF e.dir \in exists
       THEN /\ walk' = Walking({e.dir}, {})
            /\ UNCHANGED pending
       ELSE /\ pending' = TRUE
            /\ UNCHANGED walk
    /\ UNCHANGED <<native, known, stopped>>

\* The walk is over, or gave up; either way the path of its event is pending.
EndWalk(incomplete) ==
    /\ walk' = None
    /\ pending' = TRUE
    /\ gaveUp' = (gaveUp \/ incomplete)

\* addDirectory, for an entry the walk listed; one it has is left alone.
Visit(d) ==
    /\ walk # None /\ d \in walk.listed
    /\ IF d \in exists
       THEN /\ walk' = Walking(walk.listed \ {d}, walk.stack \cup {d})
            /\ known' = known \cup {d}
            /\ native' = IF d \in known THEN native ELSE native \cup {d}
            /\ UNCHANGED <<pending, gaveUp>>
       ELSE /\ EndWalk(TRUE)
            /\ UNCHANGED <<known, native>>
    /\ UNCHANGED <<tree, events, stopped, unseen>>

\* Opens and lists the next directory of the stack.
Open(d) ==
    /\ walk # None /\ walk.listed = {} /\ d \in walk.stack
    /\ IF d \in exists
       THEN /\ walk' = Walking(Children[d] \cap exists, walk.stack \ {d})
            /\ UNCHANGED <<pending, gaveUp>>
       ELSE EndWalk(TRUE)
    /\ UNCHANGED <<tree, events, native, known, stopped, unseen>>

FinishWalk ==
    /\ walk = Walking({}, {})
    /\ EndWalk(FALSE)
    /\ UNCHANGED <<tree, events, native, known, stopped, unseen>>

\* The timer fires and onChange is called; every event starts the timer anew,
\* so that it may fire at any time.
ReportChanges ==
    /\ walk = None /\ pending
    /\ pending' = FALSE /\ unseen' = FALSE
    /\ UNCHANGED <<tree, native, events, known, walk, stopped, gaveUp>>

-----------------------------------------------------------------------------
\* addInitialPaths has watched the tree as it is.
Init ==
    /\ exists \in {{Root} \cup more : more \in SUBSET Dirs}
    /\ \A d \in exists : Parents(d) \subseteq exists
    /\ edits = 0
    /\ native = exists /\ known = exists
    /\ events = {} /\ walk = None
    /\ pending = FALSE /\ stopped = FALSE
    /\ unseen = FALSE /\ gaveUp = FALSE

Next ==
    \/ \E d \in Dirs :
        \/ Write(d)
        \/ \E held \in SUBSET Children[d] : Create(d, held)
        \/ Remove(d)
        \/ Visit(d)
        \/ Open(d)
    \/ \E e \in events : TakeWrite(e) \/ TakeRemove(e) \/ TakeCreate(e)
    \/ FinishWalk
    \/ ReportChanges

Spec == Init /\ [][Next]_vars

-----------------------------------------------------------------------------
(* Properties *)

Idle == events = {} /\ walk = None /\ ~pending

\* The types; a directory is only known with its parents, which is what lets
\* forgetPath find everything below a path (watcher.go:340-361); a loop that
\* returned watches nothing.
TypeOK ==
    /\ exists \in SUBSET Dirs
    /\ edits \in 0 .. MaxEdits
    /\ native \subseteq exists /\ native \subseteq known
    /\ events \in SUBSET Changes /\ \A e, f \in events : e.at = f.at => e = f
    /\ known \in SUBSET Dirs
    /\ walk \in Walks \cup {None}
    /\ pending \in BOOLEAN /\ stopped \in BOOLEAN
    /\ stopped => native = {} /\ events = {} /\ walk = None /\ ~pending
    /\ unseen \in BOOLEAN /\ gaveUp \in BOOLEAN
    /\ \A d \in known : Parents(d) \subseteq known

\* Once the loop has nothing left to do it has reported every change and
\* watches every directory, those included that came, went and came back
\* while it was busy with earlier events, unless a walk gave up or an error of
\* native.Remove ended the loop (watcher.go:174-228, 278-304, 346-360).
NothingMissed == Idle => gaveUp \/ stopped \/ (~unseen /\ native = exists)

=============================================================================
