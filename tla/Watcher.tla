-------------------------------- MODULE Watcher --------------------------------
(***************************************************************************)
(* Watcher.run of internal/watcher/watcher.go: on a platform where         *)
(* fsnotify stands on kqueue the project is polled, on every other one its *)
(* directories are watched.                                                *)
(***************************************************************************)
EXTENDS Naturals

CONSTANTS
    None,
    PollEdits, EventEdits,  \* bounds on the changes of the project
    MaxFaults               \* bound on the I/O errors of the polling

VARIABLES
    kqueue,  \* kqueuePlatform()
    edits,
    \* MetadataPolling
    disk, phase, previous, current, todo, dirs, fallback, failed, faults,
    \* EventWatching
    exists, native, events, known, walk, pending, stopped, unseen, gaveUp

polling == <<disk, phase, previous, current, todo, dirs, fallback, failed, faults>>
watching == <<exists, native, events, known, walk, pending, stopped, unseen, gaveUp>>
vars == <<kqueue, edits, polling, watching>>

Polling == INSTANCE MetadataPolling WITH MaxEdits <- PollEdits
Watching == INSTANCE EventWatching WITH MaxEdits <- EventEdits

ASSUME BoundsAssumption ==
    /\ PollEdits \in Nat /\ MaxFaults \in Nat /\ EventEdits \in Nat
    /\ None \notin Polling!Stamps \cup Watching!Walks

NoPolling ==
    /\ disk = None /\ phase = None /\ previous = None /\ current = None /\ todo = None
    /\ dirs = None /\ fallback = None /\ failed = None /\ faults = None

NoWatching ==
    /\ exists = None /\ native = None /\ events = None /\ known = None
    /\ walk = None /\ pending = None /\ stopped = None
    /\ unseen = None /\ gaveUp = None

\* runPolling, or runLoop after addInitialPaths.
Init ==
    \/ kqueue = TRUE /\ Polling!Init /\ NoWatching
    \/ kqueue = FALSE /\ Watching!Init /\ NoPolling

Poll == kqueue /\ Polling!Poll /\ UNCHANGED <<kqueue, edits, watching>>

Next ==
    \/ kqueue /\ Polling!Next /\ UNCHANGED <<kqueue, watching>>
    \/ ~kqueue /\ Watching!Next /\ UNCHANGED <<kqueue, polling>>

\* Ticks keep coming and a poll goes on.
Spec == Init /\ [][Next]_vars /\ WF_vars(Poll)

-----------------------------------------------------------------------------
(* Properties *)

\* A path the last poll did not know of is announced by a directory above it
\* whose stamp it knew and which has changed since: looking at the known paths
\* alone overlooks nothing (watcher.go:551).
UnknownIsAnnounced == kqueue => Polling!TypeOK /\ Polling!UnknownIsAnnounced

\* Once the files rest every change has been reported, unless the first poll
\* failed, or a file took the place of a directory of the last complete poll
\* (watcher.go:372-448).
ChangesAreReported == <>[](kqueue => Polling!AllReported)

\* Once the event loop has nothing left to do it has reported every change and
\* watches every directory, those included that came, went and came back
\* while it was busy with earlier events, unless a walk gave up or an error of
\* native.Remove ended the loop (watcher.go:174-228, 278-304, 346-360).
NothingMissed == ~kqueue => Watching!TypeOK /\ Watching!NothingMissed

=============================================================================
