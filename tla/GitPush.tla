------------------------------- MODULE GitPush -------------------------------
(***************************************************************************)
(* Inspector.Push of internal/gitstate/inspector.go: which branch is       *)
(* checked out, what its upstream is, git push of HEAD to that upstream;   *)
(* three commands, between which the user commits and checks out other     *)
(* branches and others push to the remote.                                 *)
(*                                                                         *)
(* A commit is known by the set of commits it contains, itself included.   *)
(***************************************************************************)
EXTENDS Naturals, FiniteSets

CONSTANTS
    Branches,
    Refs,        \* the refs of the remote
    Reqs,        \* requests of the page to push
    None,
    MaxCommits   \* bound on the commits made

VARIABLES
    commits,     \* how many there are
    tip,         \* of every branch
    head,        \* the branch checked out; None: detached
    detached,    \* what is checked out then
    upstream,    \* the configured upstream of every branch, a ref or None
    remote,      \* what every ref of the remote holds
    req

repository == <<commits, tip, head, detached>>
vars == <<repository, upstream, remote, req>>

Errors == {"detached_head", "upstream_missing", "push_failed"}

HeadCommit == IF head = None THEN detached ELSE tip[head]

-----------------------------------------------------------------------------
(* The user and the others *)

NewCommit == commits < MaxCommits /\ commits' = commits + 1

Commit ==
    /\ NewCommit
    /\ IF head = None
       THEN detached' = detached \cup {commits'} /\ UNCHANGED tip
       ELSE tip' = [tip EXCEPT ![head] = @ \cup {commits'}] /\ UNCHANGED detached
    /\ UNCHANGED <<head, upstream, remote, req>>

\* Another branch or, detached, the commit of the present one.
Checkout(b) ==
    /\ b # head /\ head' = b
    /\ detached' = IF b = None THEN HeadCommit ELSE detached
    /\ UNCHANGED <<commits, tip, upstream, remote, req>>

OthersPush(ref) ==
    /\ NewCommit
    /\ remote' = [remote EXCEPT ![ref] = @ \cup {commits'}]
    /\ UNCHANGED <<tip, head, detached, upstream, req>>

\* git pull of the branch checked out.
Pull ==
    /\ head # None /\ upstream[head] # None
    /\ ~(remote[upstream[head]] \subseteq tip[head])
    /\ tip' = [tip EXCEPT ![head] = @ \cup remote[upstream[head]]]
    /\ UNCHANGED <<commits, head, detached, upstream, remote, req>>

-----------------------------------------------------------------------------
(* Push *)

\* wanted and switched are history: what the branch had when the request came,
\* and whether something else was checked out when HEAD was pushed.
Idle == [phase |-> "idle", branch |-> None, ref |-> None, answer |-> None,
         wanted |-> {}, switched |-> FALSE]

Move(r, from, to) ==
    /\ req[r].phase = from
    /\ req' = [req EXCEPT ![r] = to]
    /\ UNCHANGED <<repository, upstream>>

Answer(r, answer) ==
    [req[r] EXCEPT !.phase = "answered", !.answer = answer, !.switched = head # req[r].branch]

\* git branch --show-current
ReadBranch(r) ==
    /\ Move(r, "idle", IF head = None THEN Answer(r, "detached_head")
                       ELSE [req[r] EXCEPT !.phase = "upstream", !.branch = head,
                                           !.wanted = HeadCommit])
    /\ UNCHANGED remote

\* git for-each-ref refs/heads/<branch>
ReadUpstream(r) ==
    /\ Move(r, "upstream", IF upstream[req[r].branch] = None THEN Answer(r, "upstream_missing")
                           ELSE [req[r] EXCEPT !.phase = "push", !.ref = upstream[req[r].branch]])
    /\ UNCHANGED remote

\* git push HEAD:<ref>: refused unless the ref is contained in HEAD.
Accepted(r) == remote[req[r].ref] \subseteq HeadCommit

Update(r) == remote' = [remote EXCEPT ![req[r].ref] = HeadCommit]

PushAnyway(r) ==
    /\ Move(r, "push", Answer(r, "pushed"))
    /\ IF Accepted(r) THEN Update(r) ELSE UNCHANGED remote

PushHead(r) ==
    /\ req[r].phase = "push" /\ Accepted(r)
    /\ Move(r, "push", Answer(r, "pushed"))
    /\ Update(r)

\* Refused, no network, timeout, too much output.
PushFails(r) ==
    /\ Move(r, "push", Answer(r, "push_failed"))
    /\ UNCHANGED remote

\* The remote has it, but the command is killed before it can tell.
PushCut(r) ==
    /\ req[r].phase = "push" /\ Accepted(r)
    /\ Move(r, "push", Answer(r, "push_failed"))
    /\ Update(r)

\* The page has the answer and may push again.
Done(r) ==
    /\ Move(r, "answered", Idle)
    /\ UNCHANGED remote

-----------------------------------------------------------------------------
Init ==
    /\ commits = 0
    /\ tip = [b \in Branches |-> {0}]
    /\ head \in Branches /\ detached = {0}
    /\ upstream \in [Branches -> Refs \cup {None}]
    /\ remote = [ref \in Refs |-> {0}]
    /\ req = [r \in Reqs |-> Idle]

Next ==
    \/ Commit
    \/ \E b \in Branches \cup {None} : Checkout(b)
    \/ \E ref \in Refs : OthersPush(ref)
    \/ Pull
    \/ \E r \in Reqs :
        \/ ReadBranch(r)
        \/ ReadUpstream(r)
        \/ PushHead(r)
        \/ PushFails(r)
        \/ PushCut(r)
        \/ Done(r)

Spec == Init /\ [][Next]_vars

-----------------------------------------------------------------------------
(* Properties *)

\* The types: nothing is pushed from or to nowhere.
TypeOK ==
    /\ commits \in 0 .. MaxCommits
    /\ tip \in [Branches -> SUBSET (0 .. commits)]
    /\ head \in Branches \cup {None} /\ detached \subseteq 0 .. commits
    /\ remote \in [Refs -> SUBSET (0 .. commits)]
    /\ \A r \in Reqs :
        /\ req[r].phase \in {"idle", "upstream", "push", "answered"}
        /\ req[r].phase \in {"upstream", "push"} => req[r].branch \in Branches
        /\ req[r].phase = "push" => req[r].ref \in Refs
        /\ req[r].answer \in Errors \cup {"pushed", None}

\* When the answer is that the branch was pushed, its upstream has everything
\* the branch had when the request came, unless another one was checked out
\* in between (inspector.go:369-427, git.go:139-150).
PushedIsThere ==
    \A r \in Reqs : req[r].answer = "pushed" /\ ~req[r].switched
        => \E ref \in Refs : upstream[req[r].branch] = ref /\ req[r].wanted \subseteq remote[ref]

=============================================================================
