--------------------------- MODULE RegistryPromise ---------------------------
(***************************************************************************)
(* What the project registry promises its callers: a mutation that is      *)
(* answered with success is there for good, one that is answered with an   *)
(* error never happened, and one cut off by a crash happened entirely or   *)
(* not at all, which is settled when the registry is read again.           *)
(***************************************************************************)

CONSTANTS Registries, None

VARIABLES
    projects,  \* the registered projects
    pending,   \* what the mutation under way, or cut off, makes of them
    answer     \* how the last mutation ended

Init == projects \in Registries /\ pending = None /\ answer = "none"

Ask ==
    /\ pending = None /\ pending' \in Registries
    /\ answer' = "none"
    /\ UNCHANGED projects

Succeed == pending # None /\ projects' = pending /\ pending' = None /\ answer' = "ok"

Fail == pending # None /\ projects' = projects /\ pending' = None /\ answer' = "failed"

\* The process stops, or finds out what it was doing when it stopped.
Stop ==
    /\ projects' \in {projects, pending} \ {None}
    /\ pending' \in {projects, pending, None}
    /\ answer' = "none"

Next == Ask \/ Succeed \/ Fail \/ Stop

Spec == Init /\ [][Next]_<<projects, pending, answer>>

=============================================================================
