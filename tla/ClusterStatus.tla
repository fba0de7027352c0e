---------------------------- MODULE ClusterStatus ----------------------------
(***************************************************************************)
(* What the platform promises about a cluster's status: the documented      *)
(* life cycle, driven by at most one workflow at a time.                    *)
(***************************************************************************)
CONSTANT Projects
VARIABLES status, workflow

Statuses == {"ABSENT", "CREATING", "ACTIVE", "FAILED", "DESTROYING",
             "DESTRUCTION_FAILED", "DESTROYED"}

Step(p, from, w, to, next) ==
    /\ status[p] \in from /\ workflow[p] = w
    /\ status' = [status EXCEPT ![p] = to]
    /\ workflow' = [workflow EXCEPT ![p] = next]

Init ==
    /\ status = [p \in Projects |-> "ABSENT"]
    /\ workflow = [p \in Projects |-> "none"]

\* Create and recreate are accepted while nothing runs for the cluster.
AcceptCreate(p) ==
    Step(p, {"ABSENT", "DESTROYED"}, "none", "CREATING", "creation")
Created(p) == Step(p, {"CREATING"}, "creation", "ACTIVE", "none")
CreateFailed(p) == Step(p, {"CREATING"}, "creation", "FAILED", "none")

AcceptDestroy(p) ==
    Step(p, {"ACTIVE", "FAILED", "DESTRUCTION_FAILED"}, "none",
         "DESTROYING", "destruction")
Destroyed(p) == Step(p, {"DESTROYING"}, "destruction", "DESTROYED", "none")
DestroyFailed(p) ==
    Step(p, {"DESTROYING"}, "destruction", "DESTRUCTION_FAILED", "none")

\* A workflow ends without writing the status; a creation is then settled by
\* the failure event or by hand.
Abandoned(p) ==
    \/ Step(p, {"CREATING"}, "creation", "CREATING", "none")
    \/ Step(p, {"DESTROYING"}, "destruction", "DESTROYING", "none")
Settled(p) == Step(p, {"CREATING"}, "none", "FAILED", "none")

Next ==
    \E p \in Projects :
        \/ AcceptCreate(p) \/ Created(p) \/ CreateFailed(p)
        \/ AcceptDestroy(p) \/ Destroyed(p) \/ DestroyFailed(p)
        \/ Abandoned(p) \/ Settled(p)

Spec == Init /\ [][Next]_<<status, workflow>>
=============================================================================
