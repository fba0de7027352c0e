--------------------------- MODULE ClusterLifecycle ---------------------------
(***************************************************************************)
(* The life of one cluster name: the API handlers, the creation and the     *)
(* destruction workflow, the platform's event handlers and AWS, interleaved *)
(* step by step.                                                            *)
(***************************************************************************)
EXTENDS ClusterApi, ClusterCreation, ClusterDestruction, PlatformEvents

Next == ApiStep \/ CreationNext \/ DestructionNext \/ PlatformNext

Spec == Init /\ [][Next]_vars

\* Step Functions runs every execution on, Lambda runs a request it has
\* accepted to its end, EventBridge delivers, and AWS finishes what it began.
ServiceFairness ==
    /\ \A c \in Creations : /\ WF_vars(CreationStep(c))
                            /\ WF_vars(EventStep(c))
                            /\ WF_vars(Service(c))
    /\ \A d \in Destructions : WF_vars(DestructionStep(d))
    /\ \A k \in Clients :
          /\ WF_vars(\/ PutCreating(k) \/ SetDestroying(k) \/ RefuseDelete(k)
                     \/ SetForceFailed(k))
          /\ WF_vars(\E c \in Creations : StartCreation(k, c))
          /\ WF_vars(\E d \in Destructions : StartDestruction(k, d))

FairSpec == Spec /\ ServiceFairness

-----------------------------------------------------------------------------
(* A record in CREATING has a workflow that will move it on: a running      *)
(* creation, a request about to start one, or a failure event on its way.   *)
(* cluster-operations.ts (574-604) and mark_cluster_failed_from_event are    *)
(* there so that "the record never stays stuck in CREATING"; the exceptions *)
(* are the failures recorded in lost.                                       *)
CreatingHasWorkflow ==
    \A p \in Projects :
        rec[p].status = "CREATING" => CreationPending(p) \/ p \in lost

(* The same for DESTROYING: only a failed start, a two hour timeout or a    *)
(* failed write of DESTRUCTION_FAILED leaves a record in it with nobody at  *)
(* work (record_cluster_destruction_failed, handler.py 559-624).            *)
DestroyingHasWorkflow ==
    \A p \in Projects :
        rec[p].status = "DESTROYING" => DestructionPending(p) \/ p \in lost

Executions(p) ==
    {c \in Creations : RunsCreation(c, p)}
        \cup {d \in Destructions : RunsDestruction(d, p)}

(* At most one workflow, of either kind, runs for a project's cluster: the  *)
(* conditional update of the delete handler and the status checks of the    *)
(* others are all that keeps them apart (handler.py 460-690).               *)
OneWorkflow ==
    \A p \in Projects : Cardinality(Executions(p)) <= 1

Usable(p) ==
    LET r == rec[p] IN
    /\ pcs[r.pcs] = "active"
    /\ \A s \in SubResources : subs[r.pcs][s] = "up"
    /\ r.mode = "lustre" => r.fsx # None /\ fsx[r.fsx] = "available"
    /\ {"role", "profile", "templates"} \subseteq setup[p]
    /\ r.mode = "mountpoint" => "policy" \in setup[p]
    /\ registry = p
    /\ logs = r.pcs

(* A record says ACTIVE only while everything the cluster needs is there:   *)
(* PCS cluster, node groups, queue, filesystem or S3 policy, IAM objects,   *)
(* launch templates, the registered name, and log delivery (record_cluster  *)
(* writes ACTIVE once and nothing checks again).                            *)
ActiveIsUsable ==
    \A p \in Projects :
        rec[p].status = "ACTIVE" => Usable(p)

Gone(c) == c = None \/ (pcs[c] \in {"none", "deleting"} /\ subs[c] = NoSubs)

(* A destruction that succeeded has deleted all its payload named, however  *)
(* creations adopt or extend the PCS cluster meanwhile (the waits and the   *)
(* refusal in cluster_destruction.py 397-555).                              *)
DestroyedIsGone ==
    \A d \in Destructions :
        des[d].pc = "succeeded"
            => Gone(des[d].pcs) /\ ~HasFsx(d)

HoldsName(p) ==
    \/ rec[p].status = "ACTIVE"
    \/ \E c \in Creations :
          RunsCreation(c, p) /\ cre[c].pc \in Building \ {"register"}

(* While no cluster of the name is destroyed, it belongs to one project:    *)
(* whatever the order in which creations of two projects start, fail and    *)
(* start again, only one project's creations get past the registration      *)
(* (the conditional put of cluster_names.py 55-101, which a rollback leaves  *)
(* in place).                                                               *)
NameIsExclusive ==
    Cardinality({p \in Projects : HoldsName(p)}) <= 1

\* An execution that runs, or a request that is about to start one.
Begun(k, p) == req[k].stage = "written" /\ req[k].proj = p
Workflow(p) ==
    IF \/ \E c \in Creations : RunsCreation(c, p)
       \/ \E k \in Clients : Begun(k, p) /\ req[k].op # "delete"
    THEN "creation"
    ELSE IF \/ \E d \in Destructions : RunsDestruction(d, p)
            \/ \E k \in Clients : Begun(k, p)
    THEN "destruction" ELSE "none"

Status == INSTANCE ClusterStatus WITH
            status <- [p \in Projects |-> rec[p].status],
            workflow <- [p \in Projects |-> Workflow(p)]

(* The implementation follows the documented status life cycle              *)
(* (cluster-management.md 163-172) with one workflow at a time.             *)
FollowsStatusMachine == Status!Spec

(* CREATING ends: in ACTIVE, in FAILED, or by another request.              *)
CreatingSettles ==
    \A p \in Projects :
        rec[p].status = "CREATING" ~> rec[p].status # "CREATING"

(* DESTROYING ends: in DESTROYED or in DESTRUCTION_FAILED.                  *)
DestroyingSettles ==
    \A p \in Projects :
        rec[p].status = "DESTROYING" ~> rec[p].status # "DESTROYING"
=============================================================================
