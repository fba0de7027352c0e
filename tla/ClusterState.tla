---------------------------- MODULE ClusterState ----------------------------
(***************************************************************************)
(* The state shared by everything that touches one cluster name: the       *)
(* DynamoDB items, the API requests in progress, the Step Functions        *)
(* executions, and the AWS resources they create and delete.               *)
(*                                                                         *)
(* One cluster name is modelled.  The Clusters table is keyed by project   *)
(* and name, so it holds one record per project for that name; the name    *)
(* registry holds one item for it, and PCS knows at most one cluster of    *)
(* that name.  A resource is identified by the creation execution that     *)
(* made it.                                                                *)
(***************************************************************************)
EXTENDS Naturals, FiniteSets

CONSTANTS
    Projects,       \* projects that use the name
    Creations,      \* creation executions that can be started (the bound)
    Destructions,   \* destruction executions that can be started (the bound)
    Clients,        \* API requests that can be in progress at once (the bound)
    Modes,          \* storage modes in use
    Ops,            \* operations users (and the schedule) may invoke
    Documented,     \* TRUE: users keep to the documented use of the API
    Faults,         \* kinds of failure that may occur
    None

StorageModes == {"lustre", "mountpoint"}
Operations == {"create", "recreate", "delete", "fail", "sweep"}
FaultKinds == {"step", "late", "progress", "rollback", "record", "event",
               "start", "timeout", "retry", "export"}

ASSUME ConstantsAssumption ==
    /\ Modes \subseteq StorageModes
    /\ Ops \subseteq Operations
    /\ Documented \in BOOLEAN
    /\ Faults \subseteq FaultKinds
    /\ None \notin Projects \cup Creations

VARIABLES
    rec,        \* Clusters table: project -> record for the name
    registry,   \* ClusterNameRegistry: the project the name is registered to
    req,        \* API requests in progress
    cre,        \* creation executions
    des,        \* destruction executions
    events,     \* EventBridge failure events not yet handled
    judged,     \* events whose handler has read the record as CREATING
    orphans,    \* filesystems the FSx cleanup has classified as orphaned
    pcs,        \* PCS clusters, by the creation that made them
    subs,       \* node groups and queue of each PCS cluster
    fsx,        \* FSx filesystems, by the creation that made them
    setup,      \* project -> IAM and EC2 objects named after the cluster
    logs,       \* PCS cluster the name's log delivery sources point to
    lost        \* history: records whose workflow is gone for good

table == <<rec, registry>>
flows == <<cre, des>>
cloud == <<pcs, subs, fsx, setup, logs>>
queues == <<events, judged, orphans>>
vars == <<rec, registry, req, cre, des, events, judged, orphans,
          pcs, subs, fsx, setup, logs, lost>>

-----------------------------------------------------------------------------
(* The DynamoDB record.  The resource ids are those record_cluster stores;  *)
(* the node group and queue ids are stored with the PCS cluster id.         *)

Statuses == {"ABSENT", "CREATING", "ACTIVE", "FAILED", "DESTROYING",
             "DESTRUCTION_FAILED", "DESTROYED"}
Id == Creations \cup {None}

Record == [status : Statuses, pcs : Id, fsx : Id, mode : StorageModes]
NoRecord == [status |-> "ABSENT", pcs |-> None, fsx |-> None,
             mode |-> "mountpoint"]

\* An update_item that sets the status and keeps the other fields.
SetStatus(p, s) == rec' = [rec EXCEPT ![p].status = s]

\* _update_step_progress sets the status whatever it was; an error it meets
\* is logged and the step goes on.
StepProgress(p, s) ==
    \/ SetStatus(p, s)
    \/ "progress" \in Faults /\ UNCHANGED rec

-----------------------------------------------------------------------------
(* Creation executions.  While pc = "parallel" the fields sto, ctl and lt   *)
(* say how far the storage, PCS cluster and launch template branches are.   *)

Building == {"register", "prepare", "parallel", "loginGroup", "computeGroup",
             "waitGroups", "queue", "record"}
Unwinding == {"rollback", "recordFailed", "markFailed"}
CreationRunning == Building \cup Unwinding
Branches == {"sto", "ctl", "lt"}
Groups == {"login", "compute"}

CreationOf(p, m, l) ==
    [pc |-> l, proj |-> p, mode |-> m,
     sto |-> "todo", ctl |-> "todo", lt |-> "todo",
     pcs |-> None, fsx |-> None, groups |-> {}, late |-> {}]

UnusedCreation == CreationOf(None, "mountpoint", "unused")

StartedCreation ==
    [pc : CreationRunning \cup {"succeeded", "failed"},
     proj : Projects, mode : StorageModes,
     sto : {"todo", "wait", "link", "done"},
     ctl : {"todo", "wait", "logs", "done"},
     lt : {"todo", "done"},
     pcs : Id, fsx : Id, groups : SUBSET Groups, late : SUBSET Branches]
Creation == {UnusedCreation} \cup StartedCreation

\* The execution ends; calls it left in flight may still land.
EndedCreation(c, l) ==
    [CreationOf(cre[c].proj, cre[c].mode, l) EXCEPT !.late = cre[c].late]

RunsCreation(c, p) == cre[c].proj = p /\ cre[c].pc \in CreationRunning

-----------------------------------------------------------------------------
(* Destruction executions and their payload.                               *)

DestructionRunning == {"export", "exportWait", "pcsSubs", "subsWait",
                       "pcsCluster", "storage", "cleanup", "deregister",
                       "record", "recordFailed"}

UnusedDestruction ==
    [pc |-> "unused", proj |-> None, pcs |-> None, fsx |-> None,
     mode |-> "mountpoint", export |-> "none"]

StartedDestruction ==
    [pc : DestructionRunning \cup {"succeeded", "failed", "timedOut"},
     proj : Projects, pcs : Id, fsx : Id, mode : StorageModes,
     export : {"none", "running", "done", "failed"}]
Destruction == {UnusedDestruction} \cup StartedDestruction

RunsDestruction(d, p) == des[d].proj = p /\ des[d].pc \in DestructionRunning

-----------------------------------------------------------------------------
(* API requests: "checked" has read the record, "written" has changed it    *)
(* and still has to start the execution.                                    *)

NoRequest == [op |-> "none", stage |-> "idle", proj |-> None,
              pcs |-> None, fsx |-> None, mode |-> "mountpoint"]

OpenRequest ==
    [op : {"create", "recreate", "delete", "fail"},
     stage : {"checked", "written"}, proj : Projects,
     pcs : Id, fsx : Id, mode : StorageModes]
Request == {NoRequest} \cup OpenRequest

-----------------------------------------------------------------------------
(* AWS resources.                                                          *)

SubResources == Groups \cup {"queue"}
NoSubs == [s \in SubResources |-> "none"]
SetupObjects == {"role", "profile", "policy", "templates"}

\* The PCS cluster that has the name, if any.
Named == {c \in Creations : pcs[c] # "none"}

\* What is left under the PCS cluster an id names (nothing, if it is empty).
SubsOf(id) == IF id = None THEN NoSubs ELSE subs[id]

\* The record of p has a workflow, or something that will settle it.
CreationPending(p) ==
    \/ \E c \in Creations : RunsCreation(c, p)
    \/ \E c \in events \cup judged : cre[c].proj = p
    \/ \E k \in Clients : /\ req[k].op \in {"create", "recreate"}
                          /\ req[k].stage = "written"
                          /\ req[k].proj = p

DestructionPending(p) ==
    \/ \E d \in Destructions : RunsDestruction(d, p)
    \/ \E k \in Clients : /\ req[k].op = "delete"
                          /\ req[k].stage = "written"
                          /\ req[k].proj = p

(* Every variable holds a value of its kind; only the event of an execution *)
(* that has ended as failed is on its way or being handled (EventBridge     *)
(* matches executions that ended).                                          *)
TypeOK ==
    /\ rec \in [Projects -> Record]
    /\ registry \in Projects \cup {None}
    /\ req \in [Clients -> Request]
    /\ cre \in [Creations -> Creation]
    /\ des \in [Destructions -> Destruction]
    /\ events \cup judged \subseteq {c \in Creations : cre[c].pc = "failed"}
    /\ orphans \subseteq Creations
    /\ pcs \in [Creations -> {"none", "creating", "active", "deleting"}]
    /\ subs \in [Creations -> [SubResources -> {"none", "up", "deleting"}]]
    /\ fsx \in [Creations -> {"none", "creating", "available"}]
    /\ setup \in [Projects -> SUBSET SetupObjects]
    /\ logs \in Id
    /\ lost \subseteq Projects

Init ==
    /\ rec = [p \in Projects |-> NoRecord]
    /\ registry = None
    /\ req = [k \in Clients |-> NoRequest]
    /\ cre = [c \in Creations |-> UnusedCreation]
    /\ des = [d \in Destructions |-> UnusedDestruction]
    /\ events = {} /\ judged = {} /\ orphans = {}
    /\ pcs = [c \in Creations |-> "none"]
    /\ subs = [c \in Creations |-> NoSubs]
    /\ fsx = [c \in Creations |-> "none"]
    /\ setup = [p \in Projects |-> {}]
    /\ logs = None
    /\ lost = {}
=============================================================================
