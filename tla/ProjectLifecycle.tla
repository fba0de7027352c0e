--------------------------- MODULE ProjectLifecycle ---------------------------
(***************************************************************************)
(* The lifecycle of one project: the API handlers of                       *)
(* lambda/project_management (handler.py, lifecycle.py, projects.py), the  *)
(* three Step Functions workflows that deploy, update and destroy its      *)
(* infrastructure (project_deploy.py, project_update.py,                   *)
(* project_destroy.py, lib/constructs/project-lifecycle.ts), and the part  *)
(* of cluster creation that depends on the project.  DynamoDB, Cognito,    *)
(* CodeBuild and CloudFormation are modelled as far as these call them.    *)
(***************************************************************************)
EXTENDS ProjectTables, Naturals, FiniteSets

CONSTANTS
    Runs,        \* executions of a workflow, in the order they are started
    Clients,     \* API requests in progress
    Ops,         \* the operations the administrators ask for
    Documented,  \* TRUE: requests are made only as the guides describe
    Faults       \* what may go wrong, a subset of AllFaults

Operations == Workflows \cup {"deactivate", "reactivate", "delete", "cluster"}
AllFaults  == {"start", "step", "build", "record", "timeout", "retry", "cognito"}

ASSUME ConstantsAssumption ==
    /\ Runs \subseteq Nat
    /\ Ops \subseteq Operations
    /\ Documented \in BOOLEAN
    /\ Faults \subseteq AllFaults

VARIABLES
    status,    \* status of the project's record
    infra,     \* the record holds the ids of the infrastructure
    stack,     \* the CloudFormation stack HpcProject-<id>
    clusters,  \* "live": one is ACTIVE or CREATING; "ending": none is, not all DESTROYED
    member,    \* a membership record: "none", "active" or "pending" (PENDING_RESTORATION)
    access,    \* that member is in the project's Cognito group
    runs,      \* executions: kind, next step, CodeBuild build
    reqs,      \* requests: operation and how far its handler is
    lost       \* a workflow ended and could not write the status it ends with

record == <<status, infra>>
cloud  == <<stack, clusters>>
people == <<member, access>>
vars   == <<record, cloud, people, runs, reqs, lost>>

RunPcs   == {"unused", "validate", "build", "record", "finish", "unwind", "ended"}
Builds   == {"none", "running", "ok", "failed"}
NoRun    == [kind |-> "deploy", pc |-> "unused", build |-> "none"]
Stages   == {"idle", "checked", "changed"}
NoReq    == [op |-> "deploy", stage |-> "idle"]

TypeOK ==
    /\ status \in Statuses
    /\ infra \in BOOLEAN /\ access \in BOOLEAN /\ lost \in BOOLEAN
    /\ stack \in {"none", "up", "partial"}
    /\ clusters \in {"none", "live", "ending"}
    /\ member \in {"none", "active", "pending"}
    /\ runs \in [Runs -> [kind : Workflows, pc : RunPcs, build : Builds]]
    /\ reqs \in [Clients -> [op : Operations, stage : Stages]]

Init ==
    /\ status = "ABSENT" /\ infra = FALSE
    /\ stack = "none" /\ clusters = "none"
    /\ member = "none" /\ access = FALSE
    /\ runs = [r \in Runs |-> NoRun]
    /\ reqs = [k \in Clients |-> NoReq]
    /\ lost = FALSE

Running(r)  == runs[r].pc \notin {"unused", "ended"}
IdleClients == {k \in Clients : reqs[k].stage = "idle"}

\* Bound: a workflow is asked for only while an execution is left for it.
RunsLeft ==
    Cardinality({k \in Clients \ IdleClients : reqs[k].op \in Workflows})
        < Cardinality({r \in Runs : runs[r].pc = "unused"})

\* An update_item without a condition creates the item it does not find.
Touched == IF status = "ABSENT" THEN "STUB" ELSE status
Touch   == status' = Touched

\* A conditional transition to `target`: it happens only from a valid source.
CanReach(target) == status \in Sources(target)

-----------------------------------------------------------------------------
(* Requests *)

\* create_project: one conditional put.
CreateProject ==
    /\ IdleClients # {}
    /\ status = "ABSENT"
    /\ status' = "CREATED" /\ infra' = FALSE /\ lost' = FALSE
    /\ UNCHANGED <<cloud, people, runs, reqs>>

\* Mutant of ActiveClusters: clusters still being created are forgotten, as in a
\* filter on the statuses of clusters that are going away.
EndingClusters == clusters = "ending"

\* _get_active_clusters: some cluster is ACTIVE or CREATING.
ActiveClusters == clusters = "live"

\* The checks a handler makes before it changes anything.
Admits(op) ==
    CASE op \in {"deploy", "update"} -> status = Before[op]
      [] op = "destroy"              -> ~ActiveClusters
      [] op = "deactivate"           -> status = "ACTIVE" /\ clusters = "none"
      [] op = "reactivate"           -> status = "ARCHIVED"
      [] op = "delete"               -> status # "ABSENT" /\ ~ActiveClusters
      [] op = "cluster"              -> status # "ABSENT" /\ infra

\* The guides tell administrators to destroy a project's infrastructure before
\* they delete it, and offer no cluster in a project that is not ACTIVE.  They
\* say of the three workflows alone that requests may race.
Exclusive == Operations \ Workflows
AsDocumented(k, op) ==
    /\ op = "delete"  => status \in {"CREATED", "ARCHIVED"} /\ ~infra
    /\ op = "cluster" => status = "ACTIVE"
    /\ \A j \in Clients \ (IdleClients \cup {k}) : {op, reqs[j].op} \cap Exclusive = {}

Ask(k, op) ==
    /\ reqs[k].stage = "idle"
    /\ op \in Workflows => RunsLeft
    /\ Admits(op)
    /\ Documented => AsDocumented(k, op)
    /\ reqs' = [reqs EXCEPT ![k] = [op |-> op, stage |-> "checked"]]
    /\ UNCHANGED <<record, cloud, people, runs, lost>>

Goto(k, stage) == reqs' = [reqs EXCEPT ![k].stage = stage]

\* Mutant of BeginWorkflow: the status is tested at the read only.
BeginAnyway(k) ==
    /\ reqs[k].op \in Workflows /\ reqs[k].stage = "checked"
    /\ status' = Transitional[reqs[k].op]
    /\ lost' = FALSE
    /\ Goto(k, "changed")
    /\ UNCHANGED <<infra, cloud, people, runs>>

\* The transition that makes the request the owner of the record.
BeginWorkflow(k) ==
    /\ reqs[k].op \in Workflows /\ reqs[k].stage = "checked"
    /\ CanReach(Transitional[reqs[k].op])
    /\ status' = Transitional[reqs[k].op]
    /\ lost' = FALSE
    /\ Goto(k, "changed")
    /\ UNCHANGED <<infra, cloud, people, runs>>

\* ConflictError: another request changed the status since it was read.
Conflict(k) ==
    /\ reqs[k].op \in Workflows /\ reqs[k].stage = "checked"
    /\ ~CanReach(Transitional[reqs[k].op])
    /\ Goto(k, "idle")
    /\ UNCHANGED <<record, cloud, people, runs, lost>>

\* The initial progress, which destroy_project writes with the transition, and
\* start_execution.
StartRun(k) ==
    /\ reqs[k].op \in Workflows /\ reqs[k].stage = "changed"
    /\ IF reqs[k].op = "destroy" THEN status' \in {status, Touched} ELSE Touch
    /\ \E r \in Runs :
          /\ runs[r].pc = "unused"
          /\ \A s \in Runs : runs[s].pc = "unused" => r <= s
          /\ runs' = [runs EXCEPT ![r] = [kind |-> reqs[k].op, pc |-> "validate",
                                          build |-> "none"]]
    /\ Goto(k, "idle")
    /\ UNCHANGED <<infra, cloud, people, lost>>

\* The progress write raises, or start_execution does and the exception is
\* logged: the record stays in transition and no execution owns it.
StartFails(k) ==
    /\ "start" \in Faults
    /\ reqs[k].op \in Workflows /\ reqs[k].stage = "changed"
    /\ status' \in {status, Touched}
    /\ lost' = TRUE
    /\ Goto(k, "idle")
    /\ UNCHANGED <<infra, cloud, people, runs>>

\* deactivate_project deletes the Cognito groups; a failure is logged and the
\* handler goes on.
RevokeAccess(k) ==
    /\ reqs[k].op = "deactivate" /\ reqs[k].stage = "checked"
    /\ \/ access' = FALSE
       \/ "cognito" \in Faults /\ UNCHANGED access
    /\ Goto(k, "changed")
    /\ UNCHANGED <<record, cloud, member, runs, lost>>

\* Mutant of RestoreAccess: the groups are recreated and left empty.
RestoreGroups(k) ==
    /\ reqs[k].op = "reactivate" /\ reqs[k].stage = "checked"
    /\ Goto(k, "changed")
    /\ UNCHANGED <<record, cloud, people, runs, lost>>

\* reactivate_project recreates the groups and adds each member to its own; a
\* member that cannot be added is marked PENDING_RESTORATION.
RestoreAccess(k) ==
    /\ reqs[k].op = "reactivate" /\ reqs[k].stage = "checked"
    /\ \/ /\ member' = IF member = "none" THEN "none" ELSE "active"
          /\ access' = (access \/ member # "none")
       \/ /\ "cognito" \in Faults /\ member # "none"
          /\ member' = "pending"
          /\ UNCHANGED access
    /\ Goto(k, "changed")
    /\ UNCHANGED <<record, cloud, runs, lost>>

\* create_group raises anything but GroupExistsException: nothing has changed.
RestoreFails(k) ==
    /\ "cognito" \in Faults
    /\ reqs[k].op = "reactivate" /\ reqs[k].stage = "checked"
    /\ Goto(k, "idle")
    /\ UNCHANGED <<record, cloud, people, runs, lost>>

\* The last step of both: the transition, or a ConflictError that leaves the
\* groups as they have been changed.
EndChange(k) ==
    LET target == IF reqs[k].op = "deactivate" THEN "ARCHIVED" ELSE "ACTIVE" IN
    /\ reqs[k].op \in {"deactivate", "reactivate"} /\ reqs[k].stage = "changed"
    /\ status' = IF CanReach(target) THEN target ELSE status
    /\ Goto(k, "idle")
    /\ UNCHANGED <<infra, cloud, people, runs, lost>>

\* delete_project removes the membership records and then the project's; it
\* touches neither the stack nor the Cognito groups.
DeleteMembers(k) ==
    /\ reqs[k].op = "delete" /\ reqs[k].stage = "checked"
    /\ member' = "none"
    /\ Goto(k, "changed")
    /\ UNCHANGED <<record, cloud, access, runs, lost>>

DeleteRecord(k) ==
    /\ reqs[k].op = "delete" /\ reqs[k].stage = "changed"
    /\ status' = "ABSENT" /\ infra' = FALSE
    /\ Goto(k, "idle")
    /\ UNCHANGED <<cloud, people, runs, lost>>

\* _start_cluster_creation writes the CREATING record of a cluster, and looks
\* at nothing of the project but the infrastructure it has read.
PutCluster(k) ==
    /\ reqs[k].op = "cluster" /\ reqs[k].stage = "checked"
    /\ clusters' = "live"
    /\ Goto(k, "idle")
    /\ UNCHANGED <<record, stack, people, runs, lost>>

\* add_member, for a user that is no member yet.
AddMember ==
    /\ IdleClients # {}
    /\ status # "ABSENT" /\ member = "none"
    /\ member' = "active" /\ access' = TRUE
    /\ UNCHANGED <<record, cloud, runs, reqs, lost>>

-----------------------------------------------------------------------------
(* The steps of a workflow, each with the progress it writes *)

Step(r, from, to) ==
    /\ runs[r].pc = from
    /\ runs' = [runs EXCEPT ![r].pc = to]

\* consolidated_pre_loop: validate the state, and start the CodeBuild build.
ValidateAndStart(r) ==
    /\ runs[r].pc = "validate"
    /\ Touch
    /\ LET valid == /\ status = Transitional[runs[r].kind]
                    /\ runs[r].kind = "destroy" => clusters # "live"
       IN runs' = [runs EXCEPT ![r].pc = IF valid THEN "build" ELSE "unwind",
                               ![r].build = IF valid THEN "running" ELSE "none"]
    /\ UNCHANGED <<infra, cloud, people, reqs, lost>>

\* CodeBuild runs `cdk deploy` or `cdk destroy` to its end, whatever becomes of
\* the execution that started it.  A failed deploy is rolled back by
\* CloudFormation; a failed destroy may have removed part of the stack.
BuildEnds(r) ==
    /\ runs[r].build = "running"
    /\ \/ /\ runs' = [runs EXCEPT ![r].build = "ok"]
          /\ stack' = IF runs[r].kind = "destroy" THEN "none" ELSE "up"
       \/ /\ "build" \in Faults
          /\ runs' = [runs EXCEPT ![r].build = "failed"]
          /\ stack' \in {stack} \cup (IF runs[r].kind = "destroy" THEN {"partial"} ELSE {})
    /\ UNCHANGED <<record, clusters, people, reqs, lost>>

\* Mutants of CheckBuild: a failed build counts as one in progress; the answer
\* of CodeBuild is taken for the next step.
PollFailed(r) ==
    /\ runs[r].pc = "build"
    /\ Touch
    /\ runs' = [runs EXCEPT ![r].pc = IF runs[r].build = "ok" THEN "record" ELSE "build"]
    /\ UNCHANGED <<infra, cloud, people, reqs, lost>>
StepFromBuild(r) ==
    /\ runs[r].pc = "build"
    /\ Touch
    /\ runs' = [runs EXCEPT ![r].pc = runs[r].build]
    /\ UNCHANGED <<infra, cloud, people, reqs, lost>>

\* check_*_status: poll until the build ends; a failed build raises.
CheckBuild(r) ==
    /\ runs[r].pc = "build"
    /\ Touch
    /\ runs' = [runs EXCEPT ![r].pc = IF runs[r].build = "ok" THEN "record"
                                     ELSE IF runs[r].build = "failed" THEN "unwind"
                                     ELSE "build"]
    /\ UNCHANGED <<infra, cloud, people, reqs, lost>>

\* consolidated_post_loop: deploy and update read the outputs of the stack and
\* write them to the record, destroy clears them ...
RecordInfra(r) ==
    /\ runs[r].pc = "record"
    /\ Touch
    /\ IF runs[r].kind # "destroy" /\ stack = "none"
       THEN Step(r, "record", "unwind") /\ UNCHANGED infra
       ELSE Step(r, "record", "finish") /\ infra' = (runs[r].kind # "destroy")
    /\ UNCHANGED <<cloud, people, reqs, lost>>

\* ... and the transition to the status of success.  Step Functions may invoke
\* the Lambda function again when the answer of a completed call is lost.
Finish(r) ==
    /\ CanReach(Target[runs[r].kind])
    /\ status' = Target[runs[r].kind]
    /\ Step(r, "finish", "ended") \/ ("retry" \in Faults /\ Step(r, "finish", "record"))
    /\ UNCHANGED <<infra, cloud, people, reqs, lost>>

FinishConflict(r) ==
    /\ ~CanReach(Target[runs[r].kind])
    /\ Step(r, "finish", "unwind")
    /\ UNCHANGED <<record, cloud, people, reqs, lost>>

\* Mutant of StepFails: a step without a Catch ends the execution.
StepUncaught(r) ==
    /\ "step" \in Faults
    /\ \E pc \in {"validate", "build", "record", "finish"} : Step(r, pc, "ended")
    /\ UNCHANGED <<record, cloud, people, reqs, lost>>

\* Any step up to the last may raise, and is caught by the failure handler.
StepFails(r) ==
    /\ "step" \in Faults
    /\ \E pc \in {"validate", "build", "record", "finish"} : Step(r, pc, "unwind")
    /\ UNCHANGED <<record, cloud, people, reqs, lost>>

\* handle_*_failure: the transition back, when the status still allows it; an
\* exception of the transition is logged and nothing is written.
Unwind(r) ==
    /\ Step(r, "unwind", "ended")
    /\ \/ /\ status' = IF CanReach(Fallback[runs[r].kind])
                       THEN Fallback[runs[r].kind] ELSE status
          /\ UNCHANGED lost
       \/ "record" \in Faults /\ lost' = TRUE /\ UNCHANGED status
    /\ UNCHANGED <<infra, cloud, people, reqs>>

\* The two hours of an execution are over; no state catches it.
TimeOut(r) ==
    /\ "timeout" \in Faults
    /\ Running(r)
    /\ runs' = [runs EXCEPT ![r].pc = "ended"]
    /\ lost' = TRUE
    /\ UNCHANGED <<record, cloud, people, reqs>>

-----------------------------------------------------------------------------
\* The clusters of the project are destroyed, or fail, in their own lifecycle.
ClusterEnds ==
    /\ \/ clusters = "live" /\ clusters' = "ending"
       \/ clusters = "ending" /\ clusters' = "none"
    /\ UNCHANGED <<record, stack, people, runs, reqs, lost>>

Request(k) ==
    \/ BeginWorkflow(k) \/ Conflict(k) \/ StartRun(k) \/ StartFails(k)
    \/ RevokeAccess(k) \/ RestoreAccess(k) \/ RestoreFails(k) \/ EndChange(k)
    \/ DeleteMembers(k) \/ DeleteRecord(k) \/ PutCluster(k)

Progress(r) ==
    \/ ValidateAndStart(r) \/ CheckBuild(r) \/ RecordInfra(r)
    \/ Finish(r) \/ FinishConflict(r) \/ Unwind(r)

Next ==
    \/ CreateProject \/ AddMember \/ ClusterEnds
    \/ \E k \in Clients : Request(k) \/ \E op \in Ops : Ask(k, op)
    \/ \E r \in Runs : Progress(r) \/ BuildEnds(r) \/ StepFails(r) \/ TimeOut(r)

Spec == Init /\ [][Next]_vars

\* A handler that Lambda has begun goes on to its end, Step Functions schedules
\* the next step of every execution, and a CodeBuild build has a time limit.
FairSpec ==
    /\ Spec
    /\ \A k \in Clients : WF_vars(Request(k))
    /\ \A r \in Runs : WF_vars(Progress(r)) /\ WF_vars(BuildEnds(r))

-----------------------------------------------------------------------------
(* Properties *)

\* A project in DEPLOYING, UPDATING or DESTROYING has the request that has just
\* moved it there or an execution of the same workflow that has not ended:
\* nothing else would ever move it on (handler.py:385-616).
Owns(k, s) == /\ reqs[k].op \in Workflows /\ reqs[k].stage = "changed"
              /\ Transitional[reqs[k].op] = s
TransitionalHasWorkflow ==
    status \in InTransition =>
        \/ lost
        \/ \E k \in Clients : Owns(k, status)
        \/ \E r \in Runs : Running(r) /\ Transitional[runs[r].kind] = status

\* At most one workflow works on a project, however requests for the three
\* race: their transitions are conditional writes (lifecycle.py:62-150,
\* handler.py:456-545).
OneProjectWorkflow == \A r, s \in Runs : Running(r) /\ Running(s) => r = s

\* A project that is being destroyed has no cluster that is ACTIVE or CREATING:
\* the handler's check comes before its transition, and nothing keeps a cluster
\* from being created between the two (handler.py:456-545).
DestroyingHasNoCluster == status = "DESTROYING" => clusters # "live"

\* In an ACTIVE project that nobody is deactivating or reactivating, a member
\* who is not marked PENDING_RESTORATION is in the Cognito group of its role,
\* whatever the project has been through (lifecycle.py:153-381).
MembersHaveAccess ==
    /\ status = "ACTIVE" /\ member = "active"
    /\ \A k \in Clients : reqs[k].stage = "idle"
    => access

\* The workflow that owns the record.
Owner ==
    IF \E r \in Runs : Running(r)
    THEN runs[CHOOSE r \in Runs : Running(r)].kind
    ELSE IF \E k \in Clients, s \in InTransition : Owns(k, s)
    THEN reqs[CHOOSE k \in Clients : \E s \in InTransition : Owns(k, s)].op
    ELSE "none"

\* Every change of the status is one that the lifecycle promises: see
\* ProjectStatus (lifecycle.py:31-150 and the six failure and success steps).
Machine == INSTANCE ProjectStatus WITH workflow <- Owner
FollowsProjectMachine == Machine!Spec

\* A project leaves DEPLOYING, UPDATING or DESTROYING: every failure of a step or
\* of a build reaches the failure handler (project-lifecycle.ts:139-145).  The
\* faults "start", "record" and "timeout" are those that no handler catches.
TransitionalSettles == status \in InTransition ~> status \notin InTransition
=============================================================================
