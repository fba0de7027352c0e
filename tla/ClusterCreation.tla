--------------------------- MODULE ClusterCreation ---------------------------
(***************************************************************************)
(* The creation state machine (cluster-operations.ts) and its steps         *)
(* (cluster_creation.py).  A step first writes its progress, which sets the *)
(* status to CREATING whatever it was, then does its work.  A step that     *)
(* raises takes the execution to the rollback; a Parallel state that fails  *)
(* hands the rollback the input it had, without the ids its branches made.  *)
(***************************************************************************)
EXTENDS ClusterState

At(c, l) == cre[c].pc = l
Goto(c, l) == cre' = [cre EXCEPT ![c].pc = l]
Progress(c) == StepProgress(cre[c].proj, "CREATING")

\* Create calls the failing step may have left in flight: they land later,
\* and nobody keeps the id they return.
InFlight(c) ==
    IF "late" \in Faults /\ At(c, "parallel")
    THEN {b \in Branches : cre[c][b] = "todo"} ELSE {}

\* The step raises; its state's Catch goes to HandleCreationFailure.
ToRollback(c) ==
    \E L \in SUBSET InFlight(c) :
        cre' = [cre EXCEPT ![c] =
                  [CreationOf(@.proj, @.mode, "rollback") EXCEPT
                     !.late = L,
                     !.groups = cre[c].groups,
                     !.pcs = IF At(c, "parallel") THEN None ELSE cre[c].pcs,
                     !.fsx = IF At(c, "parallel") THEN None ELSE cre[c].fsx]]

Raise(c) ==
    /\ Progress(c)
    /\ ToRollback(c)
    /\ UNCHANGED <<registry, req, des, cloud, queues, lost>>

\* Any step may raise: an AWS error, a failed check or a poll limit.
StepFails(c) ==
    /\ "step" \in Faults
    /\ cre[c].pc \in Building
    /\ Raise(c)

-----------------------------------------------------------------------------
(* ConsolidatedPreParallel.                                                 *)

\* Mutant of RegisterName: the name is put whoever has it.
RegisterAnyway(c) ==
    /\ At(c, "register")
    /\ Progress(c)
    /\ registry' = cre[c].proj
    /\ Goto(c, "prepare")
    /\ UNCHANGED <<req, des, cloud, queues, lost>>

RegisterName(c) ==
    /\ At(c, "register")
    /\ registry \in {None, cre[c].proj}
    /\ Progress(c)
    /\ registry' = cre[c].proj
    /\ Goto(c, "prepare")
    /\ UNCHANGED <<req, des, cloud, queues, lost>>

NameTaken(c) ==
    /\ At(c, "register")
    /\ registry \notin {None, cre[c].proj}
    /\ Raise(c)

\* The budget and the template are read, then the IAM objects are created or,
\* if they exist, adopted.
CreateIamResources(c) ==
    /\ At(c, "prepare")
    /\ Progress(c)
    /\ setup' = [setup EXCEPT ![cre[c].proj] = @ \cup {"role", "profile"}]
    /\ Goto(c, "parallel")
    /\ UNCHANGED <<registry, req, des, pcs, subs, fsx, logs, queues, lost>>

-----------------------------------------------------------------------------
(* ParallelProvision: the storage branch.                                   *)

InBranch(c, b, s) == At(c, "parallel") /\ cre[c][b] = s

CreateFsx(c) ==
    /\ InBranch(c, "sto", "todo") /\ cre[c].mode = "lustre"
    /\ Progress(c)
    /\ fsx' = [fsx EXCEPT ![c] = "creating"]
    /\ cre' = [cre EXCEPT ![c].sto = "wait", ![c].fsx = c]
    /\ UNCHANGED <<registry, req, des, pcs, subs, setup, logs, queues, lost>>

\* check_fsx_status: a filesystem that is gone fails the branch.
CheckFsx(c) ==
    /\ InBranch(c, "sto", "wait")
    /\ \/ /\ fsx[c] = "available"
          /\ Progress(c)
          /\ cre' = [cre EXCEPT ![c].sto = "link"]
          /\ UNCHANGED <<registry, req, des, cloud, queues, lost>>
       \/ fsx[c] = "none" /\ Raise(c)

\* create_fsx_dra is the one step without a progress write.
CreateDra(c) ==
    /\ InBranch(c, "sto", "link")
    /\ IF fsx[c] = "none" THEN ToRollback(c)
                          ELSE cre' = [cre EXCEPT ![c].sto = "done"]
    /\ UNCHANGED <<table, req, des, cloud, queues, lost>>

AttachS3Policy(c) ==
    /\ InBranch(c, "sto", "todo") /\ cre[c].mode = "mountpoint"
    /\ IF "role" \in setup[cre[c].proj]
       THEN /\ setup' = [setup EXCEPT ![cre[c].proj] = @ \cup {"policy"}]
            /\ cre' = [cre EXCEPT ![c].sto = "done"]
       ELSE ToRollback(c) /\ UNCHANGED setup
    /\ UNCHANGED <<table, req, des, pcs, subs, fsx, logs, queues, lost>>

(* The PCS cluster branch.                                                  *)

\* PCS refuses a second cluster of the name; the step adopts the first.
MakePcs(c) ==
    pcs' = IF Named = {} THEN [pcs EXCEPT ![c] = "creating"] ELSE pcs

CreatePcs(c) ==
    /\ InBranch(c, "ctl", "todo")
    /\ Progress(c)
    /\ MakePcs(c)
    /\ cre' = [cre EXCEPT ![c].ctl = "wait",
                 ![c].pcs = IF Named = {} THEN c ELSE CHOOSE x \in Named : TRUE]
    /\ UNCHANGED <<registry, req, des, subs, fsx, setup, logs, queues, lost>>

CheckPcs(c) ==
    /\ InBranch(c, "ctl", "wait")
    /\ \/ /\ pcs[cre[c].pcs] = "active"
          /\ Progress(c)
          /\ cre' = [cre EXCEPT ![c].ctl = "logs"]
          /\ UNCHANGED <<registry, req, des, cloud, queues, lost>>
       \/ pcs[cre[c].pcs] \in {"none", "deleting"} /\ Raise(c)

\* configure_scheduler_log_delivery replaces what the name's sources point to.
ConfigureLogs(c) ==
    /\ InBranch(c, "ctl", "logs")
    /\ logs' = cre[c].pcs
    /\ cre' = [cre EXCEPT ![c].ctl = "done"]
    /\ UNCHANGED <<table, req, des, pcs, subs, fsx, setup, queues, lost>>

(* The launch template branch waits for the instance profiles first.        *)
CreateLaunchTemplates(c) ==
    /\ InBranch(c, "lt", "todo")
    /\ "profile" \in setup[cre[c].proj]
    /\ Progress(c)
    /\ setup' = [setup EXCEPT ![cre[c].proj] = @ \cup {"templates"}]
    /\ cre' = [cre EXCEPT ![c].lt = "done"]
    /\ UNCHANGED <<registry, req, des, pcs, subs, fsx, logs, queues, lost>>

\* Mutant of Join: it does not wait for the storage branch.
JoinEarly(c) ==
    /\ At(c, "parallel")
    /\ cre[c].ctl = "done" /\ cre[c].lt = "done"
    /\ cre' = [cre EXCEPT ![c] = [CreationOf(@.proj, @.mode, "loginGroup")
                 EXCEPT !.pcs = cre[c].pcs, !.fsx = cre[c].fsx]]
    /\ UNCHANGED <<table, req, des, cloud, queues, lost>>

Join(c) ==
    /\ At(c, "parallel")
    /\ \A b \in Branches : cre[c][b] = "done"
    /\ cre' = [cre EXCEPT ![c] = [CreationOf(@.proj, @.mode, "loginGroup")
                 EXCEPT !.pcs = cre[c].pcs, !.fsx = cre[c].fsx]]
    /\ UNCHANGED <<table, req, des, cloud, queues, lost>>

\* A create call left in flight lands after its Parallel state has failed.
LateCall(c, b) ==
    /\ b \in cre[c].late
    /\ cre' = [cre EXCEPT ![c].late = @ \ {b}]
    /\ \/ b = "ctl" /\ MakePcs(c) /\ UNCHANGED <<fsx, setup>>
       \/ /\ b = "lt"
          /\ setup' = [setup EXCEPT ![cre[c].proj] = @ \cup {"templates"}]
          /\ UNCHANGED <<pcs, fsx>>
       \/ /\ b = "sto" /\ cre[c].mode = "lustre"
          /\ fsx' = [fsx EXCEPT ![c] = "creating"]
          /\ UNCHANGED <<pcs, setup>>
       \/ /\ b = "sto" /\ cre[c].mode = "mountpoint"
          /\ setup' = [setup EXCEPT ![cre[c].proj] =
                         IF "role" \in @ THEN @ \cup {"policy"} ELSE @]
          /\ UNCHANGED <<pcs, fsx>>
    /\ UNCHANGED <<table, req, des, subs, logs, queues, lost>>

-----------------------------------------------------------------------------
(* After the join.  A node group that exists is adopted in any state.       *)

CanLaunch(c) ==
    /\ pcs[cre[c].pcs] = "active"
    /\ {"profile", "templates"} \subseteq setup[cre[c].proj]

AddGroup(c, g, next) ==
    LET id == cre[c].pcs IN
    \/ /\ CanLaunch(c)
       /\ Progress(c)
       /\ subs' = [subs EXCEPT ![id][g] = IF @ = "none" THEN "up" ELSE @]
       /\ cre' = [cre EXCEPT ![c].pc = next, ![c].groups = @ \cup {g}]
       /\ UNCHANGED <<registry, req, des, pcs, fsx, setup, logs, queues, lost>>
    \/ /\ ~CanLaunch(c)
       /\ Raise(c)

CreateLoginGroup(c) ==
    At(c, "loginGroup") /\ AddGroup(c, "login", "computeGroup")

CreateComputeGroup(c) ==
    At(c, "computeGroup") /\ AddGroup(c, "compute", "waitGroups")

CheckNodeGroups(c) ==
    /\ At(c, "waitGroups")
    /\ LET s == subs[cre[c].pcs] IN
       \/ /\ \A g \in Groups : s[g] = "up"
          /\ Progress(c)
          /\ Goto(c, "queue")
          /\ UNCHANGED <<registry, req, des, cloud, queues, lost>>
       \/ (\E g \in Groups : s[g] # "up") /\ Raise(c)

\* A status check that finds its resource not ready has written its progress
\* and leaves the execution to wait and check again.
PollAgain(c) ==
    /\ \/ InBranch(c, "sto", "wait") /\ fsx[c] = "creating"
       \/ InBranch(c, "ctl", "wait") /\ pcs[cre[c].pcs] = "creating"
       \/ InBranch(c, "lt", "todo")
       \/ At(c, "waitGroups")
    /\ Progress(c)
    /\ UNCHANGED <<registry, req, flows, cloud, queues, lost>>

\* Mutant of CreateQueue: it waits for a queue that exists to go away.
CreateQueueWaits(c) ==
    LET id == cre[c].pcs IN
    /\ At(c, "queue")
    /\ subs[id]["queue"] = "none" /\ subs[id]["compute"] = "up"
    /\ Progress(c)
    /\ subs' = [subs EXCEPT ![id]["queue"] = "up"]
    /\ Goto(c, "record")
    /\ UNCHANGED <<registry, req, des, pcs, fsx, setup, logs, queues, lost>>

\* ConsolidatedPostParallel.  A queue that exists is an error, and so is a
\* compute group that is not up.
CreateQueue(c) ==
    LET id == cre[c].pcs IN
    /\ At(c, "queue")
    /\ \/ /\ subs[id]["queue"] = "none" /\ subs[id]["compute"] = "up"
          /\ Progress(c)
          /\ subs' = [subs EXCEPT ![id]["queue"] = "up"]
          /\ Goto(c, "record")
          /\ UNCHANGED <<registry, req, des, pcs, fsx, setup, logs, queues,
                         lost>>
       \/ /\ ~(subs[id]["queue"] = "none" /\ subs[id]["compute"] = "up")
          /\ Raise(c)

\* Mutant of RecordCluster: the progress of the step is written after the put.
RecordClusterThenProgress(c) ==
    /\ At(c, "record")
    /\ rec' = [rec EXCEPT ![cre[c].proj] =
                 [status |-> "CREATING", pcs |-> cre[c].pcs,
                  fsx |-> cre[c].fsx, mode |-> cre[c].mode]]
    /\ cre' = [cre EXCEPT ![c] = EndedCreation(c, "succeeded")]
    /\ UNCHANGED <<registry, req, des, cloud, queues, lost>>

\* The put replaces the whole record.  Step Functions may invoke the Lambda
\* again after it has done its work.
RecordCluster(c) ==
    /\ At(c, "record")
    /\ rec' = [rec EXCEPT ![cre[c].proj] =
                 [status |-> "ACTIVE", pcs |-> cre[c].pcs, fsx |-> cre[c].fsx,
                  mode |-> cre[c].mode]]
    /\ \/ cre' = [cre EXCEPT ![c] = EndedCreation(c, "succeeded")]
       \/ "retry" \in Faults /\ Goto(c, "queue")
    /\ UNCHANGED <<registry, req, des, cloud, queues, lost>>

-----------------------------------------------------------------------------
(* HandleCreationFailure.  Every cleanup call is tried; what AWS refuses is *)
(* skipped: a role that still has an inline policy the handler does not     *)
(* know, and a PCS cluster with node groups or a queue that are not gone.   *)

CleanIam(p) == IF "policy" \in setup[p] THEN {"role", "policy"} ELSE {}

Rollback(c) ==
    LET id == cre[c].pcs  fs == cre[c].fsx  p == cre[c].proj
        dying == [s \in SubResources |->
                    IF s \in cre[c].groups /\ subs[id][s] = "up"
                    THEN "deleting" ELSE subs[id][s]]
    IN
    /\ At(c, "rollback")
    /\ setup' = [setup EXCEPT ![p] = CleanIam(p)]
    /\ IF id = None THEN UNCHANGED <<pcs, subs>>
       ELSE /\ subs' = [subs EXCEPT ![id] = dying]
            /\ pcs' = IF pcs[id] = "active" /\ dying = NoSubs
                      THEN [pcs EXCEPT ![id] = "deleting"] ELSE pcs
    /\ fsx' = IF fs = None THEN fsx ELSE [fsx EXCEPT ![fs] = "none"]
    /\ logs' = None
    /\ Goto(c, "recordFailed")
    /\ UNCHANGED <<table, req, des, queues, lost>>

\* Mutants of EndFailed: no rule for the event; an event sent too early.
EndUnseen(c) ==
    /\ cre' = [cre EXCEPT ![c] = EndedCreation(c, "failed")]
    /\ events' = events
EventBeforeEnd(c) == Goto(c, "markFailed") /\ events' = events \cup {c}

\* The execution ends in a Fail state; EventBridge gets an event.
EndFailed(c) ==
    /\ cre' = [cre EXCEPT ![c] = EndedCreation(c, "failed")]
    /\ events' = events \cup {c}

RecordFailed(c) ==
    /\ At(c, "recordFailed")
    /\ \/ SetStatus(cre[c].proj, "FAILED")
       \/ "record" \in Faults /\ UNCHANGED rec
    /\ EndFailed(c)
    /\ UNCHANGED <<registry, req, des, cloud, judged, orphans, lost>>

\* The rollback Lambda dies before or after its cleanup.
RollbackFails(c) ==
    /\ "rollback" \in Faults
    /\ cre[c].pc \in {"rollback", "recordFailed"}
    /\ Goto(c, "markFailed")
    /\ UNCHANGED <<table, req, des, cloud, queues, lost>>

\* MarkClusterFailed names $.State.EnteredTime, a path its input does not
\* have: the task fails before it writes.
MarkClusterFailed(c) ==
    /\ At(c, "markFailed")
    /\ EndFailed(c)
    /\ UNCHANGED <<table, req, des, cloud, judged, orphans, lost>>

TimeOut(c) ==
    /\ "timeout" \in Faults
    /\ cre[c].pc \in CreationRunning
    /\ \E L \in SUBSET InFlight(c) :
          cre' = [cre EXCEPT ![c] = [EndedCreation(c, "failed") EXCEPT
                                       !.late = @ \cup L]]
    /\ events' = events \cup {c}
    /\ UNCHANGED <<table, req, des, cloud, judged, orphans, lost>>

CreationStep(c) ==
    \/ RegisterName(c) \/ NameTaken(c) \/ CreateIamResources(c)
    \/ CreateFsx(c) \/ CheckFsx(c) \/ CreateDra(c) \/ AttachS3Policy(c)
    \/ CreatePcs(c) \/ CheckPcs(c) \/ ConfigureLogs(c)
    \/ CreateLaunchTemplates(c) \/ Join(c)
    \/ CreateLoginGroup(c) \/ CreateComputeGroup(c) \/ CheckNodeGroups(c)
    \/ PollAgain(c) \/ CreateQueue(c) \/ RecordCluster(c)
    \/ Rollback(c) \/ RecordFailed(c) \/ MarkClusterFailed(c)

CreationFault(c) == StepFails(c) \/ RollbackFails(c) \/ TimeOut(c)

CreationNext ==
    \E c \in Creations : \/ CreationStep(c) \/ CreationFault(c)
                         \/ \E b \in Branches : LateCall(c, b)
=============================================================================
