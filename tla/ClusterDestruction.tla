-------------------------- MODULE ClusterDestruction --------------------------
(***************************************************************************)
(* The destruction state machine (cluster-operations.ts) and its steps      *)
(* (cluster_destruction.py).  A step first writes its progress, which sets  *)
(* the status to DESTROYING whatever it was.  The ids are those of the      *)
(* payload the API handler sent, never read again.                          *)
(***************************************************************************)
EXTENDS ClusterState

DAt(d, l) == des[d].pc = l
DGoto(d, l) == des' = [des EXCEPT ![d].pc = l]
DProgress(d) == StepProgress(des[d].proj, "DESTROYING")

\* Mutant of DRaise: a state without a Catch.
DRaiseUncaught(d) ==
    /\ DProgress(d)
    /\ DGoto(d, "failed")
    /\ UNCHANGED <<registry, req, cre, cloud, queues, lost>>

\* The step raises; its state's Catch goes to RecordClusterDestructionFailed.
DRaise(d) ==
    /\ DProgress(d)
    /\ DGoto(d, "recordFailed")
    /\ UNCHANGED <<registry, req, cre, cloud, queues, lost>>

DStepFails(d) ==
    /\ "step" \in Faults
    /\ des[d].pc \in DestructionRunning \ {"recordFailed"}
    /\ DRaise(d)

HasFsx(d) == des[d].fsx # None /\ fsx[des[d].fsx] # "none"

CreateFsxExportTask(d) ==
    /\ DAt(d, "export")
    /\ DProgress(d)
    /\ des' = [des EXCEPT ![d].pc = "exportWait",
                          ![d].export = IF HasFsx(d) THEN "running" ELSE "none"]
    /\ UNCHANGED <<registry, req, cre, cloud, queues, lost>>

\* The Choice after the poll looks at exportComplete alone: a task that
\* failed, was cancelled or ran out of polls goes on like one that succeeded.
CheckFsxExport(d) ==
    /\ DAt(d, "exportWait")
    /\ DProgress(d)
    /\ \E r \in {"done"} \cup (IF "export" \in Faults THEN {"failed"} ELSE {}) :
          des' = [des EXCEPT ![d].pc = "pcsSubs",
                    ![d].export = IF @ = "running" THEN r ELSE @]
    /\ UNCHANGED <<registry, req, cre, cloud, queues, lost>>

DeletePcsResources(d) ==
    LET id == des[d].pcs IN
    /\ DAt(d, "pcsSubs")
    /\ DProgress(d)
    /\ subs' = IF id = None THEN subs
               ELSE [subs EXCEPT ![id] = [s \in SubResources |->
                       IF @[s] = "up" THEN "deleting" ELSE @[s]]]
    /\ DGoto(d, "subsWait")
    /\ UNCHANGED <<registry, req, cre, pcs, fsx, setup, logs, queues, lost>>

CheckPcsDeletion(d) ==
    /\ DAt(d, "subsWait")
    /\ SubsOf(des[d].pcs) = NoSubs
    /\ DProgress(d)
    /\ DGoto(d, "pcsCluster")
    /\ UNCHANGED <<registry, req, cre, cloud, queues, lost>>

\* A poll that finds the export or the deletions unfinished.
DPollAgain(d) ==
    /\ \/ DAt(d, "exportWait") /\ des[d].export = "running"
       \/ DAt(d, "subsWait") /\ SubsOf(des[d].pcs) # NoSubs
    /\ DProgress(d)
    /\ UNCHANGED <<registry, req, flows, cloud, queues, lost>>

\* ConsolidatedDeleteResources.  A cluster already gone is a success; PCS
\* refuses to delete one that has node groups or a queue again.
DeletePcsCluster(d) ==
    LET id == des[d].pcs IN
    /\ DAt(d, "pcsCluster")
    /\ \/ /\ SubsOf(id) = NoSubs
          /\ DProgress(d)
          /\ pcs' = IF id # None /\ pcs[id] = "active"
                    THEN [pcs EXCEPT ![id] = "deleting"] ELSE pcs
          /\ DGoto(d, "storage")
          /\ UNCHANGED <<registry, req, cre, subs, fsx, setup, logs, queues,
                         lost>>
       \/ SubsOf(id) # NoSubs /\ DRaise(d)

\* Mutant of DeleteStorage: a filesystem whose export failed is kept.
DeleteStorageExported(d) ==
    /\ DAt(d, "storage")
    /\ DProgress(d)
    /\ fsx' = IF HasFsx(d) /\ des[d].export # "failed"
              THEN [fsx EXCEPT ![des[d].fsx] = "none"] ELSE fsx
    /\ setup' = IF des[d].mode = "mountpoint"
                THEN [setup EXCEPT ![des[d].proj] = @ \ {"policy"}] ELSE setup
    /\ DGoto(d, "cleanup")
    /\ UNCHANGED <<registry, req, cre, pcs, subs, logs, queues, lost>>

\* Mutant of DeleteStorage: only what the record names now is deleted.
DeleteStorageOfRecord(d) ==
    /\ DAt(d, "storage")
    /\ DProgress(d)
    /\ fsx' = IF HasFsx(d) /\ rec[des[d].proj].fsx = des[d].fsx
              THEN [fsx EXCEPT ![des[d].fsx] = "none"] ELSE fsx
    /\ setup' = IF des[d].mode = "mountpoint"
                THEN [setup EXCEPT ![des[d].proj] = @ \ {"policy"}] ELSE setup
    /\ DGoto(d, "cleanup")
    /\ UNCHANGED <<registry, req, cre, pcs, subs, logs, queues, lost>>

\* delete_fsx_filesystem, then remove_mountpoint_s3_policy for mountpoint.
DeleteStorage(d) ==
    /\ DAt(d, "storage")
    /\ DProgress(d)
    /\ fsx' = IF HasFsx(d) THEN [fsx EXCEPT ![des[d].fsx] = "none"] ELSE fsx
    /\ setup' = IF des[d].mode = "mountpoint"
                THEN [setup EXCEPT ![des[d].proj] = @ \ {"policy"}] ELSE setup
    /\ DGoto(d, "cleanup")
    /\ UNCHANGED <<registry, req, cre, pcs, subs, logs, queues, lost>>

\* ConsolidatedCleanup: log delivery by cluster name, IAM (a role that still
\* has the S3 policy stays), launch templates.
CleanUp(d) ==
    /\ DAt(d, "cleanup")
    /\ DProgress(d)
    /\ logs' = None
    /\ setup' = [setup EXCEPT ![des[d].proj] =
                   IF "policy" \in @ THEN {"role", "policy"} ELSE {}]
    /\ DGoto(d, "deregister")
    /\ UNCHANGED <<registry, req, cre, pcs, subs, fsx, queues, lost>>

\* The registry item is deleted whoever registered the name.
DeregisterName(d) ==
    /\ DAt(d, "deregister")
    /\ registry' = None
    /\ DGoto(d, "record")
    /\ UNCHANGED <<rec, req, cre, cloud, queues, lost>>

RecordDestroyed(d) ==
    /\ DAt(d, "record")
    /\ SetStatus(des[d].proj, "DESTROYED")
    /\ DGoto(d, "succeeded")
    /\ UNCHANGED <<registry, req, cre, cloud, queues, lost>>

\* If this write fails too, the execution ends and the record stays.
RecordDestructionFailed(d) ==
    /\ DAt(d, "recordFailed")
    /\ \/ SetStatus(des[d].proj, "DESTRUCTION_FAILED") /\ UNCHANGED lost
       \/ /\ "record" \in Faults
          /\ lost' = lost \cup {des[d].proj}
          /\ UNCHANGED rec
    /\ DGoto(d, "failed")
    /\ UNCHANGED <<registry, req, cre, cloud, queues>>

\* No state catches the two hour limit and no event rule watches this machine.
DTimeOut(d) ==
    /\ "timeout" \in Faults
    /\ des[d].pc \in DestructionRunning
    /\ DGoto(d, "timedOut")
    /\ lost' = lost \cup {des[d].proj}
    /\ UNCHANGED <<table, req, cre, cloud, queues>>

DestructionStep(d) ==
    \/ CreateFsxExportTask(d) \/ CheckFsxExport(d) \/ DPollAgain(d)
    \/ DeletePcsResources(d) \/ CheckPcsDeletion(d) \/ DeletePcsCluster(d)
    \/ DeleteStorage(d) \/ CleanUp(d) \/ DeregisterName(d)
    \/ RecordDestroyed(d) \/ RecordDestructionFailed(d)

DestructionNext ==
    \E d \in Destructions : DestructionStep(d) \/ DStepFails(d) \/ DTimeOut(d)
=============================================================================
