------------------------ MODULE ClusterLifecycleProofs ------------------------
(***************************************************************************)
(* No record of ClusterLifecycle is left in CREATING or DESTROYING without  *)
(* a workflow, whatever the use of the API and the faults.  Both invariants *)
(* are inductive with the type invariant: a step changes one execution, one *)
(* request or one event, so the proofs rest on what each kind of step       *)
(* leaves alone.                                                            *)
(***************************************************************************)
EXTENDS ClusterTypeProofs

\* What every step of creation c does to the records and the executions.
LEMMA CreationFrame ==
    ASSUME TypeOK, NEW c \in Creations, CreationStep(c) \/ CreationFault(c)
    PROVE  /\ cre[c].pc \in CreationRunning
           /\ cre[c].proj \in Projects
           /\ \A x \in Creations \ {c} : cre'[x] = cre[x]
           /\ cre'[c].proj = cre[c].proj
           /\ \/ /\ cre'[c].pc \in CreationRunning /\ events' = events
                 /\ \/ rec'[cre[c].proj].status \in {rec[cre[c].proj].status, "CREATING"}
                    \/ "retry" \in Faults /\ rec'[cre[c].proj].status = "ACTIVE"
              \/ /\ cre'[c].pc = "succeeded" /\ events' = events
                 /\ rec'[cre[c].proj].status = "ACTIVE"
              \/ /\ cre'[c].pc = "failed" /\ events' = events \cup {c}
                 /\ rec'[cre[c].proj].status \in {rec[cre[c].proj].status, "FAILED"}
           /\ \A p \in Projects \ {cre[c].proj} : rec'[p] = rec[p]
           /\ UNCHANGED <<judged, req, des, lost>>
<1> USE DEF cloud, queues, table
<1>1. /\ cre[c].pc \in CreationRunning
      /\ cre[c].pc # "unused"
  BY DEF CreationStep, CreationFault,
     RegisterName, NameTaken, CreateIamResources, CreateFsx, CheckFsx, CreateDra,
     AttachS3Policy, CreatePcs, CheckPcs, ConfigureLogs, CreateLaunchTemplates,
     Join, CreateLoginGroup, CreateComputeGroup, CheckNodeGroups, PollAgain,
     CreateQueue, RecordCluster, Rollback, RecordFailed, MarkClusterFailed,
     StepFails, RollbackFails, TimeOut,
     InBranch, At, Building, Unwinding, CreationRunning
<1>2. cre[c] \in StartedCreation
  BY <1>1, StartedCreationType
<1>3. cre[c].proj \in Projects /\ DOMAIN rec = Projects /\ rec[cre[c].proj] \in Record
  BY <1>2 DEF StartedCreation, TypeOK
<1> DEFINE q == cre[c].proj
           Moves == /\ \A x \in Creations \ {c} : cre'[x] = cre[x]
                    /\ cre'[c].proj = q
                    /\ cre'[c].pc \in CreationRunning
           Writes(s) == /\ \A p \in Projects \ {q} : rec'[p] = rec[p]
                        /\ rec'[q].status \in {rec[q].status, s}
           Rewrites == Writes("CREATING")
           Keeps == UNCHANGED <<events, judged, req, des, lost>>
<1>4. ASSUME NEW l \in CreationRunning, Goto(c, l) PROVE Moves
  BY <1>2, <1>4 DEF Goto, TypeOK, StartedCreation
<1>5. ASSUME ToRollback(c) PROVE Moves
  BY <1>2, <1>5 DEF ToRollback, TypeOK, CreationOf, CreationRunning, Unwinding
<1>6. ASSUME NEW s \in Statuses, StepProgress(q, s) \/ SetStatus(q, s)
      PROVE  Writes(s)
  BY <1>3, <1>6 DEF StepProgress, SetStatus, TypeOK, Record
<1>7. ASSUME Progress(c) PROVE Rewrites
  BY <1>6, <1>7 DEF Progress, Statuses
<1>8. ASSUME Raise(c) PROVE Moves /\ Rewrites /\ Keeps
  BY <1>5, <1>7, <1>8 DEF Raise
<1>9. CASE RegisterName(c)
  BY <1>1, <1>4, <1>7, <1>9, <1>3 DEF RegisterName, CreationRunning, Building
<1>10. CASE CreateIamResources(c)
  BY <1>1, <1>4, <1>7, <1>10, <1>3 DEF CreateIamResources, CreationRunning, Building
<1>11. CASE \/ CreateFsx(c)
            \/ CheckFsx(c) /\ ~Raise(c)
            \/ CreatePcs(c)
            \/ CheckPcs(c) /\ ~Raise(c)
            \/ CreateLaunchTemplates(c)
  <2>1. Moves
    BY <1>1, <1>2, <1>11 DEF CreateFsx, CheckFsx, CreatePcs, CheckPcs,
       CreateLaunchTemplates, TypeOK, StartedCreation
  <2>2. Rewrites
    BY <1>7, <1>11 DEF CreateFsx, CheckFsx, CreatePcs, CheckPcs, CreateLaunchTemplates
  <2>3. Keeps
    BY <1>11 DEF CreateFsx, CheckFsx, CreatePcs, CheckPcs, CreateLaunchTemplates
  <2> QED
    BY <1>1, <1>3, <2>1, <2>2, <2>3
<1>12. CASE CreateDra(c) \/ AttachS3Policy(c) \/ ConfigureLogs(c) \/ Join(c)
  <2>1. Moves
    <3>1. CASE ToRollback(c)
      BY <1>5, <3>1
    <3>2. CASE ~ToRollback(c)
      <4>1. CASE Join(c)
        BY <1>2, <4>1 DEF Join, TypeOK, CreationOf, CreationRunning, Building
      <4>2. CASE CreateDra(c) \/ AttachS3Policy(c) \/ ConfigureLogs(c)
        <5>1. \/ cre' = [cre EXCEPT ![c] = [cre[c] EXCEPT !.sto = "done"]]
              \/ cre' = [cre EXCEPT ![c] = [cre[c] EXCEPT !.ctl = "done"]]
          BY <3>2, <4>2 DEF CreateDra, AttachS3Policy, ConfigureLogs
        <5> QED
          BY <1>1, <1>2, <5>1 DEF TypeOK, StartedCreation
      <4> QED
        BY <1>12, <4>1, <4>2
    <3> QED
      BY <3>1, <3>2
  <2>2. UNCHANGED rec /\ Keeps
    BY <1>12 DEF CreateDra, AttachS3Policy, ConfigureLogs, Join
  <2> QED
    BY <1>1, <1>3, <2>1, <2>2
<1>13. CASE Raise(c)
  BY <1>1, <1>3, <1>8, <1>13
<1>14. CASE ~Raise(c) /\ (CreateLoginGroup(c) \/ CreateComputeGroup(c))
  <2>1. PICK g \in Groups, l \in CreationRunning : AddGroup(c, g, l)
    BY <1>14 DEF CreateLoginGroup, CreateComputeGroup, Groups, CreationRunning, Building
  <2>2. Moves
    BY <1>2, <1>14, <2>1 DEF AddGroup, TypeOK, StartedCreation
  <2>3. Rewrites /\ Keeps
    BY <1>7, <1>14, <2>1 DEF AddGroup
  <2> QED
    BY <1>1, <1>3, <2>2, <2>3
<1>15. CASE ~Raise(c) /\ (CheckNodeGroups(c) \/ CreateQueue(c))
  BY <1>1, <1>3, <1>4, <1>7, <1>15 DEF CheckNodeGroups, CreateQueue,
     CreationRunning, Building
<1>16. CASE RecordCluster(c)
  <2>1. /\ \A p \in Projects \ {q} : rec'[p] = rec[p]
        /\ rec'[q].status = "ACTIVE"
    BY <1>3, <1>16 DEF RecordCluster
  <2>2. /\ \A x \in Creations \ {c} : cre'[x] = cre[x]
        /\ cre'[c].proj = q
        /\ \/ cre'[c].pc = "succeeded"
           \/ cre'[c].pc \in CreationRunning /\ "retry" \in Faults
    BY <1>2, <1>16 DEF RecordCluster, Goto, TypeOK, StartedCreation,
       EndedCreation, CreationOf, CreationRunning, Building
  <2>3. Keeps
    BY <1>16 DEF RecordCluster
  <2> QED
    BY <1>1, <1>3, <2>1, <2>2, <2>3
<1>17. CASE Rollback(c) \/ RollbackFails(c)
  BY <1>1, <1>3, <1>4, <1>17 DEF Rollback, RollbackFails, CreationRunning, Unwinding
<1>18. CASE RecordFailed(c) \/ MarkClusterFailed(c) \/ TimeOut(c)
  <2>1. /\ \A x \in Creations \ {c} : cre'[x] = cre[x]
        /\ cre'[c].proj = q /\ cre'[c].pc = "failed"
    <3>1. EndedCreation(c, "failed").proj = q /\ EndedCreation(c, "failed").pc = "failed"
      BY DEF EndedCreation, CreationOf
    <3>2. CASE RecordFailed(c) \/ MarkClusterFailed(c)
      BY <3>1, <3>2 DEF RecordFailed, MarkClusterFailed, EndFailed, TypeOK
    <3>3. CASE TimeOut(c)
      <4>1. PICK L : cre' = [cre EXCEPT ![c] = [EndedCreation(c, "failed") EXCEPT
                                                  !.late = @ \cup L]]
        BY <3>3 DEF TimeOut
      <4>2. /\ [EndedCreation(c, "failed") EXCEPT !.late = @ \cup L].proj = q
            /\ [EndedCreation(c, "failed") EXCEPT !.late = @ \cup L].pc = "failed"
        BY DEF EndedCreation, CreationOf
      <4> QED
        BY <4>1, <4>2 DEF TypeOK
    <3> QED
      BY <1>18, <3>2, <3>3
  <2>2. events' = events \cup {c} /\ UNCHANGED <<judged, req, des, lost>>
    BY <1>18 DEF RecordFailed, MarkClusterFailed, TimeOut, EndFailed
  <2>3. Writes("FAILED")
    BY <1>6, <1>18 DEF RecordFailed, MarkClusterFailed, TimeOut, Statuses
  <2> QED
    BY <1>1, <1>3, <2>1, <2>2, <2>3
<1>19. CASE PollAgain(c)
  BY <1>1, <1>3, <1>7, <1>19 DEF PollAgain, flows
<1> QED
  BY <1>9, <1>10, <1>11, <1>12, <1>13, <1>14, <1>15, <1>16, <1>17, <1>18, <1>19
     DEF CreationStep, CreationFault, StepFails, NameTaken

\* What every step of destruction d does to the records and the executions.
LEMMA DestructionFrame ==
    ASSUME TypeOK, NEW d \in Destructions,
           DestructionStep(d) \/ DStepFails(d) \/ DTimeOut(d)
    PROVE  /\ des[d].pc \in DestructionRunning
           /\ des[d].proj \in Projects
           /\ \A x \in Destructions \ {d} : des'[x] = des[x]
           /\ des'[d].proj = des[d].proj
           /\ \/ /\ des'[d].pc \in DestructionRunning
                 /\ rec'[des[d].proj].status \in {rec[des[d].proj].status, "DESTROYING"}
              \/ /\ des'[d].pc = "succeeded"
                 /\ rec'[des[d].proj].status = "DESTROYED"
              \/ /\ des'[d].pc = "failed"
                 /\ rec'[des[d].proj].status = "DESTRUCTION_FAILED"
              \/ /\ des'[d].pc \in {"failed", "timedOut"}
                 /\ UNCHANGED rec /\ des[d].proj \in lost'
           /\ \A p \in Projects \ {des[d].proj} : rec'[p] = rec[p]
           /\ lost \subseteq lost'
           /\ UNCHANGED <<events, judged, req, cre>>
<1> USE DEF cloud, queues, table
<1> DEFINE q == des[d].proj
           Moves == /\ \A x \in Destructions \ {d} : des'[x] = des[x]
                    /\ des'[d].proj = q
           Writes(s) == /\ \A p \in Projects \ {q} : rec'[p] = rec[p]
                        /\ rec'[q].status \in {rec[q].status, s}
           Rewrites == Writes("DESTROYING")
           Keeps == lost \subseteq lost' /\ UNCHANGED <<events, judged, req, cre>>
<1>1. /\ des[d].pc \in DestructionRunning
      /\ des[d].pc # "unused"
  BY DEF DestructionStep, DStepFails, DTimeOut, DAt, DestructionRunning,
     DPollAgain, CreateFsxExportTask, CheckFsxExport, DeletePcsResources, CheckPcsDeletion,
     DeletePcsCluster, DeleteStorage, CleanUp, DeregisterName, RecordDestroyed,
     RecordDestructionFailed
<1>2. des[d] \in StartedDestruction
  BY <1>1, StartedDestructionType
<1>3. q \in Projects /\ DOMAIN rec = Projects /\ rec[q] \in Record
  BY <1>2 DEF StartedDestruction, TypeOK
<1>4. ASSUME NEW l, DGoto(d, l) PROVE Moves /\ des'[d].pc = l
  BY <1>2, <1>4 DEF DGoto, TypeOK, StartedDestruction
<1>5. ASSUME NEW s \in Statuses, SetStatus(q, s)
      PROVE  Writes(s) /\ rec'[q].status = s
  BY <1>3, <1>5 DEF SetStatus, TypeOK, Record
<1>6. ASSUME DProgress(d) PROVE Rewrites
  BY <1>3, <1>5, <1>6 DEF DProgress, StepProgress, Statuses
<1>7. CASE DRaise(d)
  BY <1>1, <1>3, <1>4, <1>6, <1>7 DEF DRaise, DestructionRunning
<1>8. CASE CreateFsxExportTask(d) \/ CheckFsxExport(d)
  <2>1. PICK l \in DestructionRunning :
          \E e : des' = [des EXCEPT ![d].pc = l, ![d].export = e]
    BY <1>8 DEF CreateFsxExportTask, CheckFsxExport, DestructionRunning
  <2>2. Moves /\ des'[d].pc = l
    BY <1>2, <2>1 DEF TypeOK, StartedDestruction
  <2> QED
    BY <1>1, <1>3, <1>6, <1>8, <2>2 DEF CreateFsxExportTask, CheckFsxExport
<1>9. CASE ~DRaise(d) /\ (\/ DeletePcsResources(d) \/ CheckPcsDeletion(d)
                          \/ DeletePcsCluster(d) \/ DeleteStorage(d) \/ CleanUp(d))
  <2>1. PICK l \in DestructionRunning : DGoto(d, l)
    BY <1>9 DEF DeletePcsResources, CheckPcsDeletion, DeletePcsCluster,
       DeleteStorage, CleanUp, DestructionRunning
  <2>2. DProgress(d) /\ Keeps
    BY <1>9 DEF DeletePcsResources, CheckPcsDeletion, DeletePcsCluster,
       DeleteStorage, CleanUp
  <2> QED
    BY <1>1, <1>3, <1>4, <1>6, <2>1, <2>2
<1>10. CASE DeregisterName(d)
  BY <1>1, <1>3, <1>4, <1>10 DEF DeregisterName, DestructionRunning
<1>11. CASE RecordDestroyed(d)
  BY <1>1, <1>3, <1>4, <1>5, <1>11 DEF RecordDestroyed, Statuses
<1>12. CASE RecordDestructionFailed(d)
  BY <1>1, <1>3, <1>4, <1>5, <1>12 DEF RecordDestructionFailed, Statuses
<1>13. CASE DTimeOut(d)
  BY <1>1, <1>3, <1>4, <1>13 DEF DTimeOut
<1>14. CASE DPollAgain(d)
  BY <1>1, <1>3, <1>6, <1>14 DEF DPollAgain, flows
<1> QED
  BY <1>7, <1>8, <1>9, <1>10, <1>11, <1>12, <1>13, <1>14 DEF DestructionStep, DStepFails

\* A late call moves no execution and writes no record.
LEMMA LateCallFrame ==
    ASSUME TypeOK, NEW c \in Creations, NEW b \in Branches, LateCall(c, b)
    PROVE  /\ \A x \in Creations : /\ cre'[x].pc = cre[x].pc
                                   /\ cre'[x].proj = cre[x].proj
           /\ UNCHANGED <<rec, events, judged, req, des, lost>>
<1>1. cre[c] \in StartedCreation
  BY DEF LateCall, TypeOK, Creation, UnusedCreation, CreationOf
<1> QED
  BY <1>1 DEF LateCall, TypeOK, StartedCreation, table, queues

-----------------------------------------------------------------------------
(* Requests.                                                                *)

LEMMA ApiPending ==
    ASSUME TypeOK, CreatingHasWorkflow, DestroyingHasWorkflow, ApiStep
    PROVE  CreatingHasWorkflow' /\ DestroyingHasWorkflow'
<1> USE DEF table, flows, cloud, queues, CreatingHasWorkflow,
            DestroyingHasWorkflow, CreationPending, DestructionPending,
            RunsCreation, RunsDestruction
<1>k. PICK k \in Clients :
        \/ \E p \in Projects, m \in Modes :
              CreateCluster(k, p, m) \/ RecreateCluster(k, p, m)
        \/ \E p \in Projects : DeleteCluster(k, p) \/ ForceFailCluster(k, p)
        \/ PutCreating(k) \/ SetDestroying(k) \/ RefuseDelete(k)
        \/ SetForceFailed(k) \/ StartFails(k)
        \/ \E c \in Creations : StartCreation(k, c)
        \/ \E d \in Destructions : StartDestruction(k, d)
  BY DEF ApiStep
<1>r. DOMAIN req = Clients /\ DOMAIN rec = Projects /\ req[k] \in Request
  BY DEF TypeOK
\* A request that has written nothing yet is nobody's workflow.
<1>1. ASSUME req[k].stage # "written", req'[k].stage # "written",
             \A x \in Clients \ {k} : req'[x] = req[x],
             \/ UNCHANGED rec
             \/ /\ SetForceFailed(k) /\ req[k] \in OpenRequest,
             UNCHANGED <<cre, des, events, judged, lost>>
      PROVE  CreatingHasWorkflow' /\ DestroyingHasWorkflow'
  <2>1. \A p \in Projects : /\ rec'[p].status = "CREATING" => rec[p].status = "CREATING"
                            /\ rec'[p].status = "DESTROYING" => rec[p].status = "DESTROYING"
    BY <1>1 DEF SetForceFailed, SetStatus, TypeOK, Record
  <2>2. \A p \in Projects : /\ CreationPending(p) => CreationPending(p)'
                            /\ DestructionPending(p) => DestructionPending(p)'
    BY <1>1
  <2> QED
    BY <1>1, <2>1, <2>2
<1>2. ASSUME NEW p \in Projects, NEW m \in Modes,
             CreateCluster(k, p, m) \/ RecreateCluster(k, p, m)
      PROVE  CreatingHasWorkflow' /\ DestroyingHasWorkflow'
  BY <1>1, <1>2, <1>r DEF CreateCluster, RecreateCluster, Check, Idle
<1>3. ASSUME NEW p \in Projects, DeleteCluster(k, p) \/ ForceFailCluster(k, p)
      PROVE  CreatingHasWorkflow' /\ DestroyingHasWorkflow'
  BY <1>1, <1>3, <1>r DEF DeleteCluster, ForceFailCluster, Check, Idle
<1>4. CASE RefuseDelete(k)
  BY <1>1, <1>4, <1>r DEF RefuseDelete, Finish, NoRequest
<1>5. CASE SetForceFailed(k)
  <2>1. req[k] \in OpenRequest
    BY <1>5, OpenRequestType DEF SetForceFailed
  <2> QED
    BY <1>1, <1>5, <1>r, <2>1 DEF SetForceFailed, Finish, NoRequest
<1>6. CASE PutCreating(k)
  <2>1. req[k] \in OpenRequest
    BY <1>6, OpenRequestType DEF PutCreating
  <2> DEFINE q == req[k].proj
  <2>2. /\ \A p \in Projects \ {q} : rec'[p] = rec[p]
        /\ q \in Projects /\ rec'[q].status = "CREATING"
        /\ lost' = lost \ {q}
    BY <1>6, <2>1, <1>r DEF PutCreating, OpenRequest
  <2>3. /\ \A x \in Clients \ {k} : req'[x] = req[x]
        /\ req'[k].op \in {"create", "recreate"}
        /\ req'[k].stage = "written" /\ req'[k].proj = q
        /\ req[k].stage = "checked"
    BY <1>6, <1>r, <2>1 DEF PutCreating, OpenRequest
  <2>4. UNCHANGED <<cre, des, events, judged>>
    BY <1>6 DEF PutCreating
  <2>5. ASSUME NEW p \in Projects, p = q PROVE CreationPending(p)'
    BY <2>3, <2>5
  <2>6. ASSUME NEW p \in Projects PROVE CreationPending(p) => CreationPending(p)'
    BY <2>3, <2>4
  <2>7. ASSUME NEW p \in Projects PROVE DestructionPending(p) => DestructionPending(p)'
    BY <2>3, <2>4
  <2>8. ASSUME NEW p \in Projects
        PROVE  /\ rec'[p].status = "CREATING" => CreationPending(p)' \/ p \in lost'
               /\ rec'[p].status = "DESTROYING"
                     => DestructionPending(p)' \/ p \in lost'
    <3> HIDE DEF CreationPending, DestructionPending
    <3>1. CASE p = q
      BY <2>2, <2>5, <3>1
    <3>2. CASE p # q
      BY <2>2, <2>6, <2>7, <3>2
    <3> QED
      BY <3>1, <3>2
  <2> QED
    BY <2>8
<1>7. CASE SetDestroying(k)
  <2>1. req[k] \in OpenRequest
    BY <1>7, OpenRequestType DEF SetDestroying
  <2> DEFINE q == req[k].proj
  <2>2. /\ \A p \in Projects \ {q} : rec'[p] = rec[p]
        /\ q \in Projects /\ rec'[q].status = "DESTROYING"
        /\ lost' = lost \ {q}
    BY <1>7, <2>1, <1>r DEF SetDestroying, SetStatus, OpenRequest, TypeOK, Record
  <2>3. /\ \A x \in Clients \ {k} : req'[x] = req[x]
        /\ req'[k].op = "delete"
        /\ req'[k].stage = "written" /\ req'[k].proj = q
        /\ req[k].stage = "checked"
    BY <1>7, <1>r, <2>1 DEF SetDestroying, OpenRequest
  <2>4. UNCHANGED <<cre, des, events, judged>>
    BY <1>7 DEF SetDestroying
  <2>5. ASSUME NEW p \in Projects, p = q PROVE DestructionPending(p)'
    BY <2>3, <2>5
  <2>6. ASSUME NEW p \in Projects PROVE CreationPending(p) => CreationPending(p)'
    BY <2>3, <2>4
  <2>7. ASSUME NEW p \in Projects PROVE DestructionPending(p) => DestructionPending(p)'
    BY <2>3, <2>4
  <2>8. ASSUME NEW p \in Projects
        PROVE  /\ rec'[p].status = "CREATING" => CreationPending(p)' \/ p \in lost'
               /\ rec'[p].status = "DESTROYING"
                     => DestructionPending(p)' \/ p \in lost'
    <3> HIDE DEF CreationPending, DestructionPending
    <3>1. CASE p = q
      BY <2>2, <2>5, <3>1
    <3>2. CASE p # q
      BY <2>2, <2>6, <2>7, <3>2
    <3> QED
      BY <3>1, <3>2
  <2> QED
    BY <2>8
<1>8. CASE StartFails(k)
  <2>1. /\ \A x \in Clients \ {k} : req'[x] = req[x]
        /\ lost' = lost \cup {req[k].proj}
        /\ UNCHANGED <<rec, cre, des, events, judged>>
    BY <1>8 DEF StartFails, Finish, TypeOK
  <2>2. \A p \in Projects \ {req[k].proj} :
          /\ CreationPending(p) => CreationPending(p)'
          /\ DestructionPending(p) => DestructionPending(p)'
    BY <2>1
  <2> QED
    BY <2>1, <2>2
<1>9. ASSUME NEW c \in Creations, StartCreation(k, c)
      PROVE  CreatingHasWorkflow' /\ DestroyingHasWorkflow'
  <2> DEFINE q == req[k].proj
  <2>1. /\ \A x \in Clients \ {k} : req'[x] = req[x]
        /\ req[k].op \in {"create", "recreate"}
        /\ UNCHANGED <<rec, des, events, judged, lost>>
        /\ cre[c].pc = "unused"
        /\ \A x \in Creations \ {c} : cre'[x] = cre[x]
        /\ cre'[c].pc = "register" /\ cre'[c].proj = q
    BY <1>9 DEF StartCreation, Finish, TypeOK, CreationOf
  <2>2. c \notin events \cup judged
    BY <2>1 DEF TypeOK
  <2>3. \A p \in Projects : CreationPending(p) => CreationPending(p)'
    <3>1. TAKE p \in Projects
    <3>2. HAVE CreationPending(p)
    <3>3. CASE \E x \in Creations : RunsCreation(x, p)
      BY <2>1, <3>3 DEF CreationRunning, Building, Unwinding
    <3>4. CASE \E x \in events \cup judged : cre[x].proj = p
      BY <2>1, <2>2, <3>4 DEF TypeOK
    <3>5. CASE p = q
      BY <2>1, <3>5 DEF CreationRunning, Building
    <3>6. CASE p # q /\ \E x \in Clients : /\ req[x].op \in {"create", "recreate"}
                                           /\ req[x].stage = "written"
                                           /\ req[x].proj = p
      BY <2>1, <3>6
    <3> QED
      BY <3>2, <3>3, <3>4, <3>5, <3>6
  <2>4. \A p \in Projects : DestructionPending(p) => DestructionPending(p)'
    BY <2>1
  <2> QED
    BY <2>1, <2>3, <2>4
<1>10. ASSUME NEW d \in Destructions, StartDestruction(k, d)
       PROVE  CreatingHasWorkflow' /\ DestroyingHasWorkflow'
  <2> DEFINE q == req[k].proj
  <2>1. /\ \A x \in Clients \ {k} : req'[x] = req[x]
        /\ req[k].op = "delete"
        /\ UNCHANGED <<rec, cre, events, judged, lost>>
        /\ des[d].pc = "unused"
        /\ \A x \in Destructions \ {d} : des'[x] = des[x]
        /\ des'[d].pc = "export" /\ des'[d].proj = q
    BY <1>10 DEF StartDestruction, Finish, TypeOK
  <2>2. \A p \in Projects : CreationPending(p) => CreationPending(p)'
    BY <2>1
  <2>3. \A p \in Projects : DestructionPending(p) => DestructionPending(p)'
    BY <2>1 DEF DestructionRunning
  <2> QED
    BY <2>1, <2>2, <2>3
<1> QED
  BY <1>k, <1>2, <1>3, <1>4, <1>5, <1>6, <1>7, <1>8, <1>9, <1>10

-----------------------------------------------------------------------------
(* Executions and events.                                                   *)

LEMMA CreationStepPending ==
    ASSUME TypeOK, CreatingHasWorkflow, DestroyingHasWorkflow,
           NEW c \in Creations, CreationStep(c) \/ CreationFault(c)
    PROVE  CreatingHasWorkflow' /\ DestroyingHasWorkflow'
<1> DEFINE q == cre[c].proj
<1>1. /\ q \in Projects
      /\ cre[c].pc \in CreationRunning
      /\ \A x \in Creations \ {c} : cre'[x] = cre[x]
      /\ cre'[c].proj = q
      /\ \/ cre'[c].pc \in CreationRunning
         \/ c \in events'
         \/ rec'[q].status = "ACTIVE"
      /\ \A p \in Projects \ {q} : rec'[p] = rec[p]
      /\ rec'[q].status = "DESTROYING" => rec[q].status = "DESTROYING"
      /\ events \subseteq events'
      /\ UNCHANGED <<judged, req, des, lost>>
  BY CreationFrame
<1>2. c \notin events \cup judged
  BY <1>1 DEF TypeOK, CreationRunning, Building, Unwinding
<1>3. ASSUME NEW p \in Projects, rec'[p].status = "DESTROYING"
      PROVE  DestructionPending(p)' \/ p \in lost'
  <2>1. rec[p].status = "DESTROYING"
    BY <1>1, <1>3
  <2> QED
    BY <1>1, <2>1 DEF DestroyingHasWorkflow, DestructionPending, RunsDestruction
<1>4. ASSUME NEW p \in Projects, rec'[p].status = "CREATING"
      PROVE  CreationPending(p)' \/ p \in lost'
  <2>1. CASE p = q
    BY <1>1, <1>4, <2>1 DEF CreationPending, RunsCreation
  <2>2. CASE p # q
    <3>1. CreationPending(p) \/ p \in lost
      BY <1>1, <1>4, <2>2 DEF CreatingHasWorkflow
    <3>2. CASE p \in lost
      BY <1>1, <3>2
    <3>3. CASE \E x \in Creations : RunsCreation(x, p)
      BY <1>1, <2>2, <3>3 DEF CreationPending, RunsCreation
    <3>4. CASE \E x \in events \cup judged : cre[x].proj = p
      BY <1>1, <1>2, <3>4 DEF CreationPending, TypeOK
    <3>5. CASE \E k \in Clients : /\ req[k].op \in {"create", "recreate"}
                                  /\ req[k].stage = "written"
                                  /\ req[k].proj = p
      BY <1>1, <3>5 DEF CreationPending
    <3> QED
      BY <3>1, <3>2, <3>3, <3>4, <3>5 DEF CreationPending
  <2> QED
    BY <2>1, <2>2
<1> QED
  BY <1>3, <1>4 DEF CreatingHasWorkflow, DestroyingHasWorkflow

LEMMA LateCallPending ==
    ASSUME TypeOK, CreatingHasWorkflow, DestroyingHasWorkflow,
           NEW c \in Creations, NEW b \in Branches, LateCall(c, b)
    PROVE  CreatingHasWorkflow' /\ DestroyingHasWorkflow'
<1>1. /\ \A x \in Creations : /\ cre'[x].pc = cre[x].pc
                              /\ cre'[x].proj = cre[x].proj
      /\ UNCHANGED <<rec, events, judged, req, des, lost>>
  BY LateCallFrame
<1>2. events \cup judged \subseteq Creations
  BY DEF TypeOK
<1>3. DestroyingHasWorkflow'
  BY <1>1 DEF DestroyingHasWorkflow, DestructionPending, RunsDestruction
<1>4. ASSUME NEW p \in Projects, CreationPending(p) PROVE CreationPending(p)'
  BY <1>1, <1>2, <1>4 DEF CreationPending, RunsCreation
<1> QED
  BY <1>1, <1>3, <1>4 DEF CreatingHasWorkflow

LEMMA DestructionStepPending ==
    ASSUME TypeOK, CreatingHasWorkflow, DestroyingHasWorkflow,
           NEW d \in Destructions,
           DestructionStep(d) \/ DStepFails(d) \/ DTimeOut(d)
    PROVE  CreatingHasWorkflow' /\ DestroyingHasWorkflow'
<1> DEFINE q == des[d].proj
<1>1. /\ q \in Projects
      /\ \A x \in Destructions \ {d} : des'[x] = des[x]
      /\ des'[d].proj = q
      /\ \/ des'[d].pc \in DestructionRunning
         \/ q \in lost'
         \/ rec'[q].status \in {"DESTROYED", "DESTRUCTION_FAILED"}
      /\ \A p \in Projects \ {q} : rec'[p] = rec[p]
      /\ rec'[q].status = "CREATING" => rec[q].status = "CREATING"
      /\ lost \subseteq lost'
      /\ UNCHANGED <<events, judged, req, cre>>
  BY DestructionFrame
<1>2. ASSUME NEW p \in Projects, rec'[p].status = "CREATING"
      PROVE  CreationPending(p)' \/ p \in lost'
  <2>1. rec[p].status = "CREATING"
    BY <1>1, <1>2
  <2> QED
    BY <1>1, <2>1 DEF CreatingHasWorkflow, CreationPending, RunsCreation
<1>3. ASSUME NEW p \in Projects, rec'[p].status = "DESTROYING"
      PROVE  DestructionPending(p)' \/ p \in lost'
  <2>1. CASE p = q
    BY <1>1, <1>3, <2>1 DEF DestructionPending, RunsDestruction
  <2>2. CASE p # q
    BY <1>1, <1>3, <2>2 DEF DestroyingHasWorkflow, DestructionPending, RunsDestruction
  <2> QED
    BY <2>1, <2>2
<1> QED
  BY <1>2, <1>3 DEF CreatingHasWorkflow, DestroyingHasWorkflow

LEMMA PlatformPending ==
    ASSUME TypeOK, CreatingHasWorkflow, DestroyingHasWorkflow,
           NEW c \in Creations,
           \/ EventStep(c) \/ EventFails(c)
           \/ ClassifyFsx(c) \/ DeleteOrphan(c) \/ Service(c)
    PROVE  CreatingHasWorkflow' /\ DestroyingHasWorkflow'
<1> USE DEF cloud, queues, table, flows
<1> DEFINE q == cre[c].proj
<1>1. CASE ReadForEvent(c)
  \* The event is dropped only when the record is not CREATING.
  <2>1. ASSUME NEW p \in Projects, rec[p].status = "CREATING"
        PROVE  CreationPending(p)' \/ p \in lost'
    <3>1. CASE \E x \in events \cup judged : cre[x].proj = p
      BY <1>1, <2>1, <3>1 DEF ReadForEvent, CreationPending
    <3>2. CASE ~\E x \in events \cup judged : cre[x].proj = p
      BY <1>1, <2>1, <3>2 DEF ReadForEvent, CreatingHasWorkflow,
         CreationPending, RunsCreation
    <3> QED
      BY <3>1, <3>2
  <2> QED
    BY <1>1, <2>1 DEF ReadForEvent, CreatingHasWorkflow, DestroyingHasWorkflow,
       DestructionPending, RunsDestruction
<1>2. CASE FailFromEvent(c)
  <2>1. /\ q \in Projects /\ rec'[q].status = "FAILED"
        /\ \A p \in Projects \ {q} : rec'[p] = rec[p]
        /\ events' = events /\ judged' = judged \ {c}
        /\ UNCHANGED <<req, cre, des, lost>>
    BY <1>2, StartedCreationType DEF FailFromEvent, SetStatus, TypeOK,
       StartedCreation, Record
  <2> QED
    BY <2>1 DEF CreatingHasWorkflow, DestroyingHasWorkflow, CreationPending,
       DestructionPending, RunsCreation, RunsDestruction
<1>3. CASE EventFails(c)
  BY <1>3 DEF EventFails, CreatingHasWorkflow, DestroyingHasWorkflow,
     CreationPending, DestructionPending, RunsCreation, RunsDestruction
<1>4. CASE ClassifyFsx(c) \/ DeleteOrphan(c) \/ Service(c)
  <2>1. UNCHANGED <<rec, req, cre, des, events, judged, lost>>
    BY <1>4 DEF ClassifyFsx, DeleteOrphan, Service, FsxReady, PcsReady, PcsGone, SubGone
  <2> QED
    BY <2>1 DEF CreatingHasWorkflow, DestroyingHasWorkflow, CreationPending,
       DestructionPending, RunsCreation, RunsDestruction
<1> QED
  BY <1>1, <1>2, <1>3, <1>4 DEF EventStep

-----------------------------------------------------------------------------
PendingInv == TypeOK /\ CreatingHasWorkflow /\ DestroyingHasWorkflow

LEMMA PendingInit == Init => PendingInv
BY InitType DEF PendingInv, Init, NoRecord, CreatingHasWorkflow, DestroyingHasWorkflow

LEMMA PendingNext == PendingInv /\ [Next]_vars => PendingInv'
<1> SUFFICES ASSUME PendingInv, [Next]_vars PROVE PendingInv'
  OBVIOUS
<1>1. TypeOK /\ CreatingHasWorkflow /\ DestroyingHasWorkflow
  BY DEF PendingInv
<1>2. TypeOK'
  BY <1>1, NextType
<1>3. CreatingHasWorkflow' /\ DestroyingHasWorkflow'
  <2>1. CASE ApiStep
    BY <1>1, <2>1, ApiPending
  <2>2. CASE CreationNext
    BY <1>1, <2>2, CreationStepPending, LateCallPending DEF CreationNext
  <2>3. CASE DestructionNext
    BY <1>1, <2>3, DestructionStepPending DEF DestructionNext
  <2>4. CASE PlatformNext
    BY <1>1, <2>4, PlatformPending DEF PlatformNext
  <2>5. CASE UNCHANGED vars
    BY <1>1, <2>5 DEF vars, CreatingHasWorkflow, DestroyingHasWorkflow,
       CreationPending, DestructionPending, RunsCreation, RunsDestruction
  <2> QED
    BY <2>1, <2>2, <2>3, <2>4, <2>5 DEF Next
<1> QED
  BY <1>2, <1>3 DEF PendingInv

(* A record in CREATING always has a creation at work for it, a request     *)
(* about to start one, or a failure event that has not been handled; the    *)
(* only exceptions are a failed start and a failed event handler.           *)
THEOREM CreatingAlwaysHasWorkflow == Spec => []CreatingHasWorkflow
<1>1. PendingInv => CreatingHasWorkflow
  BY DEF PendingInv
<1> QED
  BY <1>1, PendingInit, PendingNext, PTL DEF Spec

(* A record in DESTROYING always has a destruction at work for it or a      *)
(* request about to start one; the only exceptions are a failed start, a    *)
(* timeout and a failed write of DESTRUCTION_FAILED.                        *)
THEOREM DestroyingAlwaysHasWorkflow == Spec => []DestroyingHasWorkflow
<1>1. PendingInv => DestroyingHasWorkflow
  BY DEF PendingInv
<1> QED
  BY <1>1, PendingInit, PendingNext, PTL DEF Spec
=============================================================================
