---------------------------- MODULE ProjectProofs ----------------------------
(***************************************************************************)
(* Theorems about ProjectLifecycle for every number of clients and         *)
(* executions, whatever is asked for and whatever fails: its type          *)
(* invariant, that no project is left in a transitional status with nobody *)
(* to move it on, that one workflow at a time works on it, that it         *)
(* implements ProjectStatus, that a project being destroyed has no live    *)
(* cluster, and that members keep their access.                            *)
(***************************************************************************)
EXTENDS ProjectLifecycle, TLAPS

\* The facts about the tables that the proofs use: a workflow can end from its
\* own transitional status, and it ends in a status that is not transitional.
LEMMA Tables ==
    /\ \A w \in Workflows :
          /\ Transitional[w] \in Sources(Target[w])
          /\ Transitional[w] \in Sources(Fallback[w])
          /\ Transitional[w] \in Statuses
          /\ Target[w] \in Statuses \ InTransition
          /\ Fallback[w] \in Statuses \ InTransition
    /\ {"ABSENT", "STUB", "CREATED", "ACTIVE", "ARCHIVED"}
          \subseteq Statuses \ InTransition
<1>1. ASSUME NEW w \in Workflows
      PROVE  /\ Transitional[w] \in Statuses
             /\ Target[w] \in Statuses /\ Fallback[w] \in Statuses
             /\ Target[w] \in ValidTransitions[Transitional[w]]
             /\ Fallback[w] \in ValidTransitions[Transitional[w]]
  <2>1. CASE w = "deploy"
    BY <2>1 DEF Statuses, ValidTransitions, Transitional, Target, Fallback
  <2>2. CASE w = "update"
    BY <2>2 DEF Statuses, ValidTransitions, Transitional, Target, Fallback
  <2>3. CASE w = "destroy"
    BY <2>3 DEF Statuses, ValidTransitions, Transitional, Target, Fallback
  <2> QED
    BY <2>1, <2>2, <2>3 DEF Workflows
<1>2. InTransition = {"DEPLOYING", "UPDATING", "DESTROYING"}
  BY DEF InTransition, Workflows, Transitional
<1>3. \A w \in Workflows : Target[w] \notin InTransition /\ Fallback[w] \notin InTransition
  BY <1>2 DEF Workflows, Target, Fallback
<1> QED
  BY <1>1, <1>2, <1>3 DEF Sources, Statuses

LEMMA TouchedStatus ==
    ASSUME status \in Statuses
    PROVE  /\ Touched \in Statuses
           /\ Touched \in InTransition => Touched = status
  BY Tables DEF Touched, Statuses

LEMMA InitType == Init => TypeOK
<1> SUFFICES ASSUME Init PROVE TypeOK
  OBVIOUS
<1>1. NoRun \in [kind : Workflows, pc : RunPcs, build : Builds]
  BY DEF NoRun, Workflows, RunPcs, Builds
<1>2. NoReq \in [op : Operations, stage : Stages]
  BY DEF NoReq, Operations, Workflows, Stages
<1> QED
  BY <1>1, <1>2 DEF Init, TypeOK, Statuses

\* Every step preserves the type invariant.
LEMMA NextType ==
    ASSUME TypeOK, [Next]_vars
    PROVE  TypeOK'
<1> USE DEF TypeOK, record, cloud, people
<1>0. Touched \in Statuses
  BY TouchedStatus
<1>1. ASSUME NEW k \in Clients, NEW s \in Stages, Goto(k, s)
      PROVE  reqs' \in [Clients -> [op : Operations, stage : Stages]]
  BY <1>1 DEF Goto
<1>2. ASSUME NEW r \in Runs, NEW from, NEW to \in RunPcs, Step(r, from, to)
      PROVE  runs' \in [Runs -> [kind : Workflows, pc : RunPcs, build : Builds]]
  BY <1>2 DEF Step
<1>3. CASE CreateProject \/ AddMember \/ ClusterEnds
  BY <1>3 DEF CreateProject, AddMember, ClusterEnds, Statuses
<1>4. ASSUME NEW k \in Clients, NEW op \in Ops, Ask(k, op)
      PROVE  TypeOK'
  BY <1>4, ConstantsAssumption DEF Ask, Stages
<1>5. ASSUME NEW k \in Clients, Request(k)
      PROVE  TypeOK'
  <2> USE DEF Stages
  <2>1. CASE BeginWorkflow(k)
    BY <2>1, <1>1, Tables DEF BeginWorkflow
  <2>2. CASE Conflict(k) \/ RestoreFails(k) \/ PutCluster(k)
    BY <2>2, <1>1 DEF Conflict, RestoreFails, PutCluster
  <2>3. CASE StartRun(k)
    <3>1. status' \in Statuses
      BY <2>3, <1>0 DEF StartRun, Touch
    <3>2. runs' \in [Runs -> [kind : Workflows, pc : RunPcs, build : Builds]]
      BY <2>3 DEF StartRun, RunPcs, Builds
    <3> QED
      BY <2>3, <3>1, <3>2, <1>1 DEF StartRun
  <2>4. CASE StartFails(k)
    BY <2>4, <1>0, <1>1 DEF StartFails
  <2>5. CASE RevokeAccess(k) \/ DeleteMembers(k)
    BY <2>5, <1>1 DEF RevokeAccess, DeleteMembers
  <2>6. CASE RestoreAccess(k)
    BY <2>6, <1>1 DEF RestoreAccess
  <2>7. CASE EndChange(k)
    BY <2>7, <1>1 DEF EndChange, Statuses
  <2>8. CASE DeleteRecord(k)
    BY <2>8, <1>1 DEF DeleteRecord, Statuses
  <2> QED
    BY <1>5, <2>1, <2>2, <2>3, <2>4, <2>5, <2>6, <2>7, <2>8 DEF Request
<1>6. ASSUME NEW r \in Runs, Progress(r) \/ BuildEnds(r) \/ StepFails(r) \/ TimeOut(r)
      PROVE  TypeOK'
  <2>1. CASE ValidateAndStart(r)
    <3>1. \E to \in RunPcs, b \in Builds :
              runs' = [runs EXCEPT ![r] = [runs[r] EXCEPT !.pc = to, !.build = b]]
      <4> DEFINE valid == /\ status = Transitional[runs[r].kind]
                         /\ runs[r].kind = "destroy" => clusters # "live"
      <4>1. CASE valid
        BY <2>1, <4>1 DEF ValidateAndStart, RunPcs, Builds
      <4>2. CASE ~valid
        BY <2>1, <4>2 DEF ValidateAndStart, RunPcs, Builds
      <4> QED
        BY <4>1, <4>2
    <3>2. runs' \in [Runs -> [kind : Workflows, pc : RunPcs, build : Builds]]
      BY <3>1
    <3> QED
      BY <2>1, <1>0, <3>2 DEF ValidateAndStart, Touch
  <2>2. CASE CheckBuild(r)
    BY <2>2, <1>0 DEF CheckBuild, Touch, RunPcs
  <2>3. CASE RecordInfra(r)
    BY <2>3, <1>0, <1>2 DEF RecordInfra, Touch, RunPcs
  <2>4. CASE Finish(r)
    BY <2>4, <1>2, Tables DEF Finish, RunPcs
  <2>5. CASE FinishConflict(r)
    BY <2>5, <1>2 DEF FinishConflict, RunPcs
  <2>6. CASE Unwind(r)
    <3>1. Step(r, "unwind", "ended") /\ status' \in Statuses /\ lost' \in BOOLEAN
      BY <2>6, Tables DEF Unwind
    <3> QED
      BY <2>6, <3>1, <1>2 DEF Unwind, RunPcs
  <2>7. CASE BuildEnds(r)
    BY <2>7 DEF BuildEnds, Builds
  <2>8. CASE StepFails(r)
    BY <2>8, <1>2 DEF StepFails, RunPcs
  <2>9. CASE TimeOut(r)
    BY <2>9 DEF TimeOut, RunPcs
  <2> QED
    BY <1>6, <2>1, <2>2, <2>3, <2>4, <2>5, <2>6, <2>7, <2>8, <2>9 DEF Progress
<1>7. CASE UNCHANGED vars
  BY <1>7 DEF vars
<1> QED
  BY <1>3, <1>4, <1>5, <1>6, <1>7 DEF Next

\* The variables of every reachable state have their types.
THEOREM TypeCorrect == Spec => []TypeOK
<1>1. Init => TypeOK
  BY InitType
<1>2. TypeOK /\ [Next]_vars => TypeOK'
  BY NextType
<1> QED
  BY <1>1, <1>2, PTL DEF Spec

\* What keeps TransitionalHasWorkflow: a step that makes no new transitional
\* status and takes no workflow from the record that has one.
LEMMA Frame ==
    ASSUME TransitionalHasWorkflow,
           status' \in InTransition => status' = status,
           status' \in InTransition =>
               \/ lost'
               \/ /\ ~lost
                  /\ \A k \in Clients : Owns(k, status) => Owns(k, status)'
                  /\ \A r \in Runs : Running(r) /\ Transitional[runs[r].kind] = status
                        => (Running(r) /\ Transitional[runs[r].kind] = status)'
    PROVE  TransitionalHasWorkflow'
  BY DEF TransitionalHasWorkflow

\* A request that is not one of a workflow that has begun leaves the others'.
LEMMA RequestFrame ==
    ASSUME TypeOK, NEW k \in Clients, NEW q,
           reqs' = [reqs EXCEPT ![k] = q],
           ~(reqs[k].op \in Workflows /\ reqs[k].stage = "changed")
    PROVE  \A j \in Clients, s \in Statuses : Owns(j, s) => Owns(j, s)'
  BY DEF TypeOK, Owns

\* Every step preserves TransitionalHasWorkflow.
LEMMA NextOwned ==
    ASSUME TypeOK, TransitionalHasWorkflow, [Next]_vars
    PROVE  TransitionalHasWorkflow'
<1> USE DEF record, cloud, people
<1>1. CASE CreateProject \/ AddMember \/ ClusterEnds
  BY <1>1, Frame, Tables DEF CreateProject, AddMember, ClusterEnds, Owns, Running
<1>2. ASSUME NEW k \in Clients, NEW op \in Ops, Ask(k, op)
      PROVE  TransitionalHasWorkflow'
  <2>1. reqs' = [reqs EXCEPT ![k] = [op |-> op, stage |-> "checked"]]
        /\ reqs[k].stage = "idle" /\ UNCHANGED <<status, runs, lost>>
    BY <1>2 DEF Ask
  <2>2. \A j \in Clients, s \in Statuses : Owns(j, s) => Owns(j, s)'
    BY <2>1, RequestFrame
  <2> QED
    BY <2>1, <2>2, Frame DEF TypeOK, Running, Owns
<1>3. ASSUME NEW k \in Clients, Request(k)
      PROVE  TransitionalHasWorkflow'
  <2>1. CASE BeginWorkflow(k)
    <3>1. Owns(k, status)'
      BY <2>1 DEF BeginWorkflow, Goto, Owns, TypeOK
    <3> QED
      BY <3>1 DEF TransitionalHasWorkflow
  <2>2. CASE StartRun(k)
    <3>1. PICK r \in Runs :
             /\ runs[r].pc = "unused"
             /\ runs' = [runs EXCEPT ![r] = [kind |-> reqs[k].op, pc |-> "validate",
                                             build |-> "none"]]
      BY <2>2 DEF StartRun
    <3>2. Running(r)' /\ runs'[r].kind = reqs[k].op
      BY <3>1 DEF TypeOK, Running
    <3>3. \A s \in Runs : Running(s) => Running(s)' /\ runs'[s].kind = runs[s].kind
      BY <3>1 DEF TypeOK, Running
    <3>4. \A j \in Clients \ {k}, t \in Statuses : Owns(j, t) => Owns(j, t)'
      BY <2>2 DEF StartRun, Goto, Owns, TypeOK
    <3>5. Owns(k, status) => Running(r)' /\ Transitional[runs'[r].kind] = status
      BY <3>2 DEF Owns
    <3>6. status' \in InTransition => status' = status
      BY <2>2, TouchedStatus DEF StartRun, Touch, TypeOK
    <3>7. lost' = lost
      BY <2>2 DEF StartRun
    <3> QED
      BY <3>1, <3>3, <3>4, <3>5, <3>6, <3>7 DEF TransitionalHasWorkflow, TypeOK
  <2>3. CASE StartFails(k)
    BY <2>3 DEF StartFails, TransitionalHasWorkflow
  <2>4. CASE \/ Conflict(k) \/ RevokeAccess(k) \/ RestoreAccess(k) \/ RestoreFails(k)
             \/ EndChange(k) \/ DeleteMembers(k) \/ DeleteRecord(k) \/ PutCluster(k)
    <3>1. PICK s \in Stages : Goto(k, s)
      BY <2>4 DEF Conflict, RevokeAccess, RestoreAccess, RestoreFails, EndChange,
         DeleteMembers, DeleteRecord, PutCluster, Stages
    <3>2. ~(reqs[k].op \in Workflows /\ reqs[k].stage = "changed")
      BY <2>4 DEF Conflict, RevokeAccess, RestoreAccess, RestoreFails, EndChange,
         DeleteMembers, DeleteRecord, PutCluster, Workflows
    <3>3. \A j \in Clients, t \in Statuses : Owns(j, t) => Owns(j, t)'
      BY <3>1, <3>2 DEF Goto, Owns, TypeOK
    <3>4. runs' = runs /\ lost' = lost
      BY <2>4 DEF Conflict, RevokeAccess, RestoreAccess, RestoreFails, EndChange,
         DeleteMembers, DeleteRecord, PutCluster
    <3>5. status' = status \/ status' \in {"ABSENT", "ACTIVE", "ARCHIVED"}
      BY <2>4 DEF Conflict, RevokeAccess, RestoreAccess, RestoreFails, EndChange,
         DeleteMembers, DeleteRecord, PutCluster
    <3>6. status' \in InTransition => status' = status
      BY <3>5, Tables
    <3> QED
      BY <3>3, <3>4, <3>6 DEF TypeOK, TransitionalHasWorkflow, Running
  <2> QED
    BY <1>3, <2>1, <2>2, <2>3, <2>4 DEF Request
<1>4. ASSUME NEW r \in Runs, Progress(r) \/ BuildEnds(r) \/ StepFails(r) \/ TimeOut(r)
      PROVE  TransitionalHasWorkflow'
  <2>1. reqs' = reqs
    BY <1>4 DEF Progress, ValidateAndStart, CheckBuild, RecordInfra, Finish,
       FinishConflict, Unwind, BuildEnds, StepFails, TimeOut
  <2> DEFINE Goes == /\ lost' = lost
                     /\ status' \in InTransition => status' = status
                     /\ Running(r) => Running(r)'
                     /\ runs'[r].kind = runs[r].kind
                     /\ \A s \in Runs \ {r} : runs'[s] = runs[s]
  <2>2. ASSUME Goes PROVE TransitionalHasWorkflow'
    BY <2>1, <2>2 DEF TransitionalHasWorkflow, Running, Owns
  <2>3. ASSUME NEW from, NEW to \in RunPcs \ {"unused", "ended"}, Step(r, from, to)
        PROVE  /\ Running(r) => Running(r)'
               /\ runs'[r].kind = runs[r].kind
               /\ \A s \in Runs \ {r} : runs'[s] = runs[s]
    BY <2>3 DEF Step, TypeOK, Running, RunPcs
  <2>4. CASE ValidateAndStart(r)
    <3>1. Goes
      BY <2>4, TouchedStatus DEF ValidateAndStart, Touch, TypeOK, Running
    <3> QED
      BY <2>2, <3>1
  <2>5. CASE CheckBuild(r)
    <3>1. Goes
      BY <2>5, TouchedStatus DEF CheckBuild, Touch, TypeOK, Running
    <3> QED
      BY <2>2, <3>1
  <2>6. CASE RecordInfra(r)
    <3>1. Goes
      BY <2>6, <2>3, TouchedStatus DEF RecordInfra, Touch, TypeOK, RunPcs
    <3> QED
      BY <2>2, <3>1
  <2>7. CASE Finish(r)
    BY <2>7, Tables DEF Finish, TypeOK, TransitionalHasWorkflow
  <2>8. CASE FinishConflict(r)
    <3>1. Goes
      BY <2>8, <2>3 DEF FinishConflict, RunPcs
    <3> QED
      BY <2>2, <3>1
  <2>9. CASE StepFails(r)
    <3>1. Goes
      BY <2>9, <2>3 DEF StepFails, RunPcs
    <3> QED
      BY <2>2, <3>1
  <2>10. CASE TimeOut(r)
    BY <2>10 DEF TimeOut, TransitionalHasWorkflow
  <2>11. CASE BuildEnds(r)
    <3>1. Goes
      BY <2>11 DEF BuildEnds, TypeOK, Running
    <3> QED
      BY <2>2, <3>1
  <2>12. CASE Unwind(r)
    <3>1. CASE lost'
      BY <3>1 DEF TransitionalHasWorkflow
    <3>2. CASE ~lost' /\ CanReach(Fallback[runs[r].kind])
      BY <2>12, <3>2, Tables DEF Unwind, TypeOK, TransitionalHasWorkflow
    <3>3. CASE ~lost' /\ ~CanReach(Fallback[runs[r].kind])
      <4>1. status' = status /\ lost' = lost /\ Step(r, "unwind", "ended")
        BY <2>12, <3>3 DEF Unwind
      <4>2. Transitional[runs[r].kind] # status
        BY <3>3, Tables DEF CanReach, TypeOK
      <4>3. \A s \in Runs \ {r} : runs'[s] = runs[s]
        BY <4>1 DEF Step, TypeOK
      <4> QED
        BY <2>1, <3>3, <4>1, <4>2, <4>3 DEF TransitionalHasWorkflow, Running, Owns
    <3> QED
      BY <3>1, <3>2, <3>3
  <2> QED
    BY <1>4, <2>4, <2>5, <2>6, <2>7, <2>8, <2>9, <2>10, <2>11, <2>12 DEF Progress
<1>5. CASE UNCHANGED vars
  BY <1>5 DEF vars, TransitionalHasWorkflow, Owns, Running
<1> QED
  BY <1>1, <1>2, <1>3, <1>4, <1>5 DEF Next

\* Whatever is asked for, however requests race, and whatever fails, a project
\* in DEPLOYING, UPDATING or DESTROYING has a request or an execution that will
\* move it on, or one that should have was lost to a fault no handler catches.
THEOREM TransitionalAlwaysHasWorkflow == Spec => []TransitionalHasWorkflow
<1>1. Init => TransitionalHasWorkflow
  BY Tables DEF Init, TransitionalHasWorkflow
<1>2. TypeOK /\ TransitionalHasWorkflow /\ [Next]_vars => TransitionalHasWorkflow'
  BY NextOwned
<1> QED
  BY <1>1, <1>2, TypeCorrect, PTL DEF Spec

-----------------------------------------------------------------------------
(* One workflow at a time, when no completed Lambda call is repeated and     *)
(* requests are made as the guides describe; or however they are made, when  *)
(* nobody deactivates, reactivates or deletes the project.                   *)

Solitary == {"deactivate", "reactivate", "delete"}
Orderly ==
    /\ "retry" \notin Faults
    /\ Documented \/ Ops \cap Solitary = {}

Begun(k) == reqs[k].op \in Workflows /\ reqs[k].stage = "changed"

\* A request that changes the project without a workflow is the only one, and
\* the record still has the status it was accepted with.
IsAlone(k) ==
    /\ \A j \in Clients \ {k} : reqs[j].stage = "idle"
    /\ reqs[k].op = "deactivate" => status = "ACTIVE"
    /\ reqs[k].op = "reactivate" => status = "ARCHIVED"
    /\ reqs[k].op = "delete" => status \in {"CREATED", "ARCHIVED"}

AloneInv ==
    \A k \in Clients :
        /\ reqs[k].stage # "idle" => reqs[k].op \in Ops
        /\ reqs[k].stage # "idle" /\ reqs[k].op \in Solitary => IsAlone(k)

\* The record shows the transitional status of whoever is at work on it, so a
\* conditional transition into such a status finds nobody at work.
OwnerInv ==
    /\ \A k \in Clients : Begun(k) => status = Transitional[reqs[k].op]
    /\ \A r \in Runs : Running(r) => status = Transitional[runs[r].kind]
    /\ \A j, k \in Clients : Begun(j) /\ Begun(k) => j = k
    /\ \A k \in Clients, r \in Runs : ~(Begun(k) /\ Running(r))
    /\ OneProjectWorkflow

LEMMA TransitionalFromStable ==
    \A w \in Workflows : /\ Transitional[w] \in InTransition
                         /\ Sources(Transitional[w]) \cap InTransition = {}
<1>1. InTransition = {"DEPLOYING", "UPDATING", "DESTROYING"}
  BY DEF InTransition, Workflows, Transitional
<1>2. \A s \in InTransition : ValidTransitions[s] \cap InTransition = {}
  BY <1>1 DEF ValidTransitions, Statuses
<1> QED
  BY <1>1, <1>2 DEF Sources, InTransition

LEMMA QuietWhenStable ==
    ASSUME TypeOK, OwnerInv, status \notin InTransition
    PROVE  /\ \A k \in Clients : ~Begun(k)
           /\ \A r \in Runs : ~Running(r)
  BY TransitionalFromStable DEF OwnerInv, TypeOK, Begun

\* Who is alone finds a stable status.
LEMMA AloneStable ==
    ASSUME NEW k \in Clients, IsAlone(k), reqs[k].op \in Solitary
    PROVE  status \in {"ACTIVE", "ARCHIVED", "CREATED"}
  BY DEF IsAlone, Solitary

LEMMA NextOwner ==
    ASSUME Orderly, TypeOK, AloneInv, OwnerInv, [Next]_vars
    PROVE  OwnerInv'
<1> USE DEF record, cloud, people, OneProjectWorkflow
<1> DEFINE Quiet == /\ \A k \in Clients : ~Begun(k)
                    /\ \A r \in Runs : ~Running(r)
<1>1. status \notin InTransition => Quiet
  BY QuietWhenStable
<1>2. Touched = status \/ Quiet
  BY <1>1, Tables DEF Touched
<1>3. CASE CreateProject \/ AddMember \/ ClusterEnds
  BY <1>1, <1>3, Tables DEF CreateProject, AddMember, ClusterEnds, OwnerInv, Begun, Running
<1>4. ASSUME NEW k \in Clients, NEW op \in Ops, Ask(k, op)
      PROVE  OwnerInv'
  <2>1. /\ reqs' = [reqs EXCEPT ![k] = [op |-> op, stage |-> "checked"]]
        /\ UNCHANGED <<status, runs>>
    BY <1>4 DEF Ask
  <2>2. \A j \in Clients : Begun(j)' => Begun(j) /\ reqs'[j] = reqs[j]
    BY <2>1 DEF TypeOK, Begun
  <2> QED
    BY <2>1, <2>2 DEF OwnerInv, Running
<1>5. ASSUME NEW k \in Clients, Request(k)
      PROVE  OwnerInv'
  <2>1. CASE BeginWorkflow(k)
    <3>1. Quiet
      BY <2>1, <1>1, TransitionalFromStable DEF BeginWorkflow, CanReach
    <3>2. /\ \A j \in Clients : Begun(j)' => j = k
          /\ reqs'[k].op = reqs[k].op
      BY <2>1, <3>1 DEF BeginWorkflow, Goto, TypeOK, Begun
    <3> QED
      BY <2>1, <3>1, <3>2 DEF BeginWorkflow, OwnerInv, Running
  <2>2. CASE StartRun(k)
    <3>1. PICK r \in Runs :
             /\ runs[r].pc = "unused"
             /\ runs' = [runs EXCEPT ![r] = [kind |-> reqs[k].op, pc |-> "validate",
                                             build |-> "none"]]
      BY <2>2 DEF StartRun
    <3>2. Begun(k) /\ status' = status
      BY <2>2, <1>2 DEF StartRun, Begun, Touch
    <3>3. \A s \in Runs : Running(s)' => s = r
      BY <3>1, <3>2 DEF OwnerInv, TypeOK, Running
    <3>4. runs'[r].kind = reqs[k].op
      BY <3>1 DEF TypeOK
    <3>5. \A j \in Clients : ~Begun(j)'
      BY <2>2, <3>2 DEF StartRun, Goto, TypeOK, Begun, OwnerInv
    <3> QED
      BY <3>2, <3>3, <3>4, <3>5 DEF OwnerInv
  <2>3. CASE StartFails(k)
    <3>1. Begun(k) /\ status' = status /\ runs' = runs
      BY <2>3, <1>2 DEF StartFails, Begun
    <3>2. \A j \in Clients : ~Begun(j)'
      BY <2>3, <3>1 DEF StartFails, Goto, TypeOK, Begun, OwnerInv
    <3> QED
      BY <3>1, <3>2 DEF OwnerInv, Running
  <2>4. CASE Conflict(k) \/ PutCluster(k)
    <3>1. reqs' = [reqs EXCEPT ![k].stage = "idle"] /\ UNCHANGED <<status, runs>>
      BY <2>4 DEF Conflict, PutCluster, Goto
    <3>2. \A j \in Clients : Begun(j)' => Begun(j) /\ reqs'[j] = reqs[j]
      BY <3>1 DEF TypeOK, Begun
    <3> QED
      BY <3>1, <3>2 DEF OwnerInv, Running
  <2>5. CASE \/ RevokeAccess(k) \/ RestoreAccess(k) \/ RestoreFails(k)
             \/ EndChange(k) \/ DeleteMembers(k) \/ DeleteRecord(k)
    <3>1. /\ runs' = runs
          /\ reqs[k].op \in Solitary /\ reqs[k].stage # "idle"
          /\ \E stage \in Stages : Goto(k, stage)
      BY <2>5 DEF RevokeAccess, RestoreAccess, RestoreFails, EndChange, DeleteMembers,
         DeleteRecord, Solitary, Stages
    <3>2. Quiet
      BY <1>1, <3>1, AloneStable, Tables DEF AloneInv
    <3>3. \A j \in Clients : ~Begun(j)'
      BY <3>1, <3>2 DEF Goto, TypeOK, Begun, Solitary, Workflows
    <3> QED
      BY <3>1, <3>2, <3>3 DEF OwnerInv, Running
  <2> QED
    BY <1>5, <2>1, <2>2, <2>3, <2>4, <2>5 DEF Request
<1>6. ASSUME NEW r \in Runs, Progress(r) \/ BuildEnds(r) \/ StepFails(r) \/ TimeOut(r)
      PROVE  OwnerInv'
  <2>1. reqs' = reqs
    BY <1>6 DEF Progress, ValidateAndStart, CheckBuild, RecordInfra, Finish,
       FinishConflict, Unwind, BuildEnds, StepFails, TimeOut
  <2> DEFINE Others == \A s \in Runs \ {r} : runs'[s] = runs[s]
             Goes == /\ Others
                     /\ runs'[r].kind = runs[r].kind
                     /\ Running(r)' => Running(r)
                     /\ status' = status
  <2>2. ASSUME Goes PROVE OwnerInv'
    BY <2>1, <2>2 DEF OwnerInv, Running, Begun
  <2>3. ASSUME NEW from, NEW to, Step(r, from, to)
        PROVE  /\ Others
               /\ runs[r].pc = from /\ runs'[r].pc = to
               /\ runs'[r].kind = runs[r].kind
    BY <2>3 DEF Step, TypeOK
  <2>4. CASE ValidateAndStart(r)
    BY <2>2, <2>4, <1>2 DEF ValidateAndStart, Touch, TypeOK, Running
  <2>5. CASE CheckBuild(r)
    BY <2>2, <2>5, <1>2 DEF CheckBuild, Touch, TypeOK, Running
  <2>6. CASE RecordInfra(r)
    BY <2>2, <2>3, <2>6, <1>2 DEF RecordInfra, Touch, Running
  <2>7. CASE Finish(r)
    <3>1. Step(r, "finish", "ended")
      BY <2>7 DEF Finish, Orderly
    <3>2. Running(r) /\ ~Running(r)' /\ Others
      BY <2>3, <3>1 DEF Running
    <3>3. /\ \A k \in Clients : ~Begun(k)'
          /\ \A s \in Runs : ~Running(s)'
      BY <2>1, <3>2 DEF OwnerInv, Running, Begun
    <3> QED
      BY <2>1, <3>3 DEF OwnerInv
  <2>8. CASE FinishConflict(r)
    BY <2>2, <2>3, <2>8 DEF FinishConflict, Running
  <2>9. CASE StepFails(r)
    BY <2>2, <2>3, <2>9 DEF StepFails, Running
  <2>10. CASE TimeOut(r)
    BY <2>2, <2>10 DEF TimeOut, TypeOK, Running
  <2>11. CASE BuildEnds(r)
    BY <2>2, <2>11 DEF BuildEnds, TypeOK, Running
  <2>12. CASE Unwind(r)
    <3>1. Running(r) /\ ~Running(r)' /\ Others
      BY <2>3, <2>12 DEF Unwind, Running
    <3>2. /\ \A k \in Clients : ~Begun(k)'
          /\ \A s \in Runs : ~Running(s)'
      BY <2>1, <3>1 DEF OwnerInv, Running, Begun
    <3> QED
      BY <2>1, <3>2 DEF OwnerInv
  <2> QED
    BY <1>6, <2>4, <2>5, <2>6, <2>7, <2>8, <2>9, <2>10, <2>11, <2>12 DEF Progress
<1>7. CASE UNCHANGED vars
  BY <1>7 DEF vars, OwnerInv, Begun, Running
<1> QED
  BY <1>3, <1>4, <1>5, <1>6, <1>7 DEF Next

LEMMA InitAlone == Init => AloneInv /\ OwnerInv
  BY DEF Init, AloneInv, OwnerInv, OneProjectWorkflow, Begun, Running, NoRun, NoReq

\* Steps of a request that is not the only one, and those of no request, leave
\* a record alone that a solitary request has read.
LEMMA NextAlone ==
    ASSUME Orderly, TypeOK, AloneInv, OwnerInv, [Next]_vars
    PROVE  AloneInv'
<1> USE DEF record, cloud, people
<1> DEFINE Kept(k) == reqs[k].stage # "idle" /\ reqs[k].op \in Solitary => status' = status
<1>1. ASSUME reqs' = reqs, \A k \in Clients : Kept(k)
      PROVE  AloneInv'
  BY <1>1 DEF AloneInv, IsAlone
<1>2. ASSUME NEW k \in Clients, reqs[k].stage # "idle", reqs[k].op \in Solitary
      PROVE  /\ status \in {"ACTIVE", "ARCHIVED", "CREATED"}
             /\ \A r \in Runs : ~Running(r)
  BY <1>2, AloneStable, QuietWhenStable, Tables DEF AloneInv
<1>3. CASE CreateProject \/ AddMember \/ ClusterEnds
  BY <1>1, <1>2, <1>3 DEF CreateProject, AddMember, ClusterEnds
<1>4. ASSUME NEW k \in Clients, NEW op \in Ops, Ask(k, op)
      PROVE  AloneInv'
  <2>1. /\ reqs' = [reqs EXCEPT ![k] = [op |-> op, stage |-> "checked"]]
        /\ reqs[k].stage = "idle" /\ status' = status
        /\ Admits(op)
    BY <1>4 DEF Ask
  <2>2. reqs'[k] = [op |-> op, stage |-> "checked"] /\ \A j \in Clients \ {k} : reqs'[j] = reqs[j]
    BY <2>1 DEF TypeOK
  <2>3. ASSUME op \in Solitary
        PROVE  /\ \A j \in Clients \ {k} : reqs[j].stage = "idle"
               /\ op = "delete" => status \in {"CREATED", "ARCHIVED"}
    BY <1>4, <2>3 DEF Ask, AsDocumented, Orderly, IdleClients, Exclusive, Operations,
       Workflows, Solitary
  <2>4. ASSUME op \in Solitary PROVE IsAlone(k)'
    <3>1. /\ op = "deactivate" => status = "ACTIVE"
          /\ op = "reactivate" => status = "ARCHIVED"
      BY <2>1 DEF Admits
    <3>2. reqs'[k].op = op
      BY <2>2
    <3> QED
      BY <2>1, <2>2, <2>3, <2>4, <3>1, <3>2 DEF IsAlone
  <2>5. ASSUME NEW j \in Clients \ {k}, reqs[j].stage # "idle", reqs[j].op \in Solitary
        PROVE  FALSE
    BY <1>4, <2>5 DEF Ask, AsDocumented, Orderly, IdleClients, Exclusive, Operations,
       Workflows, Solitary, AloneInv
  <2> QED
    BY <2>2, <2>4, <2>5 DEF AloneInv
<1>5. ASSUME NEW k \in Clients, Request(k)
      PROVE  AloneInv'
  <2>1. \E stage \in Stages : Goto(k, stage)
    BY <1>5 DEF Request, BeginWorkflow, Conflict, StartRun, StartFails, RevokeAccess,
       RestoreAccess, RestoreFails, EndChange, DeleteMembers, DeleteRecord, PutCluster, Stages
  <2>2. reqs[k].stage # "idle"
    BY <1>5 DEF Request, BeginWorkflow, Conflict, StartRun, StartFails, RevokeAccess,
       RestoreAccess, RestoreFails, EndChange, DeleteMembers, DeleteRecord, PutCluster
  <2>3. /\ \A j \in Clients \ {k} : reqs'[j] = reqs[j]
        /\ reqs'[k].op = reqs[k].op
    BY <2>1 DEF Goto, TypeOK
  <2>4. CASE \E j \in Clients \ {k} : reqs[j].stage # "idle"
    <3>1. \A j \in Clients : ~(reqs[j].stage # "idle" /\ reqs[j].op \in Solitary)
      BY <2>2, <2>4 DEF AloneInv, IsAlone
    <3> QED
      BY <2>2, <2>3, <3>1 DEF AloneInv
  <2>5. CASE \A j \in Clients \ {k} : reqs[j].stage = "idle"
    <3>1. ASSUME reqs'[k].stage # "idle", reqs[k].op \in Solitary
          PROVE  status' = status
      BY <1>5, <3>1 DEF Request, BeginWorkflow, Conflict, StartRun, StartFails, RevokeAccess,
         RestoreAccess, RestoreFails, EndChange, DeleteMembers, DeleteRecord, PutCluster,
         Goto, TypeOK, Solitary, Workflows
    <3> QED
      BY <2>2, <2>3, <2>5, <3>1 DEF AloneInv, IsAlone
  <2> QED
    BY <2>4, <2>5
<1>6. ASSUME NEW r \in Runs, Progress(r) \/ BuildEnds(r) \/ StepFails(r) \/ TimeOut(r)
      PROVE  AloneInv'
  <2>1. reqs' = reqs
    BY <1>6 DEF Progress, ValidateAndStart, CheckBuild, RecordInfra, Finish,
       FinishConflict, Unwind, BuildEnds, StepFails, TimeOut
  <2>2. Running(r) \/ status' = status
    BY <1>6 DEF Progress, ValidateAndStart, CheckBuild, RecordInfra, Finish,
       FinishConflict, Unwind, BuildEnds, StepFails, TimeOut, Step, Running
  <2> QED
    BY <1>1, <1>2, <2>1, <2>2
<1>7. CASE UNCHANGED vars
  BY <1>1, <1>7 DEF vars
<1> QED
  BY <1>3, <1>4, <1>5, <1>6, <1>7 DEF Next

\* However many requests to deploy, update and destroy a project race, and
\* whatever fails, at most one workflow works on it; the requests that change
\* it without a workflow come one by one, or not at all (Orderly).
THEOREM OneWorkflowAtATime ==
    ASSUME Orderly
    PROVE  Spec => []OneProjectWorkflow
<1>1. Init => AloneInv /\ OwnerInv
  BY InitAlone
<1>2. TypeOK /\ AloneInv /\ OwnerInv /\ [Next]_vars => AloneInv' /\ OwnerInv'
  BY NextAlone, NextOwner
<1>3. OwnerInv => OneProjectWorkflow
  BY DEF OwnerInv
<1> QED
  BY <1>1, <1>2, <1>3, TypeCorrect, PTL DEF Spec

-----------------------------------------------------------------------------
(* Under the same restriction the project follows the machine of           *)
(* ProjectStatus: each step is a step of it or leaves status and owner.     *)

AtWork == (\E r \in Runs : Running(r)) \/ (\E k \in Clients : Begun(k))

OwnerIs ==
    /\ \A r \in Runs : Running(r) => Owner = runs[r].kind
    /\ \A k \in Clients : Begun(k) => Owner = reqs[k].op
    /\ ~AtWork => Owner = "none"

LEMMA OwnerIsUnique == TypeOK /\ OwnerInv => OwnerIs
<1> SUFFICES ASSUME TypeOK, OwnerInv PROVE OwnerIs
  OBVIOUS
<1>1. \A k \in Clients : Begun(k) <=> \E s \in InTransition : Owns(k, s)
  BY TransitionalFromStable DEF Begun, Owns
<1>2. ASSUME NEW r \in Runs, Running(r)
      PROVE  Owner = runs[r].kind
  <2>1. Running(CHOOSE q \in Runs : Running(q)) /\ (CHOOSE q \in Runs : Running(q)) \in Runs
    BY <1>2
  <2>2. (CHOOSE q \in Runs : Running(q)) = r
    BY <1>2, <2>1 DEF OwnerInv, OneProjectWorkflow
  <2> QED
    BY <1>2, <2>2 DEF Owner
<1>3. ASSUME NEW k \in Clients, Begun(k)
      PROVE  Owner = reqs[k].op
  <2> DEFINE j == CHOOSE i \in Clients : \E s \in InTransition : Owns(i, s)
  <2>1. j \in Clients /\ \E s \in InTransition : Owns(j, s)
    BY <1>1, <1>3
  <2>2. j = k
    BY <1>1, <1>3, <2>1 DEF OwnerInv
  <2>3. ~\E r \in Runs : Running(r)
    BY <1>3 DEF OwnerInv
  <2> QED
    BY <1>1, <1>3, <2>2, <2>3 DEF Owner
<1>4. ~AtWork => Owner = "none"
  BY <1>1 DEF Owner, AtWork
<1> QED
  BY <1>2, <1>3, <1>4 DEF OwnerIs

LEMMA MachineTables ==
    /\ Machine!Workflows = Workflows /\ Machine!Before = Before
    /\ Machine!Transitional = Transitional
    /\ Machine!Target = Target /\ Machine!Fallback = Fallback
  BY DEF Machine!Workflows, Workflows, Machine!Before, Before, Machine!Transitional,
     Transitional, Machine!Target, Target, Machine!Fallback, Fallback

LEMMA OneSource ==
    \A w \in Workflows : Sources(Transitional[w]) = {Before[w]}
<1>1. Sources("DEPLOYING") = {"CREATED"}
  BY DEF Sources, ValidTransitions, Statuses
<1>2. Sources("UPDATING") = {"ACTIVE"}
  BY DEF Sources, ValidTransitions, Statuses
<1>3. Sources("DESTROYING") = {"ACTIVE"}
  BY DEF Sources, ValidTransitions, Statuses
<1> QED
  BY <1>1, <1>2, <1>3 DEF Workflows, Transitional, Before

\* The steps that no status and no owner changes.
SameOwner ==
    /\ status' = status
    /\ \A r \in Runs : /\ Running(r)' <=> Running(r)
                       /\ Running(r) => runs'[r].kind = runs[r].kind
    /\ \A k \in Clients : /\ Begun(k)' <=> Begun(k)
                          /\ Begun(k) => reqs'[k].op = reqs[k].op

LEMMA SameOwnerStutters ==
    ASSUME OwnerIs, OwnerIs', SameOwner
    PROVE  UNCHANGED Machine!vars
<1>1. CASE \E r \in Runs : Running(r)
  BY <1>1 DEF OwnerIs, SameOwner, Machine!vars
<1>2. CASE \E k \in Clients : Begun(k)
  BY <1>2 DEF OwnerIs, SameOwner, Machine!vars
<1>3. CASE ~AtWork
  <2>1. ~AtWork'
    BY <1>3 DEF AtWork, SameOwner
  <2> QED
    BY <1>3, <2>1 DEF OwnerIs, SameOwner, Machine!vars
<1> QED
  BY <1>1, <1>2, <1>3 DEF AtWork

\* The one at work ends, with a result or without one.
LEMMA WorkEnds ==
    ASSUME NEW w \in Workflows, OwnerIs', Owner = w, status = Transitional[w],
           status' \in {Target[w], Fallback[w], status}, ~AtWork'
    PROVE  Machine!Next
<1>1. Owner' = "none"
  BY DEF OwnerIs
<1>2. Machine!End(w)
  BY <1>1, MachineTables DEF Machine!End
<1> QED
  BY <1>2, MachineTables DEF Machine!Next

LEMMA NextFollowsMachine ==
    ASSUME Orderly, TypeOK, AloneInv, OwnerInv, OwnerIs, OwnerIs', [Next]_vars
    PROVE  [Machine!Next]_(Machine!vars)
<1> USE DEF record, cloud, people
<1>1. status \notin InTransition => ~AtWork
  BY TransitionalFromStable DEF OwnerInv, TypeOK, Begun, AtWork
<1>2. Touched = status \/ ~AtWork
  BY <1>1, Tables DEF Touched
<1>3. SameOwner => UNCHANGED Machine!vars
  BY SameOwnerStutters
<1>4. ASSUME CreateProject
      PROVE  Machine!Next
  <2>1. ~AtWork /\ ~AtWork' /\ status = "ABSENT" /\ status' = "CREATED"
    BY <1>1, <1>4, Tables DEF CreateProject, AtWork, Begun, Running
  <2>2. Machine!Move("ABSENT", "CREATED")
    BY <2>1 DEF OwnerIs, Machine!Move
  <2> QED
    BY <2>2 DEF Machine!Next
<1>5. CASE AddMember \/ ClusterEnds
  BY <1>3, <1>5 DEF AddMember, ClusterEnds, SameOwner, Begun, Running
<1>6. ASSUME NEW k \in Clients, NEW op \in Ops, Ask(k, op)
      PROVE  SameOwner
  BY <1>6 DEF Ask, SameOwner, TypeOK, Begun, Running
<1>7. ASSUME NEW k \in Clients, Request(k)
      PROVE  [Machine!Next]_(Machine!vars)
  <2>1. CASE BeginWorkflow(k)
    <3> DEFINE w == reqs[k].op
    <3>1. w \in Workflows /\ status = Before[w] /\ status' = Transitional[w]
      BY <2>1, OneSource DEF BeginWorkflow, CanReach
    <3>2. ~AtWork
      BY <2>1, <1>1, TransitionalFromStable DEF BeginWorkflow, CanReach
    <3>3. Begun(k)' /\ reqs'[k].op = w
      BY <2>1 DEF BeginWorkflow, Goto, TypeOK, Begun
    <3>4. Owner = "none" /\ Owner' = w
      BY <3>2, <3>3 DEF OwnerIs
    <3>5. Machine!Begin(w)
      BY <3>1, <3>4, MachineTables DEF Machine!Begin
    <3> QED
      BY <3>1, <3>5, MachineTables DEF Machine!Next
  <2>2. CASE StartRun(k)
    <3>1. PICK r \in Runs :
             /\ runs[r].pc = "unused"
             /\ runs' = [runs EXCEPT ![r] = [kind |-> reqs[k].op, pc |-> "validate",
                                             build |-> "none"]]
      BY <2>2 DEF StartRun
    <3>2. Begun(k) /\ status' = status
      BY <2>2, <1>2 DEF StartRun, Begun, Touch, AtWork
    <3>3. Running(r)' /\ runs'[r].kind = reqs[k].op
      BY <3>1 DEF TypeOK, Running
    <3> QED
      BY <3>2, <3>3 DEF OwnerIs, Machine!vars
  <2>3. CASE StartFails(k)
    <3>1. /\ Begun(k) /\ status' = status /\ runs' = runs
          /\ status = Transitional[reqs[k].op]
      BY <2>3, <1>2 DEF StartFails, Begun, AtWork, OwnerInv
    <3>2. \A j \in Clients : ~Begun(j)'
      BY <2>3, <3>1 DEF StartFails, Goto, TypeOK, Begun, OwnerInv
    <3>3. ~AtWork'
      BY <3>1, <3>2 DEF AtWork, OwnerInv, Running
    <3> QED
      BY <3>1, <3>3, WorkEnds DEF OwnerIs, Begun
  <2>4. CASE Conflict(k) \/ PutCluster(k)
    <3>1. /\ reqs' = [reqs EXCEPT ![k].stage = "idle"] /\ UNCHANGED <<status, runs>>
          /\ reqs[k].stage = "checked"
      BY <2>4 DEF Conflict, PutCluster, Goto
    <3> QED
      BY <3>1, <1>3 DEF SameOwner, TypeOK, Begun, Running
  <2>5. CASE \/ RevokeAccess(k) \/ RestoreAccess(k) \/ RestoreFails(k)
             \/ EndChange(k) \/ DeleteMembers(k) \/ DeleteRecord(k)
    <3>1. /\ runs' = runs
          /\ reqs[k].op \in Solitary /\ reqs[k].stage # "idle"
          /\ \E stage \in Stages : Goto(k, stage)
      BY <2>5 DEF RevokeAccess, RestoreAccess, RestoreFails, EndChange, DeleteMembers,
         DeleteRecord, Solitary, Stages
    <3>2. IsAlone(k)
      BY <3>1 DEF AloneInv
    <3>3. ~AtWork
      BY <1>1, <3>1, <3>2, AloneStable, Tables
    <3>4. ~AtWork'
      BY <3>1, <3>3 DEF Goto, TypeOK, AtWork, Begun, Running, Solitary, Workflows
    <3>5. Owner = "none" /\ Owner' = "none"
      BY <3>3, <3>4 DEF OwnerIs
    <3>6. CASE EndChange(k)
      <4>1. \/ status = "ACTIVE" /\ status' = "ARCHIVED"
            \/ status = "ARCHIVED" /\ status' = "ACTIVE"
        BY <3>2, <3>6 DEF EndChange, IsAlone, CanReach, Sources, ValidTransitions, Statuses
      <4> QED
        BY <3>5, <4>1 DEF Machine!Next, Machine!Move
    <3>7. CASE DeleteRecord(k)
      BY <3>2, <3>5, <3>7 DEF DeleteRecord, IsAlone, Machine!Next, Machine!Move
    <3>8. CASE \/ RevokeAccess(k) \/ RestoreAccess(k) \/ RestoreFails(k) \/ DeleteMembers(k)
      BY <3>5, <3>8 DEF RevokeAccess, RestoreAccess, RestoreFails, DeleteMembers, Machine!vars
    <3> QED
      BY <2>5, <3>6, <3>7, <3>8
  <2> QED
    BY <1>7, <2>1, <2>2, <2>3, <2>4, <2>5 DEF Request
<1>8. ASSUME NEW r \in Runs, Progress(r) \/ BuildEnds(r) \/ StepFails(r) \/ TimeOut(r)
      PROVE  [Machine!Next]_(Machine!vars)
  <2>1. reqs' = reqs
    BY <1>8 DEF Progress, ValidateAndStart, CheckBuild, RecordInfra, Finish,
       FinishConflict, Unwind, BuildEnds, StepFails, TimeOut
  <2> DEFINE Others == \A s \in Runs \ {r} : runs'[s] = runs[s]
             Goes == /\ Others
                     /\ runs'[r].kind = runs[r].kind
                     /\ Running(r)' <=> Running(r)
                     /\ status' = status
             Ends == /\ Others
                     /\ Running(r) /\ ~Running(r)'
                     /\ status' \in {Target[runs[r].kind], Fallback[runs[r].kind], status}
  <2>2. Goes => UNCHANGED Machine!vars
    BY <2>1, <1>3 DEF SameOwner, Running, Begun
  <2>3. ASSUME NEW from, NEW to, Step(r, from, to)
        PROVE  /\ Others
               /\ runs[r].pc = from /\ runs'[r].pc = to
               /\ runs'[r].kind = runs[r].kind
    BY <2>3 DEF Step, TypeOK
  <2>4. ASSUME Ends PROVE Machine!Next
    <3>1. ~AtWork'
      BY <2>1, <2>4 DEF OwnerInv, OneProjectWorkflow, Running, Begun, AtWork
    <3>2. /\ runs[r].kind \in Workflows /\ Owner = runs[r].kind
          /\ status = Transitional[runs[r].kind]
      BY <2>4 DEF OwnerIs, OwnerInv, TypeOK
    <3> QED
      BY <2>4, <3>1, <3>2, WorkEnds
  <2>5. CASE ValidateAndStart(r)
    BY <2>2, <2>5, <1>2 DEF ValidateAndStart, Touch, TypeOK, Running, AtWork
  <2>6. CASE CheckBuild(r)
    BY <2>2, <2>6, <1>2 DEF CheckBuild, Touch, TypeOK, Running, AtWork
  <2>7. CASE RecordInfra(r)
    BY <2>2, <2>3, <2>7, <1>2 DEF RecordInfra, Touch, Running, AtWork
  <2>8. CASE Finish(r)
    <3>1. Step(r, "finish", "ended") /\ status' = Target[runs[r].kind]
      BY <2>8 DEF Finish, Orderly
    <3> QED
      BY <2>3, <2>4, <3>1 DEF Running
  <2>9. CASE FinishConflict(r)
    BY <2>2, <2>3, <2>9 DEF FinishConflict, Running
  <2>10. CASE StepFails(r)
    BY <2>2, <2>3, <2>10 DEF StepFails, Running
  <2>11. CASE TimeOut(r)
    <3>1. Others /\ Running(r) /\ ~Running(r)' /\ status' = status
      BY <2>11 DEF TimeOut, TypeOK, Running
    <3> QED
      BY <2>4, <3>1
  <2>12. CASE BuildEnds(r)
    BY <2>2, <2>12 DEF BuildEnds, TypeOK, Running
  <2>13. CASE Unwind(r)
    BY <2>3, <2>4, <2>13 DEF Unwind, Running
  <2> QED
    BY <1>8, <2>5, <2>6, <2>7, <2>8, <2>9, <2>10, <2>11, <2>12, <2>13 DEF Progress
<1>9. CASE UNCHANGED vars
  BY <1>3, <1>9 DEF vars, SameOwner, Begun, Running
<1> QED
  BY <1>3, <1>4, <1>5, <1>6, <1>7, <1>8, <1>9 DEF Next

\* However many requests to deploy, update and destroy a project race, and
\* whatever fails, its status moves only as ProjectStatus says: from CREATED or
\* ACTIVE by the workflow that thereby owns the record, and on by that workflow;
\* the requests without a workflow come one by one, or not at all (Orderly).
THEOREM ProjectFollowsMachine ==
    ASSUME Orderly
    PROVE  Spec => FollowsProjectMachine
<1>1. Init => AloneInv /\ OwnerInv
  BY InitAlone
<1>2. TypeOK /\ AloneInv /\ OwnerInv /\ [Next]_vars => AloneInv' /\ OwnerInv'
  BY NextAlone, NextOwner
<1>3. Init /\ OwnerIs => Machine!Init
  BY DEF Init, OwnerIs, AtWork, Begun, Running, NoRun, NoReq, Machine!Init
<1>4. TypeOK /\ AloneInv /\ OwnerInv /\ OwnerIs /\ OwnerIs' /\ [Next]_vars
          => [Machine!Next]_(Machine!vars)
  BY NextFollowsMachine
<1> QED
  BY <1>1, <1>2, <1>3, <1>4, TypeCorrect, OwnerIsUnique, PTL
  DEF Spec, FollowsProjectMachine, Machine!Spec

-----------------------------------------------------------------------------
(* No cluster in a project that is being destroyed, when requests are made  *)
(* as the guides describe: whatever fails, repeated calls included.         *)

\* From its check on, a destruction finds no cluster, because the request that
\* would make one is the only request while it lasts.
NoClusterInv ==
    /\ DestroyingHasNoCluster
    /\ \A k \in Clients :
          reqs[k].op = "destroy" /\ reqs[k].stage = "checked" => clusters # "live"
    /\ \A k \in Clients :
          reqs[k].op = "cluster" /\ reqs[k].stage = "checked"
              => /\ status # "DESTROYING"
                 /\ \A j \in Clients \ {k} : reqs[j].stage = "idle"

\* Only the request of a destruction moves a project to DESTROYING, and only
\* the request for a cluster makes one.
LEMMA NewDestroying ==
    ASSUME TypeOK, [Next]_vars, status # "DESTROYING", status' = "DESTROYING"
    PROVE  \E k \in Clients : BeginWorkflow(k) /\ reqs[k].op = "destroy"
<1> USE DEF record, cloud, people
<1>1. Touched # "DESTROYING"
  BY DEF Touched
<1>2. \A w \in Workflows : Target[w] # "DESTROYING" /\ Fallback[w] # "DESTROYING"
  BY DEF Workflows, Target, Fallback
<1>3. ~(\/ CreateProject \/ AddMember \/ ClusterEnds
        \/ \E k \in Clients, op \in Ops : Ask(k, op)
        \/ UNCHANGED vars)
  BY DEF CreateProject, AddMember, ClusterEnds, Ask, vars
<1>4. ~\E r \in Runs : Progress(r) \/ BuildEnds(r) \/ StepFails(r) \/ TimeOut(r)
  BY <1>1, <1>2 DEF Progress, ValidateAndStart, CheckBuild, RecordInfra, Finish,
     FinishConflict, Unwind, BuildEnds, StepFails, TimeOut, Touch, TypeOK
<1>5. PICK k \in Clients : Request(k)
  BY <1>3, <1>4 DEF Next
<1>6. BeginWorkflow(k)
  BY <1>1, <1>5 DEF Request, Conflict, StartRun, StartFails, RevokeAccess, RestoreAccess,
     RestoreFails, EndChange, DeleteMembers, DeleteRecord, PutCluster, Touch
<1>7. reqs[k].op = "destroy"
  BY <1>6 DEF BeginWorkflow, Workflows, Transitional
<1> QED
  BY <1>6, <1>7

LEMMA NewCluster ==
    ASSUME [Next]_vars, clusters # "live", clusters' = "live"
    PROVE  \E k \in Clients : PutCluster(k)
<1> USE DEF record, cloud, people
<1>1. ~(\/ CreateProject \/ AddMember \/ ClusterEnds
        \/ \E k \in Clients, op \in Ops : Ask(k, op)
        \/ UNCHANGED vars)
  BY DEF CreateProject, AddMember, ClusterEnds, Ask, vars
<1>2. ~\E r \in Runs : Progress(r) \/ BuildEnds(r) \/ StepFails(r) \/ TimeOut(r)
  BY DEF Progress, ValidateAndStart, CheckBuild, RecordInfra, Finish,
     FinishConflict, Unwind, BuildEnds, StepFails, TimeOut
<1>3. PICK k \in Clients : Request(k)
  BY <1>1, <1>2 DEF Next
<1> QED
  BY <1>3 DEF Request, BeginWorkflow, Conflict, StartRun, StartFails, RevokeAccess,
     RestoreAccess, RestoreFails, EndChange, DeleteMembers, DeleteRecord

\* A step changes the requests of one client at most: a new one is asked for, or
\* one that is in progress goes on under the same operation.
LEMMA RequestsStep ==
    ASSUME TypeOK, [Next]_vars
    PROVE  \/ UNCHANGED reqs
           \/ \E k \in Clients :
                 /\ \A j \in Clients \ {k} : reqs'[j] = reqs[j]
                 /\ \/ \E op \in Ops : Ask(k, op) /\ reqs'[k] = [op |-> op, stage |-> "checked"]
                    \/ /\ reqs[k].stage # "idle" /\ reqs'[k].op = reqs[k].op
                       /\ reqs'[k].stage # "checked"
<1> USE DEF record, cloud, people
<1>1. CASE CreateProject \/ AddMember \/ ClusterEnds \/ UNCHANGED vars
  BY <1>1 DEF CreateProject, AddMember, ClusterEnds, vars
<1>2. CASE \E k \in Clients, op \in Ops : Ask(k, op)
  BY <1>2 DEF Ask, TypeOK
<1>3. ASSUME NEW k \in Clients, Request(k)
      PROVE  /\ \A j \in Clients \ {k} : reqs'[j] = reqs[j]
             /\ reqs[k].stage # "idle" /\ reqs'[k].op = reqs[k].op
             /\ reqs'[k].stage # "checked"
  <2>1. reqs[k].stage # "idle" /\ (Goto(k, "idle") \/ Goto(k, "changed"))
    BY <1>3 DEF Request, BeginWorkflow, Conflict, StartRun, StartFails, RevokeAccess,
       RestoreAccess, RestoreFails, EndChange, DeleteMembers, DeleteRecord, PutCluster
  <2> QED
    BY <2>1 DEF Goto, TypeOK
<1>4. CASE \E r \in Runs : Progress(r) \/ BuildEnds(r) \/ StepFails(r) \/ TimeOut(r)
  BY <1>4 DEF Progress, ValidateAndStart, CheckBuild, RecordInfra, Finish,
     FinishConflict, Unwind, BuildEnds, StepFails, TimeOut
<1> QED
  BY <1>1, <1>2, <1>3, <1>4 DEF Next

LEMMA NextNoCluster ==
    ASSUME Documented, TypeOK, NoClusterInv, [Next]_vars
    PROVE  NoClusterInv'
<1> USE DEF NoClusterInv, DestroyingHasNoCluster
<1>1. ASSUME NEW k \in Clients, PutCluster(k)
      PROVE  /\ status' = status /\ status # "DESTROYING"
             /\ \A j \in Clients : reqs'[j].stage = "idle"
  BY <1>1 DEF PutCluster, Goto, TypeOK, record
<1>2. status' = "DESTROYING" => clusters' # "live"
  <2>1. ASSUME status' = "DESTROYING", status # "DESTROYING"
        PROVE  clusters # "live"
    BY <2>1, NewDestroying DEF BeginWorkflow
  <2> QED
    BY <2>1, <1>1, NewCluster
<1>3. ASSUME NEW k \in Clients, reqs'[k].op = "destroy", reqs'[k].stage = "checked"
      PROVE  clusters' # "live"
  <2>1. CASE reqs'[k] = reqs[k]
    BY <1>3, <1>1, <2>1, NewCluster
  <2>2. CASE reqs'[k] # reqs[k]
    <3>1. PICK op \in Ops : Ask(k, op) /\ reqs'[k] = [op |-> op, stage |-> "checked"]
      BY <1>3, <2>2, RequestsStep
    <3> op = "destroy"
      BY <1>3, <3>1
    <3>2. ~ActiveClusters /\ clusters' = clusters
      BY <1>3, <3>1 DEF Ask, Admits, cloud
    <3> QED
      BY <3>2 DEF ActiveClusters
  <2> QED
    BY <2>1, <2>2
<1>4. ASSUME NEW k \in Clients, reqs'[k].op = "cluster", reqs'[k].stage = "checked"
      PROVE  /\ status' # "DESTROYING"
             /\ \A j \in Clients \ {k} : reqs'[j].stage = "idle"
  <2>1. CASE reqs'[k] = reqs[k]
    <3>1. \A j \in Clients \ {k} : reqs[j].stage = "idle"
      BY <1>4, <2>1
    <3>2. ASSUME NEW j \in Clients \ {k}, NEW op \in Ops PROVE ~Ask(j, op)
      BY <1>4, <2>1 DEF Ask, AsDocumented, IdleClients, Exclusive, Operations, Workflows
    <3>3. \A j \in Clients \ {k} : reqs'[j].stage = "idle"
      BY <2>1, <3>1, <3>2, RequestsStep
    <3>4. ~\E j \in Clients : BeginWorkflow(j) /\ reqs[j].op = "destroy"
      BY <1>4, <2>1, <3>1 DEF BeginWorkflow
    <3> QED
      BY <1>4, <2>1, <3>3, <3>4, NewDestroying
  <2>2. CASE reqs'[k] # reqs[k]
    <3>1. PICK op \in Ops : /\ Ask(k, op) /\ reqs'[k] = [op |-> op, stage |-> "checked"]
                            /\ \A j \in Clients \ {k} : reqs'[j] = reqs[j]
      BY <1>4, <2>2, RequestsStep
    <3> op = "cluster"
      BY <1>4, <3>1
    <3>2. status' = "ACTIVE"
      BY <3>1 DEF Ask, AsDocumented, record
    <3>3. \A j \in Clients \ {k} : reqs[j].stage = "idle"
      BY <3>1 DEF Ask, AsDocumented, IdleClients, Exclusive, Operations, Workflows
    <3> QED
      BY <3>1, <3>2, <3>3
  <2> QED
    BY <2>1, <2>2
<1> QED
  BY <1>2, <1>3, <1>4

\* Requests made one by one, as the guides describe all but the workflows, are
\* enough: a project in DESTROYING has no cluster that is ACTIVE or CREATING,
\* with all the faults there are and however many destructions race.
THEOREM DestroyedProjectsHaveNoCluster ==
    ASSUME Documented
    PROVE  Spec => []DestroyingHasNoCluster
<1>1. Init => NoClusterInv
  BY DEF Init, NoClusterInv, DestroyingHasNoCluster, NoReq
<1>2. TypeOK /\ NoClusterInv /\ [Next]_vars => NoClusterInv'
  BY NextNoCluster
<1>3. NoClusterInv => DestroyingHasNoCluster
  BY DEF NoClusterInv
<1> QED
  BY <1>1, <1>2, <1>3, TypeCorrect, PTL DEF Spec

-----------------------------------------------------------------------------
(* Members keep their access.                                               *)

\* A member without access waits for a reactivation, or a deactivation has just
\* taken it away: no request is half way that would make the project ACTIVE, or
\* let a new record begin with the old groups.
AccessInv ==
    member = "active" /\ ~access =>
        \/ /\ status = "ARCHIVED"
           /\ \A k \in Clients :
                 reqs[k].stage = "changed" => reqs[k].op \notin {"reactivate", "delete"}
        \/ /\ status = "ACTIVE"
           /\ \E k \in Clients : reqs[k].op = "deactivate" /\ reqs[k].stage = "changed"

\* Only a deactivation takes a member's access away, and while a member is
\* without it no workflow is under way.
LEMMA NextAccess ==
    ASSUME Orderly, TypeOK, AloneInv, OwnerInv, AccessInv, [Next]_vars
    PROVE  AccessInv'
<1> USE DEF record, cloud, people
<1> DEFINE Locked == member = "active" /\ ~access
<1>1. Locked => \A r \in Runs : ~Running(r)
  BY QuietWhenStable, Tables DEF AccessInv
<1>2. ASSUME UNCHANGED <<status, member, access>>,
             \A k \in Clients : reqs'[k].stage = "changed" => reqs'[k] = reqs[k],
             \A k \in Clients : reqs[k].op = "deactivate" /\ reqs[k].stage = "changed"
                                    => reqs'[k] = reqs[k]
      PROVE  AccessInv'
  BY <1>2 DEF AccessInv
<1>3. CASE CreateProject \/ ClusterEnds \/ UNCHANGED vars
  <2>1. ~(CreateProject /\ Locked)
    BY DEF CreateProject, AccessInv
  <2>2. CASE CreateProject
    BY <2>1, <2>2 DEF CreateProject, AccessInv
  <2>3. CASE ClusterEnds \/ UNCHANGED vars
    BY <1>2, <2>3 DEF ClusterEnds, vars
  <2> QED
    BY <1>3, <2>2, <2>3
<1>4. CASE AddMember
  BY <1>4 DEF AddMember, AccessInv
<1>5. ASSUME NEW k \in Clients, NEW op \in Ops, Ask(k, op)
      PROVE  AccessInv'
  <2>1. /\ reqs' = [reqs EXCEPT ![k] = [op |-> op, stage |-> "checked"]]
        /\ reqs[k].stage = "idle" /\ UNCHANGED <<status, member, access>>
    BY <1>5 DEF Ask
  <2> QED
    BY <1>2, <2>1 DEF TypeOK
<1>6. ASSUME NEW k \in Clients, Request(k)
      PROVE  AccessInv'
  <2>1. CASE \/ BeginWorkflow(k) \/ Conflict(k) \/ StartRun(k) \/ StartFails(k) \/ PutCluster(k)
    <3>1. /\ UNCHANGED <<member, access>>
          /\ reqs[k].op \notin Solitary /\ \E stage \in Stages : Goto(k, stage)
          /\ reqs[k].stage # "idle"
      BY <2>1 DEF BeginWorkflow, Conflict, StartRun, StartFails, PutCluster, Stages,
         Solitary, Workflows
    <3>2. /\ \A j \in Clients \ {k} : reqs'[j] = reqs[j]
          /\ reqs'[k].op \notin Solitary
      BY <3>1 DEF Goto, TypeOK
    <3>3. ASSUME Locked PROVE status' = status \/ BeginWorkflow(k)
      BY <2>1, <3>3 DEF Conflict, StartRun, StartFails, PutCluster, Touch, Touched, AccessInv
    <3>4. ASSUME Locked, status = "ARCHIVED" PROVE status' = status
      <4>1. \A w \in Workflows : Before[w] # "ARCHIVED"
        BY DEF Workflows, Before
      <4> QED
        BY <3>3, <3>4, <4>1, OneSource DEF BeginWorkflow, CanReach
    <3>5. ASSUME Locked, status = "ACTIVE" PROVE FALSE
      BY <3>1, <3>5 DEF AccessInv, AloneInv, IsAlone, Solitary
    <3> QED
      BY <3>1, <3>2, <3>4, <3>5 DEF AccessInv, Solitary
  <2>2. ASSUME reqs[k].op \in Solitary, reqs[k].stage # "idle"
        PROVE  /\ IsAlone(k)
               /\ \A j \in Clients : reqs[j].stage # "idle" => j = k
    BY <2>2 DEF AloneInv, IsAlone
  <2>3. ASSUME reqs[k].op \in Solitary, reqs[k].stage # "idle", Goto(k, "changed")
        PROVE  /\ reqs'[k].op = reqs[k].op /\ reqs'[k].stage = "changed"
               /\ \A j \in Clients \ {k} : reqs'[j].stage = "idle"
    BY <2>2, <2>3 DEF Goto, TypeOK
  <2>4. ASSUME reqs[k].op \in Solitary, reqs[k].stage # "idle", Goto(k, "idle")
        PROVE  \A j \in Clients : reqs'[j].stage = "idle"
    BY <2>2, <2>4 DEF Goto, TypeOK
  <2>5. CASE RevokeAccess(k)
    BY <2>2, <2>3, <2>5 DEF RevokeAccess, IsAlone, AccessInv, Solitary
  <2>6. CASE RestoreAccess(k)
    BY <2>6 DEF RestoreAccess, AccessInv, TypeOK
  <2>7. CASE RestoreFails(k)
    BY <2>2, <2>4, <2>7 DEF RestoreFails, IsAlone, AccessInv, Solitary
  <2>8. CASE EndChange(k)
    <3>1. reqs[k].op = "deactivate" => status' = "ARCHIVED"
      BY <2>2, <2>8 DEF EndChange, IsAlone, CanReach, Sources, ValidTransitions, Statuses,
         Solitary
    <3>2. CASE reqs[k].op = "deactivate"
      BY <2>4, <2>8, <3>1, <3>2 DEF EndChange, AccessInv, Solitary
    <3>3. CASE reqs[k].op = "reactivate"
      BY <2>2, <2>8, <3>3 DEF EndChange, AccessInv, IsAlone, Solitary
    <3> QED
      BY <2>8, <3>2, <3>3 DEF EndChange
  <2>9. CASE DeleteMembers(k)
    BY <2>9 DEF DeleteMembers, AccessInv
  <2>10. CASE DeleteRecord(k)
    BY <2>2, <2>10 DEF DeleteRecord, AccessInv, IsAlone, Solitary
  <2> QED
    BY <1>6, <2>1, <2>5, <2>6, <2>7, <2>8, <2>9, <2>10 DEF Request
<1>7. ASSUME NEW r \in Runs, Progress(r) \/ BuildEnds(r) \/ StepFails(r) \/ TimeOut(r)
      PROVE  AccessInv'
  <2>1. UNCHANGED <<reqs, member, access>>
    BY <1>7 DEF Progress, ValidateAndStart, CheckBuild, RecordInfra, Finish,
       FinishConflict, Unwind, BuildEnds, StepFails, TimeOut
  <2>2. Running(r) \/ status' = status
    BY <1>7 DEF Progress, ValidateAndStart, CheckBuild, RecordInfra, Finish,
       FinishConflict, Unwind, BuildEnds, StepFails, TimeOut, Step, Running
  <2> QED
    BY <1>1, <2>1, <2>2 DEF AccessInv
<1> QED
  BY <1>3, <1>4, <1>5, <1>6, <1>7 DEF Next

\* In an ACTIVE project with no request in progress every member who is not
\* marked is in the group, through any number of deactivations, failed and
\* successful reactivations, deletions, destructions and additions.
THEOREM MembersKeepAccess ==
    ASSUME Orderly
    PROVE  Spec => []MembersHaveAccess
<1>1. Init => AloneInv /\ OwnerInv /\ AccessInv
  BY InitAlone DEF Init, AccessInv
<1>2. TypeOK /\ AloneInv /\ OwnerInv /\ AccessInv /\ [Next]_vars
          => AloneInv' /\ OwnerInv' /\ AccessInv'
  BY NextAlone, NextOwner, NextAccess
<1>3. AccessInv => MembersHaveAccess
  BY DEF AccessInv, MembersHaveAccess
<1> QED
  BY <1>1, <1>2, <1>3, TypeCorrect, PTL DEF Spec
=============================================================================
