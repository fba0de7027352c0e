------------------------ MODULE ClusterTypeProofs ------------------------
(***************************************************************************)
(* Type correctness of ClusterLifecycle, for any number of projects,        *)
(* executions and requests, any use of the API and any set of faults.  The  *)
(* type invariant is more than types: a pending failure event belongs to an *)
(* execution that is over, and a started execution has a project.           *)
(***************************************************************************)
EXTENDS ClusterLifecycle, TLAPS

USE DEF Id

(* The pieces of TypeOK a step of an execution can touch.                   *)

LEMMA StartedCreationType ==
    ASSUME TypeOK, NEW c \in Creations, cre[c].pc # "unused"
    PROVE  cre[c] \in StartedCreation
BY DEF TypeOK, Creation, UnusedCreation, CreationOf

LEMMA StartedDestructionType ==
    ASSUME TypeOK, NEW d \in Destructions, des[d].pc # "unused"
    PROVE  des[d] \in StartedDestruction
BY DEF TypeOK, Destruction, UnusedDestruction

LEMMA OpenRequestType ==
    ASSUME TypeOK, NEW k \in Clients, req[k].stage # "idle"
    PROVE  req[k] \in OpenRequest
BY DEF TypeOK, Request, NoRequest

LEMMA SetStatusType ==
    ASSUME TypeOK, NEW p \in Projects, NEW s \in Statuses, SetStatus(p, s)
    PROVE  rec' \in [Projects -> Record]
<1>1. rec[p] \in Record
  BY DEF TypeOK
<1>2. [rec[p] EXCEPT !.status = s] \in Record
  BY <1>1 DEF Record
<1> QED
  BY <1>2 DEF TypeOK, SetStatus

LEMMA ProgressType ==
    ASSUME TypeOK, NEW c \in Creations, cre[c].pc # "unused", Progress(c)
    PROVE  rec' \in [Projects -> Record]
<1>1. cre[c].proj \in Projects
  BY StartedCreationType DEF StartedCreation
<1> QED
  BY <1>1, SetStatusType DEF Progress, StepProgress, Statuses, TypeOK

LEMMA DProgressType ==
    ASSUME TypeOK, NEW d \in Destructions, des[d].pc # "unused", DProgress(d)
    PROVE  rec' \in [Projects -> Record]
<1>1. des[d].proj \in Projects
  BY StartedDestructionType DEF StartedDestruction
<1> QED
  BY <1>1, SetStatusType DEF DProgress, StepProgress, Statuses, TypeOK

LEMMA ToRollbackType ==
    ASSUME TypeOK, NEW c \in Creations, cre[c].pc \in Building, ToRollback(c)
    PROVE  /\ cre' \in [Creations -> Creation]
           /\ \A x \in Creations \ {c} : cre'[x] = cre[x]
<1>1. PICK L \in SUBSET InFlight(c) :
        cre' = [cre EXCEPT ![c] =
                  [CreationOf(@.proj, @.mode, "rollback") EXCEPT
                     !.late = L,
                     !.groups = cre[c].groups,
                     !.pcs = IF At(c, "parallel") THEN None ELSE cre[c].pcs,
                     !.fsx = IF At(c, "parallel") THEN None ELSE cre[c].fsx]]
  BY DEF ToRollback
<1>2. L \in SUBSET Branches
  BY DEF InFlight
<1>3. cre[c] \in StartedCreation
  BY StartedCreationType DEF Building
<1> QED
  BY <1>1, <1>2, <1>3 DEF TypeOK, Creation, StartedCreation, CreationOf,
     CreationRunning, Unwinding

\* Steps of an execution that has not failed keep the events' executions.
LEMMA EventsType ==
    ASSUME TypeOK, NEW c \in Creations, cre[c].pc # "failed",
           \A x \in Creations \ {c} : cre'[x] = cre[x],
           UNCHANGED <<events, judged>>
    PROVE  events' \cup judged' \subseteq {x \in Creations : cre'[x].pc = "failed"}
BY DEF TypeOK

LEMMA RaiseType ==
    ASSUME TypeOK, NEW c \in Creations, cre[c].pc \in Building, Raise(c)
    PROVE  TypeOK'
<1>1. cre[c].pc # "unused" /\ cre[c].pc # "failed"
  BY DEF Building
<1>2. rec' \in [Projects -> Record]
  BY <1>1, ProgressType DEF Raise
<1>3. /\ cre' \in [Creations -> Creation]
      /\ \A x \in Creations \ {c} : cre'[x] = cre[x]
  BY ToRollbackType DEF Raise
<1>4. events' \cup judged' \subseteq {x \in Creations : cre'[x].pc = "failed"}
  BY <1>1, <1>3, EventsType DEF Raise, queues
<1> QED
  BY <1>2, <1>3, <1>4 DEF Raise, TypeOK, cloud, queues

-----------------------------------------------------------------------------
(* Type correctness.                                                        *)

LEMMA CheckType ==
    ASSUME TypeOK, NEW k \in Clients, NEW p \in Projects, NEW m \in StorageModes,
           NEW op \in {"create", "recreate", "delete", "fail"},
           Check(k, op, p, m)
    PROVE  req' \in [Clients -> Request]
BY DEF TypeOK, Check, Request, OpenRequest, Record

LEMMA FinishType ==
    ASSUME TypeOK, NEW k \in Clients, Finish(k)
    PROVE  req' \in [Clients -> Request]
BY DEF TypeOK, Finish, Request

LEMMA ApiType ==
    ASSUME TypeOK, ApiStep
    PROVE  TypeOK'
<1>k. PICK k \in Clients :
        \/ \E p \in Projects, m \in Modes :
              CreateCluster(k, p, m) \/ RecreateCluster(k, p, m)
        \/ \E p \in Projects : DeleteCluster(k, p) \/ ForceFailCluster(k, p)
        \/ PutCreating(k) \/ SetDestroying(k) \/ RefuseDelete(k)
        \/ SetForceFailed(k) \/ StartFails(k)
        \/ \E c \in Creations : StartCreation(k, c)
        \/ \E d \in Destructions : StartDestruction(k, d)
  BY DEF ApiStep
<1> USE DEF table, flows, cloud, queues
<1>o. ASSUME req[k].stage # "idle" PROVE req[k] \in OpenRequest
  BY <1>o, OpenRequestType
<1>1. ASSUME NEW p \in Projects, NEW m \in Modes,
             CreateCluster(k, p, m) \/ RecreateCluster(k, p, m)
      PROVE  TypeOK'
  <2>1. m \in StorageModes
    BY ConstantsAssumption
  <2>2. req' \in [Clients -> Request]
    BY <1>1, <2>1, CheckType DEF CreateCluster, RecreateCluster
  <2> QED
    BY <1>1, <2>2 DEF CreateCluster, RecreateCluster, TypeOK
<1>2. ASSUME NEW p \in Projects, DeleteCluster(k, p) \/ ForceFailCluster(k, p)
      PROVE  TypeOK'
  <2>1. rec[p].mode \in StorageModes
    BY DEF TypeOK, Record
  <2>2. req' \in [Clients -> Request]
    BY <1>2, <2>1, CheckType DEF DeleteCluster, ForceFailCluster
  <2> QED
    BY <1>2, <2>2 DEF DeleteCluster, ForceFailCluster, TypeOK
<1>3. ASSUME PutCreating(k) PROVE TypeOK'
  <2>1. req[k] \in OpenRequest
    BY <1>3, <1>o DEF PutCreating
  <2>2. rec' \in [Projects -> Record]
    BY <1>3, <2>1 DEF PutCreating, OpenRequest, Record, Statuses, TypeOK
  <2>3. req' \in [Clients -> Request]
    BY <1>3, <2>1 DEF PutCreating, OpenRequest, Request, TypeOK
  <2> QED
    BY <1>3, <2>2, <2>3 DEF PutCreating, TypeOK
<1>4. ASSUME SetDestroying(k) PROVE TypeOK'
  <2>1. req[k] \in OpenRequest
    BY <1>4, <1>o DEF SetDestroying
  <2>2. rec' \in [Projects -> Record]
    BY <1>4, <2>1, SetStatusType DEF SetDestroying, OpenRequest, Statuses
  <2>3. req' \in [Clients -> Request]
    BY <1>4, <2>1 DEF SetDestroying, OpenRequest, Request, TypeOK
  <2> QED
    BY <1>4, <2>2, <2>3 DEF SetDestroying, TypeOK
<1>5. ASSUME RefuseDelete(k) PROVE TypeOK'
  BY <1>5, FinishType DEF RefuseDelete, TypeOK
<1>6. ASSUME SetForceFailed(k) PROVE TypeOK'
  <2>1. req[k].proj \in Projects
    BY <1>6, <1>o DEF SetForceFailed, OpenRequest
  <2>2. rec' \in [Projects -> Record]
    BY <1>6, <2>1, SetStatusType DEF SetForceFailed, Statuses
  <2> QED
    BY <1>6, <2>2, FinishType DEF SetForceFailed, TypeOK
<1>7. ASSUME StartFails(k) PROVE TypeOK'
  <2>1. req[k].proj \in Projects
    BY <1>7, <1>o DEF StartFails, OpenRequest
  <2> QED
    BY <1>7, <2>1, FinishType DEF StartFails, TypeOK
<1>8. ASSUME NEW c \in Creations, StartCreation(k, c) PROVE TypeOK'
  <2>1. req[k] \in OpenRequest
    BY <1>8, <1>o DEF StartCreation
  <2>2. cre' = [cre EXCEPT ![c] = CreationOf(req[k].proj, req[k].mode, "register")]
    BY <1>8 DEF StartCreation
  <2>3. CreationOf(req[k].proj, req[k].mode, "register") \in StartedCreation
    BY <2>1 DEF OpenRequest, CreationOf, StartedCreation, CreationRunning, Building
  <2>4. cre' \in [Creations -> Creation]
    BY <2>2, <2>3 DEF TypeOK, Creation
  <2>5. events' \cup judged' \subseteq {x \in Creations : cre'[x].pc = "failed"}
    BY <1>8, <2>2, EventsType DEF StartCreation, TypeOK
  <2> QED
    BY <1>8, <2>4, <2>5, FinishType DEF StartCreation, TypeOK
<1>9. ASSUME NEW d \in Destructions, StartDestruction(k, d) PROVE TypeOK'
  <2>1. req[k] \in OpenRequest
    BY <1>9, <1>o DEF StartDestruction
  <2>2. des' \in [Destructions -> Destruction]
    BY <1>9, <2>1 DEF StartDestruction, OpenRequest, TypeOK, Destruction,
       StartedDestruction, DestructionRunning
  <2> QED
    BY <1>9, <2>2, FinishType DEF StartDestruction, TypeOK
<1> QED
  BY <1>k, <1>1, <1>2, <1>3, <1>4, <1>5, <1>6, <1>7, <1>8, <1>9

\* A step that gives execution c the state r.
LEMMA MoveType ==
    ASSUME TypeOK, NEW c \in Creations, cre[c].pc # "failed",
           NEW r \in StartedCreation, cre' = [cre EXCEPT ![c] = r],
           UNCHANGED <<events, judged>>
    PROVE  /\ cre' \in [Creations -> Creation]
           /\ events' \cup judged' \subseteq {x \in Creations : cre'[x].pc = "failed"}
BY DEF TypeOK, Creation

LEMMA GotoType ==
    ASSUME TypeOK, NEW c \in Creations, cre[c].pc \in CreationRunning,
           NEW l \in CreationRunning, Goto(c, l), UNCHANGED <<events, judged>>
    PROVE  /\ cre' \in [Creations -> Creation]
           /\ events' \cup judged' \subseteq {x \in Creations : cre'[x].pc = "failed"}
<1>1. cre[c].pc # "unused" /\ cre[c].pc # "failed"
  BY DEF CreationRunning, Building, Unwinding
<1>2. cre[c] \in StartedCreation
  BY <1>1, StartedCreationType
<1>3. [cre[c] EXCEPT !.pc = l] \in StartedCreation
  BY <1>2 DEF StartedCreation
<1>4. cre' = [cre EXCEPT ![c] = [cre[c] EXCEPT !.pc = l]]
  BY DEF Goto
<1> QED
  BY <1>1, <1>3, <1>4, MoveType

\* The steps before the Parallel state and in its branches.
LEMMA ProvisionType ==
    ASSUME TypeOK, NEW c \in Creations,
           \/ RegisterName(c) \/ CreateIamResources(c)
           \/ CreateFsx(c) \/ CheckFsx(c) \/ CreateDra(c) \/ AttachS3Policy(c)
           \/ CreatePcs(c) \/ CheckPcs(c) \/ ConfigureLogs(c)
           \/ CreateLaunchTemplates(c) \/ Join(c)
    PROVE  TypeOK'
<1> USE DEF cloud, queues, table
<1>1. /\ cre[c].pc \in Building
      /\ cre[c].pc # "unused" /\ cre[c].pc # "failed"
      /\ cre[c].pc \in CreationRunning
  BY DEF RegisterName, CreateIamResources, CreateFsx, CheckFsx, CreateDra,
     AttachS3Policy, CreatePcs, CheckPcs, ConfigureLogs, CreateLaunchTemplates,
     Join, InBranch, At, Building, CreationRunning
<1>2. cre[c] \in StartedCreation
  BY <1>1, StartedCreationType
<1>3. CASE RegisterName(c)
  <2>1. rec' \in [Projects -> Record]
    BY <1>1, <1>3, ProgressType DEF RegisterName
  <2>2. /\ cre' \in [Creations -> Creation]
        /\ events' \cup judged' \subseteq {x \in Creations : cre'[x].pc = "failed"}
    BY <1>1, <1>3, GotoType DEF RegisterName, CreationRunning, Building
  <2> QED
    BY <1>2, <1>3, <2>1, <2>2 DEF RegisterName, StartedCreation, TypeOK
<1>4. CASE CreateIamResources(c)
  <2>1. rec' \in [Projects -> Record]
    BY <1>1, <1>4, ProgressType DEF CreateIamResources
  <2>2. /\ cre' \in [Creations -> Creation]
        /\ events' \cup judged' \subseteq {x \in Creations : cre'[x].pc = "failed"}
    BY <1>1, <1>4, GotoType DEF CreateIamResources, CreationRunning, Building
  <2>3. setup' \in [Projects -> SUBSET SetupObjects]
    BY <1>4 DEF CreateIamResources, SetupObjects, TypeOK
  <2> QED
    BY <1>4, <2>1, <2>2, <2>3 DEF CreateIamResources, TypeOK
<1>5. CASE CreateFsx(c)
  <2>1. rec' \in [Projects -> Record]
    BY <1>1, <1>5, ProgressType DEF CreateFsx
  <2>2. [cre[c] EXCEPT !.sto = "wait", !.fsx = c] \in StartedCreation
    BY <1>2 DEF StartedCreation
  <2>3. cre' = [cre EXCEPT ![c] = [cre[c] EXCEPT !.sto = "wait", !.fsx = c]]
    BY <1>5, <1>2 DEF CreateFsx, TypeOK, StartedCreation
  <2>4. /\ cre' \in [Creations -> Creation]
        /\ events' \cup judged' \subseteq {x \in Creations : cre'[x].pc = "failed"}
    BY <1>1, <1>5, <2>2, <2>3, MoveType DEF CreateFsx
  <2> QED
    BY <1>5, <2>1, <2>4 DEF CreateFsx, TypeOK
<1>6. CASE CheckFsx(c)
  <2>1. CASE Raise(c)
    BY <1>1, <2>1, RaiseType
  <2>2. CASE ~Raise(c)
    <3>1. rec' \in [Projects -> Record]
      BY <1>1, <1>6, <2>2, ProgressType DEF CheckFsx
    <3>2. [cre[c] EXCEPT !.sto = "link"] \in StartedCreation
      BY <1>2 DEF StartedCreation
    <3>3. cre' = [cre EXCEPT ![c] = [cre[c] EXCEPT !.sto = "link"]]
      BY <1>6, <2>2 DEF CheckFsx
    <3>4. /\ cre' \in [Creations -> Creation]
          /\ events' \cup judged' \subseteq {x \in Creations : cre'[x].pc = "failed"}
      BY <1>1, <1>6, <2>2, <3>2, <3>3, MoveType DEF CheckFsx
    <3> QED
      BY <1>6, <2>2, <3>1, <3>4 DEF CheckFsx, TypeOK
  <2> QED
    BY <2>1, <2>2
<1>7. CASE CreateDra(c)
  <2>1. CASE ToRollback(c)
    <3>1. /\ cre' \in [Creations -> Creation]
          /\ \A x \in Creations \ {c} : cre'[x] = cre[x]
      BY <1>1, <2>1, ToRollbackType
    <3> QED
      BY <1>1, <1>7, <3>1, EventsType DEF CreateDra, TypeOK
  <2>2. CASE ~ToRollback(c)
    <3>1. [cre[c] EXCEPT !.sto = "done"] \in StartedCreation
      BY <1>2 DEF StartedCreation
    <3>2. cre' = [cre EXCEPT ![c] = [cre[c] EXCEPT !.sto = "done"]]
      BY <1>7, <2>2 DEF CreateDra
    <3> QED
      BY <1>1, <1>7, <3>1, <3>2, MoveType DEF CreateDra, TypeOK
  <2> QED
    BY <2>1, <2>2
<1>8. CASE AttachS3Policy(c)
  <2>0. setup' \in [Projects -> SUBSET SetupObjects]
    BY <1>8 DEF AttachS3Policy, SetupObjects, TypeOK
  <2>1. CASE ToRollback(c)
    <3>1. /\ cre' \in [Creations -> Creation]
          /\ \A x \in Creations \ {c} : cre'[x] = cre[x]
      BY <1>1, <2>1, ToRollbackType
    <3> QED
      BY <1>1, <1>8, <2>0, <3>1, EventsType DEF AttachS3Policy, TypeOK
  <2>2. CASE ~ToRollback(c)
    <3>1. [cre[c] EXCEPT !.sto = "done"] \in StartedCreation
      BY <1>2 DEF StartedCreation
    <3>2. cre' = [cre EXCEPT ![c] = [cre[c] EXCEPT !.sto = "done"]]
      BY <1>8, <2>2 DEF AttachS3Policy
    <3> QED
      BY <1>1, <1>8, <2>0, <3>1, <3>2, MoveType DEF AttachS3Policy, TypeOK
  <2> QED
    BY <2>1, <2>2
<1>9. CASE CreatePcs(c)
  <2>1. rec' \in [Projects -> Record]
    BY <1>1, <1>9, ProgressType DEF CreatePcs
  <2> DEFINE id == IF Named = {} THEN c ELSE CHOOSE x \in Named : TRUE
  <2>2. id \in Id
    BY DEF Named
  <2>3. [cre[c] EXCEPT !.ctl = "wait", !.pcs = id] \in StartedCreation
    BY <1>2, <2>2 DEF StartedCreation
  <2>4. cre' = [cre EXCEPT ![c] = [cre[c] EXCEPT !.ctl = "wait", !.pcs = id]]
    BY <1>9, <1>2 DEF CreatePcs, TypeOK, StartedCreation
  <2>5. /\ cre' \in [Creations -> Creation]
        /\ events' \cup judged' \subseteq {x \in Creations : cre'[x].pc = "failed"}
    BY <1>1, <1>9, <2>3, <2>4, MoveType DEF CreatePcs
  <2> QED
    BY <1>9, <2>1, <2>5 DEF CreatePcs, MakePcs, TypeOK
<1>10. CASE CheckPcs(c)
  <2>1. CASE Raise(c)
    BY <1>1, <2>1, RaiseType
  <2>2. CASE ~Raise(c)
    <3>1. rec' \in [Projects -> Record]
      BY <1>1, <1>10, <2>2, ProgressType DEF CheckPcs
    <3>2. [cre[c] EXCEPT !.ctl = "logs"] \in StartedCreation
      BY <1>2 DEF StartedCreation
    <3>3. cre' = [cre EXCEPT ![c] = [cre[c] EXCEPT !.ctl = "logs"]]
      BY <1>10, <2>2 DEF CheckPcs
    <3>4. /\ cre' \in [Creations -> Creation]
          /\ events' \cup judged' \subseteq {x \in Creations : cre'[x].pc = "failed"}
      BY <1>1, <1>10, <2>2, <3>2, <3>3, MoveType DEF CheckPcs
    <3> QED
      BY <1>10, <2>2, <3>1, <3>4 DEF CheckPcs, TypeOK
  <2> QED
    BY <2>1, <2>2
<1>11. CASE ConfigureLogs(c)
  <2>1. [cre[c] EXCEPT !.ctl = "done"] \in StartedCreation
    BY <1>2 DEF StartedCreation
  <2>2. cre' = [cre EXCEPT ![c] = [cre[c] EXCEPT !.ctl = "done"]]
    BY <1>11 DEF ConfigureLogs
  <2>3. logs' \in Id
    BY <1>2, <1>11 DEF ConfigureLogs, StartedCreation
  <2> QED
    BY <1>1, <1>11, <2>1, <2>2, <2>3, MoveType DEF ConfigureLogs, TypeOK
<1>12. CASE CreateLaunchTemplates(c)
  <2>1. rec' \in [Projects -> Record]
    BY <1>1, <1>12, ProgressType DEF CreateLaunchTemplates
  <2>2. [cre[c] EXCEPT !.lt = "done"] \in StartedCreation
    BY <1>2 DEF StartedCreation
  <2>3. cre' = [cre EXCEPT ![c] = [cre[c] EXCEPT !.lt = "done"]]
    BY <1>12 DEF CreateLaunchTemplates
  <2>4. setup' \in [Projects -> SUBSET SetupObjects]
    BY <1>12 DEF CreateLaunchTemplates, SetupObjects, TypeOK
  <2>5. /\ cre' \in [Creations -> Creation]
        /\ events' \cup judged' \subseteq {x \in Creations : cre'[x].pc = "failed"}
    BY <1>1, <1>12, <2>2, <2>3, MoveType DEF CreateLaunchTemplates
  <2> QED
    BY <1>12, <2>1, <2>4, <2>5 DEF CreateLaunchTemplates, TypeOK
<1>13. CASE Join(c)
  <2> DEFINE r == [CreationOf(cre[c].proj, cre[c].mode, "loginGroup")
                     EXCEPT !.pcs = cre[c].pcs, !.fsx = cre[c].fsx]
  <2>1. r \in StartedCreation
    BY <1>2 DEF StartedCreation, CreationOf, CreationRunning, Building
  <2>2. cre' = [cre EXCEPT ![c] = r]
    BY <1>13 DEF Join
  <2> QED
    BY <1>1, <1>13, <2>1, <2>2, MoveType DEF Join, TypeOK
<1> QED
  BY <1>3, <1>4, <1>5, <1>6, <1>7, <1>8, <1>9, <1>10, <1>11, <1>12, <1>13

LEMMA SubsType ==
    ASSUME TypeOK, NEW id \in Id, NEW s \in SubResources,
           \/ subs' = [subs EXCEPT ![id][s] = "up"]
           \/ subs' = [subs EXCEPT ![id][s] = IF @ = "none" THEN "up" ELSE @]
    PROVE  subs' \in [Creations -> [SubResources -> {"none", "up", "deleting"}]]
<1>1. CASE id \in Creations
  <2>1. subs[id] \in [SubResources -> {"none", "up", "deleting"}]
    BY <1>1 DEF TypeOK
  <2>2. PICK v \in {"none", "up", "deleting"} :
          subs' = [subs EXCEPT ![id] = [subs[id] EXCEPT ![s] = v]]
    BY <1>1, <2>1
  <2>3. [subs[id] EXCEPT ![s] = v] \in [SubResources -> {"none", "up", "deleting"}]
    BY <2>1
  <2> QED
    BY <1>1, <2>2, <2>3 DEF TypeOK
<1>2. CASE id \notin Creations
  BY <1>2 DEF TypeOK
<1> QED
  BY <1>1, <1>2

LEMMA AddGroupType ==
    ASSUME TypeOK, NEW c \in Creations, cre[c].pc \in Building,
           NEW g \in Groups, NEW l \in CreationRunning, AddGroup(c, g, l)
    PROVE  TypeOK'
<1> USE DEF cloud, queues
<1>1. /\ cre[c].pc # "unused" /\ cre[c].pc # "failed"
      /\ cre[c] \in StartedCreation
  BY StartedCreationType DEF Building
<1>2. CASE Raise(c)
  BY <1>2, RaiseType
<1>3. CASE ~Raise(c)
  <2>1. rec' \in [Projects -> Record]
    BY <1>1, <1>3, ProgressType DEF AddGroup
  <2>2. [cre[c] EXCEPT !.pc = l, !.groups = @ \cup {g}] \in StartedCreation
    BY <1>1 DEF StartedCreation, Groups
  <2>3. cre' = [cre EXCEPT ![c] = [cre[c] EXCEPT !.pc = l, !.groups = @ \cup {g}]]
    BY <1>1, <1>3 DEF AddGroup, TypeOK, StartedCreation
  <2>4. /\ cre' \in [Creations -> Creation]
        /\ events' \cup judged' \subseteq {x \in Creations : cre'[x].pc = "failed"}
    BY <1>1, <1>3, <2>2, <2>3, MoveType DEF AddGroup
  <2>5. subs' \in [Creations -> [SubResources -> {"none", "up", "deleting"}]]
    BY <1>1, <1>3, SubsType DEF AddGroup, SubResources, StartedCreation
  <2> QED
    BY <1>3, <2>1, <2>4, <2>5 DEF AddGroup, TypeOK
<1> QED
  BY <1>2, <1>3

LEMMA EndedType ==
    ASSUME TypeOK, NEW c \in Creations, cre[c].pc # "unused",
           NEW l \in {"succeeded", "failed"}
    PROVE  /\ EndedCreation(c, l) \in StartedCreation
           /\ EndedCreation(c, l).pc = l
<1>1. cre[c] \in StartedCreation
  BY StartedCreationType
<1> QED
  BY <1>1 DEF EndedCreation, CreationOf, StartedCreation

\* Steps that end an execution in failure and send its event.
LEMMA EndFailedType ==
    ASSUME TypeOK, NEW c \in Creations, cre[c].pc # "unused",
           NEW r \in StartedCreation, r.pc = "failed",
           cre' = [cre EXCEPT ![c] = r], events' = events \cup {c},
           UNCHANGED judged
    PROVE  /\ cre' \in [Creations -> Creation]
           /\ events' \cup judged' \subseteq {x \in Creations : cre'[x].pc = "failed"}
BY DEF TypeOK, Creation

\* The steps after the join, and the rollback.
LEMMA FinishCreationType ==
    ASSUME TypeOK, NEW c \in Creations,
           \/ NameTaken(c)
           \/ CreateLoginGroup(c) \/ CreateComputeGroup(c) \/ CheckNodeGroups(c)
           \/ PollAgain(c) \/ CreateQueue(c) \/ RecordCluster(c)
           \/ Rollback(c) \/ RecordFailed(c) \/ MarkClusterFailed(c)
           \/ CreationFault(c)
    PROVE  TypeOK'
<1> USE DEF cloud, queues, table
<1>1. /\ cre[c].pc # "unused" /\ cre[c].pc # "failed"
      /\ cre[c].pc \in CreationRunning
  BY DEF NameTaken, CreateLoginGroup, CreateComputeGroup, CheckNodeGroups,
     CreateQueue, RecordCluster, Rollback, RecordFailed, MarkClusterFailed,
     PollAgain, CreationFault, StepFails, RollbackFails, TimeOut,
     InBranch, At, Building, Unwinding, CreationRunning
<1>2. cre[c] \in StartedCreation
  BY <1>1, StartedCreationType
<1>3. CASE NameTaken(c)
  BY <1>3, RaiseType DEF NameTaken, At, Building
<1>4. CASE CreateLoginGroup(c)
  BY <1>4, AddGroupType DEF CreateLoginGroup, At, Building, CreationRunning, Groups
<1>5. CASE CreateComputeGroup(c)
  BY <1>5, AddGroupType DEF CreateComputeGroup, At, Building, CreationRunning, Groups
<1>6. CASE CheckNodeGroups(c)
  <2>1. CASE Raise(c)
    BY <1>6, <2>1, RaiseType DEF CheckNodeGroups, At, Building
  <2>2. CASE ~Raise(c)
    <3>1. rec' \in [Projects -> Record]
      BY <1>1, <1>6, <2>2, ProgressType DEF CheckNodeGroups
    <3>2. /\ cre' \in [Creations -> Creation]
          /\ events' \cup judged' \subseteq {x \in Creations : cre'[x].pc = "failed"}
      BY <1>1, <1>6, <2>2, GotoType DEF CheckNodeGroups, CreationRunning, Building
    <3> QED
      BY <1>6, <2>2, <3>1, <3>2 DEF CheckNodeGroups, TypeOK
  <2> QED
    BY <2>1, <2>2
<1>7. CASE CreateQueue(c)
  <2>1. CASE Raise(c)
    BY <1>7, <2>1, RaiseType DEF CreateQueue, At, Building
  <2>2. CASE ~Raise(c)
    <3>1. rec' \in [Projects -> Record]
      BY <1>1, <1>7, <2>2, ProgressType DEF CreateQueue
    <3>2. /\ cre' \in [Creations -> Creation]
          /\ events' \cup judged' \subseteq {x \in Creations : cre'[x].pc = "failed"}
      BY <1>1, <1>7, <2>2, GotoType DEF CreateQueue, CreationRunning, Building
    <3>3. subs' \in [Creations -> [SubResources -> {"none", "up", "deleting"}]]
      BY <1>2, <1>7, <2>2, SubsType DEF CreateQueue, SubResources, StartedCreation
    <3> QED
      BY <1>7, <2>2, <3>1, <3>2, <3>3 DEF CreateQueue, TypeOK
  <2> QED
    BY <2>1, <2>2
<1>8. CASE RecordCluster(c)
  <2>1. [status |-> "ACTIVE", pcs |-> cre[c].pcs, fsx |-> cre[c].fsx,
         mode |-> cre[c].mode] \in Record
    BY <1>2 DEF StartedCreation, Record, Statuses
  <2>2. rec' \in [Projects -> Record]
    BY <1>2, <1>8, <2>1 DEF RecordCluster, StartedCreation, TypeOK
  <2>3. CASE cre' = [cre EXCEPT ![c] = EndedCreation(c, "succeeded")]
    <3>1. EndedCreation(c, "succeeded") \in StartedCreation
      BY <1>1, EndedType
    <3> QED
      BY <1>1, <1>8, <2>2, <2>3, <3>1, MoveType DEF RecordCluster, TypeOK
  <2>4. CASE Goto(c, "queue")
    <3>1. /\ cre' \in [Creations -> Creation]
          /\ events' \cup judged' \subseteq {x \in Creations : cre'[x].pc = "failed"}
      BY <1>1, <1>8, <2>4, GotoType DEF RecordCluster, CreationRunning, Building
    <3> QED
      BY <1>8, <2>2, <3>1 DEF RecordCluster, TypeOK
  <2> QED
    BY <1>8, <2>3, <2>4 DEF RecordCluster
<1>9. CASE Rollback(c)
  <2>1. /\ cre' \in [Creations -> Creation]
        /\ events' \cup judged' \subseteq {x \in Creations : cre'[x].pc = "failed"}
    BY <1>1, <1>9, GotoType DEF Rollback, CreationRunning, Unwinding
  <2>2. setup' \in [Projects -> SUBSET SetupObjects]
    BY <1>9 DEF Rollback, CleanIam, SetupObjects, TypeOK
  <2>3. subs' \in [Creations -> [SubResources -> {"none", "up", "deleting"}]]
    <3> DEFINE dying == [s \in SubResources |->
                    IF s \in cre[c].groups /\ subs[cre[c].pcs][s] = "up"
                    THEN "deleting" ELSE subs[cre[c].pcs][s]]
    <3>1. CASE cre[c].pcs = None
      BY <1>9, <3>1 DEF Rollback, TypeOK
    <3>2. CASE cre[c].pcs # None
      <4>1. cre[c].pcs \in Creations
        BY <1>2, <3>2 DEF StartedCreation
      <4>2. subs[cre[c].pcs] \in [SubResources -> {"none", "up", "deleting"}]
        BY <4>1 DEF TypeOK
      <4>3. dying \in [SubResources -> {"none", "up", "deleting"}]
        BY <4>2
      <4>4. subs' = [subs EXCEPT ![cre[c].pcs] = dying]
        BY <1>9, <3>2 DEF Rollback
      <4> QED
        BY <4>1, <4>3, <4>4 DEF TypeOK
    <3> QED
      BY <3>1, <3>2
  <2>4. pcs' \in [Creations -> {"none", "creating", "active", "deleting"}]
    BY <1>9 DEF Rollback, TypeOK
  <2>5. fsx' \in [Creations -> {"none", "creating", "available"}]
    BY <1>9 DEF Rollback, TypeOK
  <2>6. logs' \in Id
    BY <1>9 DEF Rollback
  <2> QED
    BY <1>9, <2>1, <2>2, <2>3, <2>4, <2>5, <2>6 DEF Rollback, TypeOK
<1>10. CASE RecordFailed(c)
  <2>1. rec' \in [Projects -> Record]
    BY <1>2, <1>10, SetStatusType DEF RecordFailed, Statuses, StartedCreation, TypeOK
  <2>2. EndedCreation(c, "failed") \in StartedCreation
        /\ EndedCreation(c, "failed").pc = "failed"
    BY <1>1, EndedType
  <2>3. /\ cre' \in [Creations -> Creation]
        /\ events' \cup judged' \subseteq {x \in Creations : cre'[x].pc = "failed"}
    BY <1>1, <1>10, <2>2, EndFailedType DEF RecordFailed, EndFailed
  <2> QED
    BY <1>10, <2>1, <2>3 DEF RecordFailed, TypeOK
<1>11. CASE MarkClusterFailed(c)
  <2>1. EndedCreation(c, "failed") \in StartedCreation
        /\ EndedCreation(c, "failed").pc = "failed"
    BY <1>1, EndedType
  <2>2. /\ cre' \in [Creations -> Creation]
        /\ events' \cup judged' \subseteq {x \in Creations : cre'[x].pc = "failed"}
    BY <1>1, <1>11, <2>1, EndFailedType DEF MarkClusterFailed, EndFailed
  <2> QED
    BY <1>11, <2>2 DEF MarkClusterFailed, TypeOK
<1>12. CASE StepFails(c)
  BY <1>12, RaiseType DEF StepFails
<1>13. CASE RollbackFails(c)
  <2>1. /\ cre' \in [Creations -> Creation]
        /\ events' \cup judged' \subseteq {x \in Creations : cre'[x].pc = "failed"}
    BY <1>1, <1>13, GotoType DEF RollbackFails, CreationRunning, Unwinding
  <2> QED
    BY <1>13, <2>1 DEF RollbackFails, TypeOK
<1>14. CASE TimeOut(c)
  <2>1. PICK L \in SUBSET InFlight(c) :
          cre' = [cre EXCEPT ![c] = [EndedCreation(c, "failed") EXCEPT
                                       !.late = @ \cup L]]
    BY <1>14 DEF TimeOut
  <2>2. L \subseteq Branches
    BY DEF InFlight
  <2> DEFINE r == [EndedCreation(c, "failed") EXCEPT !.late = @ \cup L]
  <2>3. r \in StartedCreation /\ r.pc = "failed"
    BY <1>1, <2>2, EndedType DEF StartedCreation
  <2>4. /\ cre' \in [Creations -> Creation]
        /\ events' \cup judged' \subseteq {x \in Creations : cre'[x].pc = "failed"}
    BY <1>1, <1>14, <2>1, <2>3, EndFailedType DEF TimeOut
  <2> QED
    BY <1>14, <2>4 DEF TimeOut, TypeOK
<1>15. CASE PollAgain(c)
  BY <1>1, <1>15, ProgressType DEF PollAgain, flows, TypeOK
<1> QED
  BY <1>3, <1>4, <1>5, <1>6, <1>7, <1>8, <1>9, <1>10, <1>11, <1>12, <1>13,
     <1>14, <1>15 DEF CreationFault

\* A call that lands late moves no execution, not even a failed one.
LEMMA LateCallType ==
    ASSUME TypeOK, NEW c \in Creations, NEW b \in Branches, LateCall(c, b)
    PROVE  TypeOK'
<1> USE DEF cloud, queues, table
<1>1. cre[c] \in StartedCreation
  BY DEF LateCall, TypeOK, Creation, UnusedCreation, CreationOf
<1> DEFINE r == [cre[c] EXCEPT !.late = @ \ {b}]
<1>2. r \in StartedCreation /\ r.pc = cre[c].pc
  BY <1>1 DEF StartedCreation
<1>3. cre' = [cre EXCEPT ![c] = r]
  BY DEF LateCall
<1>4. cre' \in [Creations -> Creation]
  BY <1>2, <1>3 DEF TypeOK, Creation
<1>5. events' \cup judged' \subseteq {x \in Creations : cre'[x].pc = "failed"}
  BY <1>2, <1>3 DEF LateCall, TypeOK
<1>6. cre[c].mode \in {"lustre", "mountpoint"} /\ cre[c].proj \in Projects
  BY <1>1 DEF StartedCreation, StorageModes
<1>7. pcs' \in [Creations -> {"none", "creating", "active", "deleting"}]
  BY DEF LateCall, MakePcs, TypeOK
<1>8. fsx' \in [Creations -> {"none", "creating", "available"}]
  BY DEF LateCall, TypeOK
<1>9. setup' \in [Projects -> SUBSET SetupObjects]
  <2> DEFINE S == setup[cre[c].proj]
  <2>1. S \in SUBSET SetupObjects
    BY <1>6 DEF TypeOK
  <2>2. CASE b = "lt"
    BY <2>1, <2>2 DEF LateCall, SetupObjects, TypeOK
  <2>3. CASE b = "sto" /\ cre[c].mode = "mountpoint"
    <3>1. setup' = [setup EXCEPT ![cre[c].proj] =
                      IF "role" \in S THEN S \cup {"policy"} ELSE S]
      BY <2>3 DEF LateCall
    <3>2. (IF "role" \in S THEN S \cup {"policy"} ELSE S) \in SUBSET SetupObjects
      BY <2>1 DEF SetupObjects
    <3> QED
      BY <3>1, <3>2 DEF TypeOK
  <2>4. CASE UNCHANGED setup
    BY <2>4 DEF TypeOK
  <2> QED
    BY <2>2, <2>3, <2>4 DEF LateCall
<1> QED
  BY <1>4, <1>5, <1>7, <1>8, <1>9 DEF LateCall, TypeOK

\* Every step of a destruction changes its execution to one of these.
LEMMA DestructionMoveType ==
    ASSUME TypeOK, NEW d \in Destructions, des[d].pc # "unused",
           NEW l \in DestructionRunning \cup {"succeeded", "failed", "timedOut"},
           NEW e \in {"none", "running", "done", "failed"},
           \/ DGoto(d, l)
           \/ des' = [des EXCEPT ![d].pc = l, ![d].export = e]
    PROVE  des' \in [Destructions -> Destruction]
<1>1. des[d] \in StartedDestruction
  BY StartedDestructionType
<1>2. /\ [des[d] EXCEPT !.pc = l] \in StartedDestruction
      /\ [des[d] EXCEPT !.pc = l, !.export = e] \in StartedDestruction
  BY <1>1 DEF StartedDestruction
<1>3. \/ des' = [des EXCEPT ![d] = [des[d] EXCEPT !.pc = l]]
      \/ des' = [des EXCEPT ![d] = [des[d] EXCEPT !.pc = l, !.export = e]]
  BY <1>1 DEF DGoto, TypeOK, StartedDestruction
<1> QED
  BY <1>2, <1>3 DEF TypeOK, Destruction

LEMMA DRaiseType ==
    ASSUME TypeOK, NEW d \in Destructions, des[d].pc # "unused", DRaise(d)
    PROVE  TypeOK'
<1>1. rec' \in [Projects -> Record]
  BY DProgressType DEF DRaise
<1>2. des' \in [Destructions -> Destruction]
  BY DestructionMoveType DEF DRaise, DestructionRunning
<1> QED
  BY <1>1, <1>2 DEF DRaise, TypeOK, cloud, queues

LEMMA DestructionType ==
    ASSUME TypeOK, NEW d \in Destructions,
           DestructionStep(d) \/ DStepFails(d) \/ DTimeOut(d)
    PROVE  TypeOK'
<1> USE DEF cloud, queues, table
<1>1. des[d].pc # "unused"
  BY DEF DestructionStep, DStepFails, DTimeOut, DAt, DestructionRunning,
     DPollAgain, CreateFsxExportTask, CheckFsxExport, DeletePcsResources, CheckPcsDeletion,
     DeletePcsCluster, DeleteStorage, CleanUp, DeregisterName, RecordDestroyed,
     RecordDestructionFailed
<1>2. des[d] \in StartedDestruction
  BY <1>1, StartedDestructionType
<1>3. CASE CreateFsxExportTask(d)
  <2>1. rec' \in [Projects -> Record]
    BY <1>1, <1>3, DProgressType DEF CreateFsxExportTask
  <2>2. des' \in [Destructions -> Destruction]
    BY <1>1, <1>3, DestructionMoveType DEF CreateFsxExportTask, DestructionRunning
  <2> QED
    BY <1>3, <2>1, <2>2 DEF CreateFsxExportTask, TypeOK
<1>4. CASE CheckFsxExport(d)
  <2>1. rec' \in [Projects -> Record]
    BY <1>1, <1>4, DProgressType DEF CheckFsxExport
  <2>2. PICK e \in {"none", "running", "done", "failed"} :
          des' = [des EXCEPT ![d].pc = "pcsSubs", ![d].export = e]
    <3>1. PICK r \in {"done", "failed"} :
            des' = [des EXCEPT ![d].pc = "pcsSubs",
                      ![d].export = IF @ = "running" THEN r ELSE @]
      BY <1>4 DEF CheckFsxExport
    <3>2. CASE des[d].export = "running"
      BY <1>2, <3>1, <3>2 DEF StartedDestruction, TypeOK
    <3>3. CASE des[d].export # "running"
      <4>1. des' = [des EXCEPT ![d].pc = "pcsSubs", ![d].export = des[d].export]
        BY <1>2, <3>1, <3>3 DEF StartedDestruction, TypeOK
      <4> QED
        BY <1>2, <4>1 DEF StartedDestruction
    <3> QED
      BY <3>2, <3>3
  <2>3. des' \in [Destructions -> Destruction]
    BY <1>1, <2>2, DestructionMoveType DEF DestructionRunning
  <2> QED
    BY <1>4, <2>1, <2>3 DEF CheckFsxExport, TypeOK
<1>5. CASE DeletePcsResources(d)
  <2>1. rec' \in [Projects -> Record]
    BY <1>1, <1>5, DProgressType DEF DeletePcsResources
  <2>2. des' \in [Destructions -> Destruction]
    BY <1>1, <1>5, DestructionMoveType DEF DeletePcsResources, DestructionRunning
  <2>3. subs' \in [Creations -> [SubResources -> {"none", "up", "deleting"}]]
    BY <1>5 DEF DeletePcsResources, TypeOK
  <2> QED
    BY <1>5, <2>1, <2>2, <2>3 DEF DeletePcsResources, TypeOK
<1>6. CASE CheckPcsDeletion(d)
  <2>1. rec' \in [Projects -> Record]
    BY <1>1, <1>6, DProgressType DEF CheckPcsDeletion
  <2>2. des' \in [Destructions -> Destruction]
    BY <1>1, <1>6, DestructionMoveType DEF CheckPcsDeletion, DestructionRunning
  <2> QED
    BY <1>6, <2>1, <2>2 DEF CheckPcsDeletion, TypeOK
<1>7. CASE DeletePcsCluster(d)
  <2>1. CASE DRaise(d)
    BY <1>1, <2>1, DRaiseType
  <2>2. CASE ~DRaise(d)
    <3>1. rec' \in [Projects -> Record]
      BY <1>1, <1>7, <2>2, DProgressType DEF DeletePcsCluster
    <3>2. des' \in [Destructions -> Destruction]
      BY <1>1, <1>7, <2>2, DestructionMoveType DEF DeletePcsCluster, DestructionRunning
    <3> QED
      BY <1>7, <2>2, <3>1, <3>2 DEF DeletePcsCluster, TypeOK
  <2> QED
    BY <2>1, <2>2
<1>8. CASE DeleteStorage(d)
  <2>1. rec' \in [Projects -> Record]
    BY <1>1, <1>8, DProgressType DEF DeleteStorage
  <2>2. des' \in [Destructions -> Destruction]
    BY <1>1, <1>8, DestructionMoveType DEF DeleteStorage, DestructionRunning
  <2>3. setup' \in [Projects -> SUBSET SetupObjects]
    BY <1>8 DEF DeleteStorage, TypeOK
  <2> QED
    BY <1>8, <2>1, <2>2, <2>3 DEF DeleteStorage, TypeOK
<1>9. CASE CleanUp(d)
  <2>1. rec' \in [Projects -> Record]
    BY <1>1, <1>9, DProgressType DEF CleanUp
  <2>2. des' \in [Destructions -> Destruction]
    BY <1>1, <1>9, DestructionMoveType DEF CleanUp, DestructionRunning
  <2>3. setup' \in [Projects -> SUBSET SetupObjects]
    BY <1>9 DEF CleanUp, SetupObjects, TypeOK
  <2> QED
    BY <1>9, <2>1, <2>2, <2>3 DEF CleanUp, TypeOK
<1>10. CASE DeregisterName(d)
  <2>1. des' \in [Destructions -> Destruction]
    BY <1>1, <1>10, DestructionMoveType DEF DeregisterName, DestructionRunning
  <2> QED
    BY <1>10, <2>1 DEF DeregisterName, TypeOK
<1>11. CASE RecordDestroyed(d)
  <2>1. rec' \in [Projects -> Record]
    BY <1>2, <1>11, SetStatusType DEF RecordDestroyed, StartedDestruction, Statuses
  <2>2. des' \in [Destructions -> Destruction]
    BY <1>1, <1>11, DestructionMoveType DEF RecordDestroyed
  <2> QED
    BY <1>11, <2>1, <2>2 DEF RecordDestroyed, TypeOK
<1>12. CASE RecordDestructionFailed(d)
  <2>1. rec' \in [Projects -> Record]
    BY <1>2, <1>12, SetStatusType DEF RecordDestructionFailed,
       StartedDestruction, Statuses, TypeOK
  <2>2. des' \in [Destructions -> Destruction]
    BY <1>1, <1>12, DestructionMoveType DEF RecordDestructionFailed
  <2>3. lost' \subseteq Projects
    BY <1>2, <1>12 DEF RecordDestructionFailed, StartedDestruction, TypeOK
  <2> QED
    BY <1>12, <2>1, <2>2, <2>3 DEF RecordDestructionFailed, TypeOK
<1>13. CASE DStepFails(d)
  BY <1>1, <1>13, DRaiseType DEF DStepFails
<1>14. CASE DTimeOut(d)
  <2>1. des' \in [Destructions -> Destruction]
    BY <1>1, <1>14, DestructionMoveType DEF DTimeOut
  <2>2. lost' \subseteq Projects
    BY <1>2, <1>14 DEF DTimeOut, StartedDestruction, TypeOK
  <2> QED
    BY <1>14, <2>1, <2>2 DEF DTimeOut, TypeOK
<1>15. CASE DPollAgain(d)
  BY <1>1, <1>15, DProgressType DEF DPollAgain, flows, TypeOK
<1> QED
  BY <1>3, <1>4, <1>5, <1>6, <1>7, <1>8, <1>9, <1>10, <1>11, <1>12, <1>13,
     <1>14, <1>15 DEF DestructionStep

LEMMA PlatformType ==
    ASSUME TypeOK, NEW c \in Creations,
           \/ EventStep(c) \/ EventFails(c)
           \/ ClassifyFsx(c) \/ DeleteOrphan(c) \/ Service(c)
    PROVE  TypeOK'
<1> USE DEF cloud, queues, table, flows
<1>1. CASE ReadForEvent(c)
  BY <1>1 DEF ReadForEvent, TypeOK
<1>2. CASE FailFromEvent(c)
  <2>1. cre[c].proj \in Projects
    BY <1>2, StartedCreationType DEF FailFromEvent, TypeOK, StartedCreation
  <2>2. rec' \in [Projects -> Record]
    BY <1>2, <2>1, SetStatusType DEF FailFromEvent, Statuses
  <2> QED
    BY <1>2, <2>2 DEF FailFromEvent, TypeOK
<1>3. CASE EventFails(c)
  <2>1. cre[c].proj \in Projects
    BY <1>3, StartedCreationType DEF EventFails, TypeOK, StartedCreation
  <2> QED
    BY <1>3, <2>1 DEF EventFails, TypeOK
<1>4. CASE ClassifyFsx(c)
  BY <1>4 DEF ClassifyFsx, TypeOK
<1>5. CASE DeleteOrphan(c)
  BY <1>5 DEF DeleteOrphan, TypeOK
<1>6. CASE FsxReady(c) \/ PcsReady(c) \/ PcsGone(c)
  BY <1>6 DEF FsxReady, PcsReady, PcsGone, TypeOK
<1>7. ASSUME NEW s \in SubResources, SubGone(c, s) PROVE TypeOK'
  <2>1. subs' \in [Creations -> [SubResources -> {"none", "up", "deleting"}]]
    BY <1>7 DEF SubGone, TypeOK
  <2> QED
    BY <1>7, <2>1 DEF SubGone, TypeOK
<1> QED
  BY <1>1, <1>2, <1>3, <1>4, <1>5, <1>6, <1>7 DEF EventStep, Service

LEMMA InitType == Init => TypeOK
<1> SUFFICES ASSUME Init PROVE TypeOK
  OBVIOUS
<1>1. /\ rec \in [Projects -> Record]
      /\ req \in [Clients -> Request]
      /\ cre \in [Creations -> Creation]
      /\ des \in [Destructions -> Destruction]
  BY DEF Init, Record, NoRecord, Statuses, StorageModes, Request, Creation, Destruction
<1> QED
  BY <1>1 DEF Init, TypeOK, NoSubs

LEMMA NextType == TypeOK /\ [Next]_vars => TypeOK'
<1> SUFFICES ASSUME TypeOK, [Next]_vars PROVE TypeOK'
  OBVIOUS
<1>1. CASE ApiStep
  BY <1>1, ApiType
<1>2. CASE CreationNext
  <2>1. PICK c \in Creations : \/ CreationStep(c) \/ CreationFault(c)
                               \/ \E b \in Branches : LateCall(c, b)
    BY <1>2 DEF CreationNext
  <2> QED
    BY <2>1, ProvisionType, FinishCreationType, LateCallType DEF CreationStep
<1>3. CASE DestructionNext
  BY <1>3, DestructionType DEF DestructionNext
<1>4. CASE PlatformNext
  BY <1>4, PlatformType DEF PlatformNext
<1>5. CASE UNCHANGED vars
  BY <1>5 DEF vars, TypeOK
<1> QED
  BY <1>1, <1>2, <1>3, <1>4, <1>5 DEF Next

(* Every reachable state of the cluster life cycle is well formed: statuses *)
(* and stages stay in their ranges, and every failure event not yet handled *)
(* is that of an execution that has ended in failure.                       *)
THEOREM TypeCorrect == Spec => []TypeOK
<1>1. Init => TypeOK
  BY InitType
<1>2. TypeOK /\ [Next]_vars => TypeOK'
  BY NextType
<1> QED
  BY <1>1, <1>2, PTL DEF Spec
=============================================================================
