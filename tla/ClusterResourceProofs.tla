------------------------- MODULE ClusterResourceProofs -------------------------
(***************************************************************************)
(* What happens to the resources of a cluster: proofs, for any projects,    *)
(* requests, executions and faults, that a destruction that succeeded left  *)
(* nothing behind of what its payload named, that a name belongs to one     *)
(* project, and that an active cluster is whole.                            *)
(***************************************************************************)
EXTENDS ClusterOwnerProofs

\* Creation c has made its create call of branch b for the last time.
Past(c, b) ==
    /\ cre[c].pc \notin {"unused", "register", "prepare"}
    /\ cre[c].pc = "parallel" => cre[c][b] # "todo"
    /\ b \notin cre[c].late

\* Ids that stand for something some creation has made, for good: a settled
\* PCS cluster will not be created again, nor is it being created.
KnownPcs(id) == id = None \/ Past(id, "ctl")
Settled(id) == id = None \/ (Past(id, "ctl") /\ pcs[id] # "creating")
KnownFsx(id) == id = None \/ Past(id, "sto")

Made(c) ==
    /\ cre[c].pc \in Building => cre[c].late = {}
    /\ fsx[c] # "none" => Past(c, "sto")
    /\ pcs[c] # "none" => Past(c, "ctl")
Holds(c) ==
    /\ KnownFsx(cre[c].fsx) /\ KnownPcs(cre[c].pcs)
    /\ ~(cre[c].pc = "parallel" /\ cre[c].ctl = "wait") => Settled(cre[c].pcs)

AfterPcs == {"storage", "cleanup", "deregister", "record", "succeeded"}
Deletes(d) ==
    /\ Settled(des[d].pcs) /\ KnownFsx(des[d].fsx)
    /\ des[d].pc \in AfterPcs => Gone(des[d].pcs)
    /\ des[d].pc \in AfterPcs \ {"storage"} => ~HasFsx(d)

\* The ids that records, requests, executions and payloads hold are of
\* settled resources, and stay so; what a destruction has deleted stays away.
ResourceInv ==
    /\ \A c \in Creations : Made(c) /\ Holds(c)
    /\ \A p \in Projects : Settled(rec[p].pcs) /\ KnownFsx(rec[p].fsx)
    /\ \A k \in Clients : Settled(req[k].pcs) /\ KnownFsx(req[k].fsx)
    /\ \A d \in Destructions : Deletes(d)

LEMMA InitResource == Init => ResourceInv
<1> SUFFICES ASSUME Init PROVE ResourceInv
  OBVIOUS
<1>1. \A c \in Creations : Made(c) /\ Holds(c)
  BY DEF Init, Made, Holds, KnownFsx, KnownPcs, Settled, UnusedCreation, CreationOf, Building
<1>2. \A d \in Destructions : Deletes(d)
  BY DEF Init, Deletes, Settled, KnownFsx, UnusedDestruction, AfterPcs
<1> QED
  BY <1>1, <1>2 DEF ResourceInv, Init, NoRecord, NoRequest, Settled, KnownFsx

LEMMA ResourceDestroyed == ResourceInv => DestroyedIsGone
  BY DEF ResourceInv, Deletes, DestroyedIsGone, AfterPcs

-----------------------------------------------------------------------------
(* What a step may do to the resources: a creation makes its own, once.     *)

Advances ==
    /\ \A x \in Creations : /\ Past(x, "sto") => Past(x, "sto")'
                            /\ Past(x, "ctl") => Past(x, "ctl")'
    /\ \A x \in Creations :
          \/ pcs'[x] = pcs[x]
          \/ pcs[x] = "creating" /\ pcs'[x] = "active"
          \/ pcs[x] \in {"active", "deleting"} /\ pcs'[x] \in {"deleting", "none"}
          \/ pcs'[x] = "creating" /\ ~Past(x, "ctl") /\ Past(x, "ctl")'
    /\ \A x \in Creations : subs[x] = NoSubs /\ pcs[x] # "active" => subs'[x] = NoSubs
    /\ \A x \in Creations :
          \/ fsx'[x] # "none" => fsx[x] # "none"
          \/ ~Past(x, "sto") /\ Past(x, "sto")'

\* Whatever is settled stays so, and whatever is gone.
LEMMA AdvancesKeeps ==
    ASSUME Advances, NEW id \in Id
    PROVE  /\ KnownPcs(id) => KnownPcs(id)'
           /\ KnownFsx(id) => KnownFsx(id)'
           /\ Settled(id) => Settled(id)'
           /\ Settled(id) /\ Gone(id) => Gone(id)'
           /\ KnownFsx(id) /\ (id = None \/ fsx[id] = "none") => id = None \/ fsx'[id] = "none"
<1>1. CASE id = None
  BY <1>1 DEF KnownPcs, KnownFsx, Settled, Gone
<1>2. CASE id # None
  <2>1. id \in Creations
    BY <1>2 DEF Id
  <2> QED
    BY <1>2, <2>1 DEF Advances, KnownPcs, KnownFsx, Settled, Gone
<1> QED
  BY <1>1, <1>2

LEMMA AdvancesMade ==
    ASSUME TypeOK, ResourceInv, Advances, NEW c \in Creations,
           cre'[c].pc \in Building => cre'[c].late = {}
    PROVE  Made(c)'
  BY DEF ResourceInv, Made, Advances

\* The destructions that a step leaves alone.
LEMMA AdvancesDeletes ==
    ASSUME TypeOK, ResourceInv, Advances, NEW d \in Destructions, des'[d] = des[d]
    PROVE  Deletes(d)'
<1>1. des[d].pcs \in Id /\ des[d].fsx \in Id
  BY DEF TypeOK, Destruction, UnusedDestruction, StartedDestruction, Id
<1>2. Deletes(d)
  BY DEF ResourceInv
<1> QED
  BY <1>1, <1>2, AdvancesKeeps DEF Deletes, HasFsx

LEMMA IdTypes ==
    ASSUME TypeOK
    PROVE  /\ \A c \in Creations : cre[c].pcs \in Id /\ cre[c].fsx \in Id
           /\ \A d \in Destructions : des[d].pcs \in Id /\ des[d].fsx \in Id
           /\ \A k \in Clients : req[k].pcs \in Id /\ req[k].fsx \in Id
           /\ \A p \in Projects : rec[p].pcs \in Id /\ rec[p].fsx \in Id
<1>1. \A c \in Creations : cre[c].pcs \in Id /\ cre[c].fsx \in Id
  BY DEF TypeOK, Creation, UnusedCreation, CreationOf, StartedCreation, Id
<1>2. \A d \in Destructions : des[d].pcs \in Id /\ des[d].fsx \in Id
  BY DEF TypeOK, Destruction, UnusedDestruction, StartedDestruction, Id
<1>3. \A k \in Clients : req[k].pcs \in Id /\ req[k].fsx \in Id
  BY DEF TypeOK, Request, NoRequest, OpenRequest, Id
<1>4. \A p \in Projects : rec[p].pcs \in Id /\ rec[p].fsx \in Id
  BY DEF TypeOK, Record
<1> QED
  BY <1>1, <1>2, <1>3, <1>4

\* A creation that a step leaves alone, and ids that were known before it.
LEMMA AdvancesHolds ==
    ASSUME TypeOK, ResourceInv, Advances
    PROVE  /\ \A c \in Creations : cre'[c] = cre[c] => Made(c)' /\ Holds(c)'
           /\ \A p \in Projects : rec'[p].pcs = rec[p].pcs /\ rec'[p].fsx = rec[p].fsx
                 => Settled(rec[p].pcs)' /\ KnownFsx(rec[p].fsx)'
           /\ \A k \in Clients : req'[k].pcs = req[k].pcs /\ req'[k].fsx = req[k].fsx
                 => Settled(req[k].pcs)' /\ KnownFsx(req[k].fsx)'
           /\ \A id \in Id : (Settled(id) => Settled(id)') /\ (KnownFsx(id) => KnownFsx(id)')
<1>1. ASSUME NEW c \in Creations, cre'[c] = cre[c] PROVE Made(c)' /\ Holds(c)'
  <2>1. Made(c)'
    BY <1>1, AdvancesMade DEF ResourceInv, Made
  <2>2. Holds(c)'
    BY <1>1, IdTypes, AdvancesKeeps DEF ResourceInv, Holds
  <2> QED
    BY <2>1, <2>2
<1>2. \A id \in Id : (Settled(id) => Settled(id)') /\ (KnownFsx(id) => KnownFsx(id)')
  BY AdvancesKeeps
<1> QED
  BY <1>1, <1>2, IdTypes DEF ResourceInv

-----------------------------------------------------------------------------
(* The creation.                                                            *)

\* A step of creation c takes it on: what it is past it stays past, and it
\* holds what it held or what the step has made.
Onward(c) ==
    /\ \A x \in Creations \ {c} : cre'[x] = cre[x]
    /\ Past(c, "sto") => Past(c, "sto")'
    /\ Past(c, "ctl") => Past(c, "ctl")'
    /\ cre'[c].pc \in Building => cre'[c].late = {}
    /\ cre'[c].fsx \in {None, cre[c].fsx} \/ (cre'[c].fsx = c /\ Past(c, "sto")')

\* Its PCS cluster is the old one or none, except in the step that makes it.
SamePcs(c) ==
    /\ cre'[c].pcs \in {None, cre[c].pcs}
    /\ \/ Settled(cre'[c].pcs)
       \/ cre'[c].pc = "parallel" /\ cre'[c].ctl = "wait"

LEMMA EndedFields ==
    ASSUME NEW c \in Creations, NEW l
    PROVE  /\ EndedCreation(c, l).pc = l
           /\ EndedCreation(c, l).late = cre[c].late
           /\ EndedCreation(c, l).fsx = None /\ EndedCreation(c, l).pcs = None
  BY DEF EndedCreation, CreationOf

LEMMA RollbackOnward ==
    ASSUME TypeOK, ResourceInv, NEW c \in Creations, cre[c].pc \in Building, ToRollback(c)
    PROVE  Onward(c) /\ SamePcs(c)
<1>1. PICK L \in SUBSET InFlight(c) :
        cre' = [cre EXCEPT ![c] =
                  [CreationOf(@.proj, @.mode, "rollback") EXCEPT
                     !.late = L,
                     !.groups = cre[c].groups,
                     !.pcs = IF At(c, "parallel") THEN None ELSE cre[c].pcs,
                     !.fsx = IF At(c, "parallel") THEN None ELSE cre[c].fsx]]
  BY DEF ToRollback
<1>2. /\ \A x \in Creations \ {c} : cre'[x] = cre[x]
      /\ cre'[c].pc = "rollback" /\ cre'[c].late = L
      /\ cre'[c].pcs = IF At(c, "parallel") THEN None ELSE cre[c].pcs
      /\ cre'[c].fsx = IF At(c, "parallel") THEN None ELSE cre[c].fsx
  BY <1>1 DEF TypeOK, CreationOf
<1>3. \A b \in L : At(c, "parallel") /\ cre[c][b] = "todo"
  BY DEF InFlight
<1>4. Holds(c)
  BY DEF ResourceInv
<1>5. Settled(cre'[c].pcs)
  BY <1>2, <1>4 DEF Holds, Settled, At
<1>6. /\ Past(c, "sto") => Past(c, "sto")'
      /\ Past(c, "ctl") => Past(c, "ctl")'
  BY <1>2, <1>3 DEF Past, At
<1> QED
  BY <1>2, <1>5, <1>6 DEF Onward, SamePcs, Building

LEMMA GotoOnward ==
    ASSUME TypeOK, ResourceInv, NEW c \in Creations, NEW l \in CreationRunning, Goto(c, l),
           \/ cre[c].pc \in CreationRunning \ {"register", "prepare", "parallel"}
                /\ l \notin {"register", "prepare", "parallel"}
           \/ cre[c].pc = "register" /\ l = "prepare"
           \/ cre[c].pc = "prepare" /\ l = "parallel"
           \/ l \in Unwinding,
           cre[c].pc \in Building \/ l \notin Building,
           cre[c].pc \in CreationRunning \ {"parallel"}
    PROVE  Onward(c) /\ SamePcs(c)
<1>1. cre[c] \in StartedCreation
  BY StartedCreationType DEF CreationRunning, Building, Unwinding
<1>2. /\ \A x \in Creations \ {c} : cre'[x] = cre[x]
      /\ cre'[c] = [cre[c] EXCEPT !.pc = l]
  BY DEF Goto, TypeOK
<1>3. Made(c) /\ Holds(c)
  BY DEF ResourceInv
<1>4. /\ cre'[c].pc = l /\ cre'[c].late = cre[c].late
      /\ cre'[c].fsx = cre[c].fsx /\ cre'[c].pcs = cre[c].pcs
  BY <1>1, <1>2 DEF StartedCreation
<1>5. l \in Unwinding => l # "parallel" /\ l # "unused" /\ l # "register" /\ l # "prepare"
  BY DEF Unwinding
<1>6. /\ Past(c, "sto") => Past(c, "sto")'
      /\ Past(c, "ctl") => Past(c, "ctl")'
  BY <1>4, <1>5 DEF Past, CreationRunning, Building
<1>7. SamePcs(c)
  BY <1>3, <1>4 DEF SamePcs, Holds
<1> QED
  BY <1>2, <1>3, <1>4, <1>6, <1>7 DEF Onward, Made

\* Where the step goes, and what it holds then.
LEMMA CreationOnward ==
    ASSUME TypeOK, ResourceInv, NEW c \in Creations, CreationStep(c) \/ CreationFault(c)
    PROVE  /\ Onward(c)
           /\ \/ SamePcs(c)
              \/ CreatePcs(c) /\ cre'[c].pc = "parallel" /\ cre'[c].ctl = "wait"
<1> USE DEF cloud, queues, table
<1>1. /\ cre[c].pc \in CreationRunning
      /\ cre[c] \in StartedCreation
      /\ \A x \in Creations \ {c} : cre'[x] = cre[x]
  BY CreationFrame, StartedCreationType DEF CreationRunning, Building, Unwinding
<1>2. Made(c) /\ Holds(c)
  BY DEF ResourceInv
<1>3. CASE Raise(c) /\ cre[c].pc \in Building
  BY <1>3, RollbackOnward DEF Raise
<1>4. CASE StepFails(c) \/ NameTaken(c)
  BY <1>3, <1>4 DEF StepFails, NameTaken, At, Building
<1>5. CASE RegisterName(c) \/ CreateIamResources(c)
  BY <1>5, GotoOnward DEF RegisterName, CreateIamResources, At, CreationRunning, Building
<1>6. CASE CreateFsx(c)
  <2>1. /\ cre[c].pc = "parallel" /\ cre[c].sto = "todo"
        /\ cre'[c] = [cre[c] EXCEPT !.sto = "wait", !.fsx = c]
    BY <1>6 DEF CreateFsx, InBranch, At, TypeOK
  <2>2. /\ cre'[c].pc = "parallel" /\ cre'[c].sto = "wait" /\ cre'[c].ctl = cre[c].ctl
        /\ cre'[c].late = cre[c].late /\ cre'[c].fsx = c /\ cre'[c].pcs = cre[c].pcs
    BY <1>1, <2>1 DEF StartedCreation
  <2>3. cre[c].late = {}
    BY <1>2, <2>1 DEF Made, Building
  <2>4. Past(c, "sto")' /\ (Past(c, "ctl") => Past(c, "ctl")')
    BY <2>1, <2>2, <2>3 DEF Past
  <2> QED
    BY <1>1, <1>2, <2>1, <2>2, <2>3, <2>4 DEF Onward, SamePcs, Holds
<1>7. CASE CreatePcs(c)
  <2>1. /\ cre[c].pc = "parallel" /\ cre[c].ctl = "todo"
        /\ \E id : cre'[c] = [cre[c] EXCEPT !.ctl = "wait", !.pcs = id]
    BY <1>7 DEF CreatePcs, InBranch, At, TypeOK
  <2>2. /\ cre'[c].pc = "parallel" /\ cre'[c].ctl = "wait" /\ cre'[c].sto = cre[c].sto
        /\ cre'[c].late = cre[c].late /\ cre'[c].fsx = cre[c].fsx
    BY <1>1, <2>1 DEF StartedCreation
  <2>3. cre[c].late = {}
    BY <1>2, <2>1 DEF Made, Building
  <2>4. /\ Past(c, "ctl") => Past(c, "ctl")'
        /\ Past(c, "sto") => Past(c, "sto")'
    BY <2>1, <2>2, <2>3 DEF Past
  <2> QED
    BY <1>1, <1>7, <2>2, <2>3, <2>4 DEF Onward
\* The other steps of a branch.
<1>8. ASSUME ~ToRollback(c) /\ ~Raise(c),
             \/ CheckFsx(c) \/ CreateDra(c) \/ AttachS3Policy(c)
             \/ CheckPcs(c) \/ ConfigureLogs(c) \/ CreateLaunchTemplates(c)
      PROVE  Onward(c) /\ SamePcs(c)
  <2>1. /\ cre[c].pc = "parallel"
        /\ \/ \E v \in {"link", "done"} : cre'[c] = [cre[c] EXCEPT !.sto = v]
           \/ /\ \E v \in {"logs", "done"} : cre'[c] = [cre[c] EXCEPT !.ctl = v]
              /\ cre[c].ctl = "wait" => pcs[cre[c].pcs] = "active"
           \/ cre'[c] = [cre[c] EXCEPT !.lt = "done"]
    BY <1>8 DEF CheckFsx, CreateDra, AttachS3Policy, CheckPcs, ConfigureLogs,
       CreateLaunchTemplates, InBranch, At, TypeOK
  <2>2. /\ cre'[c].pc = "parallel" /\ cre'[c].late = cre[c].late
        /\ cre'[c].fsx = cre[c].fsx /\ cre'[c].pcs = cre[c].pcs
        /\ cre[c].sto # "todo" => cre'[c].sto # "todo"
        /\ cre[c].ctl # "todo" => cre'[c].ctl # "todo"
        /\ \/ cre'[c].ctl = cre[c].ctl
           \/ cre[c].ctl = "wait" => pcs[cre[c].pcs] = "active"
    BY <1>1, <2>1 DEF StartedCreation
  <2>3. cre[c].late = {}
    BY <1>2, <2>1 DEF Made, Building
  <2>4. /\ Past(c, "sto") => Past(c, "sto")'
        /\ Past(c, "ctl") => Past(c, "ctl")'
    BY <2>1, <2>2, <2>3 DEF Past
  <2>5. SamePcs(c)
    BY <1>2, <2>1, <2>2 DEF SamePcs, Holds, KnownPcs, Settled
  <2> QED
    BY <1>1, <2>2, <2>3, <2>4, <2>5 DEF Onward
<1>9. CASE \/ CheckFsx(c) \/ CreateDra(c) \/ AttachS3Policy(c)
           \/ CheckPcs(c) \/ ConfigureLogs(c) \/ CreateLaunchTemplates(c)
  <2>1. cre[c].pc \in Building
    BY <1>9 DEF CheckFsx, CreateDra, AttachS3Policy, CheckPcs, ConfigureLogs,
       CreateLaunchTemplates, InBranch, At, Building
  <2> QED
    BY <1>3, <1>8, <1>9, <2>1, RollbackOnward
<1>10. CASE Join(c)
  <2>1. /\ cre[c].pc = "parallel" /\ cre[c].ctl = "done"
        /\ cre'[c].pc = "loginGroup" /\ cre'[c].late = {}
        /\ cre'[c].fsx = cre[c].fsx /\ cre'[c].pcs = cre[c].pcs
    BY <1>10 DEF Join, At, Branches, TypeOK, CreationOf
  <2>2. SamePcs(c)
    BY <1>2, <2>1 DEF SamePcs, Holds
  <2> QED
    BY <1>1, <2>1, <2>2 DEF Onward, Past
<1>11. CASE CreateLoginGroup(c) \/ CreateComputeGroup(c)
  <2>1. CASE Raise(c)
    BY <1>3, <1>11, <2>1 DEF CreateLoginGroup, CreateComputeGroup, At, Building
  <2>2. CASE ~Raise(c)
    <3>1. /\ cre[c].pc \in {"loginGroup", "computeGroup"}
          /\ \E G : \E l \in {"computeGroup", "waitGroups"} :
                cre'[c] = [cre[c] EXCEPT !.pc = l, !.groups = G]
      BY <1>11, <2>2 DEF CreateLoginGroup, CreateComputeGroup, AddGroup, At, TypeOK
    <3>2. /\ cre'[c].pc \in {"computeGroup", "waitGroups"} /\ cre'[c].late = cre[c].late
          /\ cre'[c].fsx = cre[c].fsx /\ cre'[c].pcs = cre[c].pcs
      BY <1>1, <3>1 DEF StartedCreation
    <3>3. cre[c].late = {}
      BY <1>2, <3>1 DEF Made, Building
    <3>4. SamePcs(c)
      BY <1>2, <3>1, <3>2 DEF SamePcs, Holds
    <3> QED
      BY <1>1, <3>2, <3>3, <3>4 DEF Onward, Past
  <2> QED
    BY <2>1, <2>2
<1>12. CASE CheckNodeGroups(c) \/ CreateQueue(c)
  BY <1>3, <1>12, GotoOnward DEF CheckNodeGroups, CreateQueue, At, CreationRunning, Building
<1>13. CASE PollAgain(c)
  <2>1. cre' = cre
    BY <1>13 DEF PollAgain, flows
  <2> QED
    BY <1>2, <2>1 DEF Onward, SamePcs, Past, Made, Holds
<1>14. CASE RecordCluster(c) /\ cre'[c].pc = "queue"
  BY <1>14, GotoOnward, EndedFields DEF RecordCluster, TypeOK, At, CreationRunning, Building
\* The execution ends, and holds nothing any more.
<1>15. ASSUME cre'[c].pc \in {"succeeded", "failed"}, cre'[c].fsx = None, cre'[c].pcs = None,
              cre'[c].late \subseteq cre[c].late \cup InFlight(c)
       PROVE  Onward(c) /\ SamePcs(c)
  BY <1>1, <1>15 DEF Onward, SamePcs, Past, InFlight, At, Settled, Building
<1>16. CASE \/ RecordCluster(c) /\ cre'[c].pc # "queue"
            \/ RecordFailed(c) \/ MarkClusterFailed(c)
  <2>1. \E l \in {"succeeded", "failed"} : cre'[c] = EndedCreation(c, l)
    BY <1>1, <1>16 DEF RecordCluster, RecordFailed, MarkClusterFailed, EndFailed, Goto, TypeOK,
       StartedCreation
  <2> QED
    BY <1>15, <2>1, EndedFields
<1>17. CASE TimeOut(c)
  <2>1. PICK L \in SUBSET InFlight(c) :
          cre'[c] = [EndedCreation(c, "failed") EXCEPT !.late = @ \cup L]
    BY <1>17 DEF TimeOut, TypeOK
  <2>2. /\ cre'[c].pc = "failed" /\ cre'[c].fsx = None /\ cre'[c].pcs = None
        /\ cre'[c].late = cre[c].late \cup L
    BY <2>1 DEF EndedCreation, CreationOf
  <2> QED
    BY <1>15, <2>1, <2>2
<1>18. CASE Rollback(c) \/ RollbackFails(c)
  BY <1>18, GotoOnward DEF Rollback, RollbackFails, At, CreationRunning, Unwinding, Building
<1> QED
  BY <1>4, <1>5, <1>6, <1>7, <1>9, <1>10, <1>11, <1>12, <1>13, <1>14, <1>16, <1>17, <1>18
     DEF CreationStep, CreationFault

LEMMA CreationAdvances ==
    ASSUME TypeOK, ResourceInv, NEW c \in Creations, CreationStep(c) \/ CreationFault(c)
    PROVE  Advances
<1> USE DEF cloud
<1>1. Onward(c)
  BY CreationOnward
<1>2. \A x \in Creations : /\ Past(x, "sto") => Past(x, "sto")'
                           /\ Past(x, "ctl") => Past(x, "ctl")'
  BY <1>1 DEF Onward, Past
<1>3. Made(c) /\ Holds(c) /\ cre[c] \in Creation
  BY DEF ResourceInv, TypeOK
<1>4. CASE UNCHANGED <<pcs, subs, fsx>>
  BY <1>2, <1>4 DEF Advances
<1>5. CASE CreateFsx(c)
  <2>1. ~Past(c, "sto")
    BY <1>5 DEF CreateFsx, InBranch, At, Past
  <2>2. cre'[c].pc = "parallel" /\ cre'[c].sto = "wait"
    <3>1. cre[c].pc = "parallel" /\ cre'[c] = [cre[c] EXCEPT !.sto = "wait", !.fsx = c]
      BY <1>5 DEF CreateFsx, InBranch, At, TypeOK
    <3> QED
      BY <1>3, <3>1 DEF Creation, UnusedCreation, CreationOf, StartedCreation
  <2>3. Past(c, "sto")'
    BY <1>1, <2>2 DEF Onward, Past, Building
  <2>4. \A x \in Creations : x # c => fsx'[x] = fsx[x]
    BY <1>5 DEF CreateFsx, TypeOK
  <2>5. UNCHANGED <<pcs, subs>>
    BY <1>5 DEF CreateFsx
  <2> QED
    BY <1>2, <2>1, <2>3, <2>4, <2>5 DEF Advances
<1>6. CASE CreatePcs(c)
  <2>1. ~Past(c, "ctl")
    BY <1>6 DEF CreatePcs, InBranch, At, Past
  <2>2. cre'[c].pc = "parallel" /\ cre'[c].ctl = "wait"
    <3>1. /\ cre[c].pc = "parallel"
          /\ \E id : cre'[c] = [cre[c] EXCEPT !.ctl = "wait", !.pcs = id]
      BY <1>6 DEF CreatePcs, InBranch, At, TypeOK
    <3> QED
      BY <1>3, <3>1 DEF Creation, UnusedCreation, CreationOf, StartedCreation
  <2>3. Past(c, "ctl")'
    BY <1>1, <2>2 DEF Onward, Past, Building
  <2>4. \A x \in Creations : pcs'[x] = pcs[x] \/ (x = c /\ pcs'[x] = "creating")
    BY <1>6 DEF CreatePcs, MakePcs, TypeOK
  <2>5. UNCHANGED <<fsx, subs>>
    BY <1>6 DEF CreatePcs
  <2> QED
    BY <1>2, <2>1, <2>3, <2>4, <2>5 DEF Advances
\* Node groups and a queue are made under an active cluster only.
<1>7. ASSUME NEW g \in Groups, NEW l, AddGroup(c, g, l) PROVE Advances
  <2>1. CASE Raise(c)
    BY <1>4, <2>1 DEF Raise
  <2>2. CASE ~Raise(c)
    <3>1. /\ UNCHANGED <<pcs, fsx>> /\ pcs[cre[c].pcs] = "active"
          /\ \A x \in Creations : x # cre[c].pcs => subs'[x] = subs[x]
      BY <1>7, <2>2 DEF AddGroup, CanLaunch, TypeOK
    <3> QED
      BY <1>2, <3>1 DEF Advances
  <2> QED
    BY <2>1, <2>2
<1>8. CASE CreateQueue(c)
  <2>1. CASE Raise(c)
    BY <1>4, <2>1 DEF Raise
  <2>2. CASE ~Raise(c)
    <3>1. /\ UNCHANGED <<pcs, fsx>> /\ subs[cre[c].pcs]["compute"] = "up"
          /\ \A x \in Creations : x # cre[c].pcs => subs'[x] = subs[x]
      BY <1>8, <2>2 DEF CreateQueue, TypeOK
    <3>2. \A x \in Creations : subs[x] = NoSubs => x # cre[c].pcs
      BY <3>1 DEF NoSubs, SubResources, Groups
    <3> QED
      BY <1>2, <3>1, <3>2 DEF Advances
  <2> QED
    BY <2>1, <2>2
<1>9. CASE Rollback(c)
  <2>1. \A x \in Creations : \/ pcs'[x] = pcs[x]
                             \/ pcs[x] = "active" /\ pcs'[x] = "deleting"
    BY <1>9 DEF Rollback, TypeOK
  <2>2. \A x \in Creations : fsx'[x] # "none" => fsx[x] # "none"
    BY <1>9 DEF Rollback, TypeOK
  <2>3. \A x \in Creations : subs[x] = NoSubs => subs'[x] = NoSubs
    <3> SUFFICES ASSUME NEW x \in Creations, subs[x] = NoSubs PROVE subs'[x] = NoSubs
      OBVIOUS
    <3>1. CASE cre[c].pcs = None
      BY <1>9, <3>1 DEF Rollback
    <3>2. CASE cre[c].pcs # None
      <4> DEFINE dying == [s \in SubResources |->
                             IF s \in cre[c].groups /\ subs[cre[c].pcs][s] = "up"
                             THEN "deleting" ELSE subs[cre[c].pcs][s]]
      <4>1. subs' = [subs EXCEPT ![cre[c].pcs] = dying]
        BY <1>9, <3>2 DEF Rollback
      <4>2. subs[cre[c].pcs] = NoSubs => dying = NoSubs
        BY DEF NoSubs
      <4> QED
        BY <4>1, <4>2 DEF TypeOK
    <3> QED
      BY <3>1, <3>2
  <2> QED
    BY <1>2, <2>1, <2>2, <2>3 DEF Advances
<1>10. \/ UNCHANGED <<pcs, subs, fsx>> \/ CreateFsx(c) \/ CreatePcs(c)
       \/ CreateLoginGroup(c) \/ CreateComputeGroup(c) \/ CreateQueue(c) \/ Rollback(c)
  <2>1. CASE \/ RegisterName(c) \/ NameTaken(c) \/ CreateIamResources(c)
             \/ CheckFsx(c) \/ CreateDra(c) \/ AttachS3Policy(c) \/ CheckPcs(c)
    BY <2>1 DEF RegisterName, NameTaken, CreateIamResources, CheckFsx, CreateDra,
       AttachS3Policy, CheckPcs, Raise
  <2>2. CASE \/ ConfigureLogs(c) \/ CreateLaunchTemplates(c) \/ Join(c)
             \/ CheckNodeGroups(c) \/ PollAgain(c) \/ RecordCluster(c)
    BY <2>2 DEF ConfigureLogs, CreateLaunchTemplates, Join, CheckNodeGroups, PollAgain,
       RecordCluster, Raise
  <2>3. CASE \/ RecordFailed(c) \/ MarkClusterFailed(c)
             \/ StepFails(c) \/ RollbackFails(c) \/ TimeOut(c)
    BY <2>3 DEF RecordFailed, MarkClusterFailed, StepFails, RollbackFails, TimeOut, Raise
  <2> QED
    BY <2>1, <2>2, <2>3 DEF CreationStep, CreationFault
<1> QED
  BY <1>4, <1>5, <1>6, <1>7, <1>8, <1>9, <1>10 DEF CreateLoginGroup, CreateComputeGroup, Groups

\* The record keeps its ids, or gets those of the creation that succeeded.
LEMMA ProgressIds ==
    ASSUME TypeOK, NEW p \in Projects, NEW s, StepProgress(p, s) \/ SetStatus(p, s)
    PROVE  \A q \in Projects : rec'[q].pcs = rec[q].pcs /\ rec'[q].fsx = rec[q].fsx
<1>1. rec[p] \in Record
  BY DEF TypeOK
<1>2. [rec[p] EXCEPT !.status = s].pcs = rec[p].pcs /\ [rec[p] EXCEPT !.status = s].fsx = rec[p].fsx
  BY <1>1 DEF Record
<1>3. CASE SetStatus(p, s)
  <2>1. rec' = [rec EXCEPT ![p] = [rec[p] EXCEPT !.status = s]]
    BY <1>3 DEF SetStatus
  <2> QED
    BY <1>2, <2>1 DEF TypeOK
<1>4. CASE UNCHANGED rec
  BY <1>4
<1> QED
  BY <1>3, <1>4 DEF StepProgress

LEMMA CreationResource ==
    ASSUME TypeOK, ResourceInv, NEW c \in Creations, CreationStep(c) \/ CreationFault(c)
    PROVE  ResourceInv'
<1>1. Onward(c) /\ Advances
  BY CreationOnward, CreationAdvances
<1>2. /\ UNCHANGED <<req, des>> /\ cre[c].proj \in Projects
      /\ \A x \in Creations \ {c} : cre'[x] = cre[x]
  BY CreationFrame
<1>3. Holds(c)
  BY DEF ResourceInv
<1>4. \A x \in Creations \ {c} : Made(x)' /\ Holds(x)'
  BY <1>1, <1>2, AdvancesHolds
<1>5. Made(c)'
  BY <1>1, AdvancesMade DEF Onward
<1>6. Holds(c)'
  <2>1. KnownFsx(cre[c].fsx)'
    <3>1. cre'[c].fsx \in {None, cre[c].fsx} => KnownFsx(cre'[c].fsx)
      BY <1>3 DEF Holds, KnownFsx
    <3>2. cre'[c].fsx \in {None, cre[c].fsx} => cre'[c].fsx \in Id
      BY IdTypes DEF Id
    <3>3. CASE cre'[c].fsx \in {None, cre[c].fsx}
      <4>1. PICK id \in Id : id = cre'[c].fsx
        BY <3>2, <3>3
      <4>2. KnownFsx(id)'
        BY <1>1, <3>1, <3>3, <4>1, AdvancesHolds
      <4> QED
        BY <4>1, <4>2 DEF KnownFsx
    <3>4. CASE cre'[c].fsx = c /\ Past(c, "sto")'
      BY <3>4 DEF KnownFsx
    <3> QED
      BY <1>1, <3>3, <3>4 DEF Onward
  <2>2. CASE SamePcs(c)
    <3>1. PICK id \in Id : id = cre'[c].pcs
      BY <2>2, IdTypes DEF SamePcs, Id
    <3>2. KnownPcs(id)'
      BY <1>1, <1>3, <2>2, <3>1, AdvancesKeeps DEF SamePcs, Holds, KnownPcs
    <3>3. \/ Settled(id)'
          \/ cre'[c].pc = "parallel" /\ cre'[c].ctl = "wait"
      BY <1>1, <2>2, <3>1, AdvancesKeeps DEF SamePcs
    <3> QED
      BY <2>1, <3>1, <3>2, <3>3 DEF Holds, KnownPcs, Settled
  <2>3. CASE CreatePcs(c) /\ cre'[c].pc = "parallel" /\ cre'[c].ctl = "wait"
    <3>1. cre[c] \in StartedCreation
      BY <2>3, StartedCreationType DEF CreatePcs, InBranch, At
    <3>2. cre'[c].pcs = IF Named = {} THEN c ELSE CHOOSE x \in Named : TRUE
      BY <2>3, <3>1 DEF CreatePcs, TypeOK, StartedCreation
    <3>3. Past(c, "ctl")'
      BY <1>1, <2>3 DEF Onward, Past, Building
    <3>4. \A x \in Named : x \in Creations /\ Past(x, "ctl")
      BY DEF Named, ResourceInv, Made
    <3>5. \A x \in Named : Past(x, "ctl")'
      BY <1>1, <3>4 DEF Advances
    <3>6. cre'[c].pcs = c \/ cre'[c].pcs \in Named
      BY <3>2
    <3>7. KnownPcs(cre[c].pcs)'
      BY <3>3, <3>5, <3>6 DEF KnownPcs
    <3> QED
      BY <2>1, <2>3, <3>7 DEF Holds
  <2> QED
    BY <2>2, <2>3, CreationOnward
<1>7. \A p \in Projects : Settled(rec[p].pcs)' /\ KnownFsx(rec[p].fsx)'
  <2>1. CASE RecordCluster(c)
    <3> TAKE p \in Projects
    <3>1. \/ rec'[p] = rec[p]
          \/ rec'[p].pcs = cre[c].pcs /\ rec'[p].fsx = cre[c].fsx
      BY <1>2, <2>1 DEF RecordCluster, TypeOK
    <3>2. Settled(cre[c].pcs) /\ KnownFsx(cre[c].fsx)
      BY <1>3, <2>1 DEF RecordCluster, At, Holds
    <3>3. PICK i \in Id, f \in Id : i = cre[c].pcs /\ f = cre[c].fsx
      BY IdTypes
    <3>4. Settled(i)' /\ KnownFsx(f)'
      BY <1>1, <3>2, <3>3, AdvancesHolds
    <3> QED
      BY <1>1, <3>1, <3>3, <3>4, AdvancesHolds DEF Settled, KnownFsx
  <2>2. CASE ~RecordCluster(c)
    <3>1. \/ UNCHANGED rec
          \/ \E s : StepProgress(cre[c].proj, s) \/ SetStatus(cre[c].proj, s)
      BY <2>2 DEF CreationStep, CreationFault, RegisterName, NameTaken, CreateIamResources,
         CreateFsx, CheckFsx, CreateDra, AttachS3Policy, CreatePcs, CheckPcs, ConfigureLogs,
         CreateLaunchTemplates, Join, CreateLoginGroup, CreateComputeGroup, AddGroup,
         CheckNodeGroups, PollAgain, CreateQueue, Rollback, RecordFailed, MarkClusterFailed,
         StepFails, RollbackFails, TimeOut, Raise, Progress, table
    <3>2. \A p \in Projects : rec'[p].pcs = rec[p].pcs /\ rec'[p].fsx = rec[p].fsx
      BY <1>2, <3>1, ProgressIds
    <3> QED
      BY <1>1, <3>2, AdvancesHolds
  <2> QED
    BY <2>1, <2>2
<1>8. \A k \in Clients : Settled(req[k].pcs)' /\ KnownFsx(req[k].fsx)'
  BY <1>1, <1>2, AdvancesHolds
<1>9. \A d \in Destructions : Deletes(d)'
  BY <1>1, <1>2, AdvancesDeletes
<1> QED
  BY <1>4, <1>5, <1>6, <1>7, <1>8, <1>9 DEF ResourceInv

\* A late call makes what its branch had not made, after the execution left it.
LEMMA LateResource ==
    ASSUME TypeOK, ResourceInv, NEW c \in Creations, NEW b \in Branches, LateCall(c, b)
    PROVE  ResourceInv'
<1>1. Made(c) /\ Holds(c) /\ cre[c] \in StartedCreation
  <2>1. cre[c] \in StartedCreation
    BY DEF LateCall, TypeOK, Creation, UnusedCreation, CreationOf
  <2> QED
    BY <2>1 DEF ResourceInv
<1>2. b \in cre[c].late /\ cre[c].pc \notin Building /\ cre[c].pc # "unused"
  BY <1>1 DEF LateCall, Made, StartedCreation, CreationRunning, Building, Unwinding
<1>3. /\ \A x \in Creations \ {c} : cre'[x] = cre[x]
      /\ cre'[c] = [cre[c] EXCEPT !.late = @ \ {b}]
      /\ UNCHANGED <<rec, req, des, subs>>
  BY DEF LateCall, TypeOK, table
<1>4. /\ cre'[c].pc = cre[c].pc /\ cre'[c].late = cre[c].late \ {b}
      /\ cre'[c].pcs = cre[c].pcs /\ cre'[c].fsx = cre[c].fsx
  BY <1>1, <1>3 DEF StartedCreation
<1>5. \A e \in {"sto", "ctl"} : /\ Past(c, e) => Past(c, e)'
                                /\ e = b => Past(c, e)' /\ ~Past(c, e)
  BY <1>2, <1>4 DEF Past, Building
<1>6. \A x \in Creations : /\ Past(x, "sto") => Past(x, "sto")'
                           /\ Past(x, "ctl") => Past(x, "ctl")'
  BY <1>3, <1>5 DEF Past
<1>7. \A x \in Creations : \/ pcs'[x] = pcs[x]
                           \/ x = c /\ b = "ctl" /\ pcs'[x] = "creating"
  BY DEF LateCall, MakePcs, TypeOK
<1>8. \A x \in Creations : fsx'[x] = fsx[x] \/ (x = c /\ b = "sto")
  BY DEF LateCall, TypeOK
<1>9. Advances
  BY <1>3, <1>5, <1>6, <1>7, <1>8 DEF Advances
<1>10. \A x \in Creations : Made(x)' /\ Holds(x)'
  <2>1. Made(c)'
    BY <1>2, <1>4, <1>9, AdvancesMade
  <2>2. Holds(c)'
    <3>1. PICK i \in Id, f \in Id : i = cre[c].pcs /\ f = cre[c].fsx
      BY IdTypes
    <3>2. KnownPcs(i)' /\ Settled(i)' /\ KnownFsx(f)'
      BY <1>1, <1>2, <1>9, <3>1, AdvancesKeeps DEF Holds, Building
    <3> QED
      BY <1>4, <3>1, <3>2 DEF Holds, KnownPcs, Settled, KnownFsx
  <2> QED
    BY <1>3, <1>9, <2>1, <2>2, AdvancesHolds
<1> QED
  BY <1>3, <1>9, <1>10, AdvancesHolds, AdvancesDeletes DEF ResourceInv

-----------------------------------------------------------------------------
(* The destruction.                                                         *)

\* The steps but the two that delete go on with what they have.
LEMMA DestructionMoves ==
    ASSUME TypeOK, ResourceInv, NEW d \in Destructions,
           DestructionStep(d) \/ DStepFails(d) \/ DTimeOut(d)
    PROVE  /\ \A x \in Destructions \ {d} : des'[x] = des[x]
           /\ des'[d].pcs = des[d].pcs /\ des'[d].fsx = des[d].fsx
           /\ \A p \in Projects : rec'[p].pcs = rec[p].pcs /\ rec'[p].fsx = rec[p].fsx
           /\ UNCHANGED <<req, cre>>
<1>1. /\ des[d].proj \in Projects /\ des[d] \in StartedDestruction
      /\ \A x \in Destructions \ {d} : des'[x] = des[x]
      /\ UNCHANGED <<req, cre>>
  BY DestructionFrame, StartedDestructionType DEF DestructionRunning
<1>2. \/ UNCHANGED des
      \/ \E l : DGoto(d, l)
      \/ \E l, e : des' = [des EXCEPT ![d].pc = l, ![d].export = e]
  <2>1. CASE CreateFsxExportTask(d) \/ CheckFsxExport(d)
    BY <2>1 DEF CreateFsxExportTask, CheckFsxExport
  <2>2. CASE \/ DStepFails(d) \/ DTimeOut(d) \/ DPollAgain(d)
             \/ DeletePcsResources(d) \/ CheckPcsDeletion(d) \/ DeletePcsCluster(d)
    BY <2>2 DEF DStepFails, DTimeOut, DRaise, DPollAgain, DeletePcsResources,
       CheckPcsDeletion, DeletePcsCluster, flows
  <2>3. CASE \/ DeleteStorage(d) \/ CleanUp(d) \/ DeregisterName(d)
             \/ RecordDestroyed(d) \/ RecordDestructionFailed(d)
    BY <2>3 DEF DeleteStorage, CleanUp, DeregisterName, RecordDestroyed,
       RecordDestructionFailed
  <2> QED
    BY <2>1, <2>2, <2>3 DEF DestructionStep
<1>3. des'[d].pcs = des[d].pcs /\ des'[d].fsx = des[d].fsx
  <2>1. ASSUME NEW l, DGoto(d, l) PROVE des'[d].pcs = des[d].pcs /\ des'[d].fsx = des[d].fsx
    BY <1>1, <2>1 DEF DGoto, TypeOK, StartedDestruction
  <2>2. ASSUME NEW l, NEW e, des' = [des EXCEPT ![d].pc = l, ![d].export = e]
        PROVE  des'[d].pcs = des[d].pcs /\ des'[d].fsx = des[d].fsx
    BY <1>1, <2>2 DEF TypeOK, StartedDestruction
  <2> QED
    BY <1>2, <2>1, <2>2
<1>4. \/ UNCHANGED rec
      \/ \E s : StepProgress(des[d].proj, s) \/ SetStatus(des[d].proj, s)
  BY DEF DestructionStep, DStepFails, DTimeOut, DRaise, DProgress, CreateFsxExportTask,
     CheckFsxExport, DPollAgain, DeletePcsResources, CheckPcsDeletion, DeletePcsCluster,
     DeleteStorage, CleanUp, DeregisterName, RecordDestroyed, RecordDestructionFailed, table
<1>5. \A p \in Projects : rec'[p].pcs = rec[p].pcs /\ rec'[p].fsx = rec[p].fsx
  BY <1>1, <1>4, ProgressIds
<1> QED
  BY <1>1, <1>3, <1>5

\* The stages are passed in order, and each leaves what its check looked at.
LEMMA DestructionStages ==
    ASSUME TypeOK, ResourceInv, NEW d \in Destructions,
           DestructionStep(d) \/ DStepFails(d) \/ DTimeOut(d)
    PROVE  /\ Advances
           /\ des'[d].pc \in AfterPcs
                => des[d].pc \in AfterPcs \/ Gone(des[d].pcs)'
           /\ des'[d].pc \in AfterPcs \ {"storage"}
                => des[d].pc \in AfterPcs \ {"storage"} \/ ~HasFsx(d)'
<1> USE DEF cloud
<1>1. /\ des[d] \in StartedDestruction
      /\ UNCHANGED cre
  BY DestructionFrame, StartedDestructionType DEF DestructionRunning
<1>2. \A x \in Creations : Past(x, "sto")' = Past(x, "sto") /\ Past(x, "ctl")' = Past(x, "ctl")
  BY <1>1 DEF Past
<1>3. UNCHANGED <<pcs, subs, fsx>> => Advances
  BY <1>2 DEF Advances
<1>4. ASSUME NEW l, DGoto(d, l) PROVE des'[d].pc = l
  BY <1>1, <1>4 DEF DGoto, TypeOK, StartedDestruction
<1>5. CASE DRaise(d) \/ DTimeOut(d)
  BY <1>3, <1>4, <1>5 DEF DRaise, DTimeOut, AfterPcs
<1>6. CASE CreateFsxExportTask(d) \/ CheckFsxExport(d)
  <2>1. \E l \in {"exportWait", "pcsSubs"} :
          \E e : des' = [des EXCEPT ![d].pc = l, ![d].export = e]
    BY <1>6 DEF CreateFsxExportTask, CheckFsxExport
  <2>2. des'[d].pc \in {"exportWait", "pcsSubs"}
    BY <1>1, <2>1 DEF TypeOK, StartedDestruction
  <2> QED
    BY <1>3, <1>6, <2>2 DEF CreateFsxExportTask, CheckFsxExport, AfterPcs
<1>7. CASE DPollAgain(d)
  BY <1>3, <1>7 DEF DPollAgain, flows
<1>8. CASE DeletePcsResources(d)
  <2>1. des'[d].pc = "subsWait" /\ UNCHANGED <<pcs, fsx>>
    BY <1>4, <1>8 DEF DeletePcsResources
  <2>2. ASSUME NEW x \in Creations, subs[x] = NoSubs PROVE subs'[x] = NoSubs
    <3> DEFINE dying == [s \in SubResources |->
                           IF subs[des[d].pcs][s] = "up" THEN "deleting" ELSE subs[des[d].pcs][s]]
    <3>1. UNCHANGED subs \/ subs' = [subs EXCEPT ![des[d].pcs] = dying]
      BY <1>8 DEF DeletePcsResources
    <3>2. subs[des[d].pcs] = NoSubs => dying = NoSubs
      BY DEF NoSubs
    <3> QED
      BY <2>2, <3>1, <3>2 DEF TypeOK
  <2> QED
    BY <1>2, <2>1, <2>2 DEF Advances, AfterPcs
<1>9. CASE CheckPcsDeletion(d)
  BY <1>3, <1>4, <1>9 DEF CheckPcsDeletion, AfterPcs
<1>10. CASE DeletePcsCluster(d) /\ ~DRaise(d)
  <2>1. /\ des[d].pc = "pcsCluster" /\ des'[d].pc = "storage" /\ UNCHANGED <<subs, fsx>>
        /\ SubsOf(des[d].pcs) = NoSubs
    BY <1>4, <1>10 DEF DeletePcsCluster, DAt
  <2>2. \A x \in Creations :
          IF x = des[d].pcs /\ des[d].pcs # None /\ pcs[x] = "active"
          THEN pcs'[x] = "deleting" ELSE pcs'[x] = pcs[x]
    BY <1>10 DEF DeletePcsCluster, TypeOK
  <2>3. Advances
    BY <1>2, <2>1, <2>2 DEF Advances
  <2>4. Gone(des[d].pcs)'
    <3>1. CASE des[d].pcs = None
      BY <1>1, <3>1, DestructionMoves DEF Gone
    <3>2. CASE des[d].pcs # None
      <4>1. des[d].pcs \in Creations
        BY <3>2, IdTypes DEF Id
      <4>2. pcs[des[d].pcs] # "creating"
        BY <3>2 DEF ResourceInv, Deletes, Settled
      <4>3. pcs[des[d].pcs] \in {"none", "creating", "active", "deleting"}
        BY <4>1 DEF TypeOK
      <4>4. pcs'[des[d].pcs] \in {"none", "deleting"}
        BY <2>2, <3>2, <4>1, <4>2, <4>3
      <4>5. subs'[des[d].pcs] = NoSubs
        BY <2>1, <3>2 DEF SubsOf
      <4>6. des'[d].pcs = des[d].pcs
        BY DestructionMoves
      <4> QED
        BY <4>4, <4>5, <4>6 DEF Gone
    <3> QED
      BY <3>1, <3>2
  <2> QED
    BY <2>1, <2>3, <2>4
<1>11. CASE DeleteStorage(d)
  <2>1. des[d].pc = "storage" /\ des'[d].pc = "cleanup" /\ UNCHANGED <<subs, pcs>>
    BY <1>4, <1>11 DEF DeleteStorage, DAt
  <2>2. \A x \in Creations : fsx'[x] # "none" => fsx[x] # "none"
    BY <1>11 DEF DeleteStorage, TypeOK
  <2>3. ~HasFsx(d)'
    <3>1. CASE des[d].fsx = None
      BY <3>1, DestructionMoves DEF HasFsx
    <3>2. CASE des[d].fsx # None
      <4>1. des[d].fsx \in Creations
        BY <3>2, IdTypes DEF Id
      <4>2. fsx'[des[d].fsx] = "none"
        BY <1>11, <3>2, <4>1 DEF DeleteStorage, HasFsx, TypeOK
      <4> QED
        BY <4>2, DestructionMoves DEF HasFsx
    <3> QED
      BY <3>1, <3>2
  <2>4. Advances
    BY <1>2, <2>1, <2>2 DEF Advances
  <2> QED
    BY <2>1, <2>3, <2>4 DEF AfterPcs
<1>12. CASE CleanUp(d) \/ DeregisterName(d) \/ RecordDestroyed(d)
  <2>1. des[d].pc \in AfterPcs \ {"storage"}
    BY <1>12 DEF CleanUp, DeregisterName, RecordDestroyed, DAt, AfterPcs
  <2> QED
    BY <1>3, <1>12, <2>1 DEF CleanUp, DeregisterName, RecordDestroyed
<1>13. CASE RecordDestructionFailed(d)
  BY <1>3, <1>4, <1>13 DEF RecordDestructionFailed, AfterPcs
<1> QED
  BY <1>5, <1>6, <1>7, <1>8, <1>9, <1>10, <1>11, <1>12, <1>13 DEF DestructionStep, DStepFails

LEMMA DestructionResource ==
    ASSUME TypeOK, ResourceInv, NEW d \in Destructions,
           DestructionStep(d) \/ DStepFails(d) \/ DTimeOut(d)
    PROVE  ResourceInv'
<1>1. /\ Advances
      /\ des'[d].pc \in AfterPcs
           => des[d].pc \in AfterPcs \/ Gone(des[d].pcs)'
      /\ des'[d].pc \in AfterPcs \ {"storage"}
           => des[d].pc \in AfterPcs \ {"storage"} \/ ~HasFsx(d)'
  BY DestructionStages
<1>2. /\ \A x \in Destructions \ {d} : des'[x] = des[x]
      /\ des'[d].pcs = des[d].pcs /\ des'[d].fsx = des[d].fsx
      /\ \A p \in Projects : rec'[p].pcs = rec[p].pcs /\ rec'[p].fsx = rec[p].fsx
      /\ UNCHANGED <<req, cre>>
  BY DestructionMoves
<1>3. Deletes(d)'
  <2>1. PICK i \in Id, f \in Id : i = des[d].pcs /\ f = des[d].fsx
    BY IdTypes
  <2>2. Deletes(d)
    BY DEF ResourceInv
  <2>3. Settled(i)' /\ KnownFsx(f)' /\ (Gone(i) => Gone(i)')
    BY <1>1, <2>1, <2>2, AdvancesKeeps DEF Deletes
  <2>4. ~HasFsx(d) => ~HasFsx(d)'
    BY <1>1, <1>2, <2>1, <2>2, AdvancesKeeps DEF HasFsx, Deletes
  <2> QED
    BY <1>1, <1>2, <2>1, <2>2, <2>3, <2>4 DEF Deletes, Settled, KnownFsx, Gone
<1> QED
  BY <1>1, <1>2, <1>3, AdvancesHolds, AdvancesDeletes DEF ResourceInv

-----------------------------------------------------------------------------
(* Requests, events and services.                                           *)

\* A step that moves no resource lets the ids be handed on.
LEMMA StillAdvances ==
    ASSUME UNCHANGED <<cre, pcs, subs, fsx>>
    PROVE  Advances
  BY DEF Advances, Past

LEMMA ApiResource ==
    ASSUME TypeOK, ResourceInv, ApiStep
    PROVE  ResourceInv'
<1>k. PICK k \in Clients :
        \/ \E p \in Projects, m \in Modes :
              CreateCluster(k, p, m) \/ RecreateCluster(k, p, m)
        \/ \E p \in Projects : DeleteCluster(k, p) \/ ForceFailCluster(k, p)
        \/ PutCreating(k) \/ SetDestroying(k) \/ RefuseDelete(k)
        \/ SetForceFailed(k) \/ StartFails(k)
        \/ \E c \in Creations : StartCreation(k, c)
        \/ \E d \in Destructions : StartDestruction(k, d)
  BY DEF ApiStep
<1> USE DEF table, flows, cloud, queues
\* A request takes its ids from the record, and the record from nobody.
<1>1. ASSUME UNCHANGED <<cre, des, pcs, subs, fsx>>,
             \A j \in Clients \ {k} : req'[j] = req[j],
             \/ req'[k].pcs = req[k].pcs /\ req'[k].fsx = req[k].fsx
             \/ req'[k].pcs = None /\ req'[k].fsx = None
             \/ \E p \in Projects : req'[k].pcs = rec[p].pcs /\ req'[k].fsx = rec[p].fsx,
             \A p \in Projects : \/ rec'[p].pcs = rec[p].pcs /\ rec'[p].fsx = rec[p].fsx
                                 \/ rec'[p].pcs = None /\ rec'[p].fsx = None
      PROVE  ResourceInv'
  <2>1. Advances
    BY <1>1, StillAdvances
  <2>2. \A id : (Settled(id)' <=> Settled(id)) /\ (KnownFsx(id)' <=> KnownFsx(id))
    BY <1>1 DEF Settled, KnownFsx, Past
  <2>3. Settled(None) /\ KnownFsx(None)
    BY DEF Settled, KnownFsx
  <2>4. \A p \in Projects : Settled(rec'[p].pcs) /\ KnownFsx(rec'[p].fsx)
    BY <1>1, <2>3 DEF ResourceInv
  <2>5. \A j \in Clients : Settled(req'[j].pcs) /\ KnownFsx(req'[j].fsx)
    BY <1>1, <2>3 DEF ResourceInv
  <2>6. \A p \in Projects : Settled(rec[p].pcs)' /\ KnownFsx(rec[p].fsx)'
    BY <1>1, <2>4 DEF Settled, KnownFsx, Past
  <2>7. \A j \in Clients : Settled(req[j].pcs)' /\ KnownFsx(req[j].fsx)'
    BY <1>1, <2>5 DEF Settled, KnownFsx, Past
  <2> QED
    BY <1>1, <2>1, <2>6, <2>7, AdvancesHolds, AdvancesDeletes DEF ResourceInv
<1>2. CASE \/ \E p \in Projects, m \in Modes :
                 CreateCluster(k, p, m) \/ RecreateCluster(k, p, m)
           \/ \E p \in Projects : DeleteCluster(k, p) \/ ForceFailCluster(k, p)
  <2>1. PICK p \in Projects : \E op, m : Check(k, op, p, m)
    BY <1>2 DEF CreateCluster, RecreateCluster, DeleteCluster, ForceFailCluster
  <2>2. /\ \A j \in Clients \ {k} : req'[j] = req[j]
        /\ req'[k].pcs = rec[p].pcs /\ req'[k].fsx = rec[p].fsx
    BY <2>1 DEF Check, TypeOK
  <2>3. UNCHANGED <<rec, cre, des, pcs, subs, fsx>>
    BY <1>2 DEF CreateCluster, RecreateCluster, DeleteCluster, ForceFailCluster
  <2> QED
    BY <1>1, <2>2, <2>3
\* A request that ends.
<1>3. ASSUME Finish(k), UNCHANGED <<cre, des, pcs, subs, fsx>>,
             UNCHANGED rec \/ (req[k].proj \in Projects /\ SetStatus(req[k].proj, "FAILED"))
      PROVE  ResourceInv'
  <2>1. /\ \A j \in Clients \ {k} : req'[j] = req[j]
        /\ req'[k].pcs = None /\ req'[k].fsx = None
    BY <1>3 DEF Finish, NoRequest, TypeOK
  <2>2. \A p \in Projects : rec'[p].pcs = rec[p].pcs /\ rec'[p].fsx = rec[p].fsx
    BY <1>3, ProgressIds
  <2> QED
    BY <1>1, <1>3, <2>1, <2>2
<1>4. CASE RefuseDelete(k) \/ StartFails(k)
  BY <1>3, <1>4 DEF RefuseDelete, StartFails
<1>5. CASE SetForceFailed(k)
  <2>1. req[k].proj \in Projects
    BY <1>5, OpenRequestType DEF SetForceFailed, OpenRequest
  <2> QED
    BY <1>3, <1>5, <2>1 DEF SetForceFailed
<1>6. CASE PutCreating(k) \/ SetDestroying(k)
  <2>1. req[k] \in OpenRequest /\ req[k].proj \in Projects
    BY <1>6, OpenRequestType DEF PutCreating, SetDestroying, OpenRequest
  <2>2. /\ \A j \in Clients \ {k} : req'[j] = req[j]
        /\ req'[k].pcs = req[k].pcs /\ req'[k].fsx = req[k].fsx
    <3>1. req' = [req EXCEPT ![k].stage = "written"]
      BY <1>6 DEF PutCreating, SetDestroying
    <3> QED
      BY <2>1, <3>1 DEF TypeOK, OpenRequest
  <2>3. \A p \in Projects : \/ rec'[p].pcs = rec[p].pcs /\ rec'[p].fsx = rec[p].fsx
                            \/ rec'[p].pcs = None /\ rec'[p].fsx = None
    <3>1. CASE PutCreating(k)
      BY <2>1, <3>1 DEF PutCreating, TypeOK
    <3>2. CASE SetDestroying(k)
      BY <2>1, <3>2, ProgressIds DEF SetDestroying
    <3> QED
      BY <1>6, <3>1, <3>2
  <2>4. UNCHANGED <<cre, des, pcs, subs, fsx>>
    BY <1>6 DEF PutCreating, SetDestroying
  <2> QED
    BY <1>1, <2>2, <2>3, <2>4
<1>7. ASSUME NEW c \in Creations, StartCreation(k, c)
      PROVE  ResourceInv'
  <2>1. /\ cre[c].pc = "unused"
        /\ \A x \in Creations \ {c} : cre'[x] = cre[x]
        /\ cre'[c].pc = "register" /\ cre'[c].late = {}
        /\ cre'[c].pcs = None /\ cre'[c].fsx = None
        /\ \A j \in Clients \ {k} : req'[j] = req[j]
        /\ req'[k].pcs = None /\ req'[k].fsx = None
        /\ UNCHANGED <<rec, des, pcs, subs, fsx>>
    BY <1>7 DEF StartCreation, Finish, NoRequest, CreationOf, TypeOK
  <2>2. Advances
    BY <2>1 DEF Advances, Past
  <2>3. Made(c)' /\ Holds(c)'
    BY <2>1, <2>2, AdvancesMade DEF Holds, KnownFsx, KnownPcs, Settled
  <2>4. Settled(req[k].pcs)' /\ KnownFsx(req[k].fsx)'
    BY <2>1 DEF Settled, KnownFsx
  <2> QED
    BY <2>1, <2>2, <2>3, <2>4, AdvancesHolds, AdvancesDeletes DEF ResourceInv
<1>8. ASSUME NEW d \in Destructions, StartDestruction(k, d)
      PROVE  ResourceInv'
  <2>1. /\ \A x \in Destructions \ {d} : des'[x] = des[x]
        /\ des'[d].pc = "export" /\ des'[d].pcs = req[k].pcs /\ des'[d].fsx = req[k].fsx
        /\ \A j \in Clients \ {k} : req'[j] = req[j]
        /\ req'[k].pcs = None /\ req'[k].fsx = None
        /\ UNCHANGED <<rec, cre, pcs, subs, fsx>>
    BY <1>8 DEF StartDestruction, Finish, NoRequest, TypeOK
  <2>2. Advances
    BY <2>1, StillAdvances
  <2>3. Deletes(d)'
    BY <2>1 DEF ResourceInv, Deletes, AfterPcs, Settled, KnownFsx, Past
  <2>4. Settled(req[k].pcs)' /\ KnownFsx(req[k].fsx)'
    BY <2>1 DEF Settled, KnownFsx
  <2> QED
    BY <2>1, <2>2, <2>3, <2>4, AdvancesHolds, AdvancesDeletes DEF ResourceInv
<1> QED
  BY <1>k, <1>2, <1>4, <1>5, <1>6, <1>7, <1>8

LEMMA PlatformResource ==
    ASSUME TypeOK, ResourceInv, PlatformNext
    PROVE  ResourceInv'
<1> USE DEF table, flows, cloud, queues
<1>1. PICK c \in Creations : \/ EventStep(c) \/ EventFails(c)
                             \/ ClassifyFsx(c) \/ DeleteOrphan(c) \/ Service(c)
  BY DEF PlatformNext
<1>2. UNCHANGED <<req, cre, des>>
  BY <1>1 DEF EventStep, ReadForEvent, FailFromEvent, EventFails, ClassifyFsx, DeleteOrphan,
     Service, FsxReady, PcsReady, PcsGone, SubGone
<1>3. \A p \in Projects : rec'[p].pcs = rec[p].pcs /\ rec'[p].fsx = rec[p].fsx
  <2>1. CASE FailFromEvent(c)
    <3>1. cre[c].proj \in Projects
      BY <2>1, StartedCreationType DEF FailFromEvent, TypeOK, StartedCreation
    <3> QED
      BY <2>1, <3>1, ProgressIds DEF FailFromEvent
  <2>2. CASE ~FailFromEvent(c)
    BY <1>1, <2>2 DEF EventStep, ReadForEvent, EventFails, ClassifyFsx, DeleteOrphan,
       Service, FsxReady, PcsReady, PcsGone, SubGone
  <2> QED
    BY <2>1, <2>2
<1>4. \A x \in Creations : Past(x, "sto")' = Past(x, "sto") /\ Past(x, "ctl")' = Past(x, "ctl")
  BY <1>2 DEF Past
<1>5. Advances
  <2>1. CASE UNCHANGED <<pcs, subs, fsx>>
    BY <1>4, <2>1 DEF Advances
  <2>2. CASE DeleteOrphan(c) \/ FsxReady(c)
    <3>1. UNCHANGED <<pcs, subs>> /\ \A x \in Creations : fsx'[x] # "none" => fsx[x] # "none"
      BY <2>2 DEF DeleteOrphan, FsxReady, TypeOK
    <3> QED
      BY <1>4, <3>1 DEF Advances
  <2>3. CASE PcsReady(c) \/ PcsGone(c)
    <3>1. UNCHANGED <<fsx, subs>>
      BY <2>3 DEF PcsReady, PcsGone
    <3>2. \A x \in Creations : \/ pcs'[x] = pcs[x]
                               \/ pcs[x] = "creating" /\ pcs'[x] = "active"
                               \/ pcs[x] = "deleting" /\ pcs'[x] = "none"
      BY <2>3 DEF PcsReady, PcsGone, TypeOK
    <3> QED
      BY <1>4, <3>1, <3>2 DEF Advances
  <2>4. ASSUME NEW s \in SubResources, SubGone(c, s) PROVE Advances
    <3>1. \A x \in Creations : subs[x] = NoSubs => subs'[x] = subs[x]
      BY <2>4 DEF SubGone, NoSubs, TypeOK
    <3>2. UNCHANGED <<pcs, fsx>>
      BY <2>4 DEF SubGone
    <3> QED
      BY <1>4, <3>1, <3>2 DEF Advances
  <2> QED
    BY <1>1, <2>1, <2>2, <2>3, <2>4 DEF EventStep, ReadForEvent, FailFromEvent, EventFails,
       ClassifyFsx, Service
<1> QED
  BY <1>2, <1>3, <1>5, AdvancesHolds, AdvancesDeletes DEF ResourceInv

LEMMA NextResource ==
    ASSUME TypeOK, ResourceInv, [Next]_vars
    PROVE  ResourceInv'
<1>1. CASE CreationNext
  BY <1>1, CreationResource, LateResource DEF CreationNext
<1>2. CASE UNCHANGED vars
  <2>1. UNCHANGED <<rec, req, cre, des, pcs, subs, fsx>>
    BY <1>2 DEF vars
  <2> QED
    BY <2>1, StillAdvances, AdvancesHolds, AdvancesDeletes DEF ResourceInv
<1> QED
  BY <1>1, <1>2, ApiResource, DestructionResource, PlatformResource DEF Next, DestructionNext

LEMMA ResourceInvariant == Spec => [](TypeOK /\ ResourceInv)
<1>1. Init => TypeOK /\ ResourceInv
  BY InitType, InitResource
<1>2. TypeOK /\ ResourceInv /\ [Next]_vars => (TypeOK /\ ResourceInv)'
  BY NextType, NextResource
<1> QED
  BY <1>1, <1>2, PTL DEF Spec

(* A destruction that succeeded has left nothing of what its payload named: *)
(* no PCS cluster, node group or queue, and no filesystem.  This holds      *)
(* however the API is used and whatever fails, though creations adopt the   *)
(* PCS cluster, create calls land late and two destructions share a payload.*)
THEOREM DestroyedStaysGone == Spec => []DestroyedIsGone
<1>1. TypeOK /\ ResourceInv => DestroyedIsGone
  BY ResourceDestroyed
<1> QED
  BY <1>1, ResourceInvariant, PTL
-----------------------------------------------------------------------------
(* The name: without destructions nothing takes it from the project that    *)
(* registered it.                                                           *)

NameInv ==
    /\ \A k \in Clients : req[k].op # "delete"
    /\ \A d \in Destructions : des[d].pc = "unused"
    /\ \A p \in Projects : HoldsName(p) => registry = p

Registered == Building \ {"register"}

\* What a step of a creation does with the name.
LEMMA CreationName ==
    ASSUME TypeOK, NEW c \in Creations, CreationStep(c) \/ CreationFault(c)
    PROVE  /\ rec'[cre[c].proj].status = "ACTIVE"
                => rec[cre[c].proj].status = "ACTIVE" \/ RecordCluster(c)
           /\ \/ /\ registry' = registry
                 /\ cre'[c].pc \in Registered => cre[c].pc \in Registered
              \/ /\ registry \in {None, cre[c].proj}
                 /\ registry' = cre[c].proj
<1> DEFINE q == cre[c].proj
<1> USE DEF cloud, queues, table
<1>1. q \in Projects /\ cre[c] \in StartedCreation /\ cre[c].pc \in CreationRunning
  BY CreationFrame, StartedCreationType DEF CreationRunning, Building, Unwinding
<1>2. ASSUME NEW s, s # "ACTIVE", SetStatus(q, s) \/ UNCHANGED rec
      PROVE  rec'[q].status = "ACTIVE" => rec[q].status = "ACTIVE"
  BY <1>1, <1>2 DEF SetStatus, TypeOK, Record
<1>3. Progress(c) => (rec'[q].status = "ACTIVE" => rec[q].status = "ACTIVE")
  BY <1>2 DEF Progress, StepProgress
<1>4. rec'[q].status = "ACTIVE" => rec[q].status = "ACTIVE" \/ RecordCluster(c)
  <2>1. CASE RecordCluster(c)
    BY <2>1
  <2>2. CASE RecordFailed(c)
    BY <1>2, <2>2 DEF RecordFailed
  <2>3. CASE Progress(c)
    BY <1>3, <2>3
  <2>4. CASE UNCHANGED rec
    BY <2>4
  <2> QED
    BY <2>1, <2>2, <2>3, <2>4
       DEF CreationStep, CreationFault, RegisterName, NameTaken, CreateIamResources, CreateFsx,
           CheckFsx, CreateDra, AttachS3Policy, CreatePcs, CheckPcs, ConfigureLogs,
           CreateLaunchTemplates, Join, CreateLoginGroup, CreateComputeGroup, AddGroup,
           CheckNodeGroups, PollAgain, CreateQueue, Rollback, MarkClusterFailed,
           StepFails, RollbackFails, TimeOut, Raise
<1>5. CASE RegisterName(c)
  BY <1>4, <1>5 DEF RegisterName
<1>6. CASE cre[c].pc \in Registered /\ ~RegisterName(c)
  <2>1. registry' = registry
    BY <1>6
       DEF CreationStep, CreationFault, NameTaken, CreateIamResources, CreateFsx,
           CheckFsx, CreateDra, AttachS3Policy, CreatePcs, CheckPcs, ConfigureLogs,
           CreateLaunchTemplates, Join, CreateLoginGroup, CreateComputeGroup, AddGroup,
           CheckNodeGroups, PollAgain, CreateQueue, Rollback, MarkClusterFailed,
           RecordCluster, RecordFailed, StepFails, RollbackFails, TimeOut, Raise
  <2> QED
    BY <1>4, <1>6, <2>1
\* The steps that raise, unwind or end.
<1>7. CASE cre[c].pc \notin Registered /\ ~RegisterName(c)
  <2>1. \/ NameTaken(c) \/ StepFails(c) \/ Rollback(c) \/ RecordFailed(c)
        \/ MarkClusterFailed(c) \/ RollbackFails(c) \/ TimeOut(c)
    BY <1>7
       DEF CreationStep, CreationFault, CreateIamResources, CreateFsx,
           CheckFsx, CreateDra, AttachS3Policy, CreatePcs, CheckPcs, ConfigureLogs,
           CreateLaunchTemplates, Join, CreateLoginGroup, CreateComputeGroup,
           CheckNodeGroups, PollAgain, CreateQueue, RecordCluster, InBranch, At,
           Registered, Building
  <2>2. registry' = registry
    BY <2>1 DEF NameTaken, StepFails, Raise, Rollback, RecordFailed, MarkClusterFailed,
       RollbackFails, TimeOut
  <2>3. CASE ToRollback(c)
    <3>1. cre'[c].pc = "rollback"
      BY <2>3 DEF ToRollback, CreationOf, TypeOK
    <3> QED
      BY <1>4, <2>2, <3>1 DEF Registered, Building
  <2>4. CASE \/ Rollback(c) \/ RecordFailed(c)
             \/ MarkClusterFailed(c) \/ RollbackFails(c) \/ TimeOut(c)
    <3>1. CASE Rollback(c) \/ RollbackFails(c)
      <4>1. \E l \in {"recordFailed", "markFailed"} : Goto(c, l)
        BY <3>1 DEF Rollback, RollbackFails
      <4>2. cre'[c].pc \in {"recordFailed", "markFailed"}
        BY <1>1, <4>1 DEF Goto, TypeOK, StartedCreation
      <4> QED
        BY <1>4, <2>2, <4>2 DEF Registered, Building
    <3>2. CASE RecordFailed(c) \/ MarkClusterFailed(c) \/ TimeOut(c)
      <4>1. \E L : cre' = [cre EXCEPT ![c] = [EndedCreation(c, "failed") EXCEPT !.late = L]]
                \/ cre' = [cre EXCEPT ![c] = EndedCreation(c, "failed")]
        BY <3>2 DEF RecordFailed, MarkClusterFailed, EndFailed, TimeOut
      <4>2. cre'[c].pc = "failed"
        BY <4>1 DEF EndedCreation, CreationOf, TypeOK
      <4> QED
        BY <1>4, <2>2, <4>2 DEF Registered, Building
    <3> QED
      BY <2>4, <3>1, <3>2
  <2> QED
    BY <2>1, <2>3, <2>4 DEF NameTaken, StepFails, Raise
<1> QED
  BY <1>5, <1>6, <1>7

\* A step that puts no project in hold of the name leaves the invariant.
LEMMA NameKept ==
    ASSUME NameInv, UNCHANGED <<registry, des>>,
           \A k \in Clients : req'[k].op # "delete",
           \A p \in Projects : rec'[p].status = "ACTIVE" => rec[p].status = "ACTIVE",
           \A c \in Creations : cre'[c].pc \in Registered
               => cre[c].pc \in Registered /\ cre'[c].proj = cre[c].proj
    PROVE  NameInv'
<1>1. \A p \in Projects : HoldsName(p)' => HoldsName(p)
  BY DEF HoldsName, RunsCreation, Registered, CreationRunning
<1> QED
  BY <1>1 DEF NameInv

LEMMA CreationKeepsName ==
    ASSUME TypeOK, NameInv, NEW c \in Creations, CreationStep(c) \/ CreationFault(c)
    PROVE  NameInv'
<1> DEFINE q == cre[c].proj
<1>1. /\ q \in Projects /\ cre[c].pc \in CreationRunning
      /\ \A x \in Creations \ {c} : cre'[x] = cre[x]
      /\ cre'[c].proj = q
      /\ \A p \in Projects \ {q} : rec'[p] = rec[p]
      /\ UNCHANGED <<req, des>>
  BY CreationFrame
<1>2. None \notin Projects
  BY ConstantsAssumption
<1>3. ASSUME NEW p \in Projects, HoldsName(p)' PROVE registry' = p
  <2>1. CASE p # q
    <3>1. HoldsName(p)
      BY <1>1, <1>3, <2>1 DEF HoldsName, RunsCreation
    <3> QED
      BY <1>2, <2>1, <3>1, CreationName DEF NameInv
  <2>2. CASE p = q
    <3>1. CASE registry' = q
      BY <2>2, <3>1
    <3>2. CASE registry' = registry /\ (cre'[c].pc \in Registered => cre[c].pc \in Registered)
      <4>1. HoldsName(q)
        BY <1>1, <1>3, <2>2, <3>2, CreationName DEF HoldsName, RunsCreation, Registered,
           CreationRunning, Building, RecordCluster, At
      <4> QED
        BY <2>2, <3>2, <4>1 DEF NameInv
    <3> QED
      BY <3>1, <3>2, CreationName
  <2> QED
    BY <2>1, <2>2
<1> QED
  BY <1>1, <1>3 DEF NameInv

LEMMA NextName ==
    ASSUME "delete" \notin Ops, TypeOK, NameInv, [Next]_vars
    PROVE  NameInv'
<1> USE DEF table, flows, cloud, queues
<1>1. CASE \E c \in Creations : CreationStep(c) \/ CreationFault(c)
  BY <1>1, CreationKeepsName
<1>2. ASSUME NEW c \in Creations, NEW b \in Branches, LateCall(c, b) PROVE NameInv'
  <2>1. registry' = registry
    BY <1>2 DEF LateCall
  <2> QED
    BY <1>2, <2>1, LateCallFrame, NameKept DEF NameInv
<1>3. CASE ApiStep
  <2>1. PICK k \in Clients :
          \/ \E p \in Projects, m \in Modes :
                CreateCluster(k, p, m) \/ RecreateCluster(k, p, m)
          \/ \E p \in Projects : ForceFailCluster(k, p)
          \/ PutCreating(k) \/ SetForceFailed(k) \/ StartFails(k)
          \/ \E c \in Creations : StartCreation(k, c)
    BY <1>3 DEF ApiStep, DeleteCluster, SetDestroying, RefuseDelete, StartDestruction, NameInv
  <2>2. \A j \in Clients : req'[j].op # "delete"
    <3>1. \A j \in Clients \ {k} : req'[j] = req[j]
      BY <2>1 DEF CreateCluster, RecreateCluster, ForceFailCluster, Check, PutCreating,
         SetForceFailed, StartFails, StartCreation, Finish, TypeOK
    <3>2. req'[k].op # "delete"
      <4>1. CASE PutCreating(k)
        BY <4>1, OpenRequestType DEF PutCreating, OpenRequest, TypeOK
      <4>2. CASE ~PutCreating(k)
        BY <2>1, <4>2 DEF CreateCluster, RecreateCluster, ForceFailCluster, Check,
           SetForceFailed, StartFails, StartCreation, Finish, NoRequest, TypeOK
      <4> QED
        BY <4>1, <4>2
    <3> QED
      BY <3>1, <3>2 DEF NameInv
  <2>3. \A p \in Projects : rec'[p].status = "ACTIVE" => rec[p].status = "ACTIVE"
    <3>1. CASE PutCreating(k)
      <4>1. req[k].proj \in Projects
        BY <3>1, OpenRequestType DEF PutCreating, OpenRequest
      <4> QED
        BY <3>1, <4>1 DEF PutCreating, TypeOK
    <3>2. CASE SetForceFailed(k)
      <4>1. req[k].proj \in Projects
        BY <3>2, OpenRequestType DEF SetForceFailed, OpenRequest
      <4> QED
        BY <3>2, <4>1 DEF SetForceFailed, SetStatus, TypeOK, Record
    <3> QED
      BY <2>1, <3>1, <3>2 DEF CreateCluster, RecreateCluster, ForceFailCluster, StartFails,
         StartCreation
  <2>4. UNCHANGED <<registry, des>>
    BY <2>1 DEF CreateCluster, RecreateCluster, ForceFailCluster, PutCreating,
       SetForceFailed, StartFails, StartCreation
  <2>5. \A c \in Creations : cre'[c].pc \in Registered
               => cre[c].pc \in Registered /\ cre'[c].proj = cre[c].proj
    <3>1. CASE \E c \in Creations : StartCreation(k, c)
      BY <3>1 DEF StartCreation, CreationOf, Registered, Building, TypeOK
    <3> QED
      BY <2>1, <3>1 DEF CreateCluster, RecreateCluster, ForceFailCluster, PutCreating,
         SetForceFailed, StartFails
  <2> QED
    BY <2>2, <2>3, <2>4, <2>5, NameKept
<1>4. CASE DestructionNext
  BY <1>4, DestructionFrame DEF DestructionNext, NameInv, DestructionRunning
<1>5. CASE PlatformNext
  <2>1. PICK c \in Creations : \/ EventStep(c) \/ EventFails(c)
                               \/ ClassifyFsx(c) \/ DeleteOrphan(c) \/ Service(c)
    BY <1>5 DEF PlatformNext
  <2>2. UNCHANGED <<registry, req, cre, des>>
    BY <2>1 DEF EventStep, ReadForEvent, FailFromEvent, EventFails, ClassifyFsx, DeleteOrphan,
       Service, FsxReady, PcsReady, PcsGone, SubGone
  <2>3. \A p \in Projects : rec'[p].status = "ACTIVE" => rec[p].status = "ACTIVE"
    <3>1. CASE FailFromEvent(c)
      <4>1. cre[c].proj \in Projects
        BY <3>1, StartedCreationType DEF FailFromEvent, TypeOK, StartedCreation
      <4> QED
        BY <3>1, <4>1 DEF FailFromEvent, SetStatus, TypeOK, Record
    <3> QED
      BY <2>1, <3>1 DEF EventStep, ReadForEvent, EventFails, ClassifyFsx, DeleteOrphan,
         Service, FsxReady, PcsReady, PcsGone, SubGone
  <2> QED
    BY <2>2, <2>3, NameKept DEF NameInv
<1>6. CASE UNCHANGED vars
  <2>1. UNCHANGED <<rec, registry, req, cre, des>>
    BY <1>6 DEF vars
  <2> QED
    BY <2>1, NameKept DEF NameInv
<1> QED
  BY <1>1, <1>2, <1>3, <1>4, <1>5, <1>6 DEF Next, CreationNext

(* As long as no destroy request is accepted, the name belongs to one        *)
(* project: in whatever order creations of many projects start, fail, are   *)
(* rolled back, retried and started again, only one project's creations get *)
(* past the registration or have left an active cluster.                    *)
THEOREM NameBelongsToOne ==
    ASSUME "delete" \notin Ops
    PROVE  Spec => []NameIsExclusive
<1>1. Init => TypeOK /\ NameInv
  <2> SUFFICES ASSUME Init PROVE NameInv
    BY InitType
  <2> QED
    BY DEF Init, NameInv, HoldsName, NoRecord, NoRequest, UnusedCreation, UnusedDestruction,
       CreationOf, RunsCreation, CreationRunning, Building, Unwinding
<1>2. TypeOK /\ NameInv /\ [Next]_vars => (TypeOK /\ NameInv)'
  BY NextType, NextName
<1>3. NameInv => NameIsExclusive
  <2> SUFFICES ASSUME NameInv PROVE NameIsExclusive
    OBVIOUS
  <2>1. \A x, y \in {p \in Projects : HoldsName(p)} : x = y
    BY DEF NameInv
  <2> QED
    BY <2>1, AtMostOne DEF NameIsExclusive
<1> QED
  BY <1>1, <1>2, <1>3, PTL DEF Spec
-----------------------------------------------------------------------------
(* The active cluster: what a creation has found or made on its way is      *)
(* still there when it records the cluster, and as long as the record says  *)
(* ACTIVE.  The name must be used by one project: the destruction of a      *)
(* project's cluster clears the name and the log delivery whoever has them. *)

OneProject == \A p, q \in Projects : p = q

Stored(m, f, p) ==
    IF m = "lustre" THEN f # None /\ fsx[f] = "available" /\ f \notin orphans
                    ELSE "policy" \in setup[p]
Serving(id) == id # None /\ pcs[id] = "active" /\ logs = id

Joined == {"loginGroup", "computeGroup", "waitGroups", "queue", "record"}

\* How far the branches of the Parallel state are.
Branching(c) ==
    LET x == cre[c] IN
    /\ x.sto \in {"wait", "link"} => x.mode = "lustre" /\ x.fsx = c
    /\ x.sto = "link" => fsx[c] = "available"
    /\ x.sto = "done" => Stored(x.mode, x.fsx, x.proj)
    /\ x.ctl # "todo" => x.pcs # None
    /\ x.ctl \in {"logs", "done"} => pcs[x.pcs] = "active"
    /\ x.ctl = "done" => logs = x.pcs
    /\ x.lt = "done" => "templates" \in setup[x.proj]

Fresh(c) == cre[c].sto = "todo" /\ cre[c].ctl = "todo" /\ cre[c].lt = "todo"

\* What creation c can count on.
Stage(c) ==
    LET x == cre[c] IN
    /\ x.pc \in {"register", "prepare"} => Fresh(c)
    /\ x.pc \in Registered => registry = x.proj
    /\ x.pc \in Registered \ {"prepare"} => {"role", "profile"} \subseteq setup[x.proj]
    /\ x.pc = "parallel" => Branching(c)
    /\ x.pc \in Joined => /\ Stored(x.mode, x.fsx, x.proj)
                          /\ Serving(x.pcs)
                          /\ "templates" \in setup[x.proj]
    /\ x.pc \in {"queue", "record"} => \A g \in Groups : subs[x.pcs][g] = "up"
    /\ x.pc = "record" => subs[x.pcs]["queue"] = "up"

Whole(p) ==
    /\ rec[p].pcs # None
    /\ rec[p].mode = "lustre" => rec[p].fsx \notin orphans
    /\ Usable(p)

\* An orphan is the filesystem of an execution that has ended.
Orphaned == \A c \in orphans : cre[c].pc \notin CreationRunning \cup {"unused"}

WholeInv ==
    /\ \A c \in Creations : Stage(c)
    /\ \A p \in Projects : rec[p].status = "ACTIVE" => Whole(p)
    /\ Orphaned

LEMMA InitWhole == Init => WholeInv
<1> SUFFICES ASSUME Init PROVE WholeInv
  OBVIOUS
<1>1. \A c \in Creations : Stage(c)
  BY DEF Init, Stage, Registered, Building, Joined, UnusedCreation, CreationOf
<1> QED
  BY <1>1 DEF WholeInv, Init, NoRecord, Orphaned

\* The step takes away nothing that is in use.
Keeps ==
    /\ registry' = registry /\ logs' = logs
    /\ \A p \in Projects : setup[p] \subseteq setup'[p]
    /\ \A x \in Creations : pcs[x] = "active" => pcs'[x] = "active"
    /\ \A x \in Creations, s \in SubResources : subs[x][s] = "up" => subs'[x][s] = "up"
    /\ \A x \in Creations :
          fsx[x] = "available" /\ x \notin orphans => fsx'[x] = "available" /\ x \notin orphans'

LEMMA KeepsStored ==
    ASSUME Keeps, NEW m, NEW f \in Id, NEW p \in Projects, Stored(m, f, p)
    PROVE  Stored(m, f, p)'
BY DEF Keeps, Stored, Id

LEMMA KeepsStage ==
    ASSUME TypeOK, WholeInv, Keeps, NEW c \in Creations, cre'[c] = cre[c]
    PROVE  Stage(c)'
<1>1. CASE cre[c].pc \notin Registered
  BY <1>1 DEF Stage, Registered, Building, Joined, WholeInv, Fresh
<1>2. CASE cre[c].pc \in Registered
  <2>1. cre[c] \in StartedCreation /\ cre[c].proj \in Projects
        /\ cre[c].pcs \in Id /\ cre[c].fsx \in Id
    BY <1>2, StartedCreationType DEF Registered, Building, StartedCreation
  <2>2. Stage(c) /\ c \notin orphans
    BY <1>2 DEF WholeInv, Orphaned, Registered, CreationRunning
  <2>3. cre[c].pc = "parallel" => Branching(c)'
    BY <2>1, <2>2, KeepsStored DEF Stage, Branching, Keeps, Id
  <2>4. cre[c].pc \in Joined => /\ Stored(cre[c].mode, cre[c].fsx, cre[c].proj)'
                                /\ Serving(cre[c].pcs)' /\ Serving(cre[c].pcs)
                                /\ "templates" \in setup'[cre[c].proj]
    BY <2>1, <2>2, KeepsStored DEF Stage, Serving, Keeps, Id
  <2>5. cre[c].pc \in {"queue", "record"}
           => cre[c].pcs \in Creations /\ \A g \in Groups : subs'[cre[c].pcs][g] = "up"
    BY <2>1, <2>2, <2>4 DEF Stage, Serving, Keeps, Id, SubResources, Joined
  <2>6. cre[c].pc = "record" => subs'[cre[c].pcs]["queue"] = "up"
    BY <2>2, <2>5 DEF Stage, Keeps, SubResources
  <2>7. /\ registry' = cre[c].proj
        /\ cre[c].pc \in Registered \ {"prepare"} => {"role", "profile"} \subseteq setup'[cre[c].proj]
    BY <1>2, <2>1, <2>2 DEF Stage, Keeps
  <2> QED
    BY <2>2, <2>3, <2>4, <2>5, <2>6, <2>7 DEF Stage, Stored, Serving, Fresh
<1> QED
  BY <1>1, <1>2

LEMMA KeepsWhole ==
    ASSUME TypeOK, WholeInv, Keeps, NEW p \in Projects, rec'[p] = rec[p], Whole(p)
    PROVE  Whole(p)'
<1>1. rec[p].pcs \in Id /\ rec[p].fsx \in Id
  BY IdTypes
<1>2. rec[p].pcs \in Creations /\ pcs'[rec[p].pcs] = "active"
      /\ \A s \in SubResources : subs'[rec[p].pcs][s] = "up"
  BY <1>1 DEF Whole, Usable, Keeps, Id
<1>3. rec[p].mode = "lustre"
        => rec[p].fsx # None /\ fsx'[rec[p].fsx] = "available" /\ rec[p].fsx \notin orphans'
  BY <1>1 DEF Whole, Usable, Keeps, Id
<1>4. /\ {"role", "profile", "templates"} \subseteq setup'[p]
      /\ rec[p].mode = "mountpoint" => "policy" \in setup'[p]
      /\ registry' = p /\ logs' = rec[p].pcs
  BY DEF Whole, Usable, Keeps
<1> QED
  BY <1>2, <1>3, <1>4 DEF Whole, Usable

\* A step that moves no creation on and activates nothing.
LEMMA KeepsInv ==
    ASSUME TypeOK, WholeInv, Keeps,
           \A c \in Creations : cre'[c].pc \in Building
               => cre'[c] = cre[c] \/ (cre'[c].pc = "register" /\ Fresh(c)'),
           \A p \in Projects : rec'[p].status = "ACTIVE" => rec'[p] = rec[p],
           Orphaned'
    PROVE  WholeInv'
<1>1. ASSUME NEW c \in Creations PROVE Stage(c)'
  <2>1. CASE cre'[c] = cre[c]
    BY <2>1, KeepsStage
  <2>2. CASE cre'[c].pc \notin Building \/ (cre'[c].pc = "register" /\ Fresh(c)')
    BY <2>2 DEF Stage, Registered, Building, Joined
  <2> QED
    BY <2>1, <2>2
<1>2. \A p \in Projects : rec'[p].status = "ACTIVE" => Whole(p)'
  BY KeepsWhole DEF WholeInv
<1> QED
  BY <1>1, <1>2 DEF WholeInv

\* Nothing is being built, and nothing active.
LEMMA NothingWhole ==
    ASSUME \A c \in Creations : cre'[c].pc \notin Building,
           \A p \in Projects : rec'[p].status # "ACTIVE",
           Orphaned'
    PROVE  WholeInv'
BY DEF WholeInv, Stage, Registered, Building, Joined

\* With one project, a running creation means that its record says CREATING.
LEMMA BuildingStatus ==
    ASSUME OneProject, TypeOK, OwnerInv, NEW p \in Projects, rec[p].status # "CREATING"
    PROVE  \A c \in Creations : cre[c].pc \notin CreationRunning
<1> SUFFICES ASSUME NEW c \in Creations, cre[c].pc \in CreationRunning PROVE FALSE
  OBVIOUS
<1>1. cre[c].proj \in Projects
  BY StartedCreationType DEF CreationRunning, Building, Unwinding, StartedCreation
<1>2. RunsCreation(c, p)
  BY <1>1 DEF OneProject, RunsCreation
<1> QED
  BY <1>2 DEF OwnerInv, Owned

\* A step in the Parallel state that stays there.
LEMMA BranchStage ==
    ASSUME NEW c \in Creations, Stage(c), cre[c].pc = "parallel", cre'[c].pc = "parallel",
           cre'[c].proj = cre[c].proj, registry' = registry,
           setup[cre[c].proj] \subseteq setup'[cre[c].proj],
           Branching(c)'
    PROVE  Stage(c)'
BY DEF Stage, Registered, Building, Joined

LEMMA StorageStage ==
    ASSUME TypeOK, NEW c \in Creations, Stage(c), c \notin orphans, ~ToRollback(c),
           CreateFsx(c) \/ CheckFsx(c) \/ CreateDra(c) \/ AttachS3Policy(c)
    PROVE  Stage(c)'
<1> USE DEF table, cloud, queues
<1>1. /\ cre[c].pc = "parallel" /\ cre[c] \in StartedCreation /\ cre[c].proj \in Projects
  BY StartedCreationType DEF CreateFsx, CheckFsx, CreateDra, AttachS3Policy, InBranch, At,
     StartedCreation
<1>2. Branching(c)
  BY <1>1 DEF Stage
<1>3. CASE CreateFsx(c)
  <2>1. /\ cre'[c] = [cre[c] EXCEPT !.sto = "wait", !.fsx = c]
        /\ cre[c].mode = "lustre" /\ UNCHANGED <<registry, pcs, setup, logs>>
    BY <1>3 DEF CreateFsx, TypeOK
  <2>2. /\ cre'[c].pc = "parallel" /\ cre'[c].proj = cre[c].proj /\ cre'[c].mode = "lustre"
        /\ cre'[c].sto = "wait" /\ cre'[c].fsx = c /\ cre'[c].pcs = cre[c].pcs
        /\ cre'[c].ctl = cre[c].ctl /\ cre'[c].lt = cre[c].lt
    BY <1>1, <2>1 DEF StartedCreation
  <2>3. Branching(c)'
    BY <1>2, <2>1, <2>2 DEF Branching
  <2> QED
    BY <1>1, <2>1, <2>2, <2>3, BranchStage
<1>4. CASE CheckFsx(c)
  <2>1. /\ cre'[c] = [cre[c] EXCEPT !.sto = "link"] /\ cre[c].sto = "wait"
        /\ fsx[c] = "available" /\ UNCHANGED <<registry, pcs, fsx, setup, logs>>
    BY <1>4 DEF CheckFsx, InBranch, Raise, TypeOK
  <2>2. /\ cre'[c].pc = "parallel" /\ cre'[c].proj = cre[c].proj /\ cre'[c].mode = cre[c].mode
        /\ cre'[c].sto = "link" /\ cre'[c].fsx = cre[c].fsx /\ cre'[c].pcs = cre[c].pcs
        /\ cre'[c].ctl = cre[c].ctl /\ cre'[c].lt = cre[c].lt
    BY <1>1, <2>1 DEF StartedCreation
  <2>3. Branching(c)'
    BY <1>2, <2>1, <2>2 DEF Branching
  <2> QED
    BY <1>1, <2>1, <2>2, <2>3, BranchStage
<1>5. CASE CreateDra(c)
  <2>1. /\ cre'[c] = [cre[c] EXCEPT !.sto = "done"] /\ cre[c].sto = "link"
        /\ UNCHANGED <<registry, pcs, fsx, setup, logs, orphans>>
    BY <1>5 DEF CreateDra, InBranch, TypeOK
  <2>2. /\ cre'[c].pc = "parallel" /\ cre'[c].proj = cre[c].proj /\ cre'[c].mode = cre[c].mode
        /\ cre'[c].sto = "done" /\ cre'[c].fsx = cre[c].fsx /\ cre'[c].pcs = cre[c].pcs
        /\ cre'[c].ctl = cre[c].ctl /\ cre'[c].lt = cre[c].lt
    BY <1>1, <2>1 DEF StartedCreation
  <2>3. Stored(cre[c].mode, cre[c].fsx, cre[c].proj)'
    BY <1>2, <2>1, <2>2, ConstantsAssumption DEF Branching, Stored
  <2>4. Branching(c)'
    BY <1>2, <2>1, <2>2, <2>3 DEF Branching, Stored
  <2> QED
    BY <1>1, <2>1, <2>2, <2>4, BranchStage
<1>6. CASE AttachS3Policy(c)
  <2>1. /\ cre'[c] = [cre[c] EXCEPT !.sto = "done"] /\ cre[c].mode = "mountpoint"
        /\ setup'[cre[c].proj] = setup[cre[c].proj] \cup {"policy"}
        /\ UNCHANGED <<registry, pcs, fsx, logs, orphans>>
    BY <1>1, <1>6 DEF AttachS3Policy, InBranch, TypeOK
  <2>2. /\ cre'[c].pc = "parallel" /\ cre'[c].proj = cre[c].proj /\ cre'[c].mode = "mountpoint"
        /\ cre'[c].sto = "done" /\ cre'[c].fsx = cre[c].fsx /\ cre'[c].pcs = cre[c].pcs
        /\ cre'[c].ctl = cre[c].ctl /\ cre'[c].lt = cre[c].lt
    BY <1>1, <2>1 DEF StartedCreation
  <2>3. Branching(c)'
    BY <1>2, <2>1, <2>2 DEF Branching, Stored
  <2> QED
    BY <1>1, <2>1, <2>2, <2>3, BranchStage
<1> QED
  BY <1>3, <1>4, <1>5, <1>6

LEMMA PcsStage ==
    ASSUME TypeOK, NEW c \in Creations, Stage(c), ~ToRollback(c),
           CreatePcs(c) \/ CheckPcs(c) \/ ConfigureLogs(c) \/ CreateLaunchTemplates(c)
    PROVE  Stage(c)'
<1> USE DEF table, cloud, queues
<1>1. /\ cre[c].pc = "parallel" /\ cre[c] \in StartedCreation /\ cre[c].proj \in Projects
  BY StartedCreationType DEF CreatePcs, CheckPcs, ConfigureLogs, CreateLaunchTemplates,
     InBranch, At, StartedCreation
<1>2. Branching(c)
  BY <1>1 DEF Stage
<1>3. CASE CreatePcs(c)
  <2>0. PICK id : /\ id = IF Named = {} THEN c ELSE CHOOSE x \in Named : TRUE
                  /\ cre'[c] = [cre[c] EXCEPT !.ctl = "wait", !.pcs = id]
    BY <1>3 DEF CreatePcs, TypeOK
  <2>1. id # None
    BY <2>0, ConstantsAssumption DEF Named
  <2>2. UNCHANGED <<registry, fsx, setup, logs, orphans>>
    BY <1>3 DEF CreatePcs
  <2>3. /\ cre'[c].pc = "parallel" /\ cre'[c].proj = cre[c].proj /\ cre'[c].mode = cre[c].mode
        /\ cre'[c].sto = cre[c].sto /\ cre'[c].fsx = cre[c].fsx /\ cre'[c].pcs = id
        /\ cre'[c].ctl = "wait" /\ cre'[c].lt = cre[c].lt
    BY <1>1, <2>0 DEF StartedCreation
  <2>4. Branching(c)'
    BY <1>2, <2>1, <2>2, <2>3 DEF Branching, Stored
  <2> QED
    BY <1>1, <2>2, <2>3, <2>4, BranchStage
<1>4. CASE CheckPcs(c)
  <2>1. /\ cre'[c] = [cre[c] EXCEPT !.ctl = "logs"] /\ cre[c].ctl = "wait"
        /\ pcs[cre[c].pcs] = "active"
        /\ UNCHANGED <<registry, pcs, fsx, setup, logs, orphans>>
    BY <1>4 DEF CheckPcs, InBranch, Raise, TypeOK
  <2>2. /\ cre'[c].pc = "parallel" /\ cre'[c].proj = cre[c].proj /\ cre'[c].mode = cre[c].mode
        /\ cre'[c].sto = cre[c].sto /\ cre'[c].fsx = cre[c].fsx /\ cre'[c].pcs = cre[c].pcs
        /\ cre'[c].ctl = "logs" /\ cre'[c].lt = cre[c].lt
    BY <1>1, <2>1 DEF StartedCreation
  <2>3. Branching(c)'
    BY <1>2, <2>1, <2>2 DEF Branching, Stored
  <2> QED
    BY <1>1, <2>1, <2>2, <2>3, BranchStage
<1>5. CASE ConfigureLogs(c)
  <2>1. /\ cre'[c] = [cre[c] EXCEPT !.ctl = "done"] /\ cre[c].ctl = "logs"
        /\ logs' = cre[c].pcs
        /\ UNCHANGED <<registry, pcs, fsx, setup, orphans>>
    BY <1>5 DEF ConfigureLogs, InBranch, TypeOK
  <2>2. /\ cre'[c].pc = "parallel" /\ cre'[c].proj = cre[c].proj /\ cre'[c].mode = cre[c].mode
        /\ cre'[c].sto = cre[c].sto /\ cre'[c].fsx = cre[c].fsx /\ cre'[c].pcs = cre[c].pcs
        /\ cre'[c].ctl = "done" /\ cre'[c].lt = cre[c].lt
    BY <1>1, <2>1 DEF StartedCreation
  <2>3. Branching(c)'
    BY <1>2, <2>1, <2>2 DEF Branching, Stored
  <2> QED
    BY <1>1, <2>1, <2>2, <2>3, BranchStage
<1>6. CASE CreateLaunchTemplates(c)
  <2>1. /\ cre'[c] = [cre[c] EXCEPT !.lt = "done"]
        /\ setup'[cre[c].proj] = setup[cre[c].proj] \cup {"templates"}
        /\ UNCHANGED <<registry, pcs, fsx, logs, orphans>>
    BY <1>1, <1>6 DEF CreateLaunchTemplates, TypeOK
  <2>2. /\ cre'[c].pc = "parallel" /\ cre'[c].proj = cre[c].proj /\ cre'[c].mode = cre[c].mode
        /\ cre'[c].sto = cre[c].sto /\ cre'[c].fsx = cre[c].fsx /\ cre'[c].pcs = cre[c].pcs
        /\ cre'[c].ctl = cre[c].ctl /\ cre'[c].lt = "done"
    BY <1>1, <2>1 DEF StartedCreation
  <2>3. Branching(c)'
    BY <1>2, <2>1, <2>2 DEF Branching, Stored
  <2> QED
    BY <1>1, <2>1, <2>2, <2>3, BranchStage
<1> QED
  BY <1>3, <1>4, <1>5, <1>6

\* The steps after the Parallel state.
LEMMA JoinedStage ==
    ASSUME TypeOK, NEW c \in Creations, Stage(c), ~ToRollback(c),
           \/ Join(c) \/ CreateLoginGroup(c) \/ CreateComputeGroup(c)
           \/ CheckNodeGroups(c) \/ CreateQueue(c)
    PROVE  Stage(c)'
<1> USE DEF table, cloud, queues
<1>1. /\ cre[c].pc \in Registered \ {"prepare"}
      /\ cre[c] \in StartedCreation /\ cre[c].proj \in Projects
  BY StartedCreationType DEF Join, CreateLoginGroup, CreateComputeGroup, CheckNodeGroups,
     CreateQueue, At, Registered, Building, StartedCreation
<1>2. registry = cre[c].proj /\ {"role", "profile"} \subseteq setup[cre[c].proj]
  BY <1>1 DEF Stage
<1>3. CASE Join(c)
  <2>1. /\ cre'[c] = [CreationOf(cre[c].proj, cre[c].mode, "loginGroup")
                        EXCEPT !.pcs = cre[c].pcs, !.fsx = cre[c].fsx]
        /\ cre[c].sto = "done" /\ cre[c].ctl = "done" /\ cre[c].lt = "done"
        /\ Branching(c)
        /\ UNCHANGED <<registry, pcs, fsx, setup, logs, orphans>>
    BY <1>3 DEF Join, At, Branches, TypeOK, Stage
  <2>2. /\ cre'[c].pc = "loginGroup" /\ cre'[c].proj = cre[c].proj
        /\ cre'[c].mode = cre[c].mode /\ cre'[c].pcs = cre[c].pcs /\ cre'[c].fsx = cre[c].fsx
    BY <2>1 DEF CreationOf
  <2>3. Stored(cre[c].mode, cre[c].fsx, cre[c].proj) /\ Serving(cre[c].pcs)
        /\ "templates" \in setup[cre[c].proj]
    BY <2>1 DEF Branching, Serving
  <2> QED
    BY <1>2, <2>1, <2>2, <2>3 DEF Stage, Stored, Serving
<1>4. CASE CreateLoginGroup(c) \/ CreateComputeGroup(c) \/ CheckNodeGroups(c) \/ CreateQueue(c)
  <2>1. /\ Stored(cre[c].mode, cre[c].fsx, cre[c].proj) /\ Serving(cre[c].pcs)
        /\ "templates" \in setup[cre[c].proj]
    BY <1>4 DEF CreateLoginGroup, CreateComputeGroup, CheckNodeGroups, CreateQueue, At, Stage,
       Joined
  <2>2. UNCHANGED <<registry, pcs, fsx, setup, logs, orphans>>
    BY <1>4 DEF CreateLoginGroup, CreateComputeGroup, AddGroup, CheckNodeGroups, CreateQueue,
       Raise
  \* What is left is what the step says of the node groups and the queue.
  <2>3. ASSUME cre'[c].pc \in Joined, cre'[c].proj = cre[c].proj, cre'[c].mode = cre[c].mode,
               cre'[c].pcs = cre[c].pcs, cre'[c].fsx = cre[c].fsx,
               cre'[c].pc \in {"queue", "record"}
                  => \A g \in Groups : subs'[cre[c].pcs][g] = "up",
               cre'[c].pc = "record" => subs'[cre[c].pcs]["queue"] = "up"
        PROVE  Stage(c)'
    BY <1>2, <2>1, <2>2, <2>3 DEF Stage, Stored, Serving, Joined
  <2>4. CASE CreateLoginGroup(c) \/ CreateComputeGroup(c)
    <3>1. \E G : \E l \in {"computeGroup", "waitGroups"} :
             cre'[c] = [cre[c] EXCEPT !.pc = l, !.groups = G]
      BY <2>4 DEF CreateLoginGroup, CreateComputeGroup, AddGroup, Raise, TypeOK
    <3>2. /\ cre'[c].pc \in {"computeGroup", "waitGroups"} /\ cre'[c].proj = cre[c].proj
          /\ cre'[c].mode = cre[c].mode /\ cre'[c].pcs = cre[c].pcs /\ cre'[c].fsx = cre[c].fsx
      BY <1>1, <3>1 DEF StartedCreation
    <3> QED
      BY <2>3, <3>2 DEF Joined
  <2>5. CASE CheckNodeGroups(c)
    <3>1. /\ \A g \in Groups : subs[cre[c].pcs][g] = "up"
          /\ cre'[c] = [cre[c] EXCEPT !.pc = "queue"] /\ subs' = subs
      BY <2>5 DEF CheckNodeGroups, Raise, Goto, TypeOK
    <3>2. /\ cre'[c].pc = "queue" /\ cre'[c].proj = cre[c].proj
          /\ cre'[c].mode = cre[c].mode /\ cre'[c].pcs = cre[c].pcs /\ cre'[c].fsx = cre[c].fsx
      BY <1>1, <3>1 DEF StartedCreation
    <3> QED
      BY <2>3, <3>1, <3>2 DEF Joined
  <2>6. CASE CreateQueue(c)
    <3>1. /\ cre'[c] = [cre[c] EXCEPT !.pc = "record"]
          /\ subs' = [subs EXCEPT ![cre[c].pcs]["queue"] = "up"]
      BY <2>6 DEF CreateQueue, Raise, Goto, TypeOK
    <3>2. /\ cre'[c].pc = "record" /\ cre'[c].proj = cre[c].proj
          /\ cre'[c].mode = cre[c].mode /\ cre'[c].pcs = cre[c].pcs /\ cre'[c].fsx = cre[c].fsx
      BY <1>1, <3>1 DEF StartedCreation
    <3>3. cre[c].pcs \in Creations
      BY <1>1, <2>1 DEF StartedCreation, Id, Serving
    <3>4. \A g \in Groups : subs[cre[c].pcs][g] = "up"
      BY <2>6 DEF CreateQueue, At, Stage
    <3>5. /\ \A g \in Groups : subs'[cre[c].pcs][g] = "up"
          /\ subs'[cre[c].pcs]["queue"] = "up"
      BY <3>1, <3>3, <3>4 DEF TypeOK, SubResources, Groups
    <3> QED
      BY <2>3, <3>2, <3>5 DEF Joined
  <2> QED
    BY <1>4, <2>4, <2>5, <2>6
<1> QED
  BY <1>3, <1>4

LEMMA CreationStage ==
    ASSUME TypeOK, NEW c \in Creations, Stage(c), c \notin orphans, "retry" \notin Faults,
           CreationStep(c) \/ CreationFault(c)
    PROVE  Stage(c)'
<1> USE DEF table, flows, cloud, queues
<1>1. cre[c] \in StartedCreation /\ cre[c].proj \in Projects
  BY CreationFrame, StartedCreationType DEF CreationRunning, Building, Unwinding
<1>2. ASSUME cre'[c].pc \notin Building PROVE Stage(c)'
  BY <1>2 DEF Stage, Registered, Building, Joined
<1>3. CASE ToRollback(c)
  <2>1. cre'[c].pc = "rollback"
    BY <1>3 DEF ToRollback, CreationOf, TypeOK
  <2> QED
    BY <1>2, <2>1 DEF Building
<1>4. CASE RegisterName(c)
  <2>1. /\ cre'[c] = [cre[c] EXCEPT !.pc = "prepare"] /\ registry' = cre[c].proj
    BY <1>4 DEF RegisterName, Goto, TypeOK
  <2>2. cre'[c].pc = "prepare" /\ cre'[c].proj = cre[c].proj /\ Fresh(c)'
    BY <1>1, <1>4, <2>1 DEF StartedCreation, RegisterName, At, Stage, Fresh
  <2> QED
    BY <2>1, <2>2 DEF Stage, Joined
<1>5. CASE CreateIamResources(c)
  <2>1. /\ cre[c].pc = "prepare" /\ cre'[c] = [cre[c] EXCEPT !.pc = "parallel"]
        /\ setup'[cre[c].proj] = setup[cre[c].proj] \cup {"role", "profile"}
        /\ registry' = registry
    BY <1>1, <1>5 DEF CreateIamResources, At, Goto, TypeOK
  <2>2. cre'[c].pc = "parallel" /\ cre'[c].proj = cre[c].proj /\ Fresh(c)'
    BY <1>1, <2>1 DEF StartedCreation, Stage, Fresh
  <2>3. registry = cre[c].proj
    BY <2>1 DEF Stage, Registered, Building
  <2> QED
    BY <2>1, <2>2, <2>3 DEF Stage, Joined, Branching, Fresh
<1>6. CASE PollAgain(c)
  <2>1. UNCHANGED <<registry, cre, pcs, subs, fsx, setup, logs, orphans>>
    BY <1>6 DEF PollAgain
  <2> QED
    BY <2>1 DEF Stage, Branching, Stored, Serving, Fresh
<1>7. CASE RecordCluster(c) \/ RecordFailed(c) \/ MarkClusterFailed(c) \/ TimeOut(c)
  <2>1. CASE TimeOut(c)
    <3>1. PICK L : cre'[c] = [EndedCreation(c, "failed") EXCEPT !.late = @ \cup L]
      BY <2>1 DEF TimeOut, TypeOK
    <3>2. cre'[c].pc = "failed"
      BY <3>1 DEF EndedCreation, CreationOf
    <3> QED
      BY <1>2, <3>2 DEF Building
  <2>2. CASE RecordCluster(c) \/ RecordFailed(c) \/ MarkClusterFailed(c)
    <3>1. \E l \in {"succeeded", "failed"} : cre'[c] = EndedCreation(c, l)
      BY <2>2 DEF RecordCluster, RecordFailed, MarkClusterFailed, EndFailed, TypeOK
    <3>2. cre'[c].pc \in {"succeeded", "failed"}
      BY <3>1, EndedFields
    <3> QED
      BY <1>2, <3>2 DEF Building
  <2> QED
    BY <1>7, <2>1, <2>2
<1>8. CASE Rollback(c) \/ RollbackFails(c)
  <2>1. \E l \in {"recordFailed", "markFailed"} : Goto(c, l)
    BY <1>8 DEF Rollback, RollbackFails
  <2>2. cre'[c].pc \in {"recordFailed", "markFailed"}
    BY <1>1, <2>1 DEF Goto, TypeOK, StartedCreation
  <2> QED
    BY <1>2, <2>2 DEF Building
<1>9. CASE NameTaken(c) \/ StepFails(c)
  BY <1>3, <1>9 DEF NameTaken, StepFails, Raise
<1> QED
  BY <1>3, <1>4, <1>5, <1>6, <1>7, <1>8, <1>9, StorageStage, PcsStage, JoinedStage
     DEF CreationStep, CreationFault

LEMMA CreationWhole ==
    ASSUME OneProject, Orderly, TypeOK, OwnerInv, WholeInv,
           NEW c \in Creations, CreationStep(c) \/ CreationFault(c)
    PROVE  WholeInv'
<1> DEFINE q == cre[c].proj
<1> USE DEF table, flows, cloud, queues
<1>1. /\ q \in Projects /\ cre[c].pc \in CreationRunning
      /\ \A x \in Creations \ {c} : cre'[x] = cre[x]
  BY CreationFrame
<1>2. /\ c \notin orphans /\ Stage(c)
      /\ \A x \in orphans : x \in Creations \ {c}
  BY <1>1 DEF WholeInv, Orphaned, TypeOK
<1>3. orphans' = orphans
  BY DEF CreationStep, CreationFault, RegisterName, NameTaken, CreateIamResources, CreateFsx,
     CheckFsx, CreateDra, AttachS3Policy, CreatePcs, CheckPcs, ConfigureLogs,
     CreateLaunchTemplates, Join, CreateLoginGroup, CreateComputeGroup, AddGroup,
     CheckNodeGroups, PollAgain, CreateQueue, RecordCluster, Rollback, RecordFailed,
     MarkClusterFailed, StepFails, RollbackFails, TimeOut, Raise
<1>4. Orphaned'
  BY <1>1, <1>2, <1>3 DEF WholeInv, Orphaned
<1>5. Stage(c)'
  BY <1>2, CreationStage DEF Orderly
<1>6. ASSUME NEW x \in Creations \ {c} PROVE Stage(x)'
  <2>1. cre[x].pc \notin CreationRunning
    <3>1. SUFFICES ASSUME cre[x].pc \in CreationRunning PROVE FALSE
      OBVIOUS
    <3>2. cre[x].proj \in Projects
      BY <3>1, StartedCreationType DEF CreationRunning, Building, Unwinding, StartedCreation
    <3>3. Tied(x, q) /\ Tied(c, q)
      BY <1>1, <3>1, <3>2 DEF Tied, OneProject
    <3> QED
      BY <1>1, <3>3 DEF OwnerInv, Owned
  <2> QED
    BY <1>1, <2>1 DEF Stage, Registered, CreationRunning, Building, Joined
<1>7. ASSUME NEW p \in Projects, rec'[p].status = "ACTIVE" PROVE Whole(p)'
  <2>1. p = q /\ rec[q].status = "CREATING"
    <3>1. RunsCreation(c, q)
      BY <1>1 DEF RunsCreation
    <3> QED
      BY <1>1, <3>1 DEF OneProject, OwnerInv, Owned
  <2>2. RecordCluster(c)
    BY <1>7, <2>1, CreationName
  <2>3. /\ rec'[q] = [status |-> "ACTIVE", pcs |-> cre[c].pcs, fsx |-> cre[c].fsx,
                      mode |-> cre[c].mode]
        /\ UNCHANGED <<registry, pcs, subs, fsx, setup, logs, orphans>>
    BY <1>1, <2>2 DEF RecordCluster, TypeOK
  <2>4. /\ registry = q /\ {"role", "profile", "templates"} \subseteq setup[q]
        /\ Stored(cre[c].mode, cre[c].fsx, q) /\ Serving(cre[c].pcs)
        /\ \A s \in SubResources : subs[cre[c].pcs][s] = "up"
    BY <1>2, <2>2 DEF RecordCluster, At, Stage, Registered, Building, Joined, SubResources
  <2> QED
    BY <2>1, <2>3, <2>4 DEF Whole, Usable, Stored, Serving
<1> QED
  BY <1>4, <1>5, <1>6, <1>7 DEF WholeInv

\* A call that lands late creates what nobody has: PCS gives the name out
\* once, and the filesystem of a creation is made once.
LEMMA LateWhole ==
    ASSUME TypeOK, ResourceInv, WholeInv, NEW c \in Creations, NEW b \in Branches, LateCall(c, b)
    PROVE  WholeInv'
<1> USE DEF table, queues
<1>1. /\ \A x \in Creations \ {c} : cre'[x] = cre[x]
      /\ \A x \in Creations : cre'[x].pc = cre[x].pc
      /\ UNCHANGED <<rec, registry, subs, logs, orphans>>
  BY LateCallFrame DEF LateCall, TypeOK
<1>2. cre[c].pc \notin Building
  BY DEF LateCall, ResourceInv, Made
<1>3. \A p \in Projects : setup[p] \subseteq setup'[p]
  <2>1. setup' = setup \/ \E S : /\ setup' = [setup EXCEPT ![cre[c].proj] = S]
                                 /\ setup[cre[c].proj] \subseteq S
    BY DEF LateCall
  <2> QED
    BY <2>1 DEF TypeOK
<1>4. \A x \in Creations : pcs[x] = "active" => pcs'[x] = "active"
  BY DEF LateCall, MakePcs, Named, TypeOK
<1>5. \A x \in Creations : fsx[x] = "available" => fsx'[x] = "available"
  <2>1. CASE UNCHANGED fsx
    BY <2>1
  <2>2. CASE b = "sto" /\ fsx' = [fsx EXCEPT ![c] = "creating"]
    <3>1. fsx[c] = "none"
      BY <2>2 DEF LateCall, ResourceInv, Made, Past
    <3> QED
      BY <2>2, <3>1 DEF TypeOK
  <2> QED
    BY <2>1, <2>2 DEF LateCall
<1>6. Keeps
  BY <1>1, <1>3, <1>4, <1>5 DEF Keeps
<1>7. Orphaned'
  BY <1>1 DEF WholeInv, Orphaned, TypeOK
<1> QED
  BY <1>1, <1>2, <1>6, <1>7, KeepsInv

LEMMA ApiWhole ==
    ASSUME TypeOK, WholeInv, ApiStep
    PROVE  WholeInv'
<1>k. PICK k \in Clients :
        \/ \E p \in Projects, m \in Modes :
              CreateCluster(k, p, m) \/ RecreateCluster(k, p, m)
        \/ \E p \in Projects : DeleteCluster(k, p) \/ ForceFailCluster(k, p)
        \/ PutCreating(k) \/ SetDestroying(k) \/ RefuseDelete(k)
        \/ SetForceFailed(k) \/ StartFails(k)
        \/ \E c \in Creations : StartCreation(k, c)
        \/ \E d \in Destructions : StartDestruction(k, d)
  BY DEF ApiStep
<1> USE DEF table, flows, cloud, queues
<1>1. UNCHANGED <<registry, pcs, subs, fsx, setup, logs, orphans>>
  BY <1>k DEF CreateCluster, RecreateCluster, DeleteCluster, ForceFailCluster, PutCreating,
     SetDestroying, RefuseDelete, SetForceFailed, StartFails, StartCreation, StartDestruction
<1>2. Keeps
  BY <1>1 DEF Keeps
<1>3. \A p \in Projects : rec'[p].status = "ACTIVE" => rec'[p] = rec[p]
  <2>1. CASE PutCreating(k) \/ SetDestroying(k) \/ SetForceFailed(k)
    <3>1. /\ req[k].proj \in Projects
          /\ \A p \in Projects \ {req[k].proj} : rec'[p] = rec[p]
      BY <2>1, OpenRequestType DEF PutCreating, SetDestroying, SetForceFailed, SetStatus,
         OpenRequest, TypeOK
    <3>2. rec'[req[k].proj].status \in {"CREATING", "DESTROYING", "FAILED"}
      BY <2>1, <3>1 DEF PutCreating, SetDestroying, SetForceFailed, SetStatus, TypeOK, Record
    <3> QED
      BY <3>1, <3>2
  <2>2. CASE ~(PutCreating(k) \/ SetDestroying(k) \/ SetForceFailed(k))
    BY <1>k, <2>2 DEF CreateCluster, RecreateCluster, DeleteCluster, ForceFailCluster,
       RefuseDelete, StartFails, StartCreation, StartDestruction
  <2> QED
    BY <2>1, <2>2
<1>4. CASE UNCHANGED cre
  BY <1>1, <1>2, <1>3, <1>4, KeepsInv DEF WholeInv, Orphaned
<1>5. ASSUME NEW c \in Creations, StartCreation(k, c) PROVE WholeInv'
  <2>1. /\ cre[c].pc = "unused"
        /\ \A x \in Creations \ {c} : cre'[x] = cre[x]
        /\ cre'[c] = CreationOf(req[k].proj, req[k].mode, "register")
    BY <1>5 DEF StartCreation, TypeOK
  <2>2. cre'[c].pc = "register" /\ Fresh(c)'
    BY <2>1 DEF CreationOf, Fresh
  <2>3. Orphaned'
    BY <1>1, <2>1 DEF WholeInv, Orphaned, TypeOK
  <2> QED
    BY <1>2, <1>3, <2>1, <2>2, <2>3, KeepsInv
<1> QED
  BY <1>k, <1>4, <1>5 DEF CreateCluster, RecreateCluster, DeleteCluster, ForceFailCluster,
     PutCreating, SetDestroying, RefuseDelete, SetForceFailed, StartFails, StartDestruction

\* While a destruction runs, nothing is active and nothing is being built.
LEMMA DestructionWhole ==
    ASSUME OneProject, TypeOK, OwnerInv, WholeInv, NEW d \in Destructions,
           DestructionStep(d) \/ DStepFails(d) \/ DTimeOut(d)
    PROVE  WholeInv'
<1> DEFINE q == des[d].proj
<1> USE DEF table, flows, cloud, queues
<1>1. /\ q \in Projects /\ RunsDestruction(d, q) /\ UNCHANGED cre
      /\ rec'[q].status \in {rec[q].status, "DESTROYING", "DESTROYED", "DESTRUCTION_FAILED"}
  BY DestructionFrame DEF RunsDestruction
<1>2. rec[q].status = "DESTROYING"
  BY <1>1 DEF OwnerInv, Owned
<1>3. \A c \in Creations : cre'[c].pc \notin Building
  BY <1>1, <1>2, BuildingStatus DEF CreationRunning
<1>4. \A p \in Projects : rec'[p].status # "ACTIVE"
  BY <1>1, <1>2 DEF OneProject
<1>5. UNCHANGED orphans
  BY DEF DestructionStep, DStepFails, DTimeOut, DRaise, CreateFsxExportTask, CheckFsxExport,
     DPollAgain, DeletePcsResources, CheckPcsDeletion, DeletePcsCluster, DeleteStorage, CleanUp,
     DeregisterName, RecordDestroyed, RecordDestructionFailed
<1> QED
  BY <1>1, <1>3, <1>4, <1>5, NothingWhole DEF WholeInv, Orphaned

LEMMA PlatformWhole ==
    ASSUME OneProject, TypeOK, OwnerInv, ResourceInv, WholeInv, PlatformNext
    PROVE  WholeInv'
<1> USE DEF table, flows, cloud, queues
<1>c. PICK c \in Creations : \/ EventStep(c) \/ EventFails(c)
                             \/ ClassifyFsx(c) \/ DeleteOrphan(c) \/ Service(c)
  BY DEF PlatformNext
<1>1. UNCHANGED <<registry, cre, setup, logs>>
  BY <1>c DEF EventStep, ReadForEvent, FailFromEvent, EventFails, ClassifyFsx, DeleteOrphan,
     Service, FsxReady, PcsReady, PcsGone, SubGone
<1>2. \A p \in Projects : rec'[p].status = "ACTIVE" => rec'[p] = rec[p]
  <2>1. CASE FailFromEvent(c)
    <3>1. cre[c].proj \in Projects
      BY <2>1, StartedCreationType DEF FailFromEvent, TypeOK, StartedCreation
    <3> QED
      BY <2>1, <3>1 DEF FailFromEvent, SetStatus, TypeOK, Record
  <2>2. CASE ~FailFromEvent(c)
    BY <1>c, <2>2 DEF EventStep, ReadForEvent, EventFails, ClassifyFsx, DeleteOrphan,
       Service, FsxReady, PcsReady, PcsGone, SubGone
  <2> QED
    BY <2>1, <2>2
\* A filesystem is classified only while its project's record is terminal.
<1>3. CASE ClassifyFsx(c)
  <2>1. cre[c].pc # "unused"
    BY <1>3 DEF ClassifyFsx, ResourceInv, Made, Past
  <2>2. /\ cre[c].proj \in Projects
        /\ rec[cre[c].proj].status \notin {"CREATING", "ACTIVE"}
    BY <1>3, <2>1, StartedCreationType DEF ClassifyFsx, TerminalStatuses, StartedCreation
  <2>3. \A x \in Creations : cre[x].pc \notin CreationRunning
    BY <2>2, BuildingStatus
  <2>4. Orphaned'
    BY <1>1, <1>3, <2>1, <2>3 DEF ClassifyFsx, WholeInv, Orphaned, TypeOK
  <2>5. \A p \in Projects : rec'[p].status # "ACTIVE"
    BY <1>3, <2>2 DEF ClassifyFsx, OneProject
  <2> QED
    BY <1>1, <2>3, <2>4, <2>5, NothingWhole DEF CreationRunning
<1>4. CASE ~ClassifyFsx(c)
  <2>1. orphans' \subseteq orphans
    BY <1>c, <1>4 DEF EventStep, ReadForEvent, FailFromEvent, EventFails, DeleteOrphan,
       Service, FsxReady, PcsReady, PcsGone, SubGone
  <2>2. Orphaned'
    BY <1>1, <2>1 DEF WholeInv, Orphaned
  <2>3. \A x \in Creations : pcs[x] = "active" => pcs'[x] = "active"
    BY <1>c, <1>4 DEF EventStep, ReadForEvent, FailFromEvent, EventFails, DeleteOrphan,
       Service, FsxReady, PcsReady, PcsGone, SubGone, TypeOK
  <2>4. \A x \in Creations, s \in SubResources : subs[x][s] = "up" => subs'[x][s] = "up"
    <3>1. CASE UNCHANGED subs
      BY <3>1
    <3>2. ASSUME NEW s \in SubResources, SubGone(c, s)
          PROVE  \A x \in Creations, t \in SubResources : subs[x][t] = "up" => subs'[x][t] = "up"
      BY <3>2 DEF SubGone, TypeOK
    <3> QED
      BY <1>c, <1>4, <3>1, <3>2 DEF EventStep, ReadForEvent, FailFromEvent, EventFails,
         DeleteOrphan, Service, FsxReady, PcsReady, PcsGone
  <2>5. \A x \in Creations : fsx[x] = "available" /\ x \notin orphans => fsx'[x] = "available"
    BY <1>c, <1>4 DEF EventStep, ReadForEvent, FailFromEvent, EventFails, DeleteOrphan,
       Service, FsxReady, PcsReady, PcsGone, SubGone, TypeOK
  <2>6. Keeps
    BY <1>1, <2>1, <2>3, <2>4, <2>5 DEF Keeps
  <2> QED
    BY <1>1, <1>2, <2>2, <2>6, KeepsInv
<1> QED
  BY <1>3, <1>4

LEMMA NextWhole ==
    ASSUME OneProject, Orderly, TypeOK, OwnerInv, ResourceInv, WholeInv, [Next]_vars
    PROVE  WholeInv'
<1>1. CASE UNCHANGED vars
  <2>1. UNCHANGED <<rec, registry, cre, orphans, pcs, subs, fsx, setup, logs>>
    BY <1>1 DEF vars
  <2> QED
    BY <2>1, KeepsInv DEF Keeps, WholeInv, Orphaned
<1> QED
  BY <1>1, CreationWhole, LateWhole, ApiWhole, DestructionWhole, PlatformWhole
     DEF Next, CreationNext, DestructionNext

(* Under the documented use, and when one project uses the name, a record   *)
(* that says ACTIVE tells the truth: PCS cluster, node groups and queue,    *)
(* filesystem or S3 policy, IAM objects, launch templates, the registered   *)
(* name and the log delivery are all there, though record_cluster checks    *)
(* none of them again, late create calls land, rollbacks leave PCS clusters *)
(* to be adopted and the FSx cleanup deletes filesystems.                   *)
THEOREM ActiveStaysUsable ==
    ASSUME Orderly, OneProject
    PROVE  Spec => []ActiveIsUsable
<1> DEFINE Inv == TypeOK /\ OwnerInv /\ ResourceInv /\ WholeInv
<1>1. Init => Inv
  BY InitType, InitOwner, InitResource, InitWhole
<1>2. Inv /\ [Next]_vars => Inv'
  BY NextType, NextOwner, NextResource, NextWhole
<1>3. Inv => ActiveIsUsable
  BY DEF WholeInv, Whole, ActiveIsUsable
<1> QED
  BY <1>1, <1>2, <1>3, PTL DEF Spec
=============================================================================
