-------------------------- MODULE ClusterOwnerProofs --------------------------
(***************************************************************************)
(* Who works on a cluster: proofs, for any number of projects, requests and *)
(* executions, that at most one workflow runs for a project's cluster, and  *)
(* that its status follows the documented life cycle, under the documented  *)
(* use of the API.                                                          *)
(***************************************************************************)
EXTENDS ClusterLifecycleProofs, FiniteSetTheorems

\* Users keep to the documentation, and no Lambda runs twice for one call.
Orderly == Documented /\ "retry" \notin Faults

\* What can still write the record of p: a creation, by itself or by its
\* failure event, and the requests that have changed the record.
Tied(c, p) ==
    cre[c].proj = p /\ (cre[c].pc \in CreationRunning \/ c \in events \cup judged)
Untied(p) == \A c \in Creations : ~Tied(c, p)
Deleting(k, p) == req[k].op = "delete" /\ req[k].stage = "written" /\ req[k].proj = p

\* A request other than a delete is alone.
Alone(k) ==
    req[k].op \notin {"none", "delete"} => \A j \in Clients \ {k} : req[j].op = "none"

\* What a request has read is still so when it writes, and what it has
\* written when it starts its execution.
Creates(k) == req[k].op \in {"create", "recreate"}
Justified(k) ==
    LET r == req[k]  status == rec[r.proj].status IN
    /\ r.op = "create" /\ r.stage = "checked" => status = "ABSENT"
    /\ r.op = "recreate" /\ r.stage = "checked" => status = "DESTROYED" /\ Untied(r.proj)
    /\ Creates(k) /\ r.stage = "written" => status = "CREATING" /\ Untied(r.proj)
    /\ r.op = "fail" => r.stage = "checked" /\ status = "CREATING" /\ Untied(r.proj)
    /\ Deleting(k, r.proj) =>
          /\ status = "DESTROYING"
          /\ \A j \in Clients : Deleting(j, r.proj) => j = k
          /\ \A d \in Destructions : ~RunsDestruction(d, r.proj)

\* The status says who works on the record, and it is one.
Owned(p) ==
    /\ rec[p].status = "ABSENT" => \A c \in Creations : cre[c].proj # p
    /\ \A c \in Creations : RunsCreation(c, p) => rec[p].status = "CREATING"
    /\ \A c \in judged : cre[c].proj = p => rec[p].status = "CREATING"
    /\ \A c, x \in Creations : Tied(c, p) /\ Tied(x, p) => c = x
    /\ \A d \in Destructions : RunsDestruction(d, p) => rec[p].status = "DESTROYING"
    /\ \A d, e \in Destructions : RunsDestruction(d, p) /\ RunsDestruction(e, p) => d = e

OwnerInv ==
    /\ \A k \in Clients : Alone(k) /\ Justified(k)
    /\ \A p \in Projects : Owned(p)

LEMMA InitOwner == Init => OwnerInv
<1> SUFFICES ASSUME Init PROVE OwnerInv
  OBVIOUS
<1>1. \A k \in Clients : req[k].op = "none"
  BY DEF Init, NoRequest
<1>2. \A c \in Creations : cre[c].pc = "unused" /\ cre[c].proj = None
  BY DEF Init, UnusedCreation, CreationOf
<1>3. \A d \in Destructions : des[d].pc = "unused"
  BY DEF Init, UnusedDestruction
<1>4. None \notin Projects
  BY ConstantsAssumption
<1>5. events = {} /\ judged = {}
  BY DEF Init
<1>6. \A k \in Clients : Alone(k) /\ Justified(k)
  BY <1>1 DEF Alone, Justified, Creates, Deleting
<1>7. \A c \in Creations : cre[c].pc \notin CreationRunning
  BY <1>2 DEF CreationRunning, Building, Unwinding
<1>8. \A d \in Destructions : des[d].pc \notin DestructionRunning
  BY <1>3 DEF DestructionRunning
<1>9. \A p \in Projects : Owned(p)
  BY <1>2, <1>4, <1>5, <1>7, <1>8 DEF Owned, RunsCreation, RunsDestruction, Tied
<1> QED
  BY <1>6, <1>9 DEF OwnerInv

-----------------------------------------------------------------------------
(* Requests.                                                                *)

\* While something is tied to p, or a destruction runs, no request to create,
\* to recreate or to mark it as failed is on its way.
LEMMA BusyRequests ==
    ASSUME TypeOK, OwnerInv, NEW k \in Clients, req[k].op \notin {"none", "delete"}
    PROVE  /\ req[k] \in OpenRequest
           /\ \A c \in Creations : ~RunsCreation(c, req[k].proj)
           /\ \A d \in Destructions : ~RunsDestruction(d, req[k].proj)
           /\ \A j \in Clients : ~Deleting(j, req[k].proj)
           /\ Untied(req[k].proj)
<1>1. req[k] \in OpenRequest
  BY DEF TypeOK, Request, NoRequest
<1>2. Justified(k) /\ Alone(k) /\ Owned(req[k].proj)
  BY <1>1 DEF OwnerInv, OpenRequest
<1>3. rec[req[k].proj].status \in {"ABSENT", "DESTROYED", "CREATING"} /\ Untied(req[k].proj)
  <2>1. CASE req[k].op = "create" /\ req[k].stage = "checked"
    BY <1>2, <2>1 DEF Justified, Owned, Untied, Tied
  <2>2. CASE ~(req[k].op = "create" /\ req[k].stage = "checked")
    BY <1>1, <1>2, <2>2 DEF Justified, OpenRequest, Creates
  <2> QED
    BY <2>1, <2>2
<1>4. \A j \in Clients : ~Deleting(j, req[k].proj)
  BY <1>2 DEF Alone, Deleting
<1> QED
  BY <1>1, <1>2, <1>3, <1>4 DEF Owned, Untied, Tied, RunsCreation

\* A request that begins keeps the invariant when it is justified.
LEMMA BeginOwner ==
    ASSUME TypeOK, OwnerInv, NEW k \in Clients, NEW p \in Projects, NEW m \in StorageModes,
           NEW op \in {"create", "recreate", "delete", "fail"},
           Idle(k), Check(k, op, p, m),
           \A j \in Clients : req[j].op \in {"none"} \cup (IF op = "delete" THEN {op} ELSE {}),
           op = "create" => rec[p].status = "ABSENT",
           op = "recreate" => rec[p].status = "DESTROYED" /\ Untied(p),
           op = "fail" => rec[p].status = "CREATING" /\ Untied(p),
           UNCHANGED <<rec, cre, des, events, judged>>
    PROVE  OwnerInv'
<1>1. /\ \A j \in Clients \ {k} : req'[j] = req[j]
      /\ req'[k].op = op /\ req'[k].stage = "checked" /\ req'[k].proj = p
  BY DEF Check, TypeOK
<1>2. \A x \in Projects : Owned(x)' /\ (Untied(x) => Untied(x)')
  BY DEF OwnerInv, Owned, Tied, Untied, RunsCreation, RunsDestruction
<1>3. \A j \in Clients : Alone(j)'
  BY <1>1 DEF Alone
<1>4. Justified(k)'
  BY <1>1, <1>2 DEF Justified, Creates, Deleting
<1>5. ASSUME NEW j \in Clients \ {k} PROVE Justified(j)'
  <2>1. CASE req[j].op = "none"
    BY <1>1, <2>1 DEF Justified, Creates, Deleting
  <2>2. CASE req[j].op = "delete"
    BY <1>1, <2>2 DEF OwnerInv, Justified, Creates, Deleting, RunsDestruction
  <2> QED
    BY <2>1, <2>2
<1> QED
  BY <1>2, <1>3, <1>4, <1>5 DEF OwnerInv

\* A request that ends, having done nothing.
LEMMA EndOwner ==
    ASSUME TypeOK, OwnerInv, NEW k \in Clients, Finish(k),
           UNCHANGED <<rec, cre, des, events, judged>>
    PROVE  OwnerInv'
<1>1. /\ \A j \in Clients \ {k} : req'[j] = req[j]
      /\ req'[k].op = "none"
  BY DEF Finish, TypeOK, NoRequest
<1>2. \A x \in Projects : Owned(x)'
  BY DEF OwnerInv, Owned, Tied, RunsCreation, RunsDestruction
<1>3. \A j \in Clients : Alone(j)'
  BY <1>1 DEF Alone, OwnerInv
<1>4. Justified(k)'
  BY <1>1 DEF Justified, Creates, Deleting
<1>5. ASSUME NEW j \in Clients \ {k} PROVE Justified(j)'
  BY <1>1 DEF OwnerInv, Justified, Creates, Deleting, RunsDestruction, Untied, Tied
<1> QED
  BY <1>2, <1>3, <1>4, <1>5 DEF OwnerInv

LEMMA PutOwner ==
    ASSUME TypeOK, OwnerInv, NEW k \in Clients, PutCreating(k)
    PROVE  OwnerInv'
<1> DEFINE q == req[k].proj
<1>1. req[k].op \in {"create", "recreate"} /\ req[k].stage = "checked"
  BY DEF PutCreating
<1>2. /\ req[k] \in OpenRequest /\ q \in Projects
      /\ \A c \in Creations : ~RunsCreation(c, q)
      /\ \A d \in Destructions : ~RunsDestruction(d, q)
      /\ Untied(q)
  BY <1>1, BusyRequests DEF OpenRequest
<1>3. /\ \A p \in Projects \ {q} : rec'[p] = rec[p]
      /\ rec'[q].status = "CREATING"
      /\ \A j \in Clients \ {k} : req'[j] = req[j]
      /\ req'[k].op = req[k].op /\ req'[k].stage = "written" /\ req'[k].proj = q
      /\ UNCHANGED <<cre, des, events, judged>>
  BY <1>2 DEF PutCreating, TypeOK, flows, queues, OpenRequest
<1>4. \A j \in Clients \ {k} : req[j].op = "none"
  BY <1>1 DEF OwnerInv, Alone
<1>5. \A j \in Clients : Alone(j)'
  BY <1>3, <1>4 DEF Alone
<1>6. \A j \in Clients : Justified(j)'
  BY <1>1, <1>2, <1>3, <1>4 DEF Justified, Creates, Deleting, Untied, Tied
<1>7. ASSUME NEW p \in Projects PROVE Owned(p)'
  <2>1. Owned(p)
    BY DEF OwnerInv
  <2>2. CASE p = q
    BY <1>2, <1>3, <2>2 DEF Owned, Untied, Tied, RunsCreation, RunsDestruction
  <2>3. CASE p # q
    BY <1>3, <2>1, <2>3 DEF Owned, Tied, RunsCreation, RunsDestruction
  <2> QED
    BY <2>2, <2>3
<1> QED
  BY <1>5, <1>6, <1>7 DEF OwnerInv

\* The record is in a status no workflow works under, which is why the
\* conditional update lets one request through.
LEMMA DestroyingOwner ==
    ASSUME TypeOK, OwnerInv, NEW k \in Clients, SetDestroying(k)
    PROVE  OwnerInv'
<1> DEFINE q == req[k].proj
<1>1. req[k] \in OpenRequest
  BY OpenRequestType DEF SetDestroying
<1>2. /\ q \in Projects /\ req[k].op = "delete" /\ req[k].stage = "checked"
      /\ rec[q].status \in {"ACTIVE", "FAILED", "DESTRUCTION_FAILED"}
  BY <1>1 DEF SetDestroying, OpenRequest, Destroyable
<1>3. /\ \A p \in Projects \ {q} : rec'[p] = rec[p]
      /\ rec'[q].status = "DESTROYING"
      /\ \A j \in Clients \ {k} : req'[j] = req[j]
      /\ req'[k].op = "delete" /\ req'[k].stage = "written" /\ req'[k].proj = q
      /\ UNCHANGED <<cre, des, events, judged>>
  BY <1>1, <1>2 DEF SetDestroying, SetStatus, TypeOK, flows, queues, OpenRequest, Record
<1>4. Owned(q)
  BY <1>2 DEF OwnerInv
<1>5. /\ \A c \in Creations : ~RunsCreation(c, q)
      /\ \A c \in judged : cre[c].proj # q
      /\ \A d \in Destructions : ~RunsDestruction(d, q)
  BY <1>2, <1>4 DEF Owned
<1>6. \A j \in Clients : ~Deleting(j, q)
  <2> SUFFICES ASSUME NEW j \in Clients, Deleting(j, q) PROVE FALSE
    OBVIOUS
  <2>1. Justified(j) /\ req[j].proj = q
    BY DEF OwnerInv, Deleting
  <2>2. rec[q].status = "DESTROYING"
    BY <2>1 DEF Justified
  <2> QED
    BY <1>2, <2>2
<1>7. \A j \in Clients : Alone(j)'
  BY <1>2, <1>3 DEF OwnerInv, Alone
<1>8. Justified(k)'
  BY <1>3, <1>5, <1>6 DEF Justified, Creates, Deleting, RunsDestruction
<1>9. ASSUME NEW j \in Clients \ {k} PROVE Justified(j)'
  <2>1. req[j].op \in {"none", "delete"}
    <3>1. Alone(j)
      BY DEF OwnerInv
    <3> QED
      BY <1>2, <3>1 DEF Alone
  <2>2. CASE Deleting(j, req[j].proj)
    <3>1. req[j].proj # q
      BY <1>6, <2>2
    <3>2. req[j].proj \in Projects
      BY <2>2, OpenRequestType DEF Deleting, OpenRequest
    <3>3. Justified(j)
      BY DEF OwnerInv
    <3> QED
      BY <1>3, <2>1, <2>2, <3>1, <3>2, <3>3 DEF Justified, Creates, Deleting, RunsDestruction
  <2>3. CASE ~Deleting(j, req[j].proj)
    BY <1>3, <2>1, <2>3 DEF Justified, Creates, Deleting
  <2> QED
    BY <2>2, <2>3
<1>10. ASSUME NEW p \in Projects PROVE Owned(p)'
  <2>1. Owned(p)
    BY DEF OwnerInv
  <2>2. CASE p = q
    BY <1>3, <1>4, <1>5, <2>2 DEF Owned, Tied, RunsCreation, RunsDestruction, TypeOK
  <2>3. CASE p # q
    BY <1>3, <2>1, <2>3 DEF Owned, Tied, RunsCreation, RunsDestruction
  <2> QED
    BY <2>2, <2>3
<1> QED
  BY <1>7, <1>8, <1>9, <1>10 DEF OwnerInv

LEMMA ForceFailedOwner ==
    ASSUME TypeOK, OwnerInv, NEW k \in Clients, SetForceFailed(k)
    PROVE  OwnerInv'
<1> DEFINE q == req[k].proj
<1>1. /\ req[k] \in OpenRequest /\ q \in Projects
      /\ \A c \in Creations : ~RunsCreation(c, q)
      /\ \A d \in Destructions : ~RunsDestruction(d, q)
      /\ Untied(q)
  BY BusyRequests DEF SetForceFailed, OpenRequest
<1>2. /\ \A p \in Projects \ {q} : rec'[p] = rec[p]
      /\ rec'[q].status = "FAILED"
      /\ \A j \in Clients : req'[j].op = "none"
      /\ UNCHANGED <<cre, des, events, judged>>
  BY <1>1 DEF SetForceFailed, SetStatus, Finish, NoRequest, OwnerInv, Alone, TypeOK,
     flows, queues, Record
<1>3. \A j \in Clients : Alone(j)' /\ Justified(j)'
  BY <1>2 DEF Alone, Justified, Creates, Deleting
<1>4. ASSUME NEW p \in Projects PROVE Owned(p)'
  <2>1. Owned(p)
    BY DEF OwnerInv
  <2>2. CASE p = q
    BY <1>1, <1>2, <2>2 DEF Owned, Untied, Tied, RunsCreation, RunsDestruction, TypeOK
  <2>3. CASE p # q
    BY <1>2, <2>1, <2>3 DEF Owned, Tied, RunsCreation, RunsDestruction
  <2> QED
    BY <2>2, <2>3
<1> QED
  BY <1>3, <1>4 DEF OwnerInv

LEMMA StartCreationOwner ==
    ASSUME TypeOK, OwnerInv, NEW k \in Clients, NEW c \in Creations, StartCreation(k, c)
    PROVE  OwnerInv'
<1> DEFINE q == req[k].proj
<1>1. /\ req[k] \in OpenRequest /\ q \in Projects
      /\ \A x \in Creations : ~RunsCreation(x, q)
      /\ \A d \in Destructions : ~RunsDestruction(d, q)
      /\ Untied(q)
  BY BusyRequests DEF StartCreation, OpenRequest
<1>2. rec[q].status = "CREATING"
  BY DEF StartCreation, OwnerInv, Justified, Creates
<1>3. /\ cre[c].pc = "unused" /\ c \notin events \cup judged
      /\ \A x \in Creations \ {c} : cre'[x] = cre[x]
      /\ cre'[c].pc = "register" /\ cre'[c].proj = q
      /\ \A j \in Clients : req'[j].op = "none"
      /\ UNCHANGED <<rec, des, events, judged>>
  BY DEF StartCreation, Finish, NoRequest, OwnerInv, Alone, TypeOK, table, queues, CreationOf
<1>4. \A j \in Clients : Alone(j)' /\ Justified(j)'
  BY <1>3 DEF Alone, Justified, Creates, Deleting
<1>5. ASSUME NEW p \in Projects PROVE Owned(p)'
  <2>1. Owned(p) /\ events \cup judged \subseteq Creations
    BY DEF OwnerInv, TypeOK
  <2>2. CASE p = q
    BY <1>1, <1>2, <1>3, <2>1, <2>2 DEF Owned, Untied, Tied, RunsCreation, RunsDestruction
  <2>3. CASE p # q
    BY <1>3, <2>1, <2>3 DEF Owned, Tied, RunsCreation, RunsDestruction
  <2> QED
    BY <2>2, <2>3
<1> QED
  BY <1>4, <1>5 DEF OwnerInv

LEMMA StartDestructionOwner ==
    ASSUME TypeOK, OwnerInv, NEW k \in Clients, NEW d \in Destructions,
           StartDestruction(k, d)
    PROVE  OwnerInv'
<1> DEFINE q == req[k].proj
<1>1. req[k] \in OpenRequest /\ q \in Projects /\ Deleting(k, q)
  BY OpenRequestType DEF StartDestruction, OpenRequest, Deleting
<1>2. /\ rec[q].status = "DESTROYING"
      /\ \A j \in Clients : Deleting(j, q) => j = k
      /\ \A e \in Destructions : ~RunsDestruction(e, q)
  BY <1>1 DEF OwnerInv, Justified
<1>3. /\ \A e \in Destructions \ {d} : des'[e] = des[e]
      /\ des'[d].pc = "export" /\ des'[d].proj = q
      /\ \A j \in Clients \ {k} : req'[j] = req[j]
      /\ req'[k].op = "none"
      /\ UNCHANGED <<rec, cre, events, judged>>
  BY DEF StartDestruction, Finish, NoRequest, TypeOK, table, queues
<1>4. \A j \in Clients : Alone(j)'
  BY <1>3 DEF OwnerInv, Alone
<1>5. ASSUME NEW j \in Clients PROVE Justified(j)'
  <2>1. CASE j = k
    BY <1>3, <2>1 DEF Justified, Creates, Deleting
  <2>2. CASE j # k
    <3>1. Justified(j) /\ req'[j] = req[j] /\ (Deleting(j, req[j].proj) => req[j].proj # q)
      BY <1>2, <1>3, <2>2 DEF OwnerInv
    <3> QED
      BY <1>3, <3>1 DEF Justified, Creates, Deleting, RunsDestruction, Untied, Tied
  <2> QED
    BY <2>1, <2>2
<1>6. ASSUME NEW p \in Projects PROVE Owned(p)'
  <2>1. Owned(p)
    BY DEF OwnerInv
  <2> QED
    BY <1>2, <1>3, <2>1 DEF Owned, Tied, RunsCreation, RunsDestruction
<1> QED
  BY <1>4, <1>5, <1>6 DEF OwnerInv

LEMMA ApiOwner ==
    ASSUME TypeOK, OwnerInv, Orderly, ApiStep
    PROVE  OwnerInv'
<1>k. PICK k \in Clients :
        \/ \E p \in Projects, m \in Modes :
              CreateCluster(k, p, m) \/ RecreateCluster(k, p, m)
        \/ \E p \in Projects : DeleteCluster(k, p) \/ ForceFailCluster(k, p)
        \/ PutCreating(k) \/ SetDestroying(k) \/ RefuseDelete(k)
        \/ SetForceFailed(k) \/ StartFails(k)
        \/ \E c \in Creations : StartCreation(k, c)
        \/ \E d \in Destructions : StartDestruction(k, d)
  BY DEF ApiStep
<1> USE DEF table, flows, queues
<1>1. ASSUME NEW p \in Projects, ~CreationPending(p) PROVE Untied(p)
  BY <1>1 DEF CreationPending, Untied, Tied, RunsCreation
<1>2. ASSUME NEW p \in Projects, NEW m \in Modes, CreateCluster(k, p, m)
      PROVE  OwnerInv'
  BY <1>2, BeginOwner, ConstantsAssumption DEF CreateCluster, MayCreate, Only, Orderly
<1>3. ASSUME NEW p \in Projects, NEW m \in Modes, RecreateCluster(k, p, m)
      PROVE  OwnerInv'
  BY <1>1, <1>3, BeginOwner, ConstantsAssumption DEF RecreateCluster, MayRecreate, Only,
     Orderly
<1>4. ASSUME NEW p \in Projects, DeleteCluster(k, p)
      PROVE  OwnerInv'
  <2>1. rec[p].mode \in StorageModes
    BY DEF TypeOK, Record
  <2> QED
    BY <1>4, <2>1, BeginOwner DEF DeleteCluster, MayDelete, Only, Orderly
<1>5. ASSUME NEW p \in Projects, ForceFailCluster(k, p)
      PROVE  OwnerInv'
  <2>1. rec[p].mode \in StorageModes
    BY DEF TypeOK, Record
  <2> QED
    BY <1>1, <1>5, <2>1, BeginOwner DEF ForceFailCluster, MayFail, Only, Orderly
<1>6. CASE RefuseDelete(k) \/ StartFails(k)
  BY <1>6, EndOwner DEF RefuseDelete, StartFails
<1> QED
  BY <1>k, <1>2, <1>3, <1>4, <1>5, <1>6, PutOwner, DestroyingOwner, ForceFailedOwner,
     StartCreationOwner, StartDestructionOwner

-----------------------------------------------------------------------------
(* Executions and events.                                                   *)

\* A change to the record of q and what works on it, with no such request on
\* its way, is seen by no request.
LEMMA RequestsKept ==
    ASSUME TypeOK, OwnerInv, NEW q \in Projects, UNCHANGED req,
           \A k \in Clients : req[k].proj = q
               => req[k].op \in {"none", "delete"} /\ ~Deleting(k, q),
           \A p \in Projects \ {q} :
               /\ rec'[p] = rec[p]
               /\ Untied(p) => Untied(p)'
               /\ \A d \in Destructions : RunsDestruction(d, p)' => RunsDestruction(d, p)
    PROVE  \A k \in Clients : Alone(k)' /\ Justified(k)'
<1> SUFFICES ASSUME NEW k \in Clients PROVE Alone(k)' /\ Justified(k)'
  OBVIOUS
<1>1. Alone(k) /\ Justified(k)
  BY DEF OwnerInv
<1>2. CASE req[k].op = "none"
  BY <1>2 DEF Alone, Justified, Creates, Deleting
<1>3. CASE req[k].op # "none"
  <2>1. req[k].proj \in Projects
    BY <1>3 DEF TypeOK, Request, OpenRequest, NoRequest
  <2>2. CASE req[k].proj = q
    BY <1>1, <2>2 DEF Alone, Justified, Creates, Deleting
  <2>3. CASE req[k].proj # q
    BY <1>1, <2>1, <2>3 DEF Alone, Justified, Creates, Deleting
  <2> QED
    BY <2>2, <2>3
<1> QED
  BY <1>2, <1>3

\* The same, seen from the record: with something at work on it, no request
\* to create, to recreate or to fail it, and no second workflow.
LEMMA TiedRequests ==
    ASSUME TypeOK, OwnerInv, NEW q \in Projects, ~Untied(q),
           rec[q].status # "DESTROYING", NEW k \in Clients, req[k].proj = q
    PROVE  req[k].op \in {"none", "delete"} /\ ~Deleting(k, q)
<1>1. req[k].op \in {"none", "delete"}
  BY BusyRequests
<1>2. ~Deleting(k, q)
  BY DEF OwnerInv, Justified
<1> QED
  BY <1>1, <1>2

LEMMA CreationOwner ==
    ASSUME TypeOK, OwnerInv, Orderly, NEW c \in Creations,
           CreationStep(c) \/ CreationFault(c)
    PROVE  OwnerInv'
<1> DEFINE q == cre[c].proj
<1>1. /\ cre[c].pc \in CreationRunning /\ q \in Projects
      /\ \A x \in Creations \ {c} : cre'[x] = cre[x]
      /\ cre'[c].proj = q
      /\ \/ /\ cre'[c].pc \in CreationRunning /\ events' = events
            /\ rec'[q].status \in {rec[q].status, "CREATING"}
         \/ /\ cre'[c].pc = "succeeded" /\ events' = events
            /\ rec'[q].status = "ACTIVE"
         \/ /\ cre'[c].pc = "failed" /\ events' = events \cup {c}
            /\ rec'[q].status \in {rec[q].status, "FAILED"}
      /\ \A p \in Projects \ {q} : rec'[p] = rec[p]
      /\ UNCHANGED <<judged, req, des>>
  BY CreationFrame DEF Orderly
<1>2. c \notin events \cup judged
  BY <1>1 DEF TypeOK, CreationRunning, Building, Unwinding
<1>3. Owned(q) /\ Tied(c, q) /\ RunsCreation(c, q) /\ rec[q].status = "CREATING"
  BY <1>1 DEF OwnerInv, Owned, Tied, RunsCreation
<1>4. \A x \in Creations : Tied(x, q) => x = c
  BY <1>3 DEF Owned
<1>5. \A p \in Projects \ {q} : \A x \in Creations : Tied(x, p)' <=> Tied(x, p)
  BY <1>1, <1>2 DEF Tied
<1>6. \A p \in Projects \ {q} :
        /\ Untied(p) => Untied(p)'
        /\ \A d \in Destructions : RunsDestruction(d, p)' => RunsDestruction(d, p)
  BY <1>1, <1>5 DEF Untied, RunsDestruction
<1>7. \A k \in Clients : req[k].proj = q => req[k].op \in {"none", "delete"} /\ ~Deleting(k, q)
  BY <1>1, <1>3, TiedRequests DEF Untied
<1>8. \A k \in Clients : Alone(k)' /\ Justified(k)'
  BY <1>1, <1>6, <1>7, RequestsKept
<1>9. ASSUME NEW p \in Projects PROVE Owned(p)'
  <2>1. Owned(p)
    BY DEF OwnerInv
  <2>2. CASE p = q
    <3>1. \A d \in Destructions : ~RunsDestruction(d, q)
      BY <1>3 DEF Owned
    <3>2. \A x \in judged : cre[x].proj # q
      BY <1>1, <1>2, <1>4 DEF Tied, TypeOK
    <3>3. \A x \in Creations : Tied(x, q)' => x = c
      BY <1>1, <1>4 DEF Tied
    <3>4. rec'[q].status # "ABSENT"
      BY <1>1, <1>3
    <3>5. \A x \in Creations : RunsCreation(x, q)' => rec'[q].status = "CREATING"
      <4>1. \A x \in Creations : RunsCreation(x, q)' => x = c /\ Tied(x, q)'
        BY <3>3 DEF RunsCreation, Tied
      <4> QED
        BY <1>1, <1>3, <4>1 DEF RunsCreation, CreationRunning, Building, Unwinding
    <3>6. \A x \in judged' : cre'[x].proj # q
      BY <1>1, <1>2, <3>2 DEF TypeOK
    <3> QED
      BY <1>1, <2>2, <3>1, <3>3, <3>4, <3>5, <3>6 DEF Owned, RunsDestruction
  <2>3. CASE p # q
    <3>1. rec'[p] = rec[p] /\ \A x \in Creations : cre'[x].proj = p <=> cre[x].proj = p
      BY <1>1, <2>3
    <3>2. \A x \in Creations : RunsCreation(x, p)' <=> RunsCreation(x, p)
      BY <1>1, <2>3 DEF RunsCreation
    <3>3. \A x \in judged : x \in Creations
      BY DEF TypeOK
    <3> QED
      BY <1>1, <1>5, <2>1, <2>3, <3>1, <3>2, <3>3 DEF Owned, RunsDestruction
  <2> QED
    BY <2>2, <2>3
<1> QED
  BY <1>8, <1>9 DEF OwnerInv

\* Steps that move no execution and change no record.
LEMMA StillOwner ==
    ASSUME TypeOK, OwnerInv,
           \A x \in Creations : cre'[x].pc = cre[x].pc /\ cre'[x].proj = cre[x].proj,
           events' \subseteq events, judged' \subseteq judged,
           UNCHANGED <<rec, req, des>>
    PROVE  OwnerInv'
<1>1. \A p : \A x \in Creations : Tied(x, p)' => Tied(x, p)
  BY DEF Tied
<1>2. \A k \in Clients : Alone(k)' /\ Justified(k)'
  BY <1>1 DEF OwnerInv, Alone, Justified, Creates, Deleting, Untied, RunsDestruction
<1>3. ASSUME NEW p \in Projects PROVE Owned(p)'
  <2>1. Owned(p) /\ judged \subseteq Creations
    BY DEF OwnerInv, TypeOK
  <2> QED
    BY <1>1, <2>1 DEF Owned, RunsCreation, RunsDestruction
<1> QED
  BY <1>2, <1>3 DEF OwnerInv

LEMMA DestructionOwner ==
    ASSUME TypeOK, OwnerInv, NEW d \in Destructions,
           DestructionStep(d) \/ DStepFails(d) \/ DTimeOut(d)
    PROVE  OwnerInv'
<1> DEFINE q == des[d].proj
<1>1. /\ des[d].pc \in DestructionRunning /\ q \in Projects
      /\ \A x \in Destructions \ {d} : des'[x] = des[x]
      /\ des'[d].proj = q
      /\ rec'[q].status \in {rec[q].status, "DESTROYING", "DESTROYED", "DESTRUCTION_FAILED"}
      /\ des'[d].pc \in DestructionRunning
            => rec'[q].status \in {rec[q].status, "DESTROYING"}
      /\ \A p \in Projects \ {q} : rec'[p] = rec[p]
      /\ UNCHANGED <<events, judged, req, cre>>
  <2>1. {"succeeded", "failed", "timedOut"} \cap DestructionRunning = {}
    BY DEF DestructionRunning
  <2> QED
    BY <2>1, DestructionFrame
<1>2. Owned(q) /\ RunsDestruction(d, q) /\ rec[q].status = "DESTROYING"
  BY <1>1 DEF OwnerInv, Owned, RunsDestruction
<1>3. \A k \in Clients : req[k].proj = q => req[k].op \in {"none", "delete"} /\ ~Deleting(k, q)
  <2> SUFFICES ASSUME NEW k \in Clients, req[k].proj = q
               PROVE  req[k].op \in {"none", "delete"} /\ ~Deleting(k, q)
    OBVIOUS
  <2>1. req[k].op \in {"none", "delete"}
    BY <1>2, BusyRequests
  <2>2. ~Deleting(k, q)
    BY <1>2 DEF OwnerInv, Justified
  <2> QED
    BY <2>1, <2>2
<1>4. \A p \in Projects \ {q} : \A x \in Destructions : RunsDestruction(x, p)' <=> RunsDestruction(x, p)
  BY <1>1 DEF RunsDestruction
<1>5. \A k \in Clients : Alone(k)' /\ Justified(k)'
  <2>1. \A p \in Projects : Untied(p) => Untied(p)'
    BY <1>1 DEF Untied, Tied
  <2> QED
    BY <1>1, <1>3, <1>4, <2>1, RequestsKept
<1>6. ASSUME NEW p \in Projects PROVE Owned(p)'
  <2>1. Owned(p)
    BY DEF OwnerInv
  <2>2. CASE p = q
    <3>1. /\ \A x \in Creations : ~RunsCreation(x, q)
          /\ \A x \in judged : cre[x].proj # q
      BY <1>2 DEF Owned
    <3>2. \A x \in Destructions : RunsDestruction(x, q)' => x = d
      BY <1>1, <1>2 DEF Owned, RunsDestruction
    <3>3. \A x \in Destructions : RunsDestruction(x, q)' => rec'[q].status = "DESTROYING"
      BY <1>1, <1>2, <3>2 DEF RunsDestruction
    <3>4. rec'[q].status # "ABSENT"
      BY <1>1, <1>2
    <3>5. \A x \in Creations : RunsCreation(x, q)' <=> RunsCreation(x, q)
      BY <1>1 DEF RunsCreation
    <3>6. \A x \in Creations : Tied(x, q)' <=> Tied(x, q)
      BY <1>1 DEF Tied
    <3> QED
      BY <1>1, <2>1, <2>2, <3>1, <3>2, <3>3, <3>4, <3>5, <3>6 DEF Owned
  <2>3. CASE p # q
    BY <1>1, <1>4, <2>1, <2>3 DEF Owned, Tied, RunsCreation
  <2> QED
    BY <2>2, <2>3
<1> QED
  BY <1>5, <1>6 DEF OwnerInv

LEMMA EventOwner ==
    ASSUME TypeOK, OwnerInv, NEW c \in Creations, EventStep(c)
    PROVE  OwnerInv'
<1> USE DEF table, flows
<1> DEFINE q == cre[c].proj
<1>1. c \in events \cup judged /\ cre[c].pc = "failed" /\ q \in Projects
  BY StartedCreationType DEF EventStep, ReadForEvent, FailFromEvent, TypeOK, StartedCreation
<1>2. CASE ReadForEvent(c)
  <2>1. \A p : \A x \in Creations : Tied(x, p)' => Tied(x, p)
    BY <1>2 DEF ReadForEvent, Tied
  <2>2. \A k \in Clients : Alone(k)' /\ Justified(k)'
    BY <1>2, <2>1 DEF ReadForEvent, OwnerInv, Alone, Justified, Creates, Deleting, Untied,
       RunsDestruction
  <2>3. ASSUME NEW p \in Projects PROVE Owned(p)'
    <3>1. Owned(p)
      BY DEF OwnerInv
    <3>2. \A x \in judged' : cre[x].proj = p => rec[p].status = "CREATING"
      BY <1>2, <3>1 DEF ReadForEvent, Owned
    <3> QED
      BY <1>2, <2>1, <3>1, <3>2 DEF ReadForEvent, Owned, RunsCreation, RunsDestruction
  <2> QED
    BY <2>2, <2>3 DEF OwnerInv
<1>3. CASE FailFromEvent(c)
  <2>1. /\ c \in judged /\ judged' = judged \ {c}
        /\ \A p \in Projects \ {q} : rec'[p] = rec[p]
        /\ rec'[q].status = "FAILED"
        /\ UNCHANGED <<req, cre, des, events>>
    BY <1>1, <1>3 DEF FailFromEvent, SetStatus, TypeOK, Record
  <2>2. Owned(q) /\ Tied(c, q) /\ rec[q].status = "CREATING"
    BY <1>1, <2>1 DEF OwnerInv, Owned, Tied
  <2>3. /\ \A x \in Creations : ~RunsCreation(x, q)
        /\ \A x \in judged' : cre[x].proj # q
        /\ \A d \in Destructions : ~RunsDestruction(d, q)
    <3>1. \A x \in Creations : Tied(x, q) => x = c
      BY <2>2 DEF Owned
    <3>2. \A x \in judged : cre[x].proj = q => x = c
      BY <3>1 DEF Tied, TypeOK
    <3>3. \A x \in Creations : RunsCreation(x, q) => x = c
      BY <3>1 DEF Tied, RunsCreation
    <3>4. "failed" \notin CreationRunning
      BY DEF CreationRunning, Building, Unwinding
    <3> QED
      BY <1>1, <2>1, <2>2, <3>2, <3>3, <3>4 DEF Owned, RunsCreation
  <2>4. \A p : \A x \in Creations : Tied(x, p)' => Tied(x, p)
    BY <2>1 DEF Tied
  <2>5. \A k \in Clients : req[k].proj = q => req[k].op \in {"none", "delete"} /\ ~Deleting(k, q)
    BY <1>1, <2>2, TiedRequests DEF Untied
  <2>6. \A k \in Clients : Alone(k)' /\ Justified(k)'
    BY <1>1, <2>1, <2>4, <2>5, RequestsKept DEF Untied, RunsDestruction
  <2>7. ASSUME NEW p \in Projects PROVE Owned(p)'
    <3>1. Owned(p)
      BY DEF OwnerInv
    <3>2. CASE p = q
      BY <2>1, <2>2, <2>3, <2>4, <3>2 DEF Owned, RunsCreation, RunsDestruction
    <3>3. CASE p # q
      BY <2>1, <2>4, <3>1, <3>3 DEF Owned, RunsCreation, RunsDestruction
    <3> QED
      BY <3>2, <3>3
  <2> QED
    BY <2>6, <2>7 DEF OwnerInv
<1> QED
  BY <1>2, <1>3 DEF EventStep

LEMMA PlatformOwner ==
    ASSUME TypeOK, OwnerInv, PlatformNext
    PROVE  OwnerInv'
<1>1. PICK c \in Creations : \/ EventStep(c) \/ EventFails(c)
                             \/ ClassifyFsx(c) \/ DeleteOrphan(c) \/ Service(c)
  BY DEF PlatformNext
<1>2. CASE EventFails(c) \/ ClassifyFsx(c) \/ DeleteOrphan(c) \/ Service(c)
  <2>1. /\ UNCHANGED <<rec, req, cre, des>>
        /\ events' \subseteq events /\ judged' \subseteq judged
    BY <1>2 DEF EventFails, ClassifyFsx, DeleteOrphan, Service, FsxReady, PcsReady, PcsGone,
       SubGone, table, flows, queues
  <2> QED
    BY <2>1, StillOwner
<1> QED
  BY <1>1, <1>2, EventOwner

LEMMA NextOwner ==
    ASSUME TypeOK, OwnerInv, Orderly, [Next]_vars
    PROVE  OwnerInv'
<1>1. CASE CreationNext
  <2>1. ASSUME NEW c \in Creations, NEW b \in Branches, LateCall(c, b) PROVE OwnerInv'
    BY <2>1, LateCallFrame, StillOwner
  <2> QED
    BY <1>1, <2>1, CreationOwner DEF CreationNext
<1>2. CASE UNCHANGED vars
  BY <1>2, StillOwner DEF vars
<1> QED
  BY <1>1, <1>2, ApiOwner, DestructionOwner, PlatformOwner DEF Next, DestructionNext

-----------------------------------------------------------------------------
LEMMA AtMostOne ==
    ASSUME NEW S, \A x, y \in S : x = y
    PROVE  Cardinality(S) <= 1
<1>1. CASE S = {}
  BY <1>1, FS_EmptySet
<1>2. CASE S # {}
  <2>1. PICK x \in S : TRUE
    BY <1>2
  <2>2. S = {x}
    BY <2>1
  <2> QED
    BY <2>2, FS_Singleton
<1> QED
  BY <1>1, <1>2

LEMMA OwnerOneWorkflow == OwnerInv => OneWorkflow
<1> SUFFICES ASSUME OwnerInv, NEW p \in Projects PROVE Cardinality(Executions(p)) <= 1
  BY DEF OneWorkflow
<1>1. Owned(p)
  BY DEF OwnerInv
<1>2. \A x, y \in Executions(p) : x = y
  BY <1>1 DEF Owned, Executions, Tied, RunsCreation
<1> QED
  BY <1>2, AtMostOne

LEMMA OwnerInvariant ==
    ASSUME Orderly
    PROVE  Spec => [](TypeOK /\ OwnerInv)
<1>1. Init => TypeOK /\ OwnerInv
  BY InitType, InitOwner
<1>2. TypeOK /\ OwnerInv /\ [Next]_vars => (TypeOK /\ OwnerInv)'
  BY NextType, NextOwner
<1> QED
  BY <1>1, <1>2, PTL DEF Spec

(* Under the documented use, at most one workflow runs for a project's      *)
(* cluster: the conditional update of the delete handler and the checks of  *)
(* the others are enough, whatever fails, for two destroy requests too.     *)
THEOREM OneClusterWorkflow ==
    ASSUME Orderly
    PROVE  Spec => []OneWorkflow
<1>1. TypeOK /\ OwnerInv => OneWorkflow
  BY OwnerOneWorkflow
<1> QED
  BY <1>1, OwnerInvariant, PTL

-----------------------------------------------------------------------------
(* The status machine: each step is a step of ClusterStatus for one project *)
(* or leaves every status and workflow as they were.                        *)

Busy(p) ==
    \/ \E c \in Creations : RunsCreation(c, p)
    \/ \E d \in Destructions : RunsDestruction(d, p)
    \/ \E k \in Clients : Begun(k, p)

LEMMA BegunRequest ==
    ASSUME TypeOK, OwnerInv, NEW p \in Projects, NEW k \in Clients, Begun(k, p)
    PROVE  \/ req[k].op # "delete" /\ rec[p].status = "CREATING"
           \/ req[k].op = "delete" /\ rec[p].status = "DESTROYING"
<1>1. req[k] \in OpenRequest /\ Justified(k)
  BY OpenRequestType DEF Begun, OwnerInv
<1> QED
  BY <1>1 DEF Begun, Justified, Creates, Deleting, OpenRequest

\* The status tells which workflow a project that has one has.
StatusTells ==
    \A p \in Projects :
        /\ Busy(p) => \/ rec[p].status = "CREATING" /\ Workflow(p) = "creation"
                      \/ rec[p].status = "DESTROYING" /\ Workflow(p) = "destruction"
        /\ ~Busy(p) => Workflow(p) = "none"

LEMMA OwnerStatusTells == TypeOK /\ OwnerInv => StatusTells
<1> SUFFICES ASSUME TypeOK, OwnerInv, NEW p \in Projects
             PROVE  /\ Busy(p) => \/ rec[p].status = "CREATING" /\ Workflow(p) = "creation"
                                  \/ rec[p].status = "DESTROYING" /\ Workflow(p) = "destruction"
                    /\ ~Busy(p) => Workflow(p) = "none"
  BY DEF StatusTells
<1>1. /\ \A c \in Creations : RunsCreation(c, p) => rec[p].status = "CREATING"
      /\ \A d \in Destructions : RunsDestruction(d, p) => rec[p].status = "DESTROYING"
  BY DEF OwnerInv, Owned
<1>2. \A k \in Clients : Begun(k, p) =>
          rec[p].status = IF req[k].op = "delete" THEN "DESTROYING" ELSE "CREATING"
  BY BegunRequest
<1> QED
  BY <1>1, <1>2 DEF Busy, Workflow

StatusVars == <<[p \in Projects |-> rec[p].status], [p \in Projects |-> Workflow(p)]>>

LEMMA StatusStep ==
    ASSUME NEW q \in Projects,
           \A p \in Projects \ {q} :
               rec'[p].status = rec[p].status /\ Workflow(p)' = Workflow(p),
           NEW from, NEW w, NEW to, NEW next,
           rec[q].status \in from, Workflow(q) = w,
           rec'[q].status = to, Workflow(q)' = next
    PROVE  Status!Step(q, from, w, to, next)
<1> DEFINE status == [p \in Projects |-> rec[p].status]
           workflow == [p \in Projects |-> Workflow(p)]
<1>1. status' = [status EXCEPT ![q] = to]
  OBVIOUS
<1>2. workflow' = [workflow EXCEPT ![q] = next]
  OBVIOUS
<1>3. status[q] \in from /\ workflow[q] = w
  OBVIOUS
<1> QED
  BY <1>1, <1>2, <1>3 DEF Status!Step

\* The moves a record and what works on it can make.
Move(q) ==
    LET old == rec[q].status  new == rec'[q].status IN
    \/ new = old /\ (Busy(q)' => Busy(q))
    \/ ~Busy(q) /\ old \in {"ABSENT", "DESTROYED"} /\ new = "CREATING" /\ Busy(q)'
    \/ ~Busy(q) /\ old \in Destroyable /\ new = "DESTROYING" /\ Busy(q)'
    \/ ~Busy(q) /\ old = "CREATING" /\ new = "FAILED"
    \/ Busy(q) /\ old = "CREATING" /\ new \in {"ACTIVE", "FAILED"}
    \/ Busy(q) /\ old = "DESTROYING" /\ new \in {"DESTROYED", "DESTRUCTION_FAILED"}

LEMMA MoveIsStep ==
    ASSUME StatusTells, StatusTells', NEW q \in Projects, Move(q),
           \A p \in Projects \ {q} : rec'[p].status = rec[p].status /\ (Busy(p)' <=> Busy(p))
    PROVE  [Status!Next]_StatusVars
<1>1. \A p \in Projects \ {q} :
        rec'[p].status = rec[p].status /\ Workflow(p)' = Workflow(p)
  BY DEF StatusTells
<1> DEFINE Goes(from, w, to, next) ==
             /\ rec[q].status \in from /\ Workflow(q) = w
             /\ rec'[q].status = to /\ Workflow(q)' = next
<1>2. \A from, w, to, next : Goes(from, w, to, next) => Status!Step(q, from, w, to, next)
  BY <1>1, StatusStep
<1>3. \/ rec'[q].status = rec[q].status /\ Workflow(q)' = Workflow(q)
      \/ Goes({"CREATING"}, "creation", "CREATING", "none")
      \/ Goes({"DESTROYING"}, "destruction", "DESTROYING", "none")
      \/ Goes({"ABSENT", "DESTROYED"}, "none", "CREATING", "creation")
      \/ Goes({"ACTIVE", "FAILED", "DESTRUCTION_FAILED"}, "none", "DESTROYING", "destruction")
      \/ Goes({"CREATING"}, "none", "FAILED", "none")
      \/ Goes({"CREATING"}, "creation", "ACTIVE", "none")
      \/ Goes({"CREATING"}, "creation", "FAILED", "none")
      \/ Goes({"DESTROYING"}, "destruction", "DESTROYED", "none")
      \/ Goes({"DESTROYING"}, "destruction", "DESTRUCTION_FAILED", "none")
  BY DEF StatusTells, Move, Destroyable
<1>4. CASE rec'[q].status = rec[q].status /\ Workflow(q)' = Workflow(q)
  BY <1>1, <1>4 DEF StatusVars
<1>5. CASE Status!Next
  BY <1>5
<1> HIDE DEF Goes
<1> QED
  BY <1>2, <1>3, <1>4, <1>5 DEF Status!Next, Status!AcceptCreate, Status!Created,
     Status!CreateFailed, Status!AcceptDestroy, Status!Destroyed, Status!DestroyFailed,
     Status!Abandoned, Status!Settled

Same(p) == rec'[p].status = rec[p].status /\ (Busy(p)' <=> Busy(p))
Follows ==
    \/ \A p \in Projects : Same(p)
    \/ \E q \in Projects : Move(q) /\ \A p \in Projects \ {q} : Same(p)

LEMMA FollowsIsStep ==
    ASSUME StatusTells, StatusTells', Follows
    PROVE  [Status!Next]_StatusVars
<1>1. CASE \A p \in Projects : Same(p)
  <2>1. \A p \in Projects : rec'[p].status = rec[p].status /\ Workflow(p)' = Workflow(p)
    BY <1>1 DEF Same, StatusTells
  <2> QED
    BY <2>1 DEF StatusVars
<1>2. ASSUME NEW q \in Projects, Move(q), \A p \in Projects \ {q} : Same(p)
      PROVE  [Status!Next]_StatusVars
  BY <1>2, MoveIsStep DEF Same
<1> QED
  BY <1>1, <1>2 DEF Follows

LEMMA IdleRequest ==
    ASSUME TypeOK, NEW k \in Clients, req[k].op = "none"
    PROVE  req[k].stage = "idle"
  BY DEF TypeOK, Request, OpenRequest, NoRequest

\* A request that has written is a workflow; before that it is nothing.
LEMMA ApiFollows ==
    ASSUME TypeOK, OwnerInv, ApiStep
    PROVE  Follows
<1>k. PICK k \in Clients :
        \/ \E p \in Projects, m \in Modes :
              CreateCluster(k, p, m) \/ RecreateCluster(k, p, m)
        \/ \E p \in Projects : DeleteCluster(k, p) \/ ForceFailCluster(k, p)
        \/ PutCreating(k) \/ SetDestroying(k) \/ RefuseDelete(k)
        \/ SetForceFailed(k) \/ StartFails(k)
        \/ \E c \in Creations : StartCreation(k, c)
        \/ \E d \in Destructions : StartDestruction(k, d)
  BY DEF ApiStep
<1> USE DEF table, flows, queues
<1> DEFINE q == req[k].proj
\* The step leaves the executions alone, and of the requests changes k's.
<1> DEFINE Alike == /\ UNCHANGED <<cre, des>>
                    /\ \A j \in Clients \ {k} : req'[j] = req[j]
<1>1. CASE \/ \E p \in Projects, m \in Modes :
                 CreateCluster(k, p, m) \/ RecreateCluster(k, p, m)
           \/ \E p \in Projects : DeleteCluster(k, p) \/ ForceFailCluster(k, p)
           \/ RefuseDelete(k)
  <2>1. /\ UNCHANGED rec /\ Alike
        /\ req[k].stage # "written" /\ req'[k].stage # "written"
    BY <1>1 DEF CreateCluster, RecreateCluster, DeleteCluster, ForceFailCluster, Check,
       RefuseDelete, Finish, Idle, NoRequest, TypeOK
  <2>2. \A p \in Projects : Same(p)
    BY <2>1 DEF Same, Busy, Begun, RunsCreation, RunsDestruction
  <2> QED
    BY <2>2 DEF Follows
\* A request that is not a delete is alone, and its project quiet.
<1>2. ASSUME req[k].op \notin {"none", "delete"}
      PROVE  /\ req[k] \in OpenRequest /\ q \in Projects
             /\ \A c \in Creations : ~RunsCreation(c, q)
             /\ \A d \in Destructions : ~RunsDestruction(d, q)
             /\ \A j \in Clients \ {k} : req[j].stage = "idle"
  BY <1>2, BusyRequests, IdleRequest DEF OpenRequest, OwnerInv, Alone
<1>3. CASE PutCreating(k)
  <2>1. /\ req[k].op \in {"create", "recreate"} /\ req[k].stage = "checked" /\ Alike
        /\ \A p \in Projects \ {q} : rec'[p] = rec[p]
        /\ rec[q].status \in {"ABSENT", "DESTROYED"} /\ rec'[q].status = "CREATING"
        /\ req'[k].stage = "written" /\ req'[k].proj = q
    BY <1>2, <1>3 DEF PutCreating, TypeOK, OpenRequest, OwnerInv, Justified
  <2>2. ~Busy(q) /\ Busy(q)'
    BY <1>2, <2>1 DEF Busy, Begun
  <2>3. \A p \in Projects \ {q} : Same(p)
    BY <2>1 DEF Same, Busy, Begun, RunsCreation, RunsDestruction
  <2> QED
    BY <1>2, <2>1, <2>2, <2>3 DEF Move, Follows
<1>4. CASE SetDestroying(k)
  <2>1. req[k] \in OpenRequest /\ q \in Projects
    BY <1>4, OpenRequestType DEF SetDestroying, OpenRequest
  <2>2. /\ req[k].stage = "checked" /\ Alike
        /\ \A p \in Projects \ {q} : rec'[p] = rec[p]
        /\ rec[q].status \in Destroyable /\ rec'[q].status = "DESTROYING"
        /\ req'[k].stage = "written" /\ req'[k].proj = q
    BY <1>4, <2>1 DEF SetDestroying, SetStatus, TypeOK, OpenRequest, Record
  <2>3. ~Busy(q)
    BY <2>1, <2>2, OwnerStatusTells DEF StatusTells, Destroyable
  <2>4. Busy(q)'
    BY <2>2 DEF Busy, Begun
  <2>5. \A p \in Projects \ {q} : Same(p)
    BY <2>2 DEF Same, Busy, Begun, RunsCreation, RunsDestruction
  <2> QED
    BY <2>1, <2>2, <2>3, <2>4, <2>5 DEF Move, Follows
<1>5. CASE SetForceFailed(k)
  <2>1. /\ req[k].op = "fail" /\ req[k].stage = "checked" /\ Alike
        /\ \A p \in Projects \ {q} : rec'[p] = rec[p]
        /\ rec[q].status = "CREATING" /\ rec'[q].status = "FAILED"
        /\ req'[k].stage = "idle"
    BY <1>2, <1>5 DEF SetForceFailed, SetStatus, Finish, NoRequest, TypeOK, Record, OwnerInv,
       Justified
  <2>2. ~Busy(q)
    BY <1>2, <2>1 DEF Busy, Begun
  <2>3. \A p \in Projects \ {q} : Same(p)
    BY <2>1 DEF Same, Busy, Begun, RunsCreation, RunsDestruction
  <2> QED
    BY <1>2, <2>1, <2>2, <2>3 DEF Move, Follows
\* Nobody starts the workflow of the request: it is abandoned.
<1>6. CASE StartFails(k)
  <2>1. /\ Begun(k, q) /\ UNCHANGED rec /\ Alike
        /\ req'[k].stage = "idle"
    BY <1>6 DEF StartFails, Begun, Finish, NoRequest, TypeOK
  <2>2. q \in Projects
    BY <2>1, OpenRequestType DEF Begun, OpenRequest
  <2>3. \A p \in Projects \ {q} : Same(p)
    BY <2>1 DEF Same, Busy, Begun, RunsCreation, RunsDestruction
  <2>4. Busy(q) /\ rec'[q].status = rec[q].status
    BY <2>1 DEF Busy
  <2> QED
    BY <2>2, <2>3, <2>4 DEF Move, Follows
\* The workflow of the request becomes one of an execution.
<1>7. ASSUME NEW c \in Creations, StartCreation(k, c)
      PROVE  Follows
  <2>0. PICK u \in Projects : u = q
    BY <1>7, OpenRequestType DEF StartCreation, OpenRequest
  <2>1. /\ Begun(k, u) /\ UNCHANGED <<rec, des>>
        /\ cre[c].pc = "unused" /\ cre'[c].pc = "register" /\ cre'[c].proj = u
        /\ \A x \in Creations \ {c} : cre'[x] = cre[x]
        /\ \A j \in Clients \ {k} : req'[j] = req[j]
        /\ req'[k].stage = "idle"
    BY <1>7, <2>0 DEF StartCreation, Begun, Finish, NoRequest, TypeOK, CreationOf
  <2>2. "unused" \notin CreationRunning /\ "register" \in CreationRunning
    BY DEF CreationRunning, Building, Unwinding
  <2>3. Busy(u) /\ Busy(u)'
    <3>1. RunsCreation(c, u)'
      BY <2>1, <2>2 DEF RunsCreation
    <3> QED
      BY <2>1, <3>1 DEF Busy
  <2>4. \A p \in Projects \ {u} : Same(p)
    <3> SUFFICES ASSUME NEW p \in Projects \ {u} PROVE Same(p)
      OBVIOUS
    <3>1. \A x \in Creations : RunsCreation(x, p)' <=> RunsCreation(x, p)
      BY <2>1, <2>2 DEF RunsCreation
    <3>2. \A j \in Clients : Begun(j, p)' <=> Begun(j, p)
      BY <2>1 DEF Begun
    <3> QED
      BY <2>1, <3>1, <3>2 DEF Same, Busy, RunsDestruction
  <2> QED
    BY <2>1, <2>3, <2>4 DEF Same, Follows
<1>8. ASSUME NEW d \in Destructions, StartDestruction(k, d)
      PROVE  Follows
  <2>0. PICK u \in Projects : u = q
    BY <1>8, OpenRequestType DEF StartDestruction, OpenRequest
  <2>1. /\ Begun(k, u) /\ UNCHANGED <<rec, cre>>
        /\ des[d].pc = "unused" /\ des'[d].pc = "export" /\ des'[d].proj = u
        /\ \A x \in Destructions \ {d} : des'[x] = des[x]
        /\ \A j \in Clients \ {k} : req'[j] = req[j]
        /\ req'[k].stage = "idle"
    BY <1>8, <2>0 DEF StartDestruction, Begun, Finish, NoRequest, TypeOK
  <2>2. "unused" \notin DestructionRunning /\ "export" \in DestructionRunning
    BY DEF DestructionRunning
  <2>3. Busy(u) /\ Busy(u)'
    <3>1. RunsDestruction(d, u)'
      BY <2>1, <2>2 DEF RunsDestruction
    <3> QED
      BY <2>1, <3>1 DEF Busy
  <2>4. \A p \in Projects \ {u} : Same(p)
    <3> SUFFICES ASSUME NEW p \in Projects \ {u} PROVE Same(p)
      OBVIOUS
    <3>1. \A x \in Destructions : RunsDestruction(x, p)' <=> RunsDestruction(x, p)
      BY <2>1, <2>2 DEF RunsDestruction
    <3>2. \A j \in Clients : Begun(j, p)' <=> Begun(j, p)
      BY <2>1 DEF Begun
    <3> QED
      BY <2>1, <3>1, <3>2 DEF Same, Busy, RunsCreation
  <2> QED
    BY <2>1, <2>3, <2>4 DEF Same, Follows
<1> QED
  BY <1>k, <1>1, <1>3, <1>4, <1>5, <1>6, <1>7, <1>8

LEMMA CreationFollows ==
    ASSUME TypeOK, OwnerInv, Orderly, NEW c \in Creations,
           CreationStep(c) \/ CreationFault(c)
    PROVE  Follows
<1> DEFINE q == cre[c].proj
<1>1. /\ cre[c].pc \in CreationRunning /\ q \in Projects
      /\ \A x \in Creations \ {c} : cre'[x] = cre[x]
      /\ cre'[c].proj = q
      /\ rec'[q].status \in {rec[q].status, "CREATING", "ACTIVE", "FAILED"}
      /\ \A p \in Projects \ {q} : rec'[p] = rec[p]
      /\ UNCHANGED <<req, des>>
  BY CreationFrame DEF Orderly
<1>2. RunsCreation(c, q)
  BY <1>1 DEF RunsCreation
<1>3. Busy(q) /\ rec[q].status = "CREATING"
  BY <1>1, <1>2 DEF Busy, OwnerInv, Owned
<1>4. \A p \in Projects \ {q} : Same(p)
  BY <1>1 DEF Same, Busy, Begun, RunsCreation, RunsDestruction
<1> QED
  BY <1>1, <1>3, <1>4 DEF Move, Follows

LEMMA DestructionFollows ==
    ASSUME TypeOK, OwnerInv, NEW d \in Destructions,
           DestructionStep(d) \/ DStepFails(d) \/ DTimeOut(d)
    PROVE  Follows
<1> DEFINE q == des[d].proj
<1>1. /\ des[d].pc \in DestructionRunning /\ q \in Projects
      /\ \A x \in Destructions \ {d} : des'[x] = des[x]
      /\ des'[d].proj = q
      /\ rec'[q].status \in {rec[q].status, "DESTROYING", "DESTROYED", "DESTRUCTION_FAILED"}
      /\ \A p \in Projects \ {q} : rec'[p] = rec[p]
      /\ UNCHANGED <<req, cre>>
  BY DestructionFrame
<1>2. RunsDestruction(d, q)
  BY <1>1 DEF RunsDestruction
<1>3. Busy(q) /\ rec[q].status = "DESTROYING"
  BY <1>1, <1>2 DEF Busy, OwnerInv, Owned
<1>4. \A p \in Projects \ {q} : Same(p)
  BY <1>1 DEF Same, Busy, Begun, RunsCreation, RunsDestruction
<1> QED
  BY <1>1, <1>3, <1>4 DEF Move, Follows

LEMMA PlatformFollows ==
    ASSUME TypeOK, OwnerInv, PlatformNext
    PROVE  Follows
<1>1. PICK c \in Creations : \/ EventStep(c) \/ EventFails(c)
                             \/ ClassifyFsx(c) \/ DeleteOrphan(c) \/ Service(c)
  BY DEF PlatformNext
<1> DEFINE q == cre[c].proj
<1>2. CASE FailFromEvent(c)
  <2>1. c \in judged /\ cre[c].pc = "failed"
    BY <1>2 DEF FailFromEvent, TypeOK
  <2>2. q \in Projects
    BY <2>1, StartedCreationType DEF StartedCreation
  <2>3. /\ \A p \in Projects \ {q} : rec'[p] = rec[p]
        /\ rec'[q].status = "FAILED"
        /\ UNCHANGED <<req, cre, des>>
    BY <1>2, <2>2 DEF FailFromEvent, SetStatus, TypeOK, Record, flows
  <2>4. rec[q].status = "CREATING"
    BY <2>1, <2>2 DEF OwnerInv, Owned
  <2>5. \A p \in Projects \ {q} : Same(p)
    BY <2>3 DEF Same, Busy, Begun, RunsCreation, RunsDestruction
  <2> QED
    BY <2>2, <2>3, <2>4, <2>5 DEF Move, Follows
<1>3. CASE ~FailFromEvent(c)
  <2>1. UNCHANGED <<rec, req, cre, des>>
    BY <1>1, <1>3 DEF EventStep, ReadForEvent, EventFails, ClassifyFsx, DeleteOrphan, Service,
       FsxReady, PcsReady, PcsGone, SubGone, table, flows
  <2> QED
    BY <2>1 DEF Follows, Same, Busy, Begun, RunsCreation, RunsDestruction
<1> QED
  BY <1>2, <1>3

LEMMA NextFollows ==
    ASSUME TypeOK, OwnerInv, Orderly, [Next]_vars
    PROVE  Follows
<1>1. CASE CreationNext
  <2>1. ASSUME NEW c \in Creations, NEW b \in Branches, LateCall(c, b) PROVE Follows
    BY <2>1, LateCallFrame DEF Follows, Same, Busy, Begun, RunsCreation, RunsDestruction
  <2> QED
    BY <1>1, <2>1, CreationFollows DEF CreationNext
<1>2. CASE UNCHANGED vars
  BY <1>2 DEF vars, Follows, Same, Busy, Begun, RunsCreation, RunsDestruction
<1> QED
  BY <1>1, <1>2, ApiFollows, DestructionFollows, PlatformFollows DEF Next, DestructionNext

LEMMA InitStatus == Init => Status!Init
<1> SUFFICES ASSUME Init PROVE Status!Init
  OBVIOUS
<1>1. \A p \in Projects : rec[p].status = "ABSENT"
  BY DEF Init, NoRecord
<1>2. \A p \in Projects : Workflow(p) = "none"
  <2>1. TypeOK /\ OwnerInv
    BY InitType, InitOwner
  <2>2. \A p \in Projects : ~Busy(p)
    BY <1>1, <2>1, OwnerStatusTells DEF StatusTells
  <2> QED
    BY <2>1, <2>2, OwnerStatusTells DEF StatusTells
<1> QED
  BY <1>1, <1>2 DEF Status!Init

(* Under the documented use every cluster follows the documented life cycle *)
(* (ClusterStatus), with one workflow at a time: no step of the handlers,   *)
(* of an execution or of a failure event takes a status elsewhere.          *)
THEOREM ClusterFollowsMachine ==
    ASSUME Orderly
    PROVE  Spec => FollowsStatusMachine
<1>1. TypeOK /\ OwnerInv => StatusTells
  BY OwnerStatusTells
<1>2. TypeOK /\ OwnerInv /\ StatusTells /\ StatusTells' /\ [Next]_vars
        => [Status!Next]_StatusVars
  BY NextFollows, FollowsIsStep
<1> QED
  BY <1>1, <1>2, OwnerInvariant, InitStatus, PTL
     DEF Spec, FollowsStatusMachine, Status!Spec, StatusVars
=============================================================================
