----------------------------- MODULE ClusterApi -----------------------------
(***************************************************************************)
(* The cluster handlers of the API Lambda (handler.py).  A handler reads    *)
(* the record, checks it, writes it and starts an execution, and other      *)
(* requests and executions run between these steps.  Requests the           *)
(* validation, the authorisation or the budget check refuse change nothing  *)
(* and are left out.                                                        *)
(***************************************************************************)
EXTENDS ClusterState

\* Documented use: a name is created once (afterwards it is recreated, by when
\* the failure events of earlier executions have been delivered), and Mark as
\* Failed is for records whose workflow is long over.  One client acts at a
\* time, but two may destroy the cluster at once.
Only(ops) == \A k \in Clients : req[k].op \in ops \cup {"none"}
MayCreate(p) == Documented => rec[p].status = "ABSENT" /\ Only({})
MayRecreate(p) == Documented => ~CreationPending(p) /\ Only({})
MayDelete == Documented => Only({"delete"})
MayFail(p) == Documented => ~CreationPending(p) /\ Only({})

\* Bounds: a request is accepted only while an execution is left for it.
Asking(ops) == {k \in Clients : req[k].op \in ops}
CreationLeft ==
    Cardinality(Asking({"create", "recreate"}))
        < Cardinality({c \in Creations : cre[c].pc = "unused"})
DestructionLeft ==
    Cardinality(Asking({"delete"}))
        < Cardinality({d \in Destructions : des[d].pc = "unused"})

Idle(k) == req[k].stage = "idle"
Finish(k) == req' = [req EXCEPT ![k] = NoRequest]

\* A read of the record by a handler that goes on to use what it read.
Check(k, op, p, m) ==
    req' = [req EXCEPT ![k] = [op |-> op, stage |-> "checked", proj |-> p,
                               pcs |-> rec[p].pcs, fsx |-> rec[p].fsx,
                               mode |-> m]]

CreateCluster(k, p, m) ==
    /\ "create" \in Ops /\ Idle(k) /\ CreationLeft /\ MayCreate(p)
    /\ Check(k, "create", p, m)
    /\ UNCHANGED <<table, flows, cloud, queues, lost>>

RecreateCluster(k, p, m) ==
    /\ "recreate" \in Ops /\ Idle(k) /\ CreationLeft /\ MayRecreate(p)
    /\ rec[p].status = "DESTROYED"
    /\ Check(k, "recreate", p, m)
    /\ UNCHANGED <<table, flows, cloud, queues, lost>>

\* The shared tail of create and recreate: an unconditional put that replaces
\* the whole record, then start_execution.
PutCreating(k) ==
    LET r == req[k] IN
    /\ r.op \in {"create", "recreate"} /\ r.stage = "checked"
    /\ rec' = [rec EXCEPT ![r.proj] = [status |-> "CREATING", pcs |-> None,
                                       fsx |-> None, mode |-> r.mode]]
    /\ req' = [req EXCEPT ![k].stage = "written"]
    /\ lost' = lost \ {r.proj}
    /\ UNCHANGED <<registry, flows, cloud, queues>>

StartCreation(k, c) ==
    LET r == req[k] IN
    /\ r.op \in {"create", "recreate"} /\ r.stage = "written"
    /\ cre[c].pc = "unused"
    /\ cre' = [cre EXCEPT ![c] = CreationOf(r.proj, r.mode, "register")]
    /\ Finish(k)
    /\ UNCHANGED <<table, des, cloud, queues, lost>>

DeleteCluster(k, p) ==
    /\ "delete" \in Ops /\ Idle(k) /\ DestructionLeft /\ MayDelete
    /\ rec[p].status # "ABSENT"
    /\ Check(k, "delete", p, rec[p].mode)
    /\ UNCHANGED <<table, flows, cloud, queues, lost>>

\* Mutant of Destroyable: a condition that forgot the running workflows.
DestroyableAlways == Statuses \ {"ABSENT", "DESTROYED"}

Destroyable == {"ACTIVE", "FAILED", "DESTRUCTION_FAILED"}

\* Mutant of SetDestroying: the status is tested at the read only.
SetDestroyingAnyway(k) ==
    LET r == req[k] IN
    /\ r.op = "delete" /\ r.stage = "checked"
    /\ SetStatus(r.proj, "DESTROYING")
    /\ req' = [req EXCEPT ![k].stage = "written"]
    /\ lost' = lost \ {r.proj}
    /\ UNCHANGED <<registry, flows, cloud, queues>>

SetDestroying(k) ==
    LET r == req[k] IN
    /\ r.op = "delete" /\ r.stage = "checked"
    /\ rec[r.proj].status \in Destroyable
    /\ SetStatus(r.proj, "DESTROYING")
    /\ req' = [req EXCEPT ![k].stage = "written"]
    /\ lost' = lost \ {r.proj}
    /\ UNCHANGED <<registry, flows, cloud, queues>>

\* 409: the conditional update finds another status.
RefuseDelete(k) ==
    /\ req[k].op = "delete" /\ req[k].stage = "checked"
    /\ rec[req[k].proj].status \notin Destroyable
    /\ Finish(k)
    /\ UNCHANGED <<table, flows, cloud, queues, lost>>

\* The payload carries the ids read before the conditional update.
StartDestruction(k, d) ==
    LET r == req[k] IN
    /\ r.op = "delete" /\ r.stage = "written"
    /\ des[d].pc = "unused"
    /\ des' = [des EXCEPT ![d] = [pc |-> "export", proj |-> r.proj,
                                  pcs |-> r.pcs, fsx |-> r.fsx,
                                  mode |-> r.mode, export |-> "none"]]
    /\ Finish(k)
    /\ UNCHANGED <<table, cre, cloud, queues, lost>>

\* start_execution raises, or the Lambda dies before it: the record stays.
StartFails(k) ==
    /\ "start" \in Faults
    /\ req[k].stage = "written"
    /\ lost' = lost \cup {req[k].proj}
    /\ Finish(k)
    /\ UNCHANGED <<table, flows, cloud, queues>>

ForceFailCluster(k, p) ==
    /\ "fail" \in Ops /\ Idle(k) /\ MayFail(p)
    /\ rec[p].status = "CREATING"
    /\ Check(k, "fail", p, rec[p].mode)
    /\ UNCHANGED <<table, flows, cloud, queues, lost>>

\* The write does not test the status again, and no execution is stopped.
SetForceFailed(k) ==
    /\ req[k].op = "fail" /\ req[k].stage = "checked"
    /\ SetStatus(req[k].proj, "FAILED")
    /\ Finish(k)
    /\ UNCHANGED <<registry, flows, cloud, queues, lost>>

ApiStep ==
    \E k \in Clients :
        \/ \E p \in Projects, m \in Modes :
              CreateCluster(k, p, m) \/ RecreateCluster(k, p, m)
        \/ \E p \in Projects : DeleteCluster(k, p) \/ ForceFailCluster(k, p)
        \/ PutCreating(k) \/ SetDestroying(k) \/ RefuseDelete(k)
        \/ SetForceFailed(k) \/ StartFails(k)
        \/ \E c \in Creations : StartCreation(k, c)
        \/ \E d \in Destructions : StartDestruction(k, d)
=============================================================================
