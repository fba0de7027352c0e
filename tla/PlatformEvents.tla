---------------------------- MODULE PlatformEvents ----------------------------
(***************************************************************************)
(* What runs beside the workflows: the Lambda EventBridge calls for every   *)
(* creation execution that timed out, failed or was aborted; the scheduled  *)
(* cleanup of orphaned FSx filesystems; and the AWS services themselves.    *)
(***************************************************************************)
EXTENDS ClusterState

(* mark_cluster_failed_from_event finds the record by project and name, so  *)
(* it cannot tell the execution of its event from a later one.              *)

ReadForEvent(c) ==
    /\ c \in events
    /\ events' = events \ {c}
    /\ judged' = IF rec[cre[c].proj].status = "CREATING"
                 THEN judged \cup {c} ELSE judged
    /\ UNCHANGED <<table, req, flows, cloud, orphans, lost>>

FailFromEvent(c) ==
    /\ c \in judged
    /\ judged' = judged \ {c}
    /\ SetStatus(cre[c].proj, "FAILED")
    /\ UNCHANGED <<registry, req, flows, cloud, events, orphans, lost>>

\* describe_execution, the read or the write fails: the handler returns an
\* error as its result, so the event is not delivered again.
EventFails(c) ==
    /\ "event" \in Faults
    /\ c \in events \cup judged
    /\ events' = events \ {c}
    /\ judged' = judged \ {c}
    /\ lost' = lost \cup {cre[c].proj}
    /\ UNCHANGED <<table, req, flows, cloud, orphans>>

(* fsx_cleanup: filesystems are classified by the status of the record their *)
(* tags name, and deleted in a later pass.                                  *)

TerminalStatuses == {"FAILED", "DESTROYED"}

ClassifyFsx(c) ==
    /\ "sweep" \in Ops
    /\ fsx[c] # "none" /\ c \notin orphans
    /\ rec[cre[c].proj].status \in TerminalStatuses \cup {"ABSENT"}
    /\ orphans' = orphans \cup {c}
    /\ UNCHANGED <<table, req, flows, cloud, events, judged, lost>>

\* A filesystem whose associations cannot be deleted is skipped.
DeleteOrphan(c) ==
    /\ c \in orphans
    /\ orphans' = orphans \ {c}
    /\ fsx' \in {[fsx EXCEPT ![c] = "none"]}
                \cup (IF "step" \in Faults THEN {fsx} ELSE {})
    /\ UNCHANGED <<table, req, flows, pcs, subs, setup, logs, events, judged,
                   lost>>

(* The AWS services finish what they were asked to do.                      *)

FsxReady(c) ==
    /\ fsx[c] = "creating"
    /\ fsx' = [fsx EXCEPT ![c] = "available"]
    /\ UNCHANGED <<table, req, flows, pcs, subs, setup, logs, queues, lost>>

PcsReady(c) ==
    /\ pcs[c] = "creating"
    /\ pcs' = [pcs EXCEPT ![c] = "active"]
    /\ UNCHANGED <<table, req, flows, subs, fsx, setup, logs, queues, lost>>

PcsGone(c) ==
    /\ pcs[c] = "deleting"
    /\ pcs' = [pcs EXCEPT ![c] = "none"]
    /\ UNCHANGED <<table, req, flows, subs, fsx, setup, logs, queues, lost>>

SubGone(c, s) ==
    /\ subs[c][s] = "deleting"
    /\ subs' = [subs EXCEPT ![c][s] = "none"]
    /\ UNCHANGED <<table, req, flows, pcs, fsx, setup, logs, queues, lost>>

Service(c) ==
    \/ FsxReady(c) \/ PcsReady(c) \/ PcsGone(c)
    \/ \E s \in SubResources : SubGone(c, s)

EventStep(c) == ReadForEvent(c) \/ FailFromEvent(c)

PlatformNext ==
    \E c \in Creations :
        \/ EventStep(c) \/ EventFails(c)
        \/ ClassifyFsx(c) \/ DeleteOrphan(c) \/ Service(c)
=============================================================================
