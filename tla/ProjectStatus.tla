---------------------------- MODULE ProjectStatus ----------------------------
(***************************************************************************)
(* What the lifecycle of a project promises: one workflow at a time, and   *)
(* the status of the record moved only by the operation it belongs to.     *)
(***************************************************************************)
EXTENDS ProjectTables

VARIABLES
    status,     \* the status of the project's record
    workflow    \* the workflow that owns the record, or "none"

vars == <<status, workflow>>

Init == status = "ABSENT" /\ workflow = "none"

\* A record that no workflow owns moves from `from` to `to`.
Move(from, to) ==
    /\ workflow = "none"
    /\ status = from
    /\ status' = to
    /\ UNCHANGED workflow

Begin(w) ==
    /\ workflow = "none"
    /\ status = Before[w]
    /\ status' = Transitional[w]
    /\ workflow' = w

\* The workflow that owns the record ends: with its own result, or without one
\* (its execution was never started, or it was cut short), and then the record
\* keeps the status it has.
End(w) ==
    /\ workflow = w
    /\ status = Transitional[w]
    /\ status' \in {Target[w], Fallback[w], status}
    /\ workflow' = "none"

Next ==
    \/ Move("ABSENT", "CREATED")
    \/ Move("CREATED", "ABSENT")
    \/ Move("ARCHIVED", "ABSENT")
    \/ Move("ACTIVE", "ARCHIVED")
    \/ Move("ARCHIVED", "ACTIVE")
    \/ \E w \in Workflows : Begin(w) \/ End(w)

Spec == Init /\ [][Next]_vars
=============================================================================
