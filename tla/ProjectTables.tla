---------------------------- MODULE ProjectTables ----------------------------
(***************************************************************************)
(* The tables of the project lifecycle: the transitions that               *)
(* lambda/project_management/lifecycle.py allows, and what each of the     *)
(* three Step Functions workflows moves a project from and to.             *)
(***************************************************************************)

\* A record is ABSENT before it is created and after it is deleted.  A STUB is
\* what an unconditional write leaves of a deleted record: an item that holds
\* progress fields and no status.
Statuses == {"ABSENT", "STUB", "CREATED", "DEPLOYING", "ACTIVE", "UPDATING",
             "DESTROYING", "ARCHIVED"}

\* VALID_TRANSITIONS.
ValidTransitions ==
    [s \in Statuses |->
        CASE s = "CREATED"    -> {"DEPLOYING"}
          [] s = "DEPLOYING"  -> {"ACTIVE", "CREATED"}
          [] s = "ACTIVE"     -> {"DESTROYING", "UPDATING", "ARCHIVED"}
          [] s = "UPDATING"   -> {"ACTIVE"}
          [] s = "DESTROYING" -> {"ARCHIVED", "ACTIVE"}
          [] s = "ARCHIVED"   -> {"ACTIVE"}
          [] OTHER            -> {}]

\* Mutant of Sources: the condition asks for any status at all.
AnySource(target) == Statuses \ {"ABSENT", "STUB"}

\* transition_project writes `target` from any status that may reach it,
\* whatever status the caller had read.
Sources(target) == {s \in Statuses : target \in ValidTransitions[s]}

Workflows == {"deploy", "update", "destroy"}

\* The status a request for a workflow requires, the one a project has while
\* the workflow runs, the one it gets when the workflow succeeds and the one
\* the failure handler writes.
Before       == [deploy |-> "CREATED", update |-> "ACTIVE", destroy |-> "ACTIVE"]
Transitional == [deploy |-> "DEPLOYING", update |-> "UPDATING",
                 destroy |-> "DESTROYING"]
Target       == [deploy |-> "ACTIVE", update |-> "ACTIVE", destroy |-> "ARCHIVED"]
Fallback     == [deploy |-> "CREATED", update |-> "ACTIVE", destroy |-> "ACTIVE"]

InTransition == {Transitional[w] : w \in Workflows}
=============================================================================
