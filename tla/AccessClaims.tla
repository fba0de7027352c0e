----------------------------- MODULE AccessClaims -----------------------------
(***************************************************************************)
(* A statement of the guides about access that the code does not keep.     *)
(***************************************************************************)
EXTENDS Access

Quiet == /\ \A q \in Requests : ~Working(q)
         /\ sweep.pc = "idle" /\ commands = {}

(* "If restoring a member to a Cognito group fails, the membership record   *)
(* is marked with PENDING_RESTORATION status and the failure is logged. The *)
(* daily POSIX reconciliation process will retry these restorations."       *)
(* (docs/project-admin/project-management.md:371): a member of an ACTIVE    *)
(* project without the mark is in its group.  The retry propagates the      *)
(* Linux account, takes the mark off and never calls Cognito.               *)
MembersAreInTheirGroup ==
    (Quiet /\ project = "ACTIVE") =>
        \A u \in Users \ spoiled :
            (member[u].kind = "member" /\ member[u].mark = "none")
                => member[u].role \in groups[u]
=============================================================================
