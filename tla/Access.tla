-------------------------------- MODULE Access --------------------------------
(***************************************************************************)
(* Membership requests, login nodes and the daily reconciliation together. *)
(***************************************************************************)
EXTENDS MemberRequests, LoginNodes, Reconciliation

Next == RequestNext \/ NodeNext \/ SweepNext \/ Calm

Spec == Init /\ [][Next]_vars

\* SSM and the tables are in trouble for a finite time.  Lambda runs a handler
\* to its end, the two schedules go on for ever, events are delivered, SSM runs
\* what it was sent and PCS keeps a login node running.
AccessFairness ==
    /\ \A q \in Requests : WF_vars(HandlerStep(q))
    /\ WF_vars(BootNode) /\ WF_vars(ClusterActive)
    /\ \A n \in Nodes : WF_vars(HandleEvent(n)) /\ WF_vars(WriteAddress(n))
    /\ WF_vars(RefreshAddress)
    /\ \A u \in Users, kind \in {"create", "lock"} : WF_vars(RunCommand(u, kind))
    /\ WF_vars(SweepNext) /\ WF_vars(Calm)

FairSpec == Spec /\ AccessFairness

-----------------------------------------------------------------------------
(* Unless requests for a user overlapped, or Cognito refused a removal, a   *)
(* user nobody is working on is in no group but that of the recorded role,  *)
(* and in none without a record (members.py changes groups and record one   *)
(* after the other, lifecycle.py takes all groups away and gives them back  *)
(* by what it read).                                                        *)
GroupsFollowRecords ==
    \A u \in Users \ spoiled :
        ~Busy(u) => groups[u] \subseteq GroupsOf(member[u])

(* The address in the record ends up being that of the instance that runs,  *)
(* however late and in whatever order the events come: the hourly refresh   *)
(* repairs what a late handler overwrites (login_node_refresh.py 36-119).   *)
AddressConverges ==
    <>[](cluster = "ACTIVE" /\ up => address = node)

(* Somebody who is no member does not keep an account that works: the       *)
(* single attempt of the removal, the account of an instance booted from an *)
(* old launch template, and a creation that comes after the removal are all *)
(* made good by the audit (posix_reconciliation.py 339-397).                *)
StaleAccountsAreLocked ==
    \A u \in Users :
        member[u].kind = "none" ~> (account[u] # "open" \/ member[u].kind # "none")

(* A member of a project whose cluster stays gets an account on its node.   *)
MembersGetAccounts ==
    \A u \in Users :
        (member[u].kind = "member" /\ cluster = "ACTIVE")
            ~> (account[u] # "none" \/ member[u].kind # "member" \/ cluster # "ACTIVE")

(* No member is left marked: the retry repeats every day until it succeeds  *)
(* (posix_reconciliation.py 96-123).                                        *)
MarksAreCleared ==
    \A u \in Users :
        (member[u].kind = "member" /\ member[u].mark # "none")
            ~> (member[u].kind # "member" \/ member[u].mark = "none")
=============================================================================
