---------------------------- MODULE MemberRequests ----------------------------
(***************************************************************************)
(* project_management/members.py, one action per call to DynamoDB, Cognito *)
(* or SSM, and the part of lifecycle.py that takes the members' access     *)
(* away from a project and gives it back.                                  *)
(***************************************************************************)
EXTENDS AccessState

Working(q) == reqs[q].stage \notin {"unused", "done"}
Concerns(q, u) == reqs[q].op \in ProjectOps \/ reqs[q].user = u
Busy(u) == \E q \in Requests : Working(q) /\ Concerns(q, u)

At(q, stage) == reqs[q].stage = stage
Goto(q, stage) == reqs' = [reqs EXCEPT ![q].stage = stage]
Done(q) == reqs' = [reqs EXCEPT ![q] = NoReq("done")]

\* Bound: Requests.  A request for users who have one in progress spoils them.
Accept(q, op, us, r) ==
    /\ At(q, "unused") /\ \A p \in Requests : At(p, "unused") => q <= p
    /\ op \in Ops
    /\ reqs' = [reqs EXCEPT ![q] = r]
    /\ spoiled' = spoiled \cup {u \in us : Busy(u)}

\* add_member: the conditional put, then the group, then the cluster.
AddMember(q) ==
    \E u \in Users, role \in Roles :
        /\ member[u].kind = "none"
        /\ member' = [member EXCEPT ![u] = NewMember(role)]
        /\ Accept(q, "add", {u}, Req("add", u, role, "none", "join", {}))
        /\ UNCHANGED <<project, groups, machine, locator, channel, sweep>>

\* change_member_role reads the record; the role it has already is no change.
ChangeRole(q) ==
    \E u \in Users, role \in Roles :
        /\ member[u].kind # "none"
        /\ RoleOf(member[u]) # role
        /\ Accept(q, "role", {u}, Req("role", u, role, RoleOf(member[u]), "leave", {}))
        /\ UNCHANGED <<project, member, groups, machine, locator, channel, sweep>>

\* remove_member reads the record.
RemoveMember(q) ==
    \E u \in Users :
        /\ member[u].kind # "none"
        /\ Accept(q, "remove", {u}, Req("remove", u, "none", RoleOf(member[u]), "leave", {}))
        /\ UNCHANGED <<project, member, groups, machine, locator, channel, sweep>>

\* Mutant of LeaveGroup: the group of the requested role is left.
LeaveWrong(q) ==
    /\ At(q, "leave")
    /\ Goto(q, IF reqs[q].op = "role" THEN "join" ELSE "lock")
    /\ groups' = [groups EXCEPT ![reqs[q].user] = @ \ {reqs[q].role}]
    /\ UNCHANGED <<project, member, spoiled, machine, locator, channel, sweep>>

\* _remove_from_cognito_group: an error is logged and the handler goes on.
LeaveGroup(q) ==
    /\ At(q, "leave")
    /\ Goto(q, IF reqs[q].op = "role" THEN "join" ELSE "lock")
    /\ \/ /\ groups' = [groups EXCEPT ![reqs[q].user] = @ \ {reqs[q].old}]
          /\ UNCHANGED spoiled
       \/ /\ "leave" \in Faults
          /\ spoiled' = spoiled \cup {reqs[q].user}
          /\ UNCHANGED groups
    /\ UNCHANGED <<project, member, machine, locator, channel, sweep>>

\* _add_to_cognito_group makes the group if it is missing; errors are logged.
JoinGroup(q) ==
    /\ At(q, "join")
    /\ Goto(q, IF reqs[q].op = "add" THEN "propagate" ELSE "write")
    /\ \/ groups' = [groups EXCEPT ![reqs[q].user] = @ \cup {reqs[q].role}]
       \/ "join" \in Faults /\ UNCHANGED groups
    /\ UNCHANGED <<project, member, spoiled, machine, locator, channel, sweep>>

\* _propagate_posix_user.
PropagateMember(q) ==
    /\ At(q, "propagate")
    /\ \E p \in Propagations(reqs[q].user) :
          /\ commands' = commands \cup p.cmds
          /\ IF p.ok THEN Done(q) ELSE Goto(q, "mark")
    /\ UNCHANGED <<project, directory, machine, locator, sweep, calm>>

\* The record is marked without a condition.
MarkPending(q) ==
    /\ At(q, "mark")
    /\ member' = [member EXCEPT ![reqs[q].user] =
                     [Touched(@) EXCEPT !.mark = "PENDING_PROPAGATION"]]
    /\ Done(q)
    /\ UNCHANGED <<project, groups, spoiled, machine, locator, channel, sweep>>

\* The role is written without a condition.
WriteRole(q) ==
    /\ At(q, "write")
    /\ member' = [member EXCEPT ![reqs[q].user] = [Touched(@) EXCEPT !.role = reqs[q].role]]
    /\ Done(q)
    /\ UNCHANGED <<project, groups, spoiled, machine, locator, channel, sweep>>

\* deprovision_user_from_clusters: one attempt, and only to an ACTIVE cluster.
LockAccount(q) ==
    /\ At(q, "lock")
    /\ \/ Reachable /\ commands' = commands \cup {<<reqs[q].user, "lock">>}
       \/ (~Reachable \/ Trouble("ssm") \/ Trouble("read")) /\ UNCHANGED commands
    /\ Goto(q, "delete")
    /\ UNCHANGED <<project, directory, machine, locator, sweep, calm>>

\* Mutant of DeleteMember: the item is emptied and its role left.
EmptyMember(q) ==
    /\ At(q, "delete")
    /\ member' = [member EXCEPT ![reqs[q].user].kind = "none"]
    /\ Done(q)
    /\ UNCHANGED <<project, groups, spoiled, machine, locator, channel, sweep>>

DeleteMember(q) ==
    /\ At(q, "delete")
    /\ member' = [member EXCEPT ![reqs[q].user] = NoMember]
    /\ Done(q)
    /\ UNCHANGED <<project, groups, spoiled, machine, locator, channel, sweep>>

-----------------------------------------------------------------------------
\* deactivate_project: an ACTIVE project whose clusters are all DESTROYED.
Deactivate(q) ==
    /\ project = "ACTIVE" /\ cluster \in {"none", "DESTROYED"}
    /\ Accept(q, "deactivate", Users, Req("deactivate", None, "none", "none", "groups", {}))
    /\ UNCHANGED <<project, member, groups, machine, locator, channel, sweep>>

\* The two groups are deleted; one that cannot be is logged and kept.
DeleteGroups(q) ==
    /\ At(q, "groups")
    /\ \E kept \in IF "leave" \in Faults THEN SUBSET Roles ELSE {{}} :
          groups' = [u \in Users |-> groups[u] \cap kept]
    /\ Goto(q, "archive")
    /\ UNCHANGED <<project, member, spoiled, machine, locator, channel, sweep>>

\* The transition, or the ConflictError of one that came too late.
Archive(q) ==
    /\ At(q, "archive")
    /\ project' = "ARCHIVED"
    /\ Done(q)
    /\ UNCHANGED <<directory, machine, locator, channel, sweep>>

Seen(u) == [user |-> u, role |-> RoleOf(member[u]),
            marked |-> member[u].mark = "PENDING_RESTORATION"]
Listed  == {Seen(u) : u \in {v \in Users : member[v].kind = "member"}}

\* reactivate_project makes the groups again and reads the members.
Reactivate(q) ==
    /\ project = "ARCHIVED"
    /\ Accept(q, "reactivate", Users,
              Req("reactivate", None, "none", "none", "restore", Listed))
    /\ UNCHANGED <<project, member, groups, machine, locator, channel, sweep>>

\* One member is added to the group of the role that was read, and its mark
\* taken off if it had one; or it is marked for a later restoration.
RestoreMember(q) ==
    /\ At(q, "restore")
    /\ \E t \in reqs[q].todo :
          /\ reqs' = [reqs EXCEPT ![q].todo = @ \ {t}]
          /\ \/ /\ groups' = [groups EXCEPT ![t.user] = @ \cup {t.role}]
                /\ IF t.marked
                   THEN \E m \in Unmarked(member[t.user]) :
                            member' = [member EXCEPT ![t.user] = m]
                   ELSE UNCHANGED member
             \/ /\ "restore" \in Faults
                /\ member' = [member EXCEPT ![t.user] =
                                 [Touched(@) EXCEPT !.mark = "PENDING_RESTORATION"]]
                /\ UNCHANGED groups
    /\ UNCHANGED <<project, spoiled, machine, locator, channel, sweep>>

Unarchive(q) ==
    /\ At(q, "restore") /\ reqs[q].todo = {}
    /\ project' = "ACTIVE"
    /\ Done(q)
    /\ UNCHANGED <<directory, machine, locator, channel, sweep>>

\* The steps of a handler that has accepted its request.
HandlerStep(q) ==
    \/ LeaveGroup(q) \/ JoinGroup(q) \/ PropagateMember(q) \/ MarkPending(q)
    \/ WriteRole(q) \/ LockAccount(q) \/ DeleteMember(q)
    \/ DeleteGroups(q) \/ Archive(q) \/ RestoreMember(q) \/ Unarchive(q)

RequestNext ==
    \E q \in Requests :
        \/ AddMember(q) \/ ChangeRole(q) \/ RemoveMember(q)
        \/ Deactivate(q) \/ Reactivate(q)
        \/ HandlerStep(q)
=============================================================================
