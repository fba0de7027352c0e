---------------------------- MODULE AccessProofs ----------------------------
(***************************************************************************)
(* Theorems about Access for any users, requests and nodes: its type       *)
(* invariant, and that Cognito groups follow the membership records.       *)
(***************************************************************************)
EXTENDS Access, TLAPS

-----------------------------------------------------------------------------
(* Membership items.                                                        *)

MemberOK(m) ==
    /\ m \in Members
    /\ m.kind = "none" => m = NoMember
    /\ m.kind = "member" => m.role \in Roles

\* What may become of an item without a handler that knows of it.
Alike(m, n) ==
    /\ RoleOf(n) = RoleOf(m)
    /\ m.kind # "none" => n.kind # "none"
    /\ m.kind = "member" => n.kind = "member"

LEMMA FixedItems ==
    /\ MemberOK(NoMember) /\ MemberOK(Stub)
    /\ \A role \in Roles : MemberOK(NewMember(role)) /\ NewMember(role).kind = "member"
                               /\ NewMember(role).role = role
    /\ Stub.kind = "stub" /\ NoMember.kind = "none"
  BY DEF MemberOK, NoMember, Stub, NewMember, Members, Marks, Roles

LEMMA RoleTypes ==
    ASSUME NEW m, MemberOK(m)
    PROVE  RoleOf(m) \in Roles /\ GroupsOf(m) \subseteq {RoleOf(m)}
  BY DEF MemberOK, Members, RoleOf, GroupsOf, Roles

LEMMA MarkedItem ==
    ASSUME NEW m, MemberOK(m), NEW k \in Marks, NEW n, n = [Touched(m) EXCEPT !.mark = k]
    PROVE  MemberOK(n) /\ Alike(m, n)
<1>1. CASE m.kind = "none"
  BY <1>1 DEF MemberOK, Alike, Touched, Members, NoMember, Stub, RoleOf
<1>2. CASE m.kind # "none"
  BY <1>2 DEF MemberOK, Alike, Touched, Members, NoMember, Stub, RoleOf
<1> QED
  BY <1>1, <1>2

LEMMA UnmarkedItem ==
    ASSUME NEW m, MemberOK(m), NEW n \in Unmarked(m)
    PROVE  MemberOK(n) /\ Alike(m, n)
<1>1. CASE m.kind = "none"
  BY <1>1 DEF MemberOK, Alike, Unmarked, Members, Marks, NoMember, Stub, RoleOf
<1>2. CASE m.kind # "none"
  BY <1>2 DEF MemberOK, Alike, Unmarked, Members, Marks, NoMember, RoleOf
<1> QED
  BY <1>1, <1>2

LEMMA ItemWithRole ==
    ASSUME NEW m, MemberOK(m), NEW r \in Roles, NEW n, n = [Touched(m) EXCEPT !.role = r]
    PROVE  MemberOK(n) /\ GroupsOf(n) = {r}
<1>0. r # "none"
  BY DEF Roles
<1>1. CASE m.kind = "none"
  BY <1>0, <1>1 DEF MemberOK, Touched, Members, Marks, NoMember, Stub, RoleOf, GroupsOf
<1>2. CASE m.kind # "none"
  BY <1>0, <1>2 DEF MemberOK, Touched, Members, NoMember, RoleOf, GroupsOf
<1> QED
  BY <1>1, <1>2

-----------------------------------------------------------------------------
(* Types.                                                                   *)

\* Each operation has its stages; a handler knows its user and the roles it
\* needs, and a retry that succeeded its user.
StagesOf(op) ==
    CASE op = "add"        -> {"join", "propagate", "mark"}
      [] op = "role"       -> {"leave", "join", "write"}
      [] op = "remove"     -> {"leave", "lock", "delete"}
      [] op = "deactivate" -> {"groups", "archive"}
      [] op = "reactivate" -> {"restore"}

ReqOK(r) ==
    /\ r \in Reqs
    /\ r.stage \notin {"unused", "done"} =>
          /\ r.stage \in StagesOf(r.op)
          /\ r.op \in MemberOps => r.user \in Users
          /\ r.op \in {"add", "role"} => r.role \in Roles
          /\ r.stage = "leave" => r.old \in Roles

DirectoryOK ==
    /\ project \in {"ACTIVE", "ARCHIVED"}
    /\ DOMAIN member = Users /\ member = [u \in Users |-> member[u]]
    /\ \A u \in Users : MemberOK(member[u])
    /\ groups \in [Users -> SUBSET Roles]
    /\ DOMAIN reqs = Requests /\ reqs = [q \in Requests |-> reqs[q]]
    /\ \A q \in Requests : ReqOK(reqs[q])
    /\ spoiled \subseteq Users

PlatformOK ==
    /\ cluster \in {"none", "CREATING", "ACTIVE", "FAILED", "DESTROYED"}
    /\ script \subseteq Users
    /\ node \in Nodes \cup {0} /\ up \in BOOLEAN /\ (up => node # 0)
    /\ address \in Nodes \cup {0}
    /\ account \in [Users -> {"none", "open", "locked"}]
    /\ commands \subseteq Users \X {"create", "lock"}
    /\ calm \in BOOLEAN
    /\ events \subseteq Nodes /\ writes \subseteq Nodes
    /\ sweep \in [pc : SweepPcs, members : SUBSET Users, at : Nodes \cup {0},
                  todo : SUBSET Users, user : Users \cup {None}]
    /\ sweep.pc = "clear" => sweep.user \in Users

LEMMA TypesOK == DirectoryOK /\ PlatformOK => TypeOK
<1> SUFFICES ASSUME DirectoryOK, PlatformOK PROVE TypeOK
  OBVIOUS
<1>1. member \in [Users -> Members]
  BY DEF DirectoryOK, MemberOK
<1>2. reqs \in [Requests -> Reqs]
  BY DEF DirectoryOK, ReqOK
<1> QED
  BY <1>1, <1>2 DEF DirectoryOK, PlatformOK, TypeOK, MemberOK

\* What the steps of handlers do to the requests.
Others(q) == \A p \in Requests \ {q} : reqs'[p] = reqs[p]
ReqsShape == DOMAIN reqs' = Requests /\ reqs' = [p \in Requests |-> reqs'[p]]
Fields(r, t) ==
    t.op = r.op /\ t.user = r.user /\ t.role = r.role /\ t.old = r.old /\ t.todo = r.todo

LEMMA GotoStage ==
    ASSUME DirectoryOK, NEW q \in Requests, Working(q), NEW s, s \in StagesOf(reqs[q].op),
           s # "leave", Goto(q, s)
    PROVE  /\ ReqsShape /\ Others(q)
           /\ reqs'[q].stage = s /\ Fields(reqs[q], reqs'[q])
           /\ ReqOK(reqs'[q])
<1>1. ReqOK(reqs[q])
  BY DEF DirectoryOK
<1>2. s \in Stages
  BY <1>1 DEF ReqOK, Reqs, StagesOf, Stages, MemberOps, ProjectOps
<1> QED
  BY <1>1, <1>2 DEF DirectoryOK, Working, Goto, ReqsShape, Others, Fields, ReqOK, Reqs

LEMMA DoneStage ==
    ASSUME DirectoryOK, NEW q \in Requests, Done(q)
    PROVE  /\ ReqsShape /\ Others(q)
           /\ reqs'[q].stage = "done" /\ ReqOK(reqs'[q])
<1>1. NoReq("done").stage = "done" /\ ReqOK(NoReq("done"))
  BY DEF NoReq, Req, ReqOK, Reqs, Stages, MemberOps
<1> QED
  BY <1>1 DEF DirectoryOK, Done, ReqsShape, Others

LEMMA AcceptStage ==
    ASSUME DirectoryOK, NEW q \in Requests, NEW op, NEW us, us \subseteq Users,
           NEW r, ReqOK(r), Accept(q, op, us, r)
    PROVE  /\ ReqsShape /\ Others(q) /\ ~Working(q)
           /\ reqs'[q] = r
           /\ spoiled' \subseteq Users
           /\ \A u \in us \ spoiled' : ~Busy(u)
  BY DEF DirectoryOK, Accept, ReqsShape, Others, Working, At

\* The requests that the operations begin with.
LEMMA FirstRequests ==
    ASSUME DirectoryOK, NEW u \in Users, NEW role \in Roles
    PROVE  /\ ReqOK(Req("add", u, role, "none", "join", {}))
           /\ ReqOK(Req("role", u, role, RoleOf(member[u]), "leave", {}))
           /\ ReqOK(Req("remove", u, "none", RoleOf(member[u]), "leave", {}))
<1>1. RoleOf(member[u]) \in Roles
  BY RoleTypes DEF DirectoryOK
<1>2. /\ {"leave", "join"} \subseteq Stages
      /\ "join" \in StagesOf("add") /\ "leave" \in StagesOf("role") /\ "leave" \in StagesOf("remove")
  BY DEF Stages, StagesOf
<1> QED
  BY <1>1, <1>2 DEF ReqOK, Req, Reqs, MemberOps

-----------------------------------------------------------------------------
(* The groups.                                                              *)

\* The inductive invariant of a user that nothing spoiled: one handler at a
\* time works for the user, and what it knows agrees with the record and the
\* groups as far as it has got.
Right(u) == groups[u] \subseteq GroupsOf(member[u])

InHand(r, u) ==
    /\ (r.stage = "join" /\ r.op = "add") =>
          Right(u) /\ member[u].kind # "none" /\ RoleOf(member[u]) = r.role
    /\ r.stage \in {"propagate", "mark", "leave", "groups", "archive", "restore"} => Right(u)
    /\ r.stage = "leave" => RoleOf(member[u]) = r.old
    /\ (r.stage \in {"lock", "delete"} \/ (r.stage = "join" /\ r.op = "role")) => groups[u] = {}
    /\ r.stage = "write" => groups[u] \subseteq {r.role}
    /\ r.stage = "restore" =>
          \A t \in r.todo : t.user = u => member[u].kind = "member" /\ RoleOf(member[u]) = t.role

WorksFor(q, u) == Working(q) /\ Concerns(q, u)

Safe(u) ==
    /\ \A p, q \in Requests : WorksFor(p, u) /\ WorksFor(q, u) => p = q
    /\ \A q \in Requests : WorksFor(q, u) => InHand(reqs[q], u)
    /\ ~Busy(u) => Right(u)

GroupsInv == \A u \in Users \ spoiled : Safe(u)

LEMMA InvImpliesGroups == GroupsInv => GroupsFollowRecords
  BY DEF GroupsInv, Safe, GroupsFollowRecords, Right

\* Steps that concern others.
Aside(u) ==
    /\ groups'[u] = groups[u]
    /\ Alike(member[u], member'[u])
    /\ \A q \in Requests :
          \/ reqs'[q] = reqs[q]
          \/ ~WorksFor(q, u) /\ ~WorksFor(q, u)'

LEMMA AsideSafe ==
    ASSUME NEW u \in Users, Safe(u), Aside(u)
    PROVE  Safe(u)'
<1>1. GroupsOf(member[u]) \subseteq GroupsOf(member'[u])
  BY DEF Aside, Alike, GroupsOf
<1>2. \A q \in Requests : WorksFor(q, u)' <=> WorksFor(q, u)
  BY DEF Aside, WorksFor, Working, Concerns
<1>3. \A q \in Requests : WorksFor(q, u) => reqs'[q] = reqs[q]
  BY DEF Aside
<1>4. Right(u) => Right(u)'
  BY <1>1 DEF Right, Aside
<1>5. \A q \in Requests : WorksFor(q, u)' => InHand(reqs[q], u)'
  <2> SUFFICES ASSUME NEW q \in Requests, InHand(reqs[q], u), reqs'[q] = reqs[q]
               PROVE  InHand(reqs[q], u)'
    BY <1>2, <1>3 DEF Safe
  <2> QED
    BY <1>4 DEF InHand, Aside, Alike
<1>6. ~Busy(u)' => Right(u)'
  BY <1>2, <1>4 DEF Safe, Busy, WorksFor
<1> QED
  BY <1>2, <1>5, <1>6 DEF Safe

\* Steps of the one handler that works for u, or will.
LEMMA OwnSafe ==
    ASSUME NEW u \in Users, NEW q \in Requests, Others(q),
           \A p \in Requests \ {q} : ~WorksFor(p, u),
           WorksFor(q, u)' => InHand(reqs[q], u)',
           ~WorksFor(q, u)' => Right(u)'
    PROVE  Safe(u)'
<1>1. \A p \in Requests \ {q} : ~WorksFor(p, u)'
  BY DEF Others, WorksFor, Working, Concerns
<1>2. ~Busy(u)' => ~WorksFor(q, u)'
  BY DEF Busy, WorksFor
<1> QED
  BY <1>1, <1>2 DEF Safe

\* A step of q that keeps the history, changes the item and the groups of its
\* own user at most, and either ends or goes on in good order.
LEMMA MemberStep ==
    ASSUME DirectoryOK, GroupsInv, NEW q \in Requests, Working(q), reqs[q].op \in MemberOps,
           NEW v, v = reqs[q].user,
           Others(q), ReqsShape, ReqOK(reqs'[q]),
           reqs'[q].stage \notin {"unused", "done"} => Fields(reqs[q], reqs'[q]),
           spoiled \subseteq spoiled', spoiled' \subseteq Users,
           UNCHANGED project,
           NEW g \in SUBSET Roles, NEW m, MemberOK(m),
           UNCHANGED groups \/ groups' = [groups EXCEPT ![v] = g],
           UNCHANGED member \/ member' = [member EXCEPT ![v] = m],
           v \notin spoiled' =>
               IF reqs'[q].stage \in {"unused", "done"} THEN Right(v)' ELSE InHand(reqs[q], v)'
    PROVE  DirectoryOK' /\ GroupsInv'
<1>0. v \in Users
  BY DEF DirectoryOK, ReqOK, Working
<1>1. DirectoryOK'
  <2>1. /\ DOMAIN member' = Users /\ member' = [u \in Users |-> member'[u]]
        /\ \A u \in Users : MemberOK(member'[u])
    BY <1>0 DEF DirectoryOK
  <2>2. groups' \in [Users -> SUBSET Roles]
    BY <1>0 DEF DirectoryOK
  <2>3. \A p \in Requests : ReqOK(reqs'[p])
    BY DEF DirectoryOK, Others
  <2> QED
    BY <2>1, <2>2, <2>3 DEF DirectoryOK, ReqsShape, MemberOK, ReqOK
<1>2. ASSUME NEW u \in Users \ spoiled'
      PROVE  Safe(u)'
  <2>0. Safe(u)
    BY DEF GroupsInv
  <2>1. CASE u = v
    <3>1. WorksFor(q, u)
      BY <2>1 DEF WorksFor, Concerns
    <3>2. \A p \in Requests \ {q} : ~WorksFor(p, u)
      BY <2>0, <3>1 DEF Safe
    <3>3. WorksFor(q, u)' => InHand(reqs[q], u)'
      BY <2>1 DEF WorksFor, Working
    <3>4. ~WorksFor(q, u)' => Right(u)'
      BY <2>1 DEF WorksFor, Working, Concerns, Fields
    <3> QED
      BY <3>2, <3>3, <3>4, OwnSafe
  <2>2. CASE u # v
    <3>1. ~WorksFor(q, u)
      BY <2>2 DEF WorksFor, Concerns, MemberOps, ProjectOps
    <3>2. ~WorksFor(q, u)'
      BY <2>2 DEF WorksFor, Working, Concerns, Fields, MemberOps, ProjectOps
    <3>3. groups'[u] = groups[u] /\ member'[u] = member[u]
      BY <1>0, <2>2 DEF DirectoryOK
    <3>4. Aside(u)
      BY <3>1, <3>2, <3>3 DEF Aside, Alike, Others
    <3> QED
      BY <2>0, <3>4, AsideSafe
  <2> QED
    BY <2>1, <2>2
<1> QED
  BY <1>1, <1>2 DEF GroupsInv

LEMMA StageOp ==
    ASSUME DirectoryOK, NEW q \in Requests, Working(q)
    PROVE  /\ reqs[q].stage \in StagesOf(reqs[q].op)
           /\ At(q, "leave") => reqs[q].op \in {"role", "remove"} /\ reqs[q].old \in Roles
           /\ At(q, "join") => reqs[q].op \in {"add", "role"} /\ reqs[q].role \in Roles
           /\ At(q, "propagate") \/ At(q, "mark") => reqs[q].op = "add"
           /\ At(q, "write") => reqs[q].op = "role" /\ reqs[q].role \in Roles
           /\ At(q, "lock") \/ At(q, "delete") => reqs[q].op = "remove"
           /\ At(q, "groups") \/ At(q, "archive") => reqs[q].op = "deactivate"
           /\ At(q, "restore") => reqs[q].op = "reactivate"
           /\ reqs[q].op \in MemberOps => reqs[q].user \in Users
<1>1. ReqOK(reqs[q]) /\ reqs[q].op \in MemberOps \cup ProjectOps
  BY DEF DirectoryOK, ReqOK, Reqs
<1> QED
  BY <1>1 DEF ReqOK, Working, At, StagesOf, MemberOps, ProjectOps

LEMMA Holder ==
    ASSUME GroupsInv, NEW q \in Requests, NEW u \in Users \ spoiled, WorksFor(q, u)
    PROVE  /\ InHand(reqs[q], u)
           /\ \A p \in Requests \ {q} : ~WorksFor(p, u)
  BY DEF GroupsInv, Safe

\* The steps of add_member, change_member_role and remove_member.
LEMMA MemberHandlers ==
    ASSUME DirectoryOK, GroupsInv, NEW q \in Requests,
           LeaveGroup(q) \/ JoinGroup(q) \/ PropagateMember(q) \/ MarkPending(q)
               \/ WriteRole(q) \/ LockAccount(q) \/ DeleteMember(q)
    PROVE  DirectoryOK' /\ GroupsInv'
<1> DEFINE v == reqs[q].user
<1>1. Working(q)
  BY DEF LeaveGroup, JoinGroup, PropagateMember, MarkPending, WriteRole, LockAccount,
         DeleteMember, At, Working
<1>2. reqs[q].op \in MemberOps /\ v \in Users
  BY <1>1, StageOp DEF LeaveGroup, JoinGroup, PropagateMember, MarkPending, WriteRole,
         LockAccount, DeleteMember, MemberOps
<1>3. /\ MemberOK(member[v]) /\ groups[v] \in SUBSET Roles /\ spoiled \subseteq Users
      /\ GroupsOf(member[v]) \subseteq {RoleOf(member[v])} /\ MemberOK(NoMember)
  BY <1>2, RoleTypes, FixedItems DEF DirectoryOK
<1>4. v \notin spoiled => InHand(reqs[q], v)
  BY <1>1, <1>2, Holder DEF WorksFor, Concerns
<1>5. PICK w : w = v
  OBVIOUS
<1> HIDE DEF v
<1>6. w = reqs[q].user
  BY <1>5 DEF v
<1>7. ASSUME LeaveGroup(q) PROVE DirectoryOK' /\ GroupsInv'
  <2>1. PICK s \in {"join", "lock"} : s = IF reqs[q].op = "role" THEN "join" ELSE "lock"
    OBVIOUS
  <2>2. /\ Goto(q, s) /\ s # "leave" /\ s \in StagesOf(reqs[q].op)
        /\ At(q, "leave")
        /\ UNCHANGED <<project, member>>
    BY <1>1, <1>7, <2>1, StageOp DEF LeaveGroup, StagesOf
  <2>3. /\ ReqsShape /\ Others(q)
        /\ reqs'[q].stage = s /\ Fields(reqs[q], reqs'[q])
        /\ ReqOK(reqs'[q])
    BY <1>1, <2>2, GotoStage
  <2> DEFINE g == groups[w] \ {reqs[q].old}
  <2>4. \/ groups' = [groups EXCEPT ![w] = g] /\ UNCHANGED spoiled
        \/ UNCHANGED groups /\ spoiled' = spoiled \cup {w}
    BY <1>6, <1>7 DEF LeaveGroup
  <2>5. g \in SUBSET Roles /\ (w \notin spoiled => g = {})
    BY <1>3, <1>4, <1>5, <2>2 DEF At, InHand, Right
  <2> HIDE DEF g
  <2>6. w \notin spoiled' => groups'[w] = {}
    BY <1>2, <1>5, <2>4, <2>5 DEF DirectoryOK
  <2>7. w \notin spoiled' => InHand(reqs[q], w)'
    BY <2>1, <2>3, <2>6 DEF InHand, Fields
  <2>8. spoiled \subseteq spoiled' /\ spoiled' \subseteq Users
    BY <1>2, <1>3, <1>5, <2>4
  <2> QED
    BY <1>1, <1>2, <1>3, <1>6, <2>2, <2>3, <2>4, <2>5, <2>7, <2>8, MemberStep
<1>8. ASSUME JoinGroup(q) PROVE DirectoryOK' /\ GroupsInv'
  <2>1. PICK s \in {"propagate", "write"} : s = IF reqs[q].op = "add" THEN "propagate" ELSE "write"
    OBVIOUS
  <2>2. /\ Goto(q, s) /\ s # "leave" /\ s \in StagesOf(reqs[q].op)
        /\ At(q, "join") /\ reqs[q].role \in Roles /\ reqs[q].op \in {"add", "role"}
        /\ UNCHANGED <<project, member, spoiled>>
    BY <1>1, <1>8, <2>1, StageOp DEF JoinGroup, StagesOf
  <2>3. /\ ReqsShape /\ Others(q)
        /\ reqs'[q].stage = s /\ Fields(reqs[q], reqs'[q])
        /\ ReqOK(reqs'[q])
    BY <1>1, <2>2, GotoStage
  <2> DEFINE g == groups[w] \cup {reqs[q].role}
  <2>4. groups' = [groups EXCEPT ![w] = g] \/ UNCHANGED groups
    BY <1>6, <1>8 DEF JoinGroup
  <2>5. g \in SUBSET Roles
    BY <1>3, <1>5, <2>2
  <2>6. groups'[w] \subseteq g
    BY <1>2, <1>5, <2>4 DEF DirectoryOK
  <2>7. CASE reqs[q].op = "add"
    <3>1. w \notin spoiled => g \subseteq GroupsOf(member[w])
      BY <1>4, <1>5, <2>2, <2>7 DEF At, InHand, Right, GroupsOf
    <3>2. w \notin spoiled' => InHand(reqs[q], w)'
      BY <2>1, <2>2, <2>3, <2>6, <2>7, <3>1 DEF InHand, Right
    <3> HIDE DEF g
    <3> QED
      BY <1>1, <1>2, <1>3, <1>6, <2>2, <2>3, <2>4, <2>5, <3>2, MemberStep
  <2>8. CASE reqs[q].op = "role"
    <3>1. w \notin spoiled => g \subseteq {reqs[q].role}
      BY <1>4, <1>5, <2>2, <2>8 DEF At, InHand
    <3>2. w \notin spoiled' => InHand(reqs[q], w)'
      BY <2>1, <2>2, <2>3, <2>6, <2>8, <3>1 DEF InHand, Fields
    <3> HIDE DEF g
    <3> QED
      BY <1>1, <1>2, <1>3, <1>6, <2>2, <2>3, <2>4, <2>5, <3>2, MemberStep
  <2> QED
    BY <2>2, <2>7, <2>8
<1>9. ASSUME PropagateMember(q) PROVE DirectoryOK' /\ GroupsInv'
  <2>1. /\ At(q, "propagate") /\ reqs[q].op = "add"
        /\ Done(q) \/ Goto(q, "mark")
        /\ UNCHANGED <<project, member, groups, spoiled>>
    BY <1>1, <1>9, StageOp DEF PropagateMember, directory
  <2>2. /\ ReqsShape /\ Others(q) /\ ReqOK(reqs'[q])
        /\ \/ reqs'[q].stage = "done"
           \/ reqs'[q].stage = "mark" /\ Fields(reqs[q], reqs'[q])
    BY <1>1, <2>1, GotoStage, DoneStage DEF StagesOf
  <2>3. w \notin spoiled => Right(w)'
    BY <1>4, <1>5, <2>1 DEF At, InHand, Right
  <2>4. w \notin spoiled' =>
            IF reqs'[q].stage \in {"unused", "done"} THEN Right(w)' ELSE InHand(reqs[q], w)'
    BY <2>1, <2>2, <2>3 DEF InHand
  <2> QED
    BY <1>1, <1>2, <1>3, <1>6, <2>1, <2>2, <2>4, MemberStep
<1>10. ASSUME MarkPending(q) PROVE DirectoryOK' /\ GroupsInv'
  <2> DEFINE m == [Touched(member[w]) EXCEPT !.mark = "PENDING_PROPAGATION"]
  <2>1. /\ At(q, "mark") /\ Done(q)
        /\ UNCHANGED <<project, groups, spoiled>>
        /\ member' = [member EXCEPT ![w] = m]
    BY <1>6, <1>10 DEF MarkPending
  <2>2. MemberOK(m) /\ Alike(member[w], m)
    BY <1>3, <1>5, MarkedItem DEF Marks
  <2>3. ReqsShape /\ Others(q) /\ ReqOK(reqs'[q]) /\ reqs'[q].stage = "done"
    BY <2>1, DoneStage
  <2> HIDE DEF m
  <2>4. member'[w] = m
    BY <1>2, <1>5, <2>1 DEF DirectoryOK
  <2>5. w \notin spoiled => Right(w)'
    BY <1>4, <1>5, <2>1, <2>2, <2>4 DEF At, InHand, Right, Alike, GroupsOf
  <2> QED
    BY <1>1, <1>2, <1>3, <1>6, <2>1, <2>2, <2>3, <2>5, MemberStep
<1>11. ASSUME WriteRole(q) PROVE DirectoryOK' /\ GroupsInv'
  <2> DEFINE m == [Touched(member[w]) EXCEPT !.role = reqs[q].role]
  <2>1. /\ At(q, "write") /\ Done(q) /\ reqs[q].role \in Roles
        /\ UNCHANGED <<project, groups, spoiled>>
        /\ member' = [member EXCEPT ![w] = m]
    BY <1>1, <1>6, <1>11, StageOp DEF WriteRole
  <2>2. MemberOK(m) /\ GroupsOf(m) = {reqs[q].role}
    BY <1>3, <1>5, <2>1, ItemWithRole
  <2>3. ReqsShape /\ Others(q) /\ ReqOK(reqs'[q]) /\ reqs'[q].stage = "done"
    BY <2>1, DoneStage
  <2> HIDE DEF m
  <2>4. member'[w] = m
    BY <1>2, <1>5, <2>1 DEF DirectoryOK
  <2>5. w \notin spoiled => Right(w)'
    BY <1>4, <1>5, <2>1, <2>2, <2>4 DEF At, InHand, Right
  <2> QED
    BY <1>1, <1>2, <1>3, <1>6, <2>1, <2>2, <2>3, <2>5, MemberStep
<1>12. ASSUME LockAccount(q) PROVE DirectoryOK' /\ GroupsInv'
  <2>1. /\ At(q, "lock") /\ reqs[q].op = "remove" /\ Goto(q, "delete")
        /\ UNCHANGED <<project, member, groups, spoiled>>
    BY <1>1, <1>12, StageOp DEF LockAccount, directory
  <2>2. /\ ReqsShape /\ Others(q) /\ ReqOK(reqs'[q])
        /\ reqs'[q].stage = "delete" /\ Fields(reqs[q], reqs'[q])
    BY <1>1, <2>1, GotoStage DEF StagesOf
  <2>3. w \notin spoiled' => InHand(reqs[q], w)'
    BY <1>4, <1>5, <2>1, <2>2 DEF At, InHand
  <2> QED
    BY <1>1, <1>2, <1>3, <1>6, <2>1, <2>2, <2>3, MemberStep
<1>13. ASSUME DeleteMember(q) PROVE DirectoryOK' /\ GroupsInv'
  <2>1. /\ At(q, "delete") /\ Done(q)
        /\ UNCHANGED <<project, groups, spoiled>>
        /\ member' = [member EXCEPT ![w] = NoMember]
    BY <1>6, <1>13 DEF DeleteMember
  <2>2. ReqsShape /\ Others(q) /\ ReqOK(reqs'[q]) /\ reqs'[q].stage = "done"
    BY <2>1, DoneStage
  <2>3. w \notin spoiled => Right(w)'
    BY <1>4, <1>5, <2>1 DEF At, InHand, Right
  <2> QED
    BY <1>1, <1>2, <1>3, <1>6, <2>1, <2>2, <2>3, MemberStep
<1> QED
  BY <1>7, <1>8, <1>9, <1>10, <1>11, <1>12, <1>13

\* A request that is accepted, for one user or for all, begins in good order;
\* a new item at most has been put for its user.
ItemsOK ==
    /\ DOMAIN member' = Users /\ member' = [u \in Users |-> member'[u]]
    /\ \A u \in Users : MemberOK(member'[u])

LEMMA AcceptStep ==
    ASSUME DirectoryOK, GroupsInv, NEW q \in Requests, NEW op, NEW us, NEW r,
           us = {u \in Users : r.op \in ProjectOps \/ r.user = u},
           ReqOK(r), r.stage \notin {"unused", "done"}, Accept(q, op, us, r),
           UNCHANGED <<project, groups>>, ItemsOK,
           \A u \in Users \ us : member'[u] = member[u],
           \A u \in us \ spoiled : Right(u) => InHand(r, u)'
    PROVE  DirectoryOK' /\ GroupsInv'
<1>1. /\ ReqsShape /\ Others(q) /\ ~Working(q) /\ reqs'[q] = r
      /\ spoiled' \subseteq Users
      /\ \A u \in us \ spoiled' : ~Busy(u)
  BY AcceptStage
<1>2. spoiled \subseteq spoiled'
  BY DEF Accept
<1>3. DirectoryOK'
  <2>1. \A p \in Requests : ReqOK(reqs'[p])
    BY <1>1 DEF DirectoryOK, Others
  <2> QED
    BY <1>1, <2>1 DEF DirectoryOK, ReqsShape, ItemsOK, MemberOK, ReqOK
<1>4. ASSUME NEW u \in Users \ spoiled'
      PROVE  Safe(u)'
  <2>0. Safe(u)
    BY <1>2 DEF GroupsInv
  <2>1. CASE u \in us
    <3>1. Right(u) /\ \A p \in Requests : ~WorksFor(p, u)
      BY <1>1, <2>0, <2>1 DEF Safe, Busy, WorksFor
    <3>2. InHand(r, u)'
      BY <1>2, <2>1, <3>1
    <3>3. WorksFor(q, u)'
      BY <1>1, <2>1 DEF WorksFor, Working, Concerns
    <3>4. InHand(reqs[q], u)'
      BY <1>1, <3>2 DEF InHand
    <3> QED
      BY <1>1, <3>1, <3>3, <3>4, OwnSafe
  <2>2. CASE u \notin us
    <3>1. ~WorksFor(q, u) /\ ~WorksFor(q, u)'
      BY <1>1, <2>2 DEF WorksFor, Concerns
    <3>2. Aside(u)
      BY <1>1, <2>2, <3>1 DEF Aside, Alike, Others
    <3> QED
      BY <2>0, <3>2, AsideSafe
  <2> QED
    BY <2>1, <2>2
<1> QED
  BY <1>3, <1>4 DEF GroupsInv

LEMMA MemberRequestsBegin ==
    ASSUME DirectoryOK, GroupsInv, NEW q \in Requests,
           AddMember(q) \/ ChangeRole(q) \/ RemoveMember(q)
    PROVE  DirectoryOK' /\ GroupsInv'
<1>1. CASE AddMember(q)
  <2>1. PICK u \in Users, role \in Roles :
            /\ member[u].kind = "none"
            /\ member' = [member EXCEPT ![u] = NewMember(role)]
            /\ Accept(q, "add", {u}, Req("add", u, role, "none", "join", {}))
            /\ UNCHANGED <<project, groups>>
    BY <1>1 DEF AddMember
  <2> DEFINE r == Req("add", u, role, "none", "join", {})
  <2>2. /\ ReqOK(r) /\ r.op = "add" /\ r.user = u /\ r.role = role /\ r.stage = "join"
    BY FirstRequests DEF Req
  <2>3. Accept(q, "add", {u}, r)
    BY <2>1
  <2>4. /\ member'[u] = NewMember(role) /\ ItemsOK
        /\ \A v \in Users \ {u} : member'[v] = member[v]
    BY <2>1, FixedItems DEF DirectoryOK, ItemsOK
  <2> HIDE DEF r
  <2>5. {u} = {v \in Users : r.op \in ProjectOps \/ r.user = v}
    BY <2>2 DEF ProjectOps
  <2>6. Right(u) => groups'[u] = {}
    BY <2>1 DEF Right, GroupsOf
  <2>7. member'[u].kind = "member" /\ RoleOf(member'[u]) = role
    BY <2>4, FixedItems DEF RoleOf, Roles
  <2>8. Right(u) => InHand(r, u)'
    BY <2>2, <2>6, <2>7 DEF InHand, Right
  <2> QED
    BY <2>1, <2>2, <2>3, <2>4, <2>5, <2>8, AcceptStep
<1>2. CASE ChangeRole(q) \/ RemoveMember(q)
  <2>0. PICK u \in Users, op \in {"role", "remove"} : \E r :
            /\ ReqOK(r) /\ r.op = op /\ r.user = u /\ r.old = RoleOf(member[u])
            /\ r.stage = "leave"
            /\ Accept(q, op, {u}, r)
            /\ UNCHANGED <<project, member, groups>>
    <3>1. ASSUME ChangeRole(q)
          PROVE  \E u \in Users, role \in Roles :
                    /\ Accept(q, "role", {u}, Req("role", u, role, RoleOf(member[u]), "leave", {}))
                    /\ UNCHANGED <<project, member, groups>>
      BY <3>1 DEF ChangeRole
    <3>2. ASSUME RemoveMember(q)
          PROVE  \E u \in Users :
                    /\ Accept(q, "remove", {u}, Req("remove", u, "none", RoleOf(member[u]), "leave", {}))
                    /\ UNCHANGED <<project, member, groups>>
      BY <3>2 DEF RemoveMember
    <3>3. \A u \in Users, role \in Roles :
              LET r == Req("role", u, role, RoleOf(member[u]), "leave", {})
              IN  ReqOK(r) /\ r.op = "role" /\ r.user = u /\ r.old = RoleOf(member[u])
                      /\ r.stage = "leave"
      BY FirstRequests DEF Req
    <3>4. \A u \in Users :
              LET r == Req("remove", u, "none", RoleOf(member[u]), "leave", {})
              IN  ReqOK(r) /\ r.op = "remove" /\ r.user = u /\ r.old = RoleOf(member[u])
                      /\ r.stage = "leave"
      BY FirstRequests DEF Req, Roles
    <3>5. CASE ChangeRole(q)
      BY <3>1, <3>3, <3>5
    <3>6. CASE RemoveMember(q)
      BY <3>2, <3>4, <3>6
    <3> QED
      BY <1>2, <3>5, <3>6
  <2>1. PICK r :
            /\ ReqOK(r) /\ r.op = op /\ r.user = u /\ r.old = RoleOf(member[u])
            /\ r.stage = "leave"
            /\ Accept(q, op, {u}, r)
            /\ UNCHANGED <<project, member, groups>>
    BY <2>0
  <2>2. {u} = {v \in Users : r.op \in ProjectOps \/ r.user = v}
    BY <2>1 DEF ProjectOps
  <2>3. ItemsOK
    BY <2>1 DEF ItemsOK, DirectoryOK
  <2>4. Right(u) => InHand(r, u)'
    BY <2>1 DEF InHand, Right
  <2> QED
    BY <2>1, <2>2, <2>3, <2>4, AcceptStep
<1> QED
  BY <1>1, <1>2

LEMMA ProjectRequestsBegin ==
    ASSUME DirectoryOK, GroupsInv, NEW q \in Requests, Deactivate(q) \/ Reactivate(q)
    PROVE  DirectoryOK' /\ GroupsInv'
<1>0. /\ ItemsOK /\ UNCHANGED <<project, member, groups>>
  BY DEF ItemsOK, DirectoryOK, Deactivate, Reactivate
<1>1. CASE Deactivate(q)
  <2> DEFINE r == Req("deactivate", None, "none", "none", "groups", {})
  <2>1. ReqOK(r) /\ r.op = "deactivate" /\ r.stage = "groups"
    BY DEF Req, ReqOK, Reqs, Stages, StagesOf, MemberOps, ProjectOps
  <2>2. Accept(q, "deactivate", Users, r)
    BY <1>1 DEF Deactivate
  <2> HIDE DEF r
  <2>3. Users = {v \in Users : r.op \in ProjectOps \/ r.user = v}
    BY <2>1 DEF ProjectOps
  <2>4. \A u \in Users : Right(u) => InHand(r, u)'
    BY <1>0, <2>1 DEF InHand, Right
  <2> QED
    BY <1>0, <2>1, <2>2, <2>3, <2>4, AcceptStep
<1>2. CASE Reactivate(q)
  <2>0. PICK r : r = Req("reactivate", None, "none", "none", "restore", Listed)
    OBVIOUS
  <2>1. /\ Listed \subseteq Snapshot
        /\ \A t \in Listed : /\ t.user \in Users
                             /\ member[t.user].kind = "member"
                             /\ t.role = RoleOf(member[t.user])
    <3>1. \A u \in Users : RoleOf(member[u]) \in Roles
      BY RoleTypes DEF DirectoryOK
    <3>2. \A u \in Users : Seen(u) \in Snapshot /\ Seen(u).user = u
                               /\ Seen(u).role = RoleOf(member[u])
      BY <3>1 DEF Seen, Snapshot
    <3> QED
      BY <3>2 DEF Listed
  <2>2. ReqOK(r) /\ r.op = "reactivate" /\ r.stage = "restore" /\ r.todo = Listed
    BY <2>0, <2>1 DEF Req, ReqOK, Reqs, Stages, StagesOf, MemberOps, ProjectOps
  <2>3. Accept(q, "reactivate", Users, r)
    BY <1>2, <2>0 DEF Reactivate
  <2>4. Users = {v \in Users : r.op \in ProjectOps \/ r.user = v}
    BY <2>2 DEF ProjectOps
  <2>5. \A u \in Users : Right(u) => InHand(r, u)'
    BY <1>0, <2>1, <2>2 DEF InHand, Right
  <2> QED
    BY <1>0, <2>2, <2>3, <2>4, <2>5, AcceptStep
<1> QED
  BY <1>1, <1>2

\* The steps of deactivate_project and reactivate_project.
LEMMA ProjectStep ==
    ASSUME DirectoryOK, GroupsInv, NEW q \in Requests, Working(q), reqs[q].op \in ProjectOps,
           Others(q), ReqsShape, ReqOK(reqs'[q]), reqs'[q].op \in MemberOps \cup ProjectOps,
           reqs'[q].stage \notin {"unused", "done"} => reqs'[q].op = reqs[q].op,
           project' \in {"ACTIVE", "ARCHIVED"}, UNCHANGED spoiled,
           groups' \in [Users -> SUBSET Roles], ItemsOK,
           \A u \in Users \ spoiled : InHand(reqs[q], u) => Right(u)',
           \A u \in Users \ spoiled : InHand(reqs[q], u) => InHand(reqs[q], u)'
    PROVE  DirectoryOK' /\ GroupsInv'
<1>1. DirectoryOK'
  <2>1. \A p \in Requests : ReqOK(reqs'[p])
    BY DEF DirectoryOK, Others
  <2> QED
    BY <2>1 DEF DirectoryOK, ReqsShape, ItemsOK, MemberOK, ReqOK
<1>2. ASSUME NEW u \in Users \ spoiled
      PROVE  Safe(u)'
  <2>1. WorksFor(q, u)
    BY DEF WorksFor, Concerns
  <2>2. InHand(reqs[q], u) /\ \A p \in Requests \ {q} : ~WorksFor(p, u)
    BY <2>1, Holder
  <2> QED
    BY <2>2, OwnSafe
<1> QED
  BY <1>1, <1>2 DEF GroupsInv

LEMMA ProjectHandlers ==
    ASSUME DirectoryOK, GroupsInv, NEW q \in Requests,
           DeleteGroups(q) \/ Archive(q) \/ RestoreMember(q) \/ Unarchive(q)
    PROVE  DirectoryOK' /\ GroupsInv'
<1>1. Working(q)
  BY DEF DeleteGroups, Archive, RestoreMember, Unarchive, At, Working
<1>2. reqs[q].op \in ProjectOps
  BY <1>1, StageOp DEF DeleteGroups, Archive, RestoreMember, Unarchive, ProjectOps
<1>3. CASE DeleteGroups(q)
  <2>1. PICK kept \in SUBSET Roles :
            /\ groups' = [u \in Users |-> groups[u] \cap kept]
            /\ At(q, "groups") /\ Goto(q, "archive")
            /\ UNCHANGED <<project, member, spoiled>>
    BY <1>3 DEF DeleteGroups
  <2>2. /\ ReqsShape /\ Others(q) /\ ReqOK(reqs'[q])
        /\ reqs'[q].stage = "archive" /\ Fields(reqs[q], reqs'[q])
    BY <1>1, <2>1, StageOp, GotoStage DEF StagesOf
  <2>3. groups' \in [Users -> SUBSET Roles] /\ ItemsOK
    BY <2>1 DEF DirectoryOK, ItemsOK
  <2>4. \A u \in Users : InHand(reqs[q], u) => Right(u)'
    BY <2>1 DEF At, InHand, Right
  <2>5. \A u \in Users : InHand(reqs[q], u) => InHand(reqs[q], u)'
    BY <2>2, <2>4 DEF InHand
  <2> QED
    BY <1>1, <1>2, <2>1, <2>2, <2>3, <2>4, <2>5, ProjectStep DEF DirectoryOK, Fields
<1>4. CASE Archive(q) \/ Unarchive(q)
  <2>1. /\ reqs[q].stage \in {"archive", "restore"} /\ Done(q)
        /\ project' \in {"ACTIVE", "ARCHIVED"}
        /\ UNCHANGED <<member, groups, spoiled>>
    BY <1>4 DEF Archive, Unarchive, At, directory
  <2>2. ReqsShape /\ Others(q) /\ ReqOK(reqs'[q]) /\ reqs'[q].stage = "done"
    BY <2>1, DoneStage
  <2>3. \A u \in Users : InHand(reqs[q], u) => Right(u)' /\ InHand(reqs[q], u)'
    BY <2>1, <2>2 DEF InHand, Right
  <2>4. groups' \in [Users -> SUBSET Roles] /\ ItemsOK
    BY <2>1 DEF DirectoryOK, ItemsOK
  <2> QED
    BY <1>1, <1>2, <2>1, <2>2, <2>3, <2>4, ProjectStep DEF ReqOK, Reqs
<1>5. CASE RestoreMember(q)
  <2>1. PICK t \in reqs[q].todo :
          /\ reqs' = [reqs EXCEPT ![q].todo = @ \ {t}]
          /\ \/ /\ groups' = [groups EXCEPT ![t.user] = @ \cup {t.role}]
                /\ \/ UNCHANGED member
                   \/ \E m \in Unmarked(member[t.user]) :
                            member' = [member EXCEPT ![t.user] = m]
             \/ /\ member' = [member EXCEPT ![t.user] =
                                 [Touched(@) EXCEPT !.mark = "PENDING_RESTORATION"]]
                /\ UNCHANGED groups
    BY <1>5 DEF RestoreMember
  <2>2. At(q, "restore") /\ UNCHANGED <<project, spoiled>> /\ ReqOK(reqs[q])
    BY <1>5 DEF RestoreMember, DirectoryOK
  <2>3. t.user \in Users /\ t.role \in Roles /\ reqs[q].todo \in SUBSET Snapshot
    BY <2>2 DEF ReqOK, Reqs, Snapshot
  <2>4. /\ ReqsShape /\ Others(q) /\ ReqOK(reqs'[q])
        /\ reqs'[q].stage = "restore" /\ reqs'[q].op = reqs[q].op
        /\ reqs'[q].todo \subseteq reqs[q].todo
    <3>1. reqs' = [reqs EXCEPT ![q] = [reqs[q] EXCEPT !.todo = @ \ {t}]]
      BY <2>1
    <3> DEFINE r == [reqs[q] EXCEPT !.todo = @ \ {t}]
    <3>2. ReqOK(r) /\ r.stage = "restore" /\ r.op = reqs[q].op /\ r.todo \subseteq reqs[q].todo
      BY <2>2, <2>3 DEF At, ReqOK, Reqs
    <3>3. reqs' = [reqs EXCEPT ![q] = r]
      BY <3>1
    <3> HIDE DEF r
    <3> QED
      BY <3>2, <3>3 DEF DirectoryOK, ReqsShape, Others
  <2>5. ItemsOK /\ \A u \in Users : Alike(member[u], member'[u])
    <3>1. CASE UNCHANGED member
      BY <3>1 DEF DirectoryOK, ItemsOK, Alike
    <3>2. ASSUME NEW m, MemberOK(m), Alike(member[t.user], m),
                 member' = [member EXCEPT ![t.user] = m]
          PROVE  ItemsOK /\ \A u \in Users : Alike(member[u], member'[u])
      BY <2>3, <3>2 DEF DirectoryOK, ItemsOK, Alike
    <3>3. MemberOK(member[t.user])
      BY <2>3 DEF DirectoryOK
    <3>4. CASE \E m \in Unmarked(member[t.user]) : member' = [member EXCEPT ![t.user] = m]
      BY <3>2, <3>3, <3>4, UnmarkedItem
    <3>5. CASE member' = [member EXCEPT ![t.user] =
                             [Touched(@) EXCEPT !.mark = "PENDING_RESTORATION"]]
      <4> DEFINE m == [Touched(member[t.user]) EXCEPT !.mark = "PENDING_RESTORATION"]
      <4>1. member' = [member EXCEPT ![t.user] = m]
        BY <3>5
      <4>2. MemberOK(m) /\ Alike(member[t.user], m)
        BY <3>3, MarkedItem DEF Marks
      <4> HIDE DEF m
      <4> QED
        BY <3>2, <4>1, <4>2
    <3> QED
      BY <2>1, <3>1, <3>4, <3>5
  <2>6. /\ groups' \in [Users -> SUBSET Roles]
        /\ \A u \in Users : groups'[u] \subseteq groups[u] \cup (IF u = t.user THEN {t.role} ELSE {})
    BY <2>1, <2>3 DEF DirectoryOK
  <2>7. \A u \in Users : InHand(reqs[q], u) => Right(u)'
    <3> SUFFICES ASSUME NEW u \in Users, InHand(reqs[q], u) PROVE Right(u)'
      OBVIOUS
    <3>1. GroupsOf(member[u]) \subseteq GroupsOf(member'[u])
      BY <2>5 DEF Alike, GroupsOf
    <3>2. Right(u)
      BY <2>2 DEF At, InHand
    <3>3. CASE u = t.user
      <4>1. GroupsOf(member[u]) = {t.role}
        BY <2>1, <2>2, <3>3 DEF At, InHand, GroupsOf
      <4> QED
        BY <2>6, <3>1, <3>2, <3>3, <4>1 DEF Right
    <3>4. CASE u # t.user
      BY <2>6, <3>1, <3>2, <3>4 DEF Right
    <3> QED
      BY <3>3, <3>4
  <2>8. \A u \in Users : InHand(reqs[q], u) => InHand(reqs[q], u)'
    BY <2>2, <2>4, <2>5, <2>7 DEF At, InHand, Alike
  <2> QED
    BY <1>1, <1>2, <2>2, <2>4, <2>5, <2>6, <2>7, <2>8, ProjectStep DEF DirectoryOK, ReqOK, Reqs
<1> QED
  BY <1>3, <1>4, <1>5

\* Steps that leave the requests alone: those of login nodes and of the
\* reconciliation, which takes marks off at most.
LEMMA BystanderStep ==
    ASSUME DirectoryOK, GroupsInv, UNCHANGED <<project, groups, reqs, spoiled>>,
           ItemsOK, \A u \in Users : Alike(member[u], member'[u])
    PROVE  DirectoryOK' /\ GroupsInv'
<1>1. DirectoryOK'
  BY DEF DirectoryOK, ItemsOK, MemberOK, ReqOK
<1>2. ASSUME NEW u \in Users \ spoiled, Safe(u) PROVE Safe(u)'
  BY <1>2, AsideSafe DEF Aside
<1> QED
  BY <1>1, <1>2 DEF GroupsInv

LEMMA SameItems ==
    ASSUME DirectoryOK, UNCHANGED member
    PROVE  ItemsOK /\ \A u \in Users : Alike(member[u], member'[u])
  BY DEF DirectoryOK, ItemsOK, Alike

LEMMA ClearMarkItems ==
    ASSUME DirectoryOK, PlatformOK, ClearMark
    PROVE  ItemsOK /\ \A u \in Users : Alike(member[u], member'[u])
<1>1. sweep.user \in Users
  BY DEF PlatformOK, ClearMark
<1>2. PICK m \in Unmarked(member[sweep.user]) \cup {member[sweep.user]} :
          member' = [member EXCEPT ![sweep.user] = m]
  BY DEF ClearMark
<1>3. MemberOK(m) /\ Alike(member[sweep.user], m)
  BY <1>1, UnmarkedItem DEF DirectoryOK, Alike
<1> QED
  BY <1>1, <1>2, <1>3 DEF DirectoryOK, ItemsOK, Alike

LEMMA DirectoryStep ==
    ASSUME DirectoryOK, PlatformOK, GroupsInv, [Next]_vars
    PROVE  DirectoryOK' /\ GroupsInv'
<1>1. ASSUME NEW q \in Requests,
             \/ AddMember(q) \/ ChangeRole(q) \/ RemoveMember(q)
             \/ Deactivate(q) \/ Reactivate(q) \/ HandlerStep(q)
      PROVE  DirectoryOK' /\ GroupsInv'
  BY <1>1, MemberRequestsBegin, ProjectRequestsBegin, MemberHandlers, ProjectHandlers
     DEF HandlerStep
<1>2. CASE NodeNext
  <2>1. UNCHANGED <<project, member, groups, reqs, spoiled>>
    BY <1>2 DEF NodeNext, LaunchCluster, BootNode, LoseNode, ClusterActive, FailCluster,
                DestroyCluster, RefreshAddress, HandleEvent, WriteAddress, RunCommand, directory
  <2> QED
    BY <2>1, SameItems, BystanderStep
<1>3. CASE SweepNext /\ ~ClearMark
  <2>1. UNCHANGED <<project, member, groups, reqs, spoiled>>
    BY <1>3 DEF SweepNext, StartSweep, Audit, RetryMember, directory
  <2> QED
    BY <2>1, SameItems, BystanderStep
<1>4. CASE ClearMark
  <2>1. UNCHANGED <<project, groups, reqs, spoiled>>
    BY <1>4 DEF ClearMark
  <2> QED
    BY <1>4, <2>1, ClearMarkItems, BystanderStep
<1>5. CASE Calm \/ UNCHANGED vars
  <2>1. UNCHANGED <<project, member, groups, reqs, spoiled>>
    BY <1>5 DEF Calm, vars, directory
  <2> QED
    BY <2>1, SameItems, BystanderStep
<1> QED
  BY <1>1, <1>2, <1>3, <1>4, <1>5 DEF Next, RequestNext

-----------------------------------------------------------------------------
(* The platform's variables.                                                *)

LEMMA PropagationTypes ==
    ASSUME NEW u \in Users, NEW p \in Propagations(u)
    PROVE  p.cmds \subseteq Users \X {"create", "lock"}
  BY DEF Propagations, Sent

LEMMA RequestPlatform ==
    ASSUME DirectoryOK, PlatformOK, RequestNext
    PROVE  PlatformOK'
<1>1. PICK q \in Requests :
          \/ AddMember(q) \/ ChangeRole(q) \/ RemoveMember(q)
          \/ Deactivate(q) \/ Reactivate(q)
          \/ HandlerStep(q)
  BY DEF RequestNext
<1>2. UNCHANGED <<machine, locator, sweep, calm>>
  BY <1>1 DEF HandlerStep, AddMember, ChangeRole, RemoveMember, Deactivate, Reactivate, channel,
              LeaveGroup, JoinGroup, PropagateMember, MarkPending, WriteRole, LockAccount,
              DeleteMember, DeleteGroups, Archive, RestoreMember, Unarchive
<1>3. commands' \subseteq Users \X {"create", "lock"}
  <2>1. CASE PropagateMember(q)
    <3>1. reqs[q].user \in Users
      BY <2>1, StageOp DEF PropagateMember, At, Working, MemberOps
    <3> QED
      BY <2>1, <3>1, PropagationTypes DEF PropagateMember, PlatformOK
  <2>2. CASE LockAccount(q)
    <3>1. reqs[q].user \in Users
      BY <2>2, StageOp DEF LockAccount, At, Working, MemberOps
    <3> QED
      BY <2>2, <3>1 DEF LockAccount, PlatformOK
  <2>3. CASE ~PropagateMember(q) /\ ~LockAccount(q)
    <3>1. UNCHANGED commands
      BY <1>1, <2>3 DEF HandlerStep, AddMember, ChangeRole, RemoveMember, Deactivate, Reactivate,
                  channel, LeaveGroup, JoinGroup, MarkPending, WriteRole, DeleteMember,
                  DeleteGroups, Archive, RestoreMember, Unarchive
    <3> QED
      BY <3>1 DEF PlatformOK
  <2> QED
    BY <2>1, <2>2, <2>3
<1> QED
  BY <1>2, <1>3 DEF PlatformOK, machine, locator

LEMMA NodePlatform ==
    ASSUME PlatformOK, NodeNext
    PROVE  PlatformOK'
<1> USE DEF PlatformOK
<1>1. CASE LaunchCluster
  BY <1>1 DEF LaunchCluster, locator, channel
<1>2. CASE BootNode
  BY <1>2, AccessAssumption DEF BootNode, channel
<1>3. CASE LoseNode
  BY <1>3 DEF LoseNode, Stop, locator
<1>4. CASE ClusterActive
  BY <1>4 DEF ClusterActive, channel
<1>5. CASE FailCluster \/ DestroyCluster
  BY <1>5 DEF FailCluster, DestroyCluster, Stop, locator
<1>6. CASE RefreshAddress
  BY <1>6, AccessAssumption DEF RefreshAddress, machine, channel
<1>7. ASSUME NEW n \in Nodes, HandleEvent(n) \/ WriteAddress(n)
      PROVE  PlatformOK'
  BY <1>7 DEF HandleEvent, WriteAddress, machine, channel
<1>8. ASSUME NEW u \in Users, NEW kind \in {"create", "lock"}, RunCommand(u, kind)
      PROVE  PlatformOK'
  <2>1. account' \in [Users -> {"none", "open", "locked"}]
    BY <1>8 DEF RunCommand, Outcome
  <2> QED
    BY <1>8, <2>1 DEF RunCommand, locator
<1> QED
  BY <1>1, <1>2, <1>3, <1>4, <1>5, <1>6, <1>7, <1>8 DEF NodeNext

LEMMA SweepPlatform ==
    ASSUME DirectoryOK, PlatformOK, SweepNext
    PROVE  PlatformOK'
<1> DEFINE SweepOK(s) == /\ s \in [pc : SweepPcs, members : SUBSET Users, at : Nodes \cup {0},
                                   todo : SUBSET Users, user : Users \cup {None}]
                         /\ s.pc = "clear" => s.user \in Users
<1>1. \A todo \in SUBSET Users : SweepOK(Retry(todo))
  BY DEF Retry, NoSweep, SweepPcs
<1>2. Recorded \subseteq Users /\ Marked \subseteq Users
      /\ \A set \in SUBSET Users : \A found \in Read(set) : found \in SUBSET Users
  BY DEF Recorded, Marked, Read
<1>3. \A ms \in SUBSET Users : AuditCommands(ms) \subseteq Users \X {"create", "lock"}
  BY DEF AuditCommands, Known
<1>4. CASE StartSweep
  <2>1. \/ \E ms \in SUBSET Users : sweep' = [NoSweep EXCEPT !.pc = "audit", !.members = ms, !.at = address]
        \/ \E found \in SUBSET Users : sweep' = Retry(found)
    BY <1>2, <1>4 DEF StartSweep
  <2>2. SweepOK(sweep')
    <3>1. ASSUME NEW ms \in SUBSET Users,
                 sweep' = [NoSweep EXCEPT !.pc = "audit", !.members = ms, !.at = address]
          PROVE  SweepOK(sweep')
      BY <3>1 DEF NoSweep, SweepPcs, PlatformOK
    <3> QED
      BY <1>1, <2>1, <3>1
  <2> QED
    BY <1>4, <2>2 DEF StartSweep, PlatformOK, machine, locator, channel
<1>5. CASE Audit
  <2>1. commands' \subseteq Users \X {"create", "lock"}
    BY <1>3, <1>5 DEF Audit, PlatformOK
  <2>2. SweepOK(sweep')
    BY <1>1, <1>2, <1>5 DEF Audit
  <2> QED
    BY <1>5, <2>1, <2>2 DEF Audit, PlatformOK, machine, locator
<1>6. ASSUME NEW u \in Users, RetryMember(u)
      PROVE  PlatformOK'
  <2>1. PICK p \in Propagations(u) :
            /\ commands' = commands \cup p.cmds
            /\ sweep' = IF p.ok THEN [sweep EXCEPT !.pc = "clear", !.user = u]
                                ELSE Retry(sweep.todo \ {u})
    BY <1>6 DEF RetryMember
  <2>2. commands' \subseteq Users \X {"create", "lock"}
    BY <2>1, PropagationTypes DEF PlatformOK
  <2>3. SweepOK(sweep')
    <3>1. CASE sweep' = [sweep EXCEPT !.pc = "clear", !.user = u]
      BY <3>1 DEF PlatformOK, SweepPcs
    <3>2. CASE sweep' = Retry(sweep.todo \ {u})
      BY <1>1, <3>2 DEF PlatformOK
    <3> QED
      BY <2>1, <3>1, <3>2
  <2> QED
    BY <1>6, <2>2, <2>3 DEF RetryMember, PlatformOK, machine, locator
<1>7. CASE ClearMark
  <2>1. SweepOK(sweep')
    BY <1>1, <1>7 DEF ClearMark, PlatformOK
  <2> QED
    BY <1>7, <2>1 DEF ClearMark, PlatformOK, machine, locator, channel
<1> QED
  BY <1>4, <1>5, <1>6, <1>7 DEF SweepNext

-----------------------------------------------------------------------------
IInv == DirectoryOK /\ PlatformOK /\ GroupsInv

LEMMA InitInv == Init => IInv
<1> SUFFICES ASSUME Init PROVE IInv
  OBVIOUS
<1>1. \A u \in Users : MemberOK(member[u])
  BY FixedItems DEF Init
<1>2. ReqOK(NoReq("unused")) /\ NoReq("unused").stage = "unused"
  BY DEF NoReq, Req, ReqOK, Reqs, Stages, MemberOps
<1>3. groups \in [Users -> SUBSET Roles]
  <2>1. \A u \in Users : GroupsOf(member[u]) \subseteq Roles
    BY <1>1, RoleTypes
  <2> QED
    BY <2>1 DEF Init
<1>4. DirectoryOK
  BY <1>1, <1>2, <1>3 DEF Init, DirectoryOK
<1>5. PlatformOK
  BY DEF Init, PlatformOK, NoSweep, SweepPcs
<1>6. \A u \in Users : Right(u) /\ \A q \in Requests : ~WorksFor(q, u)
  BY <1>2 DEF Init, Right, WorksFor, Working
<1>7. GroupsInv
  BY <1>6 DEF GroupsInv, Safe
<1> QED
  BY <1>4, <1>5, <1>7 DEF IInv

LEMMA NextInv == IInv /\ [Next]_vars => IInv'
<1> SUFFICES ASSUME DirectoryOK, PlatformOK, GroupsInv, [Next]_vars PROVE IInv'
  BY DEF IInv
<1>1. DirectoryOK' /\ GroupsInv'
  BY DirectoryStep
<1>2. PlatformOK'
  <2>1. CASE RequestNext
    BY <2>1, RequestPlatform
  <2>2. CASE NodeNext
    BY <2>2, NodePlatform
  <2>3. CASE SweepNext
    BY <2>3, SweepPlatform
  <2>4. CASE Calm
    BY <2>4 DEF Calm, machine, locator, PlatformOK
  <2>5. CASE UNCHANGED vars
    BY <2>5 DEF vars, machine, locator, channel, PlatformOK
  <2> QED
    BY <2>1, <2>2, <2>3, <2>4, <2>5 DEF Next
<1> QED
  BY <1>1, <1>2 DEF IInv

(* The type invariant of members, groups, requests, login nodes, accounts   *)
(* and the reconciliation holds whatever interleaves and fails.             *)
THEOREM TypeCorrect == Spec => []TypeOK
<1>1. IInv => TypeOK
  BY TypesOK DEF IInv
<1> QED
  BY <1>1, InitInv, NextInv, PTL DEF Spec

(* A user whose requests did not overlap is in no Cognito group but that of *)
(* the recorded role, for any number of users, requests, project            *)
(* deactivations and reactivations.                                         *)
THEOREM GroupsAreThoseOfTheRecords == Spec => []GroupsFollowRecords
<1>1. IInv => GroupsFollowRecords
  BY InvImpliesGroups DEF IInv
<1> QED
  BY <1>1, InitInv, NextInv, PTL DEF Spec
=============================================================================
