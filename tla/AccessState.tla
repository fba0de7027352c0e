----------------------------- MODULE AccessState -----------------------------
(***************************************************************************)
(* Who may use a project and its cluster: the membership records in the    *)
(* Projects table, the two Cognito groups of the project, the Linux        *)
(* accounts on the login node of its cluster, the address of that node in  *)
(* the Clusters table, and what is under way between them.                 *)
(***************************************************************************)
EXTENDS Naturals, FiniteSets

CONSTANTS
    Users,      \* users of the platform, all ACTIVE
    Requests,   \* API requests, in the order in which they are accepted
    Nodes,      \* login node instances, in the order in which they boot
    Ops,        \* the operations that are asked for
    Faults,     \* what may go wrong, a subset of AllFaults
    None        \* no user

Roles      == {"PROJECT_ADMIN", "PROJECT_USER"}
MemberOps  == {"add", "role", "remove"}
ProjectOps == {"deactivate", "reactivate"}
AllFaults  == {"join", "leave", "restore", "ssm", "read", "event"}

ASSUME AccessAssumption ==
    /\ Requests \subseteq Nat
    /\ Nodes \subseteq Nat \ {0}
    /\ Ops \subseteq MemberOps \cup ProjectOps
    /\ Faults \subseteq AllFaults
    /\ None \notin Users

VARIABLES
    project,    \* status of the project: ACTIVE or ARCHIVED
    member,     \* the item MEMBER#<user> of each user
    groups,     \* the Cognito groups of the project each user is in, by role
    reqs,       \* the requests and how far their handlers are
    spoiled,    \* history: users whose requests overlapped, or whose removal
                \* from a group failed and was only logged
    cluster,    \* status of the cluster's record
    script,     \* the users the launch template of the login node creates
    node,       \* the login node that booted last, 0 before the first
    up,         \* that node is running
    address,    \* loginNodeInstanceId of the cluster's record, 0 if empty
    account,    \* the Linux account of each user on the running node
    commands,   \* SSM commands sent to the running node, not yet run
    calm,       \* SSM and the tables answer from now on
    events,     \* EC2 events "running" under way
    writes,     \* instances that a handler is about to write as the address
    sweep       \* the daily reconciliation

directory == <<member, groups, spoiled>>
machine   == <<cluster, script, node, up, account>>
locator   == <<address, events, writes>>
channel   == <<commands, calm>>
vars == <<project, directory, reqs, machine, locator, channel, sweep>>

\* A "stub" is what an unconditional update leaves of a deleted item: it has
\* no userId, and a role only if that is what was written.
Marks    == {"none", "PENDING_PROPAGATION", "PENDING_RESTORATION"}
NoMember == [kind |-> "none", role |-> "none", mark |-> "none"]
Stub     == [kind |-> "stub", role |-> "none", mark |-> "none"]
Members  == [kind : {"none", "member", "stub"}, role : Roles \cup {"none"}, mark : Marks]

NewMember(role) == [kind |-> "member", role |-> role, mark |-> "none"]

\* item.get("role", "PROJECT_USER") of an item that exists, and its group.
RoleOf(m) == IF m.role = "none" THEN "PROJECT_USER" ELSE m.role
GroupsOf(m) == IF m.kind = "none" THEN {} ELSE {RoleOf(m)}

Stages == {"unused", "join", "propagate", "mark", "leave", "write", "lock",
           "delete", "groups", "archive", "restore", "done"}
Snapshot == [user : Users, role : Roles, marked : BOOLEAN]
Reqs == [op : MemberOps \cup ProjectOps, user : Users \cup {None},
         role : Roles \cup {"none"}, old : Roles \cup {"none"},
         stage : Stages, todo : SUBSET Snapshot]

Req(op, u, role, old, stage, todo) ==
    [op |-> op, user |-> u, role |-> role, old |-> old, stage |-> stage, todo |-> todo]
NoReq(stage) == Req("add", None, "none", "none", stage, {})

SweepPcs == {"idle", "audit", "retry", "clear"}
NoSweep  == [pc |-> "idle", members |-> {}, at |-> 0, todo |-> {}, user |-> None]

TypeOK ==
    /\ project \in {"ACTIVE", "ARCHIVED"}
    /\ member \in [Users -> Members]
    /\ \A u \in Users : member[u].kind = "none" => member[u] = NoMember
    /\ \A u \in Users : member[u].kind = "member" => member[u].role \in Roles
    /\ groups \in [Users -> SUBSET Roles]
    /\ reqs \in [Requests -> Reqs]
    /\ spoiled \subseteq Users
    /\ cluster \in {"none", "CREATING", "ACTIVE", "FAILED", "DESTROYED"}
    /\ script \subseteq Users
    /\ node \in Nodes \cup {0} /\ up \in BOOLEAN
    /\ address \in Nodes \cup {0}
    /\ account \in [Users -> {"none", "open", "locked"}]
    /\ commands \subseteq Users \X {"create", "lock"}
    /\ calm \in BOOLEAN
    /\ events \subseteq Nodes /\ writes \subseteq Nodes
    /\ sweep \in [pc : SweepPcs, members : SUBSET Users, at : Nodes \cup {0},
                  todo : SUBSET Users, user : Users \cup {None}]

\* A project with members, whose groups are as they should be: those of the
\* recorded roles while it is ACTIVE, none while it is ARCHIVED.
Init ==
    /\ project \in {"ACTIVE", "ARCHIVED"}
    /\ member \in [Users -> {NoMember} \cup {NewMember(role) : role \in Roles}]
    /\ groups = [u \in Users |-> IF project = "ACTIVE" THEN GroupsOf(member[u]) ELSE {}]
    /\ reqs = [q \in Requests |-> NoReq("unused")]
    /\ spoiled = {}
    /\ cluster = "none" /\ script = {}
    /\ node = 0 /\ up = FALSE /\ address = 0
    /\ account = [u \in Users |-> "none"]
    /\ commands = {} /\ calm = FALSE /\ events = {} /\ writes = {}
    /\ sweep = NoSweep

\* update_item without a condition makes an item of what it does not find.
Touched(m) == IF m.kind = "none" THEN Stub ELSE m

\* REMOVE propagationStatus: what the service leaves of an item that is not
\* there, nothing or an item with its key alone, is not known to the code.
Unmarked(m) ==
    IF m.kind = "none" THEN {NoMember, Stub} ELSE {[m EXCEPT !.mark = "none"]}

\* send_command succeeds only for an instance that runs.
Running(n) == up /\ n = node /\ n # 0
Reachable  == cluster = "ACTIVE" /\ Running(address)

\* A call to SSM or a read that fails, as it may until all is calm.
Trouble(f) == f \in Faults /\ ~calm

Calm ==
    /\ ~calm /\ calm' = TRUE
    /\ UNCHANGED <<project, directory, reqs, machine, locator, commands, sweep>>

Sent(ok, cmds) == [ok |-> ok, cmds |-> cmds]

\* propagate_user_to_clusters: the status it returns and the command it sends.
\* No membership item, no ACTIVE cluster and an error in either read all count
\* as success; a login node it cannot reach in three attempts does not, nor an
\* error in its callers' read of the user.
Propagations(u) ==
    IF member[u].kind = "none" \/ cluster # "ACTIVE"
    THEN {Sent(TRUE, {})}
    ELSE (IF Reachable THEN {Sent(TRUE, {<<u, "create">>})} ELSE {Sent(FALSE, {})})
            \cup (IF Trouble("ssm") THEN {Sent(FALSE, {})} ELSE {})
            \cup (IF Trouble("read") THEN {Sent(TRUE, {}), Sent(FALSE, {})} ELSE {})
=============================================================================
