---------------------------- MODULE UserAccounts ----------------------------
(***************************************************************************)
(* Users of the platform: user_management/users.py and the provisioning of *)
(* the first administrator, one action per call to DynamoDB or Cognito.    *)
(* The batch operations are sequences of the single ones.                  *)
(***************************************************************************)
EXTENDS Naturals, FiniteSets

CONSTANTS
    Users,      \* user ids
    Admin,      \* the id "admin" of the provisioned administrator
    Requests,   \* API requests and runs of the provisioner, in their order
    Base,       \* the value the deployment gives the UID counter, 10000
    Faults,     \* calls that may fail, a subset of {"cognito", "table"}
    None        \* no user

ASSUME UserAssumption ==
    /\ Admin \in Users /\ None \notin Users
    /\ Requests \subseteq Nat
    /\ Base \in Nat \ {0}

VARIABLES
    counter,    \* the item COUNTER/POSIX_UID, 0 before there is one
    seeded,     \* PosixUidCounterSeed of the deployment: no, yes or failed
    record,     \* the item USER#<id>/PROFILE of each user
    login,      \* the Cognito user of each user
    reqs,       \* the requests and how far their handlers are
    spoiled     \* history: users whose requests overlapped, for whom a call
                \* failed, or who were created again

counting == <<counter, seeded>>
vars == <<counting, record, login, reqs, spoiled>>

NoRecord == [status |-> "none", admin |-> FALSE, uid |-> 0]
Records  == [status : {"ACTIVE", "INACTIVE"}, admin : BOOLEAN, uid : Nat \ {0}]
NoLogin  == [state |-> "none", admin |-> FALSE, session |-> FALSE]
NewLogin == [NoLogin EXCEPT !.state = "enabled"]
Logins   == [state : {"none", "enabled", "disabled"}, admin : BOOLEAN, session : BOOLEAN]

Stages == {"unused", "allocate", "login", "group", "put", "undo",
           "inactive", "disable", "signout",
           "active", "enable", "done"}
Reqs == [op : {"create", "provision", "deactivate", "reactivate"}, user : Users \cup {None},
         admin : BOOLEAN, uid : Nat, stage : Stages]
Req(op, u, admin, uid, stage) ==
    [op |-> op, user |-> u, admin |-> admin, uid |-> uid, stage |-> stage]
NoReq(stage) == Req("create", None, FALSE, 0, stage)

TypeOK ==
    /\ counter \in Nat
    /\ seeded \in {"no", "yes", "failed"}
    /\ record \in [Users -> Records \cup {NoRecord}]
    /\ login \in [Users -> Logins]
    /\ reqs \in [Requests -> Reqs]
    /\ \A q \in Requests :
          reqs[q].stage \in {"login", "group", "put"} => reqs[q].uid # 0
    /\ \A q \in Requests :
          reqs[q].stage \notin {"unused", "done"} => reqs[q].user \in Users
    /\ spoiled \subseteq Users

\* Logins may have been made by hand before the platform was set up.
Init ==
    /\ counter = 0 /\ seeded = "no"
    /\ record = [u \in Users |-> NoRecord]
    /\ login \in [Users -> {NoLogin, NewLogin}]
    /\ reqs = [q \in Requests |-> NoReq("unused")]
    /\ spoiled = {}

Exists(u) == record[u].status # "none"
HasLogin(u) == login[u].state # "none"

Working(q) == reqs[q].stage \notin {"unused", "done"}
Busy(u) == \E q \in Requests : Working(q) /\ reqs[q].user = u
At(q, stage) == reqs[q].stage = stage
Goto(q, stage) == reqs' = [reqs EXCEPT ![q].stage = stage]
Done(q) == reqs' = [reqs EXCEPT ![q] = NoReq("done")]

\* An exception or a logged failure in the handling of q.
Fault(f, q) == f \in Faults /\ spoiled' = spoiled \cup {reqs[q].user}

\* Bound: Requests.
Accept(q, r) ==
    /\ At(q, "unused") /\ \A p \in Requests : At(p, "unused") => q <= p
    /\ reqs' = [reqs EXCEPT ![q] = r]
    /\ spoiled' = IF Busy(r.user) \/ (r.op = "create" /\ Exists(r.user))
                  THEN spoiled \cup {r.user} ELSE spoiled

-----------------------------------------------------------------------------
\* Mutant of SeedCounter: whatever is there is overwritten.
SeedAnyway ==
    /\ seeded = "no"
    /\ counter' = Base /\ seeded' = "yes"
    /\ UNCHANGED <<record, login, reqs, spoiled>>

\* The conditional put of the deployment.  Nothing orders it before the
\* provisioner; where it comes too late the deployment fails.
SeedCounter ==
    /\ seeded = "no"
    /\ IF counter = 0 THEN counter' = Base /\ seeded' = "yes"
                      ELSE UNCHANGED counter /\ seeded' = "failed"
    /\ UNCHANGED <<record, login, reqs, spoiled>>

\* Mutant of NextUid: the users are counted.
UsersCounted == Base + 1 + Cardinality({u \in Users : Exists(u)})

\* ADD currentValue 1, which makes the item if there is none.
NextUid == counter + 1

\* create_user begins with the UID, before anything tells whether the id is in
\* use; the API is there when the deployment is.
CreateUser(q) ==
    \E u \in Users, admin \in BOOLEAN :
        /\ seeded = "yes"
        /\ Accept(q, Req("create", u, admin, NextUid, "login"))
        /\ counter' = counter + 1
        /\ UNCHANGED <<seeded, record, login>>

\* The provisioner scans for any administrator, one run at a time.
Provision(q) ==
    /\ \A u \in Users : ~(Exists(u) /\ record[u].admin)
    /\ \A p \in Requests : ~(Working(p) /\ reqs[p].op = "provision")
    /\ Accept(q, Req("provision", Admin, TRUE, 0, "allocate"))
    /\ UNCHANGED <<counting, record, login>>

AllocateUid(q) ==
    /\ At(q, "allocate")
    /\ reqs' = [reqs EXCEPT ![q] = Req("provision", Admin, TRUE, NextUid, "login")]
    /\ counter' = counter + 1
    /\ UNCHANGED <<seeded, record, login, spoiled>>

\* Mutant of NextStage: the group is for new logins.
NextStageNew(q) ==
    IF reqs[q].admin /\ ~HasLogin(reqs[q].user) THEN "group" ELSE "put"

NextStage(q) == IF reqs[q].admin THEN "group" ELSE "put"

\* _create_cognito_user adopts a login that exists; _create_cognito_admin fails
\* on it.
CreateLogin(q) ==
    LET u == reqs[q].user IN
    /\ At(q, "login")
    /\ \/ /\ HasLogin(u) => reqs[q].op = "create"
          /\ login' = IF HasLogin(u) THEN login ELSE [login EXCEPT ![u] = NewLogin]
          /\ Goto(q, NextStage(q))
          /\ UNCHANGED spoiled
       \/ HasLogin(u) /\ reqs[q].op = "provision" /\ Done(q) /\ UNCHANGED <<login, spoiled>>
       \/ Fault("cognito", q) /\ Done(q) /\ UNCHANGED login
    /\ UNCHANGED <<counting, record>>

\* A failure leaves the login of a create; the provisioner deletes its own.
JoinAdministrators(q) ==
    LET u == reqs[q].user IN
    /\ At(q, "group")
    /\ \/ /\ HasLogin(u)
          /\ login' = [login EXCEPT ![u].admin = TRUE]
          /\ Goto(q, "put")
          /\ UNCHANGED spoiled
       \/ /\ Fault("cognito", q) \/ (~HasLogin(u) /\ UNCHANGED spoiled)
          /\ IF reqs[q].op = "create" THEN Done(q) ELSE Goto(q, "undo")
          /\ UNCHANGED login
    /\ UNCHANGED <<counting, record>>

\* Mutant of PutRecord: the put without its condition.
PutOver(q) ==
    LET r == reqs[q] IN
    /\ At(q, "put")
    /\ record' = [record EXCEPT ![r.user] = [status |-> "ACTIVE", admin |-> r.admin, uid |-> r.uid]]
    /\ Done(q)
    /\ UNCHANGED <<counting, login, spoiled>>

\* The conditional put.  Of the failures, a create undoes the duplicate alone,
\* the provisioner every one.
PutRecord(q) ==
    LET r == reqs[q] IN
    /\ At(q, "put")
    /\ \/ /\ ~Exists(r.user)
          /\ record' = [record EXCEPT ![r.user] =
                           [status |-> "ACTIVE", admin |-> r.admin, uid |-> r.uid]]
          /\ Done(q)
          /\ UNCHANGED spoiled
       \/ Exists(r.user) /\ Goto(q, "undo") /\ UNCHANGED <<record, spoiled>>
       \/ /\ Fault("table", q)
          /\ IF r.op = "create" THEN Done(q) ELSE Goto(q, "undo")
          /\ UNCHANGED record
    /\ UNCHANGED <<counting, login>>

\* _delete_cognito_user deletes the login of that name, whoever made it.
DeleteLogin(q) ==
    /\ At(q, "undo")
    /\ \/ login' = [login EXCEPT ![reqs[q].user] = NoLogin] /\ UNCHANGED spoiled
       \/ Fault("cognito", q) /\ UNCHANGED login
    /\ Done(q)
    /\ UNCHANGED <<counting, record>>

-----------------------------------------------------------------------------
SetStatus(q, status) ==
    record' = [record EXCEPT ![reqs[q].user].status = status]

\* deactivate_user and reactivate_user read the record and refuse the status
\* they would write; their writes have no condition.
DeactivateUser(q) ==
    \E u \in Users :
        /\ record[u].status = "ACTIVE"
        /\ Accept(q, Req("deactivate", u, FALSE, 0, "inactive"))
        /\ UNCHANGED <<counting, record, login>>

SetInactive(q) ==
    /\ At(q, "inactive")
    /\ SetStatus(q, "INACTIVE")
    /\ Goto(q, "disable")
    /\ UNCHANGED <<counting, login, spoiled>>

\* An error, a missing login included, is logged and ends the request.
DisableLogin(q) ==
    LET u == reqs[q].user IN
    /\ At(q, "disable")
    /\ \/ /\ HasLogin(u)
          /\ login' = [login EXCEPT ![u].state = "disabled"]
          /\ Goto(q, "signout")
          /\ UNCHANGED spoiled
       \/ ~HasLogin(u) /\ Done(q) /\ UNCHANGED <<login, spoiled>>
       \/ Fault("cognito", q) /\ Done(q) /\ UNCHANGED login
    /\ UNCHANGED <<counting, record>>

SignOut(q) ==
    /\ At(q, "signout")
    /\ \/ login' = [login EXCEPT ![reqs[q].user].session = FALSE] /\ UNCHANGED spoiled
       \/ Fault("cognito", q) /\ UNCHANGED login
    /\ Done(q)
    /\ UNCHANGED <<counting, record>>

\* Mutant of ReactivateUser: a user there is none of counts as inactive.
ReactivateAbsent(q) ==
    \E u \in Users :
        /\ record[u].status # "ACTIVE"
        /\ Accept(q, Req("reactivate", u, FALSE, 0, "active"))
        /\ UNCHANGED <<counting, record, login>>

ReactivateUser(q) ==
    \E u \in Users :
        /\ record[u].status = "INACTIVE"
        /\ Accept(q, Req("reactivate", u, FALSE, 0, "active"))
        /\ UNCHANGED <<counting, record, login>>

SetActive(q) ==
    /\ At(q, "active")
    /\ SetStatus(q, "ACTIVE")
    /\ Goto(q, "enable")
    /\ UNCHANGED <<counting, login, spoiled>>

EnableLogin(q) ==
    LET u == reqs[q].user IN
    /\ At(q, "enable")
    /\ \/ /\ HasLogin(u)
          /\ login' = [login EXCEPT ![u].state = "enabled"]
          /\ UNCHANGED spoiled
       \/ ~HasLogin(u) /\ UNCHANGED <<login, spoiled>>
       \/ Fault("cognito", q) /\ UNCHANGED login
    /\ Done(q)
    /\ UNCHANGED <<counting, record>>

\* Somebody with an enabled login signs in.
SignIn(u) ==
    /\ login[u].state = "enabled" /\ ~login[u].session
    /\ login' = [login EXCEPT ![u].session = TRUE]
    /\ UNCHANGED <<counting, record, reqs, spoiled>>

Next ==
    \/ SeedCounter
    \/ \E q \in Requests :
          \/ CreateUser(q) \/ Provision(q) \/ AllocateUid(q)
          \/ CreateLogin(q) \/ JoinAdministrators(q) \/ PutRecord(q) \/ DeleteLogin(q)
          \/ DeactivateUser(q) \/ SetInactive(q) \/ DisableLogin(q) \/ SignOut(q)
          \/ ReactivateUser(q) \/ SetActive(q) \/ EnableLogin(q)
    \/ \E u \in Users : SignIn(u)

Spec == Init /\ [][Next]_vars

-----------------------------------------------------------------------------
(* No two users have the same UID (user-management.md 250): UIDs come from  *)
(* one counter, whatever creates race, fail or are made twice.              *)
UidsAreUnique ==
    \A u, v \in Users : (Exists(u) /\ Exists(v) /\ u # v) => record[u].uid # record[v].uid

(* Where the deployment succeeded every UID is above the system's range,    *)
(* which the reconciliation takes 10000 to begin at: a provisioner that is  *)
(* served before the counter is seeded makes the deployment fail.           *)
UidsAreAboveBase ==
    seeded = "yes" => \A u \in Users : Exists(u) => record[u].uid > Base

(* "Permanent - they do not change even if the user is deactivated"         *)
(* (user-management.md 253): not by a second create either.                 *)
UidsArePermanent ==
    [][\A u \in Users : Exists(u) => record'[u].uid = record[u].uid]_vars

(* Unless requests for a user overlapped, a call for it failed or its id    *)
(* was created again, an ACTIVE user can sign in, an INACTIVE one cannot    *)
(* and is signed out, and the administrators are those in the group.        *)
LoginsFollowRecords ==
    \A u \in Users \ spoiled : Exists(u) /\ ~Busy(u) =>
        /\ login[u].state = IF record[u].status = "ACTIVE" THEN "enabled" ELSE "disabled"
        /\ record[u].status = "INACTIVE" => ~login[u].session
        /\ login[u].admin = record[u].admin
=============================================================================
