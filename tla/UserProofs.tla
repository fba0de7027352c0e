----------------------------- MODULE UserProofs -----------------------------
(***************************************************************************)
(* Theorems about UserAccounts for any users and requests, and whatever    *)
(* fails: its type invariant, that UIDs are unique, permanent and above    *)
(* the system's range, and that logins follow the records.                 *)
(***************************************************************************)
EXTENDS UserAccounts, TLAPS

\* The requests that will write a status go to records that exist, and no
\* record ever goes away.
KnownUsers ==
    \A q \in Requests : reqs[q].stage \in {"inactive", "active"} => Exists(reqs[q].user)

Typed == TypeOK /\ KnownUsers

LEMMA InitTyped == Init => Typed
<1> SUFFICES ASSUME Init PROVE Typed
  OBVIOUS
<1>1. NoReq("unused") \in Reqs
  BY DEF NoReq, Req, Reqs, Stages
<1>2. NoLogin \in Logins /\ NewLogin \in Logins
  BY DEF NoLogin, NewLogin, Logins
<1> QED
  BY <1>1, <1>2 DEF Init, Typed, TypeOK, KnownUsers, NoReq, Req

\* What the handlers do to their requests.
LEMMA RequestTypes ==
    ASSUME Typed, NEW q \in Requests
    PROVE  /\ \A s \in Stages : Goto(q, s) => reqs' \in [Requests -> Reqs]
           /\ Done(q) => /\ reqs' \in [Requests -> Reqs]
                         /\ reqs'[q].stage = "done"
                         /\ \A p \in Requests \ {q} : reqs'[p] = reqs[p]
           /\ \A s \in Stages : Goto(q, s) =>
                 /\ reqs'[q] = [reqs[q] EXCEPT !.stage = s]
                 /\ \A p \in Requests \ {q} : reqs'[p] = reqs[p]
<1> USE DEF Typed, TypeOK
<1>1. NoReq("done") \in Reqs
  BY DEF NoReq, Req, Reqs, Stages
<1>2. \A s \in Stages : [reqs[q] EXCEPT !.stage = s] \in Reqs
  BY DEF Reqs
<1>3. ASSUME NEW s \in Stages, Goto(q, s)
      PROVE  /\ reqs' \in [Requests -> Reqs]
             /\ reqs'[q] = [reqs[q] EXCEPT !.stage = s]
             /\ \A p \in Requests \ {q} : reqs'[p] = reqs[p]
  BY <1>2, <1>3 DEF Goto
<1>4. ASSUME Done(q)
      PROVE  /\ reqs' \in [Requests -> Reqs]
             /\ reqs'[q].stage = "done"
             /\ \A p \in Requests \ {q} : reqs'[p] = reqs[p]
  BY <1>1, <1>4 DEF Done, NoReq, Req
<1> QED
  BY <1>3, <1>4

LEMMA AcceptTypes ==
    ASSUME Typed, NEW q \in Requests, NEW r, r \in Reqs, r.user \in Users, Accept(q, r)
    PROVE  /\ reqs' = [reqs EXCEPT ![q] = r]
           /\ reqs' \in [Requests -> Reqs]
           /\ spoiled' \subseteq Users
  BY DEF Accept, Typed, TypeOK

\* The steps of requests that are being handled, but for those that touch the
\* records and the counter.
LoginStep(q) == CreateLogin(q) \/ JoinAdministrators(q) \/ DeleteLogin(q)
                    \/ DisableLogin(q) \/ SignOut(q) \/ EnableLogin(q)

LEMMA LoginStepTyped ==
    ASSUME Typed, NEW q \in Requests, LoginStep(q)
    PROVE  Typed'
<1> USE DEF Typed, TypeOK, Fault, At, NextStage
<1>0. reqs[q].user \in Users
  BY DEF LoginStep, CreateLogin, JoinAdministrators, DeleteLogin, DisableLogin, SignOut,
         EnableLogin, Stages
<1>1. login' \in [Users -> Logins]
  <2> USE <1>0 DEF Logins
  <2>1. CASE CreateLogin(q)
    <3>1. UNCHANGED login \/ login' = [login EXCEPT ![reqs[q].user] = NewLogin]
      BY <2>1 DEF CreateLogin
    <3>2. NewLogin \in Logins
      BY DEF NewLogin, NoLogin, Logins
    <3> QED
      BY <3>1, <3>2
  <2>2. CASE JoinAdministrators(q)
    BY <2>2 DEF JoinAdministrators
  <2>3. CASE DeleteLogin(q)
    <3>1. NoLogin \in Logins
      BY DEF NoLogin, Logins
    <3>2. UNCHANGED login \/ login' = [login EXCEPT ![reqs[q].user] = NoLogin]
      BY <2>3 DEF DeleteLogin
    <3> QED
      BY <3>1, <3>2
  <2>4. CASE DisableLogin(q)
    BY <2>4 DEF DisableLogin
  <2>5. CASE SignOut(q)
    BY <2>5 DEF SignOut
  <2>6. CASE EnableLogin(q)
    BY <2>6 DEF EnableLogin
  <2> QED
    BY <2>1, <2>2, <2>3, <2>4, <2>5, <2>6 DEF LoginStep
<1>2. spoiled' \subseteq Users
  BY <1>0 DEF LoginStep, CreateLogin, JoinAdministrators, DeleteLogin,
              DisableLogin, SignOut, EnableLogin
<1>3. /\ UNCHANGED <<counting, record>>
      /\ Done(q) \/ \E s \in {"group", "put", "undo", "signout"} :
                        /\ Goto(q, s)
                        /\ s \in {"group", "put"} => reqs[q].uid # 0
  BY DEF LoginStep, CreateLogin, JoinAdministrators, DeleteLogin,
         DisableLogin, SignOut, EnableLogin
<1>4. CASE Done(q)
  BY <1>1, <1>2, <1>3, <1>4, RequestTypes DEF KnownUsers, Exists, counting
<1>5. CASE \E s \in {"group", "put", "undo", "signout"} :
               Goto(q, s) /\ (s \in {"group", "put"} => reqs[q].uid # 0)
  <2>1. PICK s \in {"group", "put", "undo", "signout"} :
            Goto(q, s) /\ (s \in {"group", "put"} => reqs[q].uid # 0)
    BY <1>5
  <2>2. s \in Stages
    BY DEF Stages
  <2>3. /\ reqs' \in [Requests -> Reqs]
        /\ reqs'[q] = [reqs[q] EXCEPT !.stage = s]
        /\ \A p \in Requests \ {q} : reqs'[p] = reqs[p]
    BY <2>1, <2>2, RequestTypes
  <2>4. reqs'[q].uid = reqs[q].uid /\ reqs'[q].user = reqs[q].user /\ reqs'[q].stage = s
    BY <2>3 DEF Reqs
  <2> QED
    BY <1>0, <1>1, <1>2, <1>3, <2>1, <2>3, <2>4 DEF KnownUsers, Exists, counting
<1> QED
  BY <1>3, <1>4, <1>5

\* Every step keeps the types and the records that exist.
LEMMA NextTyped ==
    ASSUME Typed, [Next]_vars
    PROVE  Typed'
<1> USE DEF Typed, TypeOK
<1>1. CASE SeedCounter
  BY <1>1, UserAssumption DEF SeedCounter, KnownUsers, Exists
<1>2. ASSUME NEW q \in Requests, CreateUser(q)
      PROVE  Typed'
  <2>1. PICK u \in Users, admin \in BOOLEAN :
            /\ Accept(q, Req("create", u, admin, NextUid, "login"))
            /\ counter' = counter + 1
            /\ UNCHANGED <<seeded, record, login>>
    BY <1>2 DEF CreateUser
  <2> DEFINE r == Req("create", u, admin, NextUid, "login")
  <2>2. r \in Reqs /\ r.uid # 0 /\ r.stage = "login" /\ r.user = u
    BY DEF Req, Reqs, Stages, NextUid
  <2>3. reqs' = [reqs EXCEPT ![q] = r] /\ reqs' \in [Requests -> Reqs] /\ spoiled' \subseteq Users
    <3>1. Accept(q, r)
      BY <2>1
    <3> HIDE DEF r
    <3> QED
      BY <2>2, <3>1, AcceptTypes
  <2> QED
    BY <2>1, <2>2, <2>3 DEF KnownUsers, Exists
<1>3. ASSUME NEW q \in Requests, Provision(q)
      PROVE  Typed'
  <2> DEFINE r == Req("provision", Admin, TRUE, 0, "allocate")
  <2>1. r \in Reqs /\ r.stage = "allocate" /\ r.user \in Users
    BY UserAssumption DEF Req, Reqs, Stages
  <2>2. reqs' = [reqs EXCEPT ![q] = r] /\ reqs' \in [Requests -> Reqs] /\ spoiled' \subseteq Users
    BY <1>3, <2>1, AcceptTypes DEF Provision
  <2> QED
    BY <1>3, <2>1, <2>2 DEF Provision, KnownUsers, Exists, counting
<1>4. ASSUME NEW q \in Requests, AllocateUid(q)
      PROVE  Typed'
  <2> DEFINE r == Req("provision", Admin, TRUE, NextUid, "login")
  <2>1. r \in Reqs /\ r.stage = "login" /\ r.user \in Users /\ r.uid # 0
    BY UserAssumption DEF Req, Reqs, Stages, NextUid
  <2>2. reqs' = [reqs EXCEPT ![q] = r]
    BY <1>4 DEF AllocateUid
  <2>3. counter' = counter + 1 /\ UNCHANGED <<seeded, record, login, spoiled>>
    BY <1>4 DEF AllocateUid
  <2> HIDE DEF r
  <2> QED
    BY <2>1, <2>2, <2>3 DEF KnownUsers, Exists
<1>5. ASSUME NEW q \in Requests, LoginStep(q)
      PROVE  Typed'
  BY <1>5, LoginStepTyped
<1>6. ASSUME NEW q \in Requests, PutRecord(q)
      PROVE  Typed'
  <2>0. reqs[q].user \in Users /\ reqs[q].uid \in Nat \ {0} /\ reqs[q].admin \in BOOLEAN
    BY <1>6 DEF PutRecord, At, Reqs
  <2> DEFINE r == [status |-> "ACTIVE", admin |-> reqs[q].admin, uid |-> reqs[q].uid]
  <2>1. r \in Records /\ r.status # "none"
    BY <2>0 DEF Records
  <2>2. CASE ~Exists(reqs[q].user) /\ record' = [record EXCEPT ![reqs[q].user] = r] /\ Done(q)
               /\ UNCHANGED <<counting, login, spoiled>>
    BY <2>0, <2>1, <2>2, RequestTypes DEF KnownUsers, Exists, counting
  <2>3. CASE Goto(q, "undo") /\ spoiled' \subseteq Users /\ UNCHANGED <<counting, login, record>>
    <3>1. /\ reqs' \in [Requests -> Reqs]
          /\ reqs'[q] = [reqs[q] EXCEPT !.stage = "undo"]
          /\ \A p \in Requests \ {q} : reqs'[p] = reqs[p]
      BY <2>3, RequestTypes DEF Stages
    <3>2. reqs'[q].user = reqs[q].user /\ reqs'[q].stage = "undo"
      BY <3>1 DEF Reqs
    <3> QED
      BY <2>0, <2>3, <3>1, <3>2 DEF KnownUsers, Exists, counting
  <2>4. CASE Done(q) /\ spoiled' \subseteq Users /\ UNCHANGED <<counting, login, record>>
    BY <2>4, RequestTypes DEF KnownUsers, Exists, counting
  <2> QED
    BY <1>6, <2>0, <2>2, <2>3, <2>4 DEF PutRecord, Fault
<1>7. ASSUME NEW q \in Requests, DeactivateUser(q) \/ ReactivateUser(q)
      PROVE  Typed'
  <2>1. PICK u \in Users, op \in {"deactivate", "reactivate"}, s \in {"inactive", "active"} :
            /\ Exists(u)
            /\ Accept(q, Req(op, u, FALSE, 0, s))
            /\ UNCHANGED <<counting, record, login>>
    BY <1>7 DEF DeactivateUser, ReactivateUser, Exists
  <2> DEFINE r == Req(op, u, FALSE, 0, s)
  <2>2. r \in Reqs /\ r.stage = s /\ r.user = u
    BY DEF Req, Reqs, Stages
  <2>3. reqs' = [reqs EXCEPT ![q] = r] /\ reqs' \in [Requests -> Reqs] /\ spoiled' \subseteq Users
    <3>1. Accept(q, r)
      BY <2>1
    <3> HIDE DEF r
    <3> QED
      BY <2>2, <3>1, AcceptTypes
  <2> QED
    BY <2>1, <2>2, <2>3 DEF KnownUsers, Exists, counting
<1>8. ASSUME NEW q \in Requests, SetInactive(q) \/ SetActive(q)
      PROVE  Typed'
  <2>1. PICK v \in {"INACTIVE", "ACTIVE"}, s \in {"disable", "enable"} :
            /\ reqs[q].stage \in {"inactive", "active"}
            /\ SetStatus(q, v)
            /\ Goto(q, s)
            /\ UNCHANGED <<counting, login, spoiled>>
    BY <1>8 DEF SetInactive, SetActive, At
  <2>2. reqs[q].user \in Users /\ Exists(reqs[q].user) /\ record[reqs[q].user] \in Records
    BY <2>1 DEF KnownUsers, Exists, NoRecord
  <2>3. record' \in [Users -> Records \cup {NoRecord}]
    BY <2>1, <2>2 DEF SetStatus, Records
  <2>4. \A u \in Users : Exists(u) => Exists(u)'
    BY <2>1, <2>2 DEF SetStatus, Exists, Records
  <2>5. /\ reqs' \in [Requests -> Reqs]
        /\ reqs'[q] = [reqs[q] EXCEPT !.stage = s]
        /\ \A p \in Requests \ {q} : reqs'[p] = reqs[p]
    BY <2>1, RequestTypes DEF Stages
  <2>6. reqs'[q].user = reqs[q].user /\ reqs'[q].stage = s
    BY <2>5 DEF Reqs, Stages
  <2> QED
    BY <2>1, <2>2, <2>3, <2>4, <2>5, <2>6 DEF KnownUsers, Exists, counting
<1>9. ASSUME NEW u \in Users, SignIn(u)
      PROVE  Typed'
  BY <1>9 DEF SignIn, Logins, KnownUsers, Exists, counting
<1>10. CASE UNCHANGED vars
  BY <1>10 DEF vars, counting, KnownUsers, Exists
<1> QED
  BY <1>1, <1>2, <1>3, <1>4, <1>5, <1>6, <1>7, <1>8, <1>9, <1>10 DEF Next, LoginStep

(* The type invariant holds in every state, whatever the constants.         *)
THEOREM TypeCorrect == Spec => []TypeOK
<1>1. Init => Typed
  BY InitTyped
<1>2. Typed /\ [Next]_vars => Typed'
  BY NextTyped
<1>3. Typed => TypeOK
  BY DEF Typed
<1> QED
  BY <1>1, <1>2, <1>3, PTL DEF Spec

-----------------------------------------------------------------------------
\* The inductive invariant of the UIDs: those in records and those in the hands
\* of handlers are distinct and at most the counter's value, and above Base
\* where the deployment found no counter.
Holds(q) == reqs[q].stage \in {"login", "group", "put"}

Bounded ==
    /\ \A u \in Users : Exists(u) => record[u].uid <= counter
    /\ \A q \in Requests : Holds(q) => reqs[q].uid <= counter
Distinct ==
    /\ UidsAreUnique
    /\ \A q \in Requests, u \in Users : Holds(q) /\ Exists(u) => reqs[q].uid # record[u].uid
    /\ \A p, q \in Requests : Holds(p) /\ Holds(q) /\ p # q => reqs[p].uid # reqs[q].uid
AboveBase ==
    seeded = "yes" =>
        /\ counter >= Base
        /\ \A u \in Users : Exists(u) => record[u].uid > Base
        /\ \A q \in Requests : Holds(q) => reqs[q].uid > Base

UidInv == Bounded /\ Distinct /\ AboveBase
Kept == \A u \in Users : Exists(u) => Exists(u)' /\ record'[u].uid = record[u].uid

LEMMA InitUids == Init => UidInv
  BY DEF Init, UidInv, Bounded, Distinct, AboveBase, UidsAreUnique, Exists, Holds,
         NoRecord, NoReq, Req

\* What a step does that hands no UID out or over.
NoNewUid ==
    /\ UNCHANGED counting
    /\ \A u \in Users : (Exists(u) <=> Exists(u)') /\ record'[u].uid = record[u].uid
    /\ \A q \in Requests : Holds(q)' => Holds(q) /\ reqs'[q].uid = reqs[q].uid

LEMMA NoNewUidKeeps ==
    ASSUME Typed, UidInv, NoNewUid
    PROVE  UidInv' /\ Kept
<1>1. Bounded'
  BY DEF NoNewUid, UidInv, Bounded, counting
<1>2. Distinct'
  <2>1. UidsAreUnique'
    BY DEF NoNewUid, UidInv, Distinct, UidsAreUnique
  <2>2. \A q \in Requests, u \in Users : Holds(q)' /\ Exists(u)' => reqs'[q].uid # record'[u].uid
    BY DEF NoNewUid, UidInv, Distinct
  <2>3. \A p, q \in Requests : Holds(p)' /\ Holds(q)' /\ p # q => reqs'[p].uid # reqs'[q].uid
    BY DEF NoNewUid, UidInv, Distinct
  <2> QED
    BY <2>1, <2>2, <2>3 DEF Distinct
<1>3. AboveBase'
  BY DEF NoNewUid, UidInv, AboveBase, counting
<1>4. Kept
  BY DEF NoNewUid, Kept
<1> QED
  BY <1>1, <1>2, <1>3, <1>4 DEF UidInv

\* A request that did not hold a UID is handed the next one.
LEMMA NextUidKeeps ==
    ASSUME Typed, UidInv, NEW q \in Requests, ~Holds(q),
           reqs'[q].uid = counter + 1, counter' = counter + 1,
           \A p \in Requests \ {q} : reqs'[p] = reqs[p],
           UNCHANGED <<seeded, record>>
    PROVE  UidInv' /\ Kept
<1> USE DEF Typed, TypeOK
<1>0. /\ counter \in Nat
      /\ \A p \in Requests : reqs[p].uid \in Nat
      /\ \A u \in Users : Exists(u) => record[u].uid \in Nat
      /\ Base \in Nat
  BY UserAssumption DEF Reqs, Records, Exists, NoRecord
<1>1. Bounded'
  BY <1>0 DEF UidInv, Bounded, Exists, Holds
<1>2. Distinct'
  <2>1. UidsAreUnique'
    BY DEF UidInv, Distinct, UidsAreUnique, Exists
  <2>2. \A p \in Requests, u \in Users : Holds(p)' /\ Exists(u)' => reqs'[p].uid # record'[u].uid
    BY <1>0 DEF UidInv, Bounded, Distinct, Exists, Holds
  <2>3. \A p, o \in Requests : Holds(p)' /\ Holds(o)' /\ p # o => reqs'[p].uid # reqs'[o].uid
    BY <1>0 DEF UidInv, Bounded, Distinct, Holds
  <2> QED
    BY <2>1, <2>2, <2>3 DEF Distinct
<1>3. AboveBase'
  BY <1>0 DEF UidInv, AboveBase, Holds, Exists
<1>4. Kept
  BY DEF Kept, Exists
<1> QED
  BY <1>1, <1>2, <1>3, <1>4 DEF UidInv

\* A request hands its UID to the new record of its user.
LEMMA PutKeeps ==
    ASSUME Typed, UidInv, NEW q \in Requests, Holds(q), ~Exists(reqs[q].user),
           NEW r \in Records, r.uid = reqs[q].uid,
           record' = [record EXCEPT ![reqs[q].user] = r],
           ~Holds(q)',
           \A p \in Requests \ {q} : reqs'[p] = reqs[p],
           UNCHANGED counting
    PROVE  UidInv' /\ Kept
<1> USE DEF Typed, TypeOK, counting
<1>0. /\ reqs[q].user \in Users
      /\ record'[reqs[q].user].uid = reqs[q].uid
      /\ \A u \in Users \ {reqs[q].user} : record'[u] = record[u]
  BY DEF Holds
<1>1. Bounded'
  BY <1>0 DEF UidInv, Bounded, Exists, Holds
<1>2. Distinct'
  <2>1. UidsAreUnique'
    BY <1>0 DEF UidInv, Distinct, UidsAreUnique, Exists
  <2>2. \A p \in Requests, u \in Users : Holds(p)' /\ Exists(u)' => reqs'[p].uid # record'[u].uid
    BY <1>0 DEF UidInv, Distinct, Exists, Holds
  <2>3. \A p, o \in Requests : Holds(p)' /\ Holds(o)' /\ p # o => reqs'[p].uid # reqs'[o].uid
    BY DEF UidInv, Distinct, Holds
  <2> QED
    BY <2>1, <2>2, <2>3 DEF Distinct
<1>3. AboveBase'
  BY <1>0 DEF UidInv, AboveBase, Holds, Exists
<1>4. Kept
  BY <1>0 DEF Kept, Exists
<1> QED
  BY <1>1, <1>2, <1>3, <1>4 DEF UidInv

LEMMA NextUids ==
    ASSUME Typed, UidInv, [Next]_vars
    PROVE  UidInv' /\ Kept
<1> USE DEF Typed, TypeOK, At
<1>1. CASE SeedCounter
  <2>1. UNCHANGED <<record, reqs>>
    BY <1>1 DEF SeedCounter
  <2>2. /\ Kept
        /\ Distinct'
    BY <2>1 DEF Kept, UidInv, Distinct, UidsAreUnique, Exists, Holds
  <2>3. CASE counter = 0
    <3>1. \A u \in Users : ~Exists(u)
      BY <2>3 DEF UidInv, Bounded, Exists, Records, NoRecord
    <3>2. \A q \in Requests : ~Holds(q)
      BY <2>3 DEF UidInv, Bounded, Holds, Reqs
    <3>3. counter' = Base /\ Base \in Nat
      BY <1>1, <2>3, UserAssumption DEF SeedCounter
    <3> QED
      BY <2>1, <2>2, <3>1, <3>2, <3>3 DEF UidInv, Bounded, AboveBase, Exists, Holds
  <2>4. CASE counter # 0
    <3>1. counter' = counter /\ seeded' = "failed"
      BY <1>1, <2>4 DEF SeedCounter
    <3> QED
      BY <2>1, <2>2, <3>1 DEF UidInv, Bounded, AboveBase, Exists, Holds
  <2> QED
    BY <2>3, <2>4
<1>2. ASSUME NEW q \in Requests, CreateUser(q)
      PROVE  UidInv' /\ Kept
  <2>1. PICK u \in Users, admin \in BOOLEAN :
            /\ Accept(q, Req("create", u, admin, NextUid, "login"))
            /\ counter' = counter + 1
            /\ UNCHANGED <<seeded, record, login>>
    BY <1>2 DEF CreateUser
  <2>2. /\ ~Holds(q)
        /\ reqs'[q].uid = counter + 1
        /\ \A p \in Requests \ {q} : reqs'[p] = reqs[p]
    BY <2>1 DEF Accept, Holds, Req, NextUid
  <2> QED
    BY <2>1, <2>2, NextUidKeeps
<1>3. ASSUME NEW q \in Requests, AllocateUid(q)
      PROVE  UidInv' /\ Kept
  <2>1. /\ ~Holds(q)
        /\ reqs'[q].uid = counter + 1
        /\ \A p \in Requests \ {q} : reqs'[p] = reqs[p]
        /\ counter' = counter + 1
        /\ UNCHANGED <<seeded, record>>
    BY <1>3 DEF AllocateUid, Holds, Req, NextUid
  <2> QED
    BY <2>1, NextUidKeeps
<1>4. ASSUME NEW q \in Requests, PutRecord(q)
      PROVE  UidInv' /\ Kept
  <2> DEFINE r == [status |-> "ACTIVE", admin |-> reqs[q].admin, uid |-> reqs[q].uid]
  <2>1. CASE ~Exists(reqs[q].user) /\ record' = [record EXCEPT ![reqs[q].user] = r] /\ Done(q)
               /\ UNCHANGED counting
    <3>1. r \in Records /\ r.uid = reqs[q].uid /\ Holds(q)
      BY <1>4 DEF PutRecord, Records, Reqs, Holds
    <3>2. ~Holds(q)' /\ \A p \in Requests \ {q} : reqs'[p] = reqs[p]
      BY <2>1, RequestTypes DEF Holds
    <3> HIDE DEF r
    <3> QED
      BY <2>1, <3>1, <3>2, PutKeeps
  <2>2. CASE (Goto(q, "undo") \/ Done(q)) /\ UNCHANGED <<counting, record>>
    <3>1. ~Holds(q)' /\ \A p \in Requests \ {q} : reqs'[p] = reqs[p]
      BY <2>2 DEF Goto, Done, NoReq, Req, Holds, Reqs
    <3> QED
      BY <2>2, <3>1, NoNewUidKeeps DEF NoNewUid, Exists, Holds
  <2> QED
    BY <1>4, <2>1, <2>2 DEF PutRecord
<1>5. ASSUME NEW q \in Requests, LoginStep(q)
      PROVE  UidInv' /\ Kept
  <2>1. UNCHANGED <<counting, record>>
    BY <1>5 DEF LoginStep, CreateLogin, JoinAdministrators, DeleteLogin, DisableLogin,
                SignOut, EnableLogin
  <2>2. \/ Done(q)
        \/ Holds(q) /\ \E s \in {"group", "put", "undo"} : Goto(q, s)
        \/ Goto(q, "signout")
    BY <1>5 DEF LoginStep, CreateLogin, JoinAdministrators, DeleteLogin, DisableLogin,
                SignOut, EnableLogin, Holds, NextStage
  <2>3. \A p \in Requests : Holds(p)' => Holds(p) /\ reqs'[p].uid = reqs[p].uid
    BY <2>2 DEF Goto, Done, NoReq, Req, Holds, Reqs
  <2> QED
    BY <2>1, <2>3, NoNewUidKeeps DEF NoNewUid, Exists
<1>6. ASSUME NEW q \in Requests, Provision(q) \/ DeactivateUser(q) \/ ReactivateUser(q)
      PROVE  UidInv' /\ Kept
  <2>1. /\ UNCHANGED <<counting, record>>
        /\ \E op, u, a : \E s \in {"allocate", "inactive", "active"} :
              Accept(q, Req(op, u, a, 0, s))
    BY <1>6 DEF Provision, DeactivateUser, ReactivateUser
  <2>2. \A p \in Requests : Holds(p)' => Holds(p) /\ reqs'[p].uid = reqs[p].uid
    BY <2>1 DEF Accept, Holds, Req
  <2> QED
    BY <2>1, <2>2, NoNewUidKeeps DEF NoNewUid, Exists
<1>7. ASSUME NEW q \in Requests, SetInactive(q) \/ SetActive(q)
      PROVE  UidInv' /\ Kept
  <2>1. PICK v \in {"INACTIVE", "ACTIVE"}, s \in {"disable", "enable"} :
            /\ reqs[q].stage \in {"inactive", "active"}
            /\ SetStatus(q, v)
            /\ Goto(q, s)
            /\ UNCHANGED counting
    BY <1>7 DEF SetInactive, SetActive
  <2>2. reqs[q].user \in Users /\ Exists(reqs[q].user) /\ record[reqs[q].user] \in Records
    BY <2>1 DEF KnownUsers, Exists, NoRecord
  <2>3. \A u \in Users : (Exists(u) <=> Exists(u)') /\ record'[u].uid = record[u].uid
    BY <2>1, <2>2 DEF SetStatus, Exists, Records
  <2>4. \A p \in Requests : Holds(p)' => Holds(p) /\ reqs'[p].uid = reqs[p].uid
    BY <2>1 DEF Goto, Holds, Reqs
  <2> QED
    BY <2>1, <2>3, <2>4, NoNewUidKeeps DEF NoNewUid
<1>8. ASSUME NEW u \in Users, SignIn(u)
      PROVE  UidInv' /\ Kept
  BY <1>8, NoNewUidKeeps DEF SignIn, NoNewUid, Exists, Holds
<1>9. CASE UNCHANGED vars
  BY <1>9, NoNewUidKeeps DEF vars, NoNewUid, Exists, Holds
<1> QED
  BY <1>1, <1>2, <1>3, <1>4, <1>5, <1>6, <1>7, <1>8, <1>9 DEF Next, LoginStep

LEMMA UidsInvariant == Spec => [](Typed /\ UidInv)
<1>1. Init => Typed /\ UidInv
  BY InitTyped, InitUids
<1>2. Typed /\ UidInv /\ [Next]_vars => Typed' /\ UidInv'
  BY NextTyped, NextUids
<1> QED
  BY <1>1, <1>2, PTL DEF Spec

(* No two users have the same UID, whatever requests race, are retried for  *)
(* the same id or fail between the counter and the record.                  *)
THEOREM UidsNeverCollide == Spec => []UidsAreUnique
<1>1. Typed /\ UidInv => UidsAreUnique
  BY DEF UidInv, Distinct
<1> QED
  BY <1>1, UidsInvariant, PTL

(* Where the deployment found no counter, every UID is above its base.      *)
THEOREM UidsStayAboveBase == Spec => []UidsAreAboveBase
<1>1. Typed /\ UidInv => UidsAreAboveBase
  BY DEF UidInv, AboveBase, UidsAreAboveBase
<1> QED
  BY <1>1, UidsInvariant, PTL

(* A UID is permanent: neither a status change nor a second create of the   *)
(* id changes it.                                                           *)
THEOREM UidsNeverChange == Spec => UidsArePermanent
<1>1. Typed /\ UidInv /\ [Next]_vars =>
          [\A u \in Users : Exists(u) => record'[u].uid = record[u].uid]_vars
  BY NextUids DEF Kept
<1> QED
  BY <1>1, UidsInvariant, PTL DEF Spec, UidsArePermanent

-----------------------------------------------------------------------------
(* Logins follow the records, for any users, requests and failures.         *)

\* The provisioner works for the administrator alone.
Allocating == \A q \in Requests : At(q, "allocate") => reqs[q].user = Admin

\* The two sides of a user agree, or there is a login made by hand at most.
Match(u) ==
    /\ login[u].state = IF record[u].status = "ACTIVE" THEN "enabled" ELSE "disabled"
    /\ record[u].status = "INACTIVE" => ~login[u].session
    /\ login[u].admin = record[u].admin
Settled(u) ==
    /\ Exists(u) => Match(u)
    /\ ~Exists(u) => login[u].state \in {"none", "enabled"} /\ ~login[u].admin

\* What a handler has brought about in each stage.
Between(u, status, state) ==
    /\ record[u].status = status /\ login[u].state = state
    /\ login[u].admin = record[u].admin
InHand(r, u) ==
    /\ r.stage # "undo"
    /\ r.stage \in {"allocate", "login"} => Settled(u)
    /\ r.stage = "login" /\ r.op = "create" => ~Exists(u)
    /\ r.stage = "group" => ~Exists(u) /\ login[u].state = "enabled" /\ r.admin
    /\ r.stage = "put" => ~Exists(u) /\ login[u].state = "enabled" /\ login[u].admin = r.admin
    /\ r.stage = "inactive" => record[u].status = "ACTIVE" /\ Match(u)
    /\ r.stage = "disable" => Between(u, "INACTIVE", "enabled")
    /\ r.stage = "signout" => Between(u, "INACTIVE", "disabled")
    /\ r.stage = "active" => record[u].status = "INACTIVE" /\ Match(u)
    /\ r.stage = "enable" => Between(u, "ACTIVE", "disabled")

\* The inductive invariant of a user that nothing spoiled: one handler at a
\* time works for the user, and records and logins are as far as it has got.
WorksFor(q, u) == Working(q) /\ reqs[q].user = u
Safe(u) ==
    /\ \A p, q \in Requests : WorksFor(p, u) /\ WorksFor(q, u) => p = q
    /\ \A q \in Requests : WorksFor(q, u) => InHand(reqs[q], u)
    /\ ~Busy(u) => Settled(u)

LoginInv == Allocating /\ \A u \in Users \ spoiled : Safe(u)

LEMMA InvImpliesLogins == LoginInv => LoginsFollowRecords
  BY DEF LoginInv, Safe, Settled, Match, LoginsFollowRecords

LEMMA InitLogins == Init => LoginInv
<1> SUFFICES ASSUME Init PROVE LoginInv
  OBVIOUS
<1>1. \A q \in Requests : ~Working(q) /\ ~At(q, "allocate")
  BY DEF Init, Working, At, NoReq, Req
<1>2. \A u \in Users : Settled(u)
  BY DEF Init, Settled, Exists, NoRecord, NewLogin, NoLogin
<1> QED
  BY <1>1, <1>2 DEF LoginInv, Allocating, Safe, WorksFor

-----------------------------------------------------------------------------
\* Steps beside u: signing in is one, for who can sign in is not INACTIVE.
Others(q) == \A p \in Requests \ {q} : reqs'[p] = reqs[p]
Aside(u) ==
    /\ record'[u] = record[u]
    /\ login'[u].state = login[u].state /\ login'[u].admin = login[u].admin
    /\ login'[u].session => login[u].session \/ login[u].state = "enabled"
    /\ \A q \in Requests : reqs'[q] = reqs[q] \/ (~WorksFor(q, u) /\ ~WorksFor(q, u)')

LEMMA AsideSafe ==
    ASSUME NEW u \in Users, Safe(u), Aside(u)
    PROVE  Safe(u)'
<1>1. \A q \in Requests : WorksFor(q, u)' <=> WorksFor(q, u)
  BY DEF Aside, WorksFor, Working
<1>2. \A q \in Requests : WorksFor(q, u) => reqs'[q] = reqs[q]
  BY DEF Aside
<1>3. (Exists(u)' <=> Exists(u)) /\ (Match(u) => Match(u)') /\ (Settled(u) => Settled(u)')
  BY DEF Aside, Exists, Match, Settled
<1>4. \A s, t : Between(u, s, t) => Between(u, s, t)'
  BY DEF Aside, Between
<1>5. ASSUME NEW q \in Requests, WorksFor(q, u)'
      PROVE  InHand(reqs[q], u)'
  <2>1. InHand(reqs[q], u) /\ reqs'[q] = reqs[q]
    BY <1>1, <1>2, <1>5 DEF Safe
  <2> QED
    BY <1>3, <1>4, <2>1 DEF InHand, Aside
<1>6. ~Busy(u)' => Settled(u)'
  BY <1>1, <1>3 DEF Safe, Busy, WorksFor
<1> QED
  BY <1>1, <1>5, <1>6 DEF Safe

\* Steps of the handler that works for u.
LEMMA HandlerSafe ==
    ASSUME NEW u \in Users, Safe(u), NEW q \in Requests, Working(q), Others(q),
           reqs'[q].user = reqs[q].user \/ reqs'[q].stage = "done",
           reqs'[q].stage # "unused",
           reqs[q].user # u => record'[u] = record[u] /\ login'[u] = login[u],
           reqs[q].user = u =>
               IF reqs'[q].stage = "done" THEN Settled(u)' ELSE InHand(reqs[q], u)'
    PROVE  Safe(u)'
<1>1. CASE reqs[q].user # u
  <2>1. ~WorksFor(q, u) /\ ~WorksFor(q, u)'
    BY <1>1 DEF WorksFor, Working
  <2> QED
    BY <1>1, <2>1, AsideSafe DEF Aside, Others
<1>2. CASE reqs[q].user = u
  <2>1. \A p \in Requests \ {q} : ~WorksFor(p, u)'
    BY <1>2 DEF Safe, WorksFor, Working, Others
  <2>2. WorksFor(q, u)' => InHand(reqs[q], u)'
    BY <1>2 DEF WorksFor, Working
  <2>3. ~Busy(u)' => Settled(u)'
    BY <1>2 DEF Busy, WorksFor, Working
  <2> QED
    BY <1>2, <2>1, <2>2, <2>3 DEF Safe, Busy, WorksFor, Working
<1> QED
  BY <1>1, <1>2

-----------------------------------------------------------------------------
LEMMA GotoKeeps ==
    ASSUME Typed, NEW q \in Requests, NEW s \in Stages, Goto(q, s)
    PROVE  /\ Others(q)
           /\ reqs'[q].stage = s /\ reqs'[q].user = reqs[q].user
           /\ reqs'[q].op = reqs[q].op /\ reqs'[q].admin = reqs[q].admin
<1>1. reqs'[q] = [reqs[q] EXCEPT !.stage = s] /\ \A p \in Requests \ {q} : reqs'[p] = reqs[p]
  BY RequestTypes
<1>2. reqs[q] \in Reqs
  BY DEF Typed, TypeOK
<1> QED
  BY <1>1, <1>2 DEF Others, Reqs

LEMMA DoneKeeps ==
    ASSUME Typed, NEW q \in Requests, Done(q)
    PROVE  Others(q) /\ reqs'[q].stage = "done"
  BY RequestTypes DEF Others

\* A handler that goes on, or ends, and changes its own user at most.
Onward(q, s) == Goto(q, s) /\ s # "unused" /\ s # "done"
Only(q) == \A w \in Users \ {reqs[q].user} : record'[w] = record[w] /\ login'[w] = login[w]

LEMMA GoesOn ==
    ASSUME Typed, NEW q \in Requests, Working(q), NEW s \in Stages, Onward(q, s), Only(q),
           NEW u \in Users, Safe(u), reqs[q].user = u => InHand(reqs[q], u)'
    PROVE  Safe(u)'
<1>1. /\ Others(q)
      /\ reqs'[q].stage = s /\ reqs'[q].user = reqs[q].user
  BY GotoKeeps DEF Onward
<1> QED
  BY <1>1, HandlerSafe DEF Only, Onward

LEMMA Ends ==
    ASSUME Typed, NEW q \in Requests, Working(q), Done(q), Only(q),
           NEW u \in Users, Safe(u), reqs[q].user = u => Settled(u)'
    PROVE  Safe(u)'
  BY DoneKeeps, HandlerSafe DEF Only

\* What a handler knows of its user.
LEMMA Known ==
    ASSUME Typed, NEW q \in Requests, Working(q), NEW u \in Users, Safe(u), reqs[q].user = u
    PROVE  InHand(reqs[q], u)
  BY DEF Safe, WorksFor

-----------------------------------------------------------------------------
(* The steps that make a user.                                              *)

LEMMA CreateLoginSafe ==
    ASSUME Typed, NEW q \in Requests, CreateLogin(q), NEW u \in Users \ spoiled', Safe(u)
    PROVE  Safe(u)'
<1> USE DEF Typed, TypeOK
<1>1. Working(q) /\ Only(q) /\ reqs[q].stage = "login"
  BY DEF CreateLogin, At, Working, Only
<1>2. /\ UNCHANGED record
      /\ \/ /\ HasLogin(reqs[q].user) => reqs[q].op = "create" /\ UNCHANGED login
            /\ ~HasLogin(reqs[q].user) => login' = [login EXCEPT ![reqs[q].user] = NewLogin]
            /\ Goto(q, NextStage(q))
         \/ Done(q) /\ UNCHANGED login
      /\ reqs[q].user = u => UNCHANGED spoiled
  BY DEF CreateLogin, Fault
<1>3. CASE Done(q) /\ UNCHANGED login
  <2>1. reqs[q].user = u => Settled(u)'
    BY <1>1, <1>2, <1>3, Known DEF InHand, Settled, Match, Exists
  <2> QED
    BY <1>1, <1>3, <2>1, Ends
<1>4. CASE /\ HasLogin(reqs[q].user) => reqs[q].op = "create" /\ UNCHANGED login
           /\ ~HasLogin(reqs[q].user) => login' = [login EXCEPT ![reqs[q].user] = NewLogin]
           /\ Goto(q, NextStage(q))
  <2>1. NextStage(q) \in Stages /\ Onward(q, NextStage(q))
    BY <1>4 DEF NextStage, Stages, Onward
  <2>2. ASSUME reqs[q].user = u
        PROVE  InHand(reqs[q], u)'
    <3>1. Settled(u) /\ (reqs[q].op = "create" => ~Exists(u))
      BY <1>1, <2>2, Known DEF InHand
    <3>2. ~Exists(u) /\ ~Exists(u)'
      BY <1>2, <1>4, <2>2, <3>1 DEF Settled, Match, HasLogin, Exists
    <3>3. login'[u].state = "enabled" /\ ~login'[u].admin
      BY <1>4, <2>2, <3>1, <3>2 DEF Settled, HasLogin, NewLogin, NoLogin
    <3>4. reqs'[q].stage = NextStage(q) /\ reqs'[q].admin = reqs[q].admin
      BY <1>4, <2>1, GotoKeeps
    <3>5. reqs[q] \in Reqs /\ reqs[q].admin \in BOOLEAN
      BY DEF Reqs
    <3>6. login'[u].admin = FALSE
      <4>1. UNCHANGED login \/ login' = [login EXCEPT ![u] = NewLogin]
        BY <1>4, <2>2
      <4>2. login[u].admin \in BOOLEAN
        BY DEF Logins
      <4>3. NewLogin.admin = FALSE
        BY DEF NewLogin, NoLogin
      <4> QED
        BY <3>3, <4>1, <4>2, <4>3
    <3> QED
      BY <3>2, <3>3, <3>4, <3>5, <3>6 DEF InHand, NextStage
  <2> QED
    BY <1>1, <2>1, <2>2, GoesOn
<1> QED
  BY <1>2, <1>3, <1>4

LEMMA JoinAdministratorsSafe ==
    ASSUME Typed, NEW q \in Requests, JoinAdministrators(q), NEW u \in Users \ spoiled', Safe(u)
    PROVE  Safe(u)'
<1> USE DEF Typed, TypeOK
<1>1. Working(q) /\ Only(q) /\ reqs[q].stage = "group" /\ UNCHANGED record
  BY DEF JoinAdministrators, At, Working, Only
<1>2. CASE /\ login' = [login EXCEPT ![reqs[q].user].admin = TRUE]
           /\ Goto(q, "put")
  <2>1. "put" \in Stages /\ Onward(q, "put")
    BY <1>2 DEF Stages, Onward
  <2>2. ASSUME reqs[q].user = u
        PROVE  InHand(reqs[q], u)'
    <3>1. ~Exists(u) /\ login[u].state = "enabled" /\ reqs[q].admin
      BY <1>1, <2>2, Known DEF InHand
    <3>2. login'[u].state = "enabled" /\ login'[u].admin
      BY <1>2, <2>2, <3>1 DEF Logins
    <3>3. reqs'[q].stage = "put" /\ reqs'[q].admin = reqs[q].admin
      BY <1>2, <2>1, GotoKeeps
    <3>4. reqs[q].admin = TRUE /\ login'[u].admin = TRUE
      BY <1>2, <2>2, <3>1 DEF Reqs, Logins
    <3> QED
      BY <1>1, <3>1, <3>2, <3>3, <3>4 DEF InHand, Exists
  <2> QED
    BY <1>1, <2>1, <2>2, GoesOn
<1>3. CASE /\ Fault("cognito", q) \/ ~HasLogin(reqs[q].user)
           /\ Done(q) \/ Goto(q, "undo")
  <2>1. reqs[q].user # u
    <3> SUFFICES ASSUME reqs[q].user = u PROVE FALSE
      OBVIOUS
    <3>1. login[u].state = "enabled"
      BY <1>1, Known DEF InHand
    <3> QED
      BY <1>3, <3>1 DEF Fault, HasLogin
  <2>2. "undo" \in Stages /\ (Goto(q, "undo") => Onward(q, "undo"))
    BY DEF Stages, Onward
  <2> QED
    BY <1>1, <1>3, <2>1, <2>2, GoesOn, Ends
<1> QED
  BY <1>2, <1>3 DEF JoinAdministrators

LEMMA PutRecordSafe ==
    ASSUME Typed, NEW q \in Requests, PutRecord(q), NEW u \in Users \ spoiled', Safe(u)
    PROVE  Safe(u)'
<1> USE DEF Typed, TypeOK
<1>1. Working(q) /\ Only(q) /\ reqs[q].stage = "put" /\ UNCHANGED login
  BY DEF PutRecord, At, Working, Only
<1>2. CASE /\ record' = [record EXCEPT ![reqs[q].user] =
                            [status |-> "ACTIVE", admin |-> reqs[q].admin, uid |-> reqs[q].uid]]
           /\ Done(q)
  <2>1. ASSUME reqs[q].user = u
        PROVE  Settled(u)'
    <3>1. login[u].state = "enabled" /\ login[u].admin = reqs[q].admin
      BY <1>1, <2>1, Known DEF InHand
    <3>2. record'[u].status = "ACTIVE" /\ record'[u].admin = reqs[q].admin
      BY <1>2, <2>1
    <3> QED
      BY <1>1, <3>1, <3>2 DEF Settled, Match, Exists
  <2> QED
    BY <1>1, <1>2, <2>1, Ends
<1>3. CASE /\ Exists(reqs[q].user) \/ Fault("table", q)
           /\ Done(q) \/ Goto(q, "undo")
  <2>1. reqs[q].user # u
    <3> SUFFICES ASSUME reqs[q].user = u PROVE FALSE
      OBVIOUS
    <3>1. ~Exists(u)
      BY <1>1, Known DEF InHand
    <3> QED
      BY <1>3, <3>1 DEF Fault
  <2>2. "undo" \in Stages /\ (Goto(q, "undo") => Onward(q, "undo"))
    BY DEF Stages, Onward
  <2> QED
    BY <1>1, <1>3, <2>1, <2>2, GoesOn, Ends
<1> QED
  BY <1>2, <1>3 DEF PutRecord

LEMMA DeleteLoginSafe ==
    ASSUME Typed, NEW q \in Requests, DeleteLogin(q), NEW u \in Users \ spoiled', Safe(u)
    PROVE  Safe(u)'
<1>1. Working(q) /\ Only(q) /\ reqs[q].stage = "undo" /\ Done(q)
  BY DEF DeleteLogin, At, Working, Only, Typed, TypeOK
<1>2. reqs[q].user # u
  BY <1>1, Known DEF InHand
<1> QED
  BY <1>1, <1>2, Ends

-----------------------------------------------------------------------------
(* The steps that change the status of a user.                              *)

\* Writing the status of a record that is there.
LEMMA StatusWritten ==
    ASSUME Typed, NEW q \in Requests, reqs[q].stage \in {"inactive", "active"},
           NEW v, SetStatus(q, v)
    PROVE  /\ record'[reqs[q].user].status = v
           /\ record'[reqs[q].user].admin = record[reqs[q].user].admin
  BY DEF Typed, TypeOK, KnownUsers, Exists, NoRecord, Records, SetStatus, Stages

LEMMA StatusSafe ==
    ASSUME Typed, NEW q \in Requests, SetInactive(q) \/ SetActive(q),
           NEW u \in Users \ spoiled', Safe(u)
    PROVE  Safe(u)'
<1>1. PICK s \in {"inactive", "active"} :
          /\ reqs[q].stage = s
          /\ SetStatus(q, IF s = "active" THEN "ACTIVE" ELSE "INACTIVE")
          /\ Goto(q, IF s = "active" THEN "enable" ELSE "disable")
          /\ UNCHANGED login
  BY DEF SetInactive, SetActive, At
<1> DEFINE new == IF s = "active" THEN "ACTIVE" ELSE "INACTIVE"
           next == IF s = "active" THEN "enable" ELSE "disable"
<1>2. Working(q) /\ Only(q)
  BY <1>1 DEF Working, Only, SetStatus, Typed, TypeOK
<1>3. next \in Stages /\ Onward(q, next)
  BY <1>1 DEF Stages, Onward
<1>4. ASSUME reqs[q].user = u
      PROVE  InHand(reqs[q], u)'
  <2>1. Match(u) /\ record[u].status = IF s = "active" THEN "INACTIVE" ELSE "ACTIVE"
    BY <1>1, <1>2, <1>4, Known DEF InHand
  <2>2. record'[u].status = new /\ record'[u].admin = record[u].admin
    BY <1>1, <1>4, StatusWritten
  <2>3. reqs'[q].stage = next
    BY <1>1, <1>3, GotoKeeps
  <2> QED
    BY <1>1, <2>1, <2>2, <2>3 DEF InHand, Match, Between
<1> HIDE DEF next
<1> QED
  BY <1>2, <1>3, <1>4, GoesOn

LEMMA DisableLoginSafe ==
    ASSUME Typed, NEW q \in Requests, DisableLogin(q), NEW u \in Users \ spoiled', Safe(u)
    PROVE  Safe(u)'
<1> USE DEF Typed, TypeOK
<1>1. Working(q) /\ Only(q) /\ reqs[q].stage = "disable" /\ UNCHANGED record
  BY DEF DisableLogin, At, Working, Only
<1>2. CASE /\ login' = [login EXCEPT ![reqs[q].user].state = "disabled"]
           /\ Goto(q, "signout")
  <2>1. "signout" \in Stages /\ Onward(q, "signout")
    BY <1>2 DEF Stages, Onward
  <2>2. ASSUME reqs[q].user = u
        PROVE  InHand(reqs[q], u)'
    <3>1. Between(u, "INACTIVE", "enabled")
      BY <1>1, <2>2, Known DEF InHand
    <3>2. login'[u].state = "disabled" /\ login'[u].admin = login[u].admin
      BY <1>2, <2>2 DEF Logins
    <3>3. reqs'[q].stage = "signout"
      BY <1>2, <2>1, GotoKeeps
    <3> QED
      BY <1>1, <3>1, <3>2, <3>3 DEF InHand, Between
  <2> QED
    BY <1>1, <2>1, <2>2, GoesOn
<1>3. CASE Done(q) /\ (~HasLogin(reqs[q].user) \/ Fault("cognito", q))
  <2>1. reqs[q].user # u
    <3> SUFFICES ASSUME reqs[q].user = u PROVE FALSE
      OBVIOUS
    <3>1. login[u].state = "enabled"
      BY <1>1, Known DEF InHand, Between
    <3> QED
      BY <1>3, <3>1 DEF Fault, HasLogin
  <2> QED
    BY <1>1, <1>3, <2>1, Ends
<1> QED
  BY <1>2, <1>3 DEF DisableLogin

LEMMA SignOutSafe ==
    ASSUME Typed, NEW q \in Requests, SignOut(q), NEW u \in Users \ spoiled', Safe(u)
    PROVE  Safe(u)'
<1> USE DEF Typed, TypeOK
<1>1. Working(q) /\ Only(q) /\ reqs[q].stage = "signout" /\ UNCHANGED record /\ Done(q)
  BY DEF SignOut, At, Working, Only
<1>2. ASSUME reqs[q].user = u
      PROVE  Settled(u)'
  <2>1. Between(u, "INACTIVE", "disabled")
    BY <1>1, <1>2, Known DEF InHand
  <2>2. login' = [login EXCEPT ![u].session = FALSE]
    BY <1>2 DEF SignOut, Fault
  <2>3. login'[u].state = login[u].state /\ login'[u].admin = login[u].admin /\ ~login'[u].session
    BY <2>2 DEF Logins
  <2> QED
    BY <1>1, <2>1, <2>3 DEF Settled, Match, Between, Exists
<1> QED
  BY <1>1, <1>2, Ends

LEMMA EnableLoginSafe ==
    ASSUME Typed, NEW q \in Requests, EnableLogin(q), NEW u \in Users \ spoiled', Safe(u)
    PROVE  Safe(u)'
<1> USE DEF Typed, TypeOK
<1>1. Working(q) /\ Only(q) /\ reqs[q].stage = "enable" /\ UNCHANGED record /\ Done(q)
  BY DEF EnableLogin, At, Working, Only
<1>2. ASSUME reqs[q].user = u
      PROVE  Settled(u)'
  <2>1. Between(u, "ACTIVE", "disabled")
    BY <1>1, <1>2, Known DEF InHand
  <2>2. login' = [login EXCEPT ![u].state = "enabled"]
    BY <1>2, <2>1 DEF EnableLogin, Fault, HasLogin, Between
  <2>3. login'[u].state = "enabled" /\ login'[u].admin = login[u].admin
    BY <2>2 DEF Logins
  <2> QED
    BY <1>1, <2>1, <2>3 DEF Settled, Match, Between, Exists
<1> QED
  BY <1>1, <1>2, Ends

-----------------------------------------------------------------------------
(* The steps that begin, and the rest.                                      *)

\* A request is taken up for a user nobody is working on, or spoils the user.
LEMMA AcceptSafe ==
    ASSUME Typed, NEW q \in Requests, NEW r \in Reqs, r.user \in Users,
           r.stage \notin {"unused", "done"}, Accept(q, r), UNCHANGED <<record, login>>,
           NEW u \in Users \ spoiled', Safe(u),
           (r.user = u /\ ~Busy(u) /\ (r.op = "create" => ~Exists(u))) => InHand(r, u)'
    PROVE  Safe(u)'
<1>1. /\ At(q, "unused")
      /\ reqs'[q] = r /\ Others(q)
      /\ spoiled' = IF Busy(r.user) \/ (r.op = "create" /\ Exists(r.user))
                    THEN spoiled \cup {r.user} ELSE spoiled
  BY DEF Accept, Others, Typed, TypeOK
<1>2. CASE r.user # u
  <2>1. ~WorksFor(q, u) /\ ~WorksFor(q, u)'
    BY <1>1, <1>2 DEF WorksFor, Working, At
  <2> QED
    BY <1>1, <2>1, AsideSafe DEF Aside, Others
<1>3. CASE r.user = u
  <2>1. ~Busy(u) /\ (r.op = "create" => ~Exists(u))
    BY <1>1, <1>3
  <2>2. \A p \in Requests \ {q} : ~WorksFor(p, u)'
    BY <1>1, <2>1 DEF Busy, WorksFor, Working, Others
  <2>3. WorksFor(q, u)' /\ InHand(reqs[q], u)'
    BY <1>1, <1>3, <2>1 DEF WorksFor, Working
  <2> QED
    BY <2>2, <2>3 DEF Safe, Busy, WorksFor
<1> QED
  BY <1>2, <1>3

LEMMA CreateUserSafe ==
    ASSUME Typed, NEW q \in Requests, CreateUser(q), NEW u \in Users \ spoiled', Safe(u)
    PROVE  Safe(u)'
<1>0. NextUid \in Nat
  BY DEF NextUid, Typed, TypeOK
<1>1. PICK w \in Users, admin \in BOOLEAN, uid \in Nat :
          /\ Accept(q, Req("create", w, admin, uid, "login"))
          /\ UNCHANGED <<record, login>>
  BY <1>0 DEF CreateUser
<1> DEFINE r == Req("create", w, admin, uid, "login")
<1>2. r \in Reqs /\ r.user = w /\ r.stage = "login" /\ r.op = "create"
  BY DEF Req, Reqs, Stages
<1>3. Accept(q, r)
  BY <1>1
<1> HIDE DEF r
<1>4. (r.user = u /\ ~Busy(u) /\ ~Exists(u)) => InHand(r, u)'
  BY <1>1, <1>2 DEF Safe, InHand, Settled, Match, Exists
<1> QED
  BY <1>1, <1>2, <1>3, <1>4, AcceptSafe

LEMMA ProvisionSafe ==
    ASSUME Typed, NEW q \in Requests, Provision(q), NEW u \in Users \ spoiled', Safe(u)
    PROVE  Safe(u)'
<1> DEFINE r == Req("provision", Admin, TRUE, 0, "allocate")
<1>1. Accept(q, r) /\ UNCHANGED <<record, login>>
  BY DEF Provision
<1>2. r \in Reqs /\ r.user \in Users /\ r.stage = "allocate" /\ r.op = "provision"
  BY UserAssumption DEF Req, Reqs, Stages
<1> HIDE DEF r
<1>3. ~Busy(u) => InHand(r, u)'
  BY <1>1, <1>2 DEF Safe, InHand, Settled, Match, Exists
<1> QED
  BY <1>1, <1>2, <1>3, AcceptSafe

LEMMA StatusRequestSafe ==
    ASSUME Typed, NEW q \in Requests, DeactivateUser(q) \/ ReactivateUser(q),
           NEW u \in Users \ spoiled', Safe(u)
    PROVE  Safe(u)'
<1>1. PICK w \in Users, op \in {"deactivate", "reactivate"}, s \in {"inactive", "active"} :
          /\ record[w].status = IF s = "inactive" THEN "ACTIVE" ELSE "INACTIVE"
          /\ Accept(q, Req(op, w, FALSE, 0, s))
          /\ UNCHANGED <<record, login>>
  BY DEF DeactivateUser, ReactivateUser
<1> DEFINE r == Req(op, w, FALSE, 0, s)
<1>2. r \in Reqs /\ r.user = w /\ r.stage = s /\ r.op # "create"
  BY DEF Req, Reqs, Stages
<1>3. Accept(q, r)
  BY <1>1
<1> HIDE DEF r
<1>4. ASSUME r.user = u, ~Busy(u)
      PROVE  InHand(r, u)'
  <2>1. Match(u)
    BY <1>1, <1>2, <1>4 DEF Safe, Settled, Exists
  <2> QED
    BY <1>1, <1>2, <1>4, <2>1 DEF InHand, Match
<1> QED
  BY <1>1, <1>2, <1>3, <1>4, AcceptSafe

LEMMA AllocateUidSafe ==
    ASSUME Typed, Allocating, NEW q \in Requests, AllocateUid(q),
           NEW u \in Users \ spoiled', Safe(u)
    PROVE  Safe(u)'
<1> DEFINE r == Req("provision", Admin, TRUE, NextUid, "login")
<1>1. /\ reqs[q].stage = "allocate" /\ reqs[q].user = Admin
      /\ reqs'[q] = r /\ Others(q) /\ UNCHANGED <<record, login>>
  BY DEF AllocateUid, At, Allocating, Others, Typed, TypeOK
<1>2. Working(q)
  BY <1>1 DEF Working
<1>3. r.user = Admin /\ r.stage = "login" /\ r.op = "provision"
  BY DEF Req
<1> HIDE DEF r
<1>4. ASSUME reqs[q].user = u
      PROVE  InHand(reqs[q], u)'
  <2>1. Settled(u)
    BY <1>1, <1>2, <1>4, Known DEF InHand
  <2> QED
    BY <1>1, <1>3, <2>1 DEF InHand, Settled, Match, Exists
<1> QED
  BY <1>1, <1>2, <1>3, <1>4, HandlerSafe

LEMMA SignInSafe ==
    ASSUME Typed, NEW w \in Users, SignIn(w), NEW u \in Users, Safe(u)
    PROVE  Safe(u)'
<1>1. UNCHANGED <<record, reqs>>
  BY DEF SignIn
<1>2. /\ login'[u].state = login[u].state /\ login'[u].admin = login[u].admin
      /\ login'[u].session => login[u].session \/ login[u].state = "enabled"
  BY DEF SignIn, Typed, TypeOK, Logins
<1> QED
  BY <1>1, <1>2, AsideSafe DEF Aside

\* Who allocates is a provisioner, and allocation is the first thing it does.
LEMMA NextAllocating ==
    ASSUME Typed, Allocating, [Next]_vars
    PROVE  Allocating'
<1> USE DEF Typed, TypeOK
<1>1. ASSUME NEW q \in Requests,
             \/ \E s \in Stages \ {"allocate"} : Goto(q, s)
             \/ Done(q)
      PROVE  Allocating'
  BY <1>1, GotoKeeps, DoneKeeps DEF Allocating, At, Others
<1>2. ASSUME NEW q \in Requests, NEW r \in Reqs, reqs' = [reqs EXCEPT ![q] = r],
             r.stage = "allocate" => r.user = Admin
      PROVE  Allocating'
  BY <1>2 DEF Allocating, At
<1>3. CASE SeedCounter \/ (\E u \in Users : SignIn(u)) \/ UNCHANGED vars
  BY <1>3 DEF SeedCounter, SignIn, vars, Allocating, At
<1>4. ASSUME NEW q \in Requests,
             \/ LoginStep(q) \/ PutRecord(q) \/ SetInactive(q) \/ SetActive(q)
      PROVE  Allocating'
  <2>1. Done(q) \/ \E s \in {"group", "put", "undo", "signout", "disable", "enable"} : Goto(q, s)
    BY <1>4 DEF LoginStep, CreateLogin, NextStage, JoinAdministrators, DeleteLogin,
                DisableLogin, SignOut, EnableLogin, PutRecord, SetInactive, SetActive
  <2> QED
    BY <1>1, <2>1 DEF Stages
<1>5. ASSUME NEW q \in Requests, NEW op \in {"create", "deactivate", "reactivate"},
             NEW u \in Users, NEW admin \in BOOLEAN, NEW uid \in Nat,
             NEW s \in {"login", "inactive", "active"},
             Accept(q, Req(op, u, admin, uid, s))
      PROVE  Allocating'
  <2>1. Req(op, u, admin, uid, s) \in Reqs /\ Req(op, u, admin, uid, s).stage # "allocate"
    BY DEF Req, Reqs, Stages
  <2>2. reqs' = [reqs EXCEPT ![q] = Req(op, u, admin, uid, s)]
    BY <1>5 DEF Accept
  <2> QED
    BY <1>2, <2>1, <2>2
<1>6. ASSUME NEW q \in Requests,
             CreateUser(q) \/ DeactivateUser(q) \/ ReactivateUser(q)
      PROVE  Allocating'
  <2>1. NextUid \in Nat
    BY DEF NextUid
  <2> QED
    BY <1>5, <1>6, <2>1 DEF CreateUser, DeactivateUser, ReactivateUser
<1>7. ASSUME NEW q \in Requests, Provision(q) \/ AllocateUid(q)
      PROVE  Allocating'
  <2>0. NextUid \in Nat
    BY DEF NextUid
  <2>1. PICK uid \in Nat, s \in {"allocate", "login"} :
            reqs' = [reqs EXCEPT ![q] = Req("provision", Admin, TRUE, uid, s)]
    <3>1. CASE Provision(q)
      <4>1. reqs' = [reqs EXCEPT ![q] = Req("provision", Admin, TRUE, 0, "allocate")]
        BY <3>1 DEF Provision, Accept
      <4> QED
        BY <4>1
    <3>2. CASE AllocateUid(q)
      BY <2>0, <3>2 DEF AllocateUid
    <3> QED
      BY <1>7, <3>1, <3>2
  <2>2. /\ Req("provision", Admin, TRUE, uid, s) \in Reqs
        /\ Req("provision", Admin, TRUE, uid, s).user = Admin
    BY UserAssumption DEF Req, Reqs, Stages
  <2> QED
    BY <1>2, <2>1, <2>2
<1> QED
  BY <1>3, <1>4, <1>6, <1>7 DEF Next, LoginStep

LEMMA NextLogins ==
    ASSUME Typed, LoginInv, [Next]_vars
    PROVE  LoginInv'
<1>1. SUFFICES ASSUME NEW u \in Users \ spoiled' PROVE Safe(u)'
  BY NextAllocating DEF LoginInv
<1>2. spoiled \subseteq spoiled'
  BY DEF Next, SeedCounter, CreateUser, Provision, AllocateUid, Accept, CreateLogin,
         JoinAdministrators, PutRecord, DeleteLogin, DeactivateUser, SetInactive,
         DisableLogin, SignOut, ReactivateUser, SetActive, EnableLogin, SignIn, Fault, vars
<1>3. Safe(u) /\ Allocating
  BY <1>2 DEF LoginInv
<1>4. CASE SeedCounter \/ UNCHANGED vars
  <2>1. UNCHANGED <<record, login, reqs>>
    BY <1>4 DEF SeedCounter, vars
  <2> QED
    BY <1>3, <2>1, AsideSafe DEF Aside
<1>5. ASSUME NEW q \in Requests,
             \/ CreateUser(q) \/ Provision(q) \/ AllocateUid(q)
             \/ CreateLogin(q) \/ JoinAdministrators(q) \/ PutRecord(q) \/ DeleteLogin(q)
             \/ DeactivateUser(q) \/ SetInactive(q) \/ DisableLogin(q) \/ SignOut(q)
             \/ ReactivateUser(q) \/ SetActive(q) \/ EnableLogin(q)
      PROVE  Safe(u)'
  BY <1>3, <1>5, CreateUserSafe, ProvisionSafe, AllocateUidSafe, CreateLoginSafe,
     JoinAdministratorsSafe, PutRecordSafe, DeleteLoginSafe, StatusRequestSafe, StatusSafe,
     DisableLoginSafe, SignOutSafe, EnableLoginSafe
<1>6. CASE \E w \in Users : SignIn(w)
  BY <1>3, <1>6, SignInSafe
<1> QED
  BY <1>4, <1>5, <1>6 DEF Next

(* Unless requests for a user overlapped, a call for it failed or its id    *)
(* was created again, its login is what the record says once nobody is      *)
(* working on it: for any number of users and requests, and any failures    *)
(* of other users' requests.                                                *)
THEOREM LoginsAreAsRecorded == Spec => []LoginsFollowRecords
<1>1. Init => Typed /\ LoginInv
  BY InitTyped, InitLogins
<1>2. Typed /\ LoginInv /\ [Next]_vars => (Typed /\ LoginInv)'
  BY NextTyped, NextLogins
<1> QED
  BY <1>1, <1>2, InvImpliesLogins, PTL DEF Spec
=============================================================================
