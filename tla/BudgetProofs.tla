---------------------------- MODULE BudgetProofs ----------------------------
(***************************************************************************)
(* Theorems about Budgets for any limits, requests and spend: its type     *)
(* invariant, and that AWS watches the budget that the record shows.       *)
(***************************************************************************)
EXTENDS Budgets, TLAPS

\* A request that is handled has been validated.
Validated ==
    \A q \in Requests : Working(q) => reqs[q].limit # 0 /\ reqs[q].type \in Types

Typed == TypeOK /\ Validated

\* What each step of a request does to the requests.
OnlyRequest(q) == \A p \in Requests \ {q} : reqs'[p] = reqs[p]
Moves(q, s) ==
    /\ reqs' \in [Requests -> Reqs]
    /\ OnlyRequest(q)
    /\ reqs'[q].limit = reqs[q].limit /\ reqs'[q].type = reqs[q].type
    /\ reqs'[q].stage = s
Ends(q) == reqs' \in [Requests -> Reqs] /\ OnlyRequest(q) /\ reqs'[q].stage = "done"

LEMMA GotoMoves ==
    ASSUME Typed, NEW q \in Requests, NEW s \in Stages, Goto(q, s)
    PROVE  Moves(q, s)
  BY DEF Typed, TypeOK, Goto, Moves, OnlyRequest, Reqs

LEMMA DoneEnds ==
    ASSUME Typed, NEW q \in Requests, Done(q)
    PROVE  Ends(q)
<1>1. NoReq("done") \in Reqs /\ NoReq("done").stage = "done"
  BY DEF NoReq, Req, Reqs, Stages
<1> QED
  BY <1>1 DEF Typed, TypeOK, Done, Ends, OnlyRequest

LEMMA AcceptRequest ==
    ASSUME Typed, NEW q \in Requests,
           NEW limit \in Limits, Valid(limit), NEW type \in Types, Accept(q, limit, type)
    PROVE  /\ ~Working(q)
           /\ reqs' \in [Requests -> Reqs] /\ OnlyRequest(q)
           /\ reqs'[q].limit # 0 /\ reqs'[q].type \in Types /\ reqs'[q].stage = "describe"
           /\ raced' = (raced \/ \E p \in Requests : Working(p))
           /\ UNCHANGED <<project, status, aws, watch, billing>>
<1> DEFINE r == Req(limit, type, 0, "describe")
<1>1. /\ r \in Reqs
      /\ r.limit # 0 /\ r.type \in Types /\ r.stage = "describe"
  BY BudgetAssumption DEF Req, Reqs, Stages, Valid
<1>2. reqs' = [reqs EXCEPT ![q] = r]
  BY DEF Accept
<1>3. ~Working(q)
  BY DEF Accept, At, Working
<1> HIDE DEF r
<1> QED
  BY <1>1, <1>2, <1>3 DEF Typed, TypeOK, OnlyRequest, Accept

LEMMA ReadSpendMoves ==
    ASSUME Typed, NEW q \in Requests, ReadSpend(q)
    PROVE  Moves(q, "write")
<1>1. PICK seen \in Figures :
          reqs' = [reqs EXCEPT ![q] = Req(reqs[q].limit, reqs[q].type, seen, "write")]
  BY DEF ReadSpend
<1> DEFINE r == Req(reqs[q].limit, reqs[q].type, seen, "write")
<1>2. /\ r \in Reqs
      /\ r.limit = reqs[q].limit /\ r.type = reqs[q].type /\ r.stage = "write"
  BY DEF Typed, TypeOK, Figures, Req, Reqs, Stages
<1>3. reqs' = [reqs EXCEPT ![q] = r]
  BY <1>1
<1> HIDE DEF r
<1> QED
  BY <1>2, <1>3 DEF Typed, TypeOK, Moves, OnlyRequest

-----------------------------------------------------------------------------
LEMMA InitTyped == Init => Typed
<1>1. NoReq("unused") \in Reqs /\ NoReq("unused").stage = "unused"
  BY DEF NoReq, Req, Reqs, Stages
<1>2. Init => reqs \in [Requests -> Reqs] /\ \A q \in Requests : reqs[q].stage = "unused"
  BY <1>1 DEF Init
<1>3. Init => /\ project \in [limit : Nat \ {0}, type : Types, breached : BOOLEAN]
              /\ spent \in Nat /\ earlier \in Nat /\ month \in Nat
  BY BudgetAssumption DEF Init, Types
<1> QED
  BY <1>2, <1>3 DEF Init, Typed, TypeOK, Validated, Working

LEMMA NextTyped ==
    ASSUME Typed, [Next]_vars
    PROVE  Typed'
<1> USE DEF Typed, TypeOK, Validated, Working, At
<1>1. ASSUME NEW q \in Requests, SetBudget(q) \/ EditProject(q)
      PROVE  Typed'
  <2>1. PICK limit \in Limits, type \in Types : Valid(limit) /\ Accept(q, limit, type)
    BY <1>1 DEF SetBudget, EditProject, Types
  <2>2. /\ reqs' \in [Requests -> Reqs] /\ OnlyRequest(q)
        /\ reqs'[q].limit # 0 /\ reqs'[q].type \in Types
        /\ raced' \in BOOLEAN
        /\ UNCHANGED <<project, status, aws, watch, billing>>
    BY <2>1, AcceptRequest
  <2> QED
    BY <2>2 DEF OnlyRequest, watch, billing
<1>2. ASSUME NEW q \in Requests, DescribeBudget(q)
      PROVE  Typed'
  <2>1. (\E s \in {"create", "update"} : Moves(q, s)) \/ Ends(q)
    BY <1>2, GotoMoves, DoneEnds DEF DescribeBudget, Stages
  <2> QED
    BY <1>2, <2>1 DEF DescribeBudget, Moves, Ends, OnlyRequest, watch, billing
<1>3. ASSUME NEW q \in Requests, PutBudget(q)
      PROVE  Typed'
  <2>1. Moves(q, "spend") \/ Ends(q)
    BY <1>3, GotoMoves, DoneEnds DEF PutBudget, Stages
  <2>2. aws' \in [limit : Nat \ {0}, type : Types] \cup {NoBudget} /\ alarm' \in BOOLEAN
    <3>1. CASE Define(q)
      <4>1. reqs[q].limit \in Nat \ {0} /\ reqs[q].type \in Types
        BY <1>3 DEF PutBudget, Reqs
      <4>2. aws' \in [limit : Nat \ {0}, type : Types]
        BY <3>1, <4>1 DEF Define
      <4>3. alarm' \in BOOLEAN
        BY <3>1, Zenon DEF Define
      <4> QED
        BY <4>2, <4>3
    <3>2. CASE UNCHANGED <<aws, alarm>>
      BY <3>2
    <3> QED
      BY <1>3, <3>1, <3>2 DEF PutBudget
  <2> QED
    BY <1>3, <2>1, <2>2 DEF PutBudget, Moves, Ends, OnlyRequest, billing
<1>4. ASSUME NEW q \in Requests, ReadSpend(q)
      PROVE  Typed'
  <2>1. UNCHANGED <<project, status, aws, watch, billing, raced>> /\ Working(q)
    BY <1>4 DEF ReadSpend
  <2>2. Moves(q, "write")
    BY <1>4, ReadSpendMoves
  <2> QED
    BY <2>1, <2>2 DEF Moves, OnlyRequest, watch, billing
<1>5. ASSUME NEW q \in Requests, WriteProject(q)
      PROVE  Typed'
  <2>1. Ends(q)
    BY <1>5, DoneEnds DEF WriteProject
  <2>2. reqs[q].limit \in Nat \ {0} /\ reqs[q].type \in Types
    BY <1>5 DEF WriteProject, Reqs
  <2>3. project' \in [limit : Nat \ {0}, type : Types, breached : BOOLEAN] /\ raced' \in BOOLEAN
    <3> DEFINE b == project.breached /\ ~Clears(reqs[q])
    <3>1. b \in BOOLEAN
      BY Zenon
    <3>2. \/ project' = [limit |-> reqs[q].limit, type |-> reqs[q].type, breached |-> b]
          \/ UNCHANGED project
      BY <1>5 DEF WriteProject
    <3>3. UNCHANGED raced \/ raced' = TRUE
      BY <1>5 DEF WriteProject
    <3> HIDE DEF b
    <3>4. [limit |-> reqs[q].limit, type |-> reqs[q].type, breached |-> b]
              \in [limit : Nat \ {0}, type : Types, breached : BOOLEAN]
      BY <2>2, <3>1
    <3>5. project' \in [limit : Nat \ {0}, type : Types, breached : BOOLEAN]
      BY <3>2, <3>4
    <3>6. raced' \in BOOLEAN
      BY <3>3
    <3> QED
      BY <3>5, <3>6
  <2> QED
    BY <1>5, <2>1, <2>3 DEF WriteProject, Ends, OnlyRequest, watch, billing
<1>6. CASE Spend
  BY <1>6 DEF Spend, watch
<1>7. CASE NewMonth
  BY <1>7 DEF NewMonth
<1>8. CASE Notify \/ ReceiveNotification
  BY <1>8 DEF Notify, ReceiveNotification, billing
<1>9. CASE SetBreached
  BY <1>9 DEF SetBreached, billing
<1>10. CASE UNCHANGED vars
  BY <1>10 DEF vars, watch, billing
<1> QED
  BY <1>1, <1>2, <1>3, <1>4, <1>5, <1>6, <1>7, <1>8, <1>9, <1>10 DEF Next, RequestStep

(* The type invariant holds whatever is spent, asked for or fails: no limit *)
(* of zero, and no type but the two, is ever recorded or given to AWS.      *)
THEOREM TypeCorrect == Spec => []TypeOK
<1>1. Typed => TypeOK
  BY DEF Typed
<1> QED
  BY <1>1, InitTyped, NextTyped, PTL DEF Spec

-----------------------------------------------------------------------------
\* The inductive invariant.  As long as nothing raced one request is handled at
\* a time; AWS has the budget of that request once it has been put, and until
\* then, and with no request, the budget of the record.
Ahead(q) == reqs[q].stage \in {"spend", "write"}
Agrees(b, r) == b.limit = r.limit /\ b.type = r.type

OneRequest ==
    \A p, q \in Requests : Working(p) /\ Working(q) => p = q
AwsIsAhead ==
    \A q \in Requests : Ahead(q) => Agrees(aws, reqs[q])
AwsIsAsRecorded ==
    (aws # NoBudget /\ \A q \in Requests : ~Ahead(q)) => Agrees(aws, project)

BudgetInv == ~raced => OneRequest /\ AwsIsAhead /\ AwsIsAsRecorded

LEMMA InitBudget == Init => BudgetInv
  BY DEF Init, BudgetInv, OneRequest, AwsIsAhead, AwsIsAsRecorded, Ahead, Working, NoReq, Req

LEMMA NextBudget ==
    ASSUME Typed, BudgetInv, [Next]_vars
    PROVE  BudgetInv'
<1> SUFFICES ASSUME ~raced'
             PROVE  (OneRequest /\ AwsIsAhead /\ AwsIsAsRecorded)'
  BY DEF BudgetInv
<1> USE DEF OneRequest, AwsIsAhead, AwsIsAsRecorded, Ahead, Working, Agrees, At
<1>0. /\ ~raced
      /\ OneRequest /\ AwsIsAhead /\ AwsIsAsRecorded
  <2>1. ~raced
    <3>1. ASSUME NEW q \in Requests, SetBudget(q) \/ EditProject(q)
          PROVE  ~raced
      BY <3>1 DEF SetBudget, EditProject, Accept
    <3>2. ASSUME NEW q \in Requests, RequestStep(q)
          PROVE  ~raced
      BY <3>2 DEF RequestStep, DescribeBudget, PutBudget, ReadSpend, WriteProject
    <3>3. CASE Spend \/ NewMonth \/ Notify \/ ReceiveNotification \/ SetBreached \/ UNCHANGED vars
      BY <3>3 DEF Spend, NewMonth, Notify, ReceiveNotification, SetBreached, vars
    <3> QED
      BY <3>1, <3>2, <3>3 DEF Next
  <2> QED
    BY <2>1 DEF BudgetInv
<1>1. ASSUME NEW q \in Requests, SetBudget(q) \/ EditProject(q)
      PROVE  (OneRequest /\ AwsIsAhead /\ AwsIsAsRecorded)'
  <2>1. PICK limit \in Limits, type \in Types : Valid(limit) /\ Accept(q, limit, type)
    BY <1>1 DEF SetBudget, EditProject, Types
  <2>2. /\ OnlyRequest(q) /\ reqs'[q].stage = "describe"
        /\ raced' = (raced \/ \E p \in Requests : Working(p))
        /\ UNCHANGED <<project, aws>>
    BY <2>1, AcceptRequest
  <2>3. \A p \in Requests : ~Working(p)
    BY <2>2
  <2> QED
    BY <1>0, <2>2, <2>3 DEF OnlyRequest
<1>2. ASSUME NEW q \in Requests, DescribeBudget(q)
      PROVE  (OneRequest /\ AwsIsAhead /\ AwsIsAsRecorded)'
  <2>1. (\E s \in {"create", "update"} : Moves(q, s)) \/ Ends(q)
    BY <1>2, GotoMoves, DoneEnds DEF DescribeBudget, Stages
  <2>2. UNCHANGED <<aws, project>> /\ ~Ahead(q) /\ Working(q)
    BY <1>2 DEF DescribeBudget
  <2> QED
    BY <1>0, <2>1, <2>2 DEF Moves, Ends, OnlyRequest
<1>3. ASSUME NEW q \in Requests, PutBudget(q)
      PROVE  (OneRequest /\ AwsIsAhead /\ AwsIsAsRecorded)'
  <2>1. Working(q) /\ ~Ahead(q) /\ UNCHANGED project
    BY <1>3 DEF PutBudget
  <2>2. CASE Define(q) /\ Goto(q, "spend")
    <3>1. Moves(q, "spend")
      BY <2>2, GotoMoves DEF Stages
    <3>2. Agrees(aws', reqs[q])
      BY <2>2 DEF Define
    <3> QED
      BY <1>0, <2>1, <3>1, <3>2 DEF Moves, OnlyRequest
  <2>3. CASE Done(q) /\ UNCHANGED aws
    BY <1>0, <2>1, <2>3, DoneEnds DEF Ends, OnlyRequest
  <2> QED
    BY <1>3, <2>2, <2>3 DEF PutBudget
<1>4. ASSUME NEW q \in Requests, ReadSpend(q)
      PROVE  (OneRequest /\ AwsIsAhead /\ AwsIsAsRecorded)'
  BY <1>0, <1>4, ReadSpendMoves DEF ReadSpend, Moves, OnlyRequest
<1>5. ASSUME NEW q \in Requests, WriteProject(q)
      PROVE  (OneRequest /\ AwsIsAhead /\ AwsIsAsRecorded)'
  <2>1. Ends(q)
    BY <1>5, DoneEnds DEF WriteProject
  <2>2. Ahead(q) /\ Working(q) /\ UNCHANGED aws
    BY <1>5 DEF WriteProject
  <2>3. project'.limit = reqs[q].limit /\ project'.type = reqs[q].type
    BY <1>5 DEF WriteProject
  <2> QED
    BY <1>0, <2>1, <2>2, <2>3 DEF Ends, OnlyRequest
<1>6. CASE Spend \/ NewMonth \/ Notify \/ ReceiveNotification \/ UNCHANGED vars
  BY <1>0, <1>6 DEF Spend, NewMonth, Notify, ReceiveNotification, vars
<1>7. CASE SetBreached
  <2>1. /\ UNCHANGED <<aws, reqs>>
        /\ project'.limit = project.limit /\ project'.type = project.type
    BY <1>7 DEF SetBreached, Typed, TypeOK
  <2> QED
    BY <1>0, <2>1
<1> QED
  BY <1>1, <1>2, <1>3, <1>4, <1>5, <1>6, <1>7 DEF Next, RequestStep

(* Where no requests overlapped and no write failed half way, the budget    *)
(* AWS watches is the recorded one, for any number of requests.             *)
THEOREM RecordedBudgetIsWatched == Spec => []BudgetIsAsRecorded
<1>1. Init => Typed /\ BudgetInv
  BY InitTyped, InitBudget
<1>2. Typed /\ BudgetInv /\ [Next]_vars => Typed' /\ BudgetInv'
  BY NextTyped, NextBudget
<1>3. Typed /\ BudgetInv => BudgetIsAsRecorded
  <2> SUFFICES ASSUME Typed, BudgetInv, ~raced, aws # NoBudget, \A q \in Requests : ~Working(q)
               PROVE  aws = [limit |-> project.limit, type |-> project.type]
    BY DEF BudgetIsAsRecorded
  <2>1. Agrees(aws, project)
    BY DEF BudgetInv, AwsIsAsRecorded, Ahead, Working
  <2> QED
    BY <2>1 DEF Typed, TypeOK, Agrees
<1> QED
  BY <1>1, <1>2, <1>3, PTL DEF Spec
=============================================================================
