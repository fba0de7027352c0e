------------------------------- MODULE Budgets -------------------------------
(***************************************************************************)
(* The budget of one project: set_budget (project_management/budget.py)    *)
(* behind its two requests, the AWS Budget it keeps, the notification AWS  *)
(* sends when the spend goes over it, the handler of that notification     *)
(* (budget_notification/handler.py), and the flag budgetBreached, which    *)
(* creations, recreations and reads of clusters consult.                   *)
(***************************************************************************)
EXTENDS Integers

CONSTANTS
    Requests,   \* API requests, in the order in which they are accepted
    Limits,     \* the limits they ask for
    Default,    \* the limit of a new project, 50
    MaxSpend,   \* bound on the spend of a month
    MaxMonths,  \* bound on the months
    Faults      \* a subset of {"budgets", "explorer", "table", "handler"}

ASSUME BudgetAssumption ==
    /\ Requests \subseteq Nat /\ Limits \subseteq Int
    /\ Default \in Nat \ {0}
    /\ MaxSpend \in Nat /\ MaxMonths \in Nat

VARIABLES
    project,    \* budgetLimit, budgetType and budgetBreached of the record
    status,     \* ACTIVE, or a status in which edits are refused
    aws,        \* the AWS Budget
    alarm,      \* AWS has found it exceeded and has said so
    inbox,      \* a notification is under way
    handler,    \* the notification handler
    spent,      \* the spend of this month
    earlier,    \* the spend of the months before
    month,
    reqs,       \* the requests and how far their handlers are
    raced       \* history: requests overlapped, or one failed half way, money
                \* was spent while one was about to write, or the handler lost
                \* a notification

billing == <<spent, earlier, month>>
watch   == <<alarm, inbox, handler>>
vars == <<project, status, aws, watch, billing, reqs, raced>>

Types    == {"MONTHLY", "TOTAL"}
NoBudget == [limit |-> 0, type |-> "none"]
Unknown  == -1
Stages   == {"unused", "describe", "update", "create", "spend", "write", "done"}
Reqs     == [limit : Nat, type : Types \cup {"none"}, seen : Nat \cup {Unknown}, stage : Stages]

Req(limit, type, seen, stage) == [limit |-> limit, type |-> type, seen |-> seen, stage |-> stage]
NoReq(stage) == Req(0, "none", 0, stage)

TypeOK ==
    /\ project \in [limit : Nat \ {0}, type : Types, breached : BOOLEAN]
    /\ status \in {"ACTIVE", "ARCHIVED"}
    /\ aws \in [limit : Nat \ {0}, type : Types] \cup {NoBudget}
    /\ alarm \in BOOLEAN /\ inbox \in BOOLEAN
    /\ handler \in {"idle", "breach"}
    /\ spent \in Nat /\ earlier \in Nat /\ month \in Nat
    /\ reqs \in [Requests -> Reqs]
    /\ raced \in BOOLEAN

\* create_project writes the record; nothing makes a budget of it.
Init ==
    /\ project = [limit |-> Default, type |-> "MONTHLY", breached |-> FALSE]
    /\ status \in {"ACTIVE", "ARCHIVED"}
    /\ aws = NoBudget
    /\ alarm = FALSE /\ inbox = FALSE /\ handler = "idle"
    /\ spent = 0 /\ earlier = 0 /\ month = 0
    /\ reqs = [q \in Requests |-> NoReq("unused")]
    /\ raced = FALSE

\* The spend that counts against a budget, and whether that is exceeded.
Charged(type) == IF type = "TOTAL" THEN earlier + spent ELSE spent
Exceeded(b) == b # NoBudget /\ Charged(b.type) > b.limit

Working(q) == reqs[q].stage \notin {"unused", "done"}
At(q, stage) == reqs[q].stage = stage
Goto(q, stage) == reqs' = [reqs EXCEPT ![q].stage = stage]
Done(q) == reqs' = [reqs EXCEPT ![q] = NoReq("done")]

-----------------------------------------------------------------------------
\* Bound: Requests.  A request goes on once validated.
Accept(q, limit, type) ==
    /\ At(q, "unused") /\ \A p \in Requests : At(p, "unused") => q <= p
    /\ reqs' = [reqs EXCEPT ![q] = Req(limit, type, 0, "describe")]
    /\ raced' = (raced \/ \E p \in Requests : Working(p))
    /\ UNCHANGED <<project, status, aws, watch, billing>>

\* Mutant of Valid: zero is let through.
NotNegative(limit) == limit >= 0

Valid(limit) == limit > 0

\* PUT /projects/{id}/budget has no type: it makes every budget MONTHLY.
SetBudget(q) == \E limit \in Limits : Valid(limit) /\ Accept(q, limit, "MONTHLY")

\* PUT /projects/{id}, of an ACTIVE project.
EditProject(q) ==
    /\ status = "ACTIVE"
    /\ \E limit \in Limits, type \in Types : Valid(limit) /\ Accept(q, limit, type)

DescribeBudget(q) ==
    /\ At(q, "describe")
    /\ \/ Goto(q, IF aws = NoBudget THEN "create" ELSE "update")
       \/ "budgets" \in Faults /\ Done(q)
    /\ UNCHANGED <<project, status, aws, watch, billing, raced>>

\* AWS is silent about a budget that it has called exceeded until it is no
\* longer, or is of another kind.
Define(q) ==
    LET b == [limit |-> reqs[q].limit, type |-> reqs[q].type] IN
    /\ aws' = b
    /\ alarm' = (alarm /\ Exceeded(b) /\ aws.type = b.type)

\* Mutant of PutBudget: a failure is logged and the record written all the same.
PutBudgetQuietly(q) ==
    /\ At(q, "update") \/ At(q, "create")
    /\ \/ Define(q)
       \/ "budgets" \in Faults /\ UNCHANGED <<aws, alarm>>
    /\ Goto(q, "spend")
    /\ UNCHANGED <<project, status, inbox, handler, billing, raced>>

\* update_budget or create_budget, which fails if there is one by now.
PutBudget(q) ==
    /\ At(q, "update") \/ At(q, "create")
    /\ \/ /\ At(q, "create") => aws = NoBudget
          /\ Define(q)
          /\ Goto(q, "spend")
       \/ /\ "budgets" \in Faults \/ (At(q, "create") /\ aws # NoBudget)
          /\ Done(q)
          /\ UNCHANGED <<aws, alarm>>
    /\ UNCHANGED <<project, status, inbox, handler, billing, raced>>

\* Mutant of Figures: no answer counts as nothing spent.
FiguresOrZero == {spent} \cup (IF "explorer" \in Faults THEN {0} ELSE {})

\* _get_current_spend: this month's, whatever the type, or None.
Figures == {spent} \cup (IF "explorer" \in Faults THEN {Unknown} ELSE {})

ReadSpend(q) ==
    /\ At(q, "spend")
    /\ \E seen \in Figures :
          reqs' = [reqs EXCEPT ![q] = Req(reqs[q].limit, reqs[q].type, seen, "write")]
    /\ UNCHANGED <<project, status, aws, watch, billing, raced>>

Clears(r) == r.seen # Unknown /\ r.limit > r.seen

\* One update without a condition: limit, type, and the flag if it is cleared.
WriteProject(q) ==
    LET r == reqs[q] IN
    /\ At(q, "write")
    /\ \/ /\ project' = [limit |-> r.limit, type |-> r.type,
                         breached |-> project.breached /\ ~Clears(r)]
          /\ UNCHANGED raced
       \/ "table" \in Faults /\ raced' = TRUE /\ UNCHANGED project
    /\ Done(q)
    /\ UNCHANGED <<status, aws, watch, billing>>

-----------------------------------------------------------------------------
\* Bounds: MaxSpend and MaxMonths.
Spend ==
    /\ spent < MaxSpend
    /\ spent' = spent + 1
    /\ raced' = (raced \/ \E q \in Requests : At(q, "write"))
    /\ UNCHANGED <<project, status, aws, watch, earlier, month, reqs>>

NewMonth ==
    /\ month < MaxMonths
    /\ month' = month + 1 /\ spent' = 0 /\ earlier' = earlier + spent
    /\ alarm' = (alarm /\ aws.type = "TOTAL")
    /\ UNCHANGED <<project, status, aws, inbox, handler, reqs, raced>>

Notify ==
    /\ Exceeded(aws) /\ ~alarm
    /\ alarm' = TRUE /\ inbox' = TRUE
    /\ UNCHANGED <<project, status, aws, handler, billing, reqs, raced>>

\* SNS delivers at least once.  A flag that is set already needs no write, and
\* an exception is logged and the notification gone.
ReceiveNotification ==
    /\ inbox /\ handler = "idle"
    /\ inbox' \in BOOLEAN
    /\ \/ handler' = (IF project.breached THEN "idle" ELSE "breach") /\ UNCHANGED raced
       \/ "handler" \in Faults /\ raced' = TRUE /\ UNCHANGED handler
    /\ UNCHANGED <<project, status, aws, alarm, billing, reqs>>

SetBreached ==
    /\ handler = "breach"
    /\ handler' = "idle"
    /\ project' = [project EXCEPT !.breached = TRUE]
    /\ UNCHANGED <<status, aws, alarm, inbox, billing, reqs, raced>>

RequestStep(q) ==
    DescribeBudget(q) \/ PutBudget(q) \/ ReadSpend(q) \/ WriteProject(q)

Next ==
    \/ \E q \in Requests : SetBudget(q) \/ EditProject(q) \/ RequestStep(q)
    \/ Spend \/ NewMonth \/ Notify \/ ReceiveNotification \/ SetBreached

Spec == Init /\ [][Next]_vars

\* Lambda ends what it began, AWS notices and notifies, SNS delivers.
FairSpec ==
    /\ Spec
    /\ \A q \in Requests : WF_vars(RequestStep(q))
    /\ WF_vars(Notify) /\ WF_vars(ReceiveNotification) /\ WF_vars(SetBreached)

-----------------------------------------------------------------------------
(* Where no requests overlapped and no write failed half way, the budget    *)
(* AWS watches is the one the record shows (budget.py 133-199 keeps the two *)
(* one after the other).                                                    *)
BudgetIsAsRecorded ==
    (~raced /\ aws # NoBudget /\ \A q \in Requests : ~Working(q)) =>
        aws = [limit |-> project.limit, type |-> project.type]

(* A MONTHLY budget that is exceeded is flagged in the end, unless it is    *)
(* raised, the month is over, or one of the races happened that "raced"     *)
(* names: a clearing must not undo the one notification AWS sends.          *)
OverspendingIsFlagged ==
    (aws.type = "MONTHLY" /\ Exceeded(aws)) ~>
        (project.breached \/ raced \/ ~(aws.type = "MONTHLY" /\ Exceeded(aws)))
=============================================================================
