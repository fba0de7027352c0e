\* Two requests, spending of up to three units a month over three months, and
\* failures of every call.
SPECIFICATION FairSpec
CONSTANTS
    Requests = {1, 2}
    Limits = {0, 1, 2}
    Default = 1
    MaxSpend = 3
    MaxMonths = 2
    Faults = {"budgets", "explorer", "table", "handler"}
INVARIANTS TypeOK BudgetIsAsRecorded
 
CHECK_DEADLOCK FALSE
