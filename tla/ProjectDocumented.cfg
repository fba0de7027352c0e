\* Requests as the guides describe them: two administrators race for the three
\* workflows, everything else is done while nobody else is at work.  Every fault
\* that a handler of the code catches may happen.
SPECIFICATION FairSpec
CONSTANTS
    Runs = {1, 2, 3}
    Clients = {k1, k2}
    Ops = {"deploy", "update", "destroy", "deactivate", "reactivate", "delete", "cluster"}
    Documented = TRUE
    Faults = {"step", "build", "cognito"}
INVARIANTS OneProjectWorkflow  
PROPERTIES FollowsProjectMachine TransitionalSettles
CHECK_DEADLOCK FALSE
