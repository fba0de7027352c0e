SPECIFICATION Spec
CONSTANTS
    Runs = {1, 2}
    Clients = {k1, k2}
    Ops = {"deploy", "update", "destroy", "deactivate", "reactivate", "delete", "cluster"}
    Documented = FALSE
    Faults = {"start", "step", "build", "record", "timeout", "retry", "cognito"}
INVARIANTS TypeOK TransitionalHasWorkflow
SYMMETRY Symmetry
CHECK_DEADLOCK FALSE
