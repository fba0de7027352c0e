SPECIFICATION Spec
CONSTANTS
    Projects = {p1}
    Creations = {c1, c2}
    Destructions = {d1, d2}
    Clients = {k1, k2}
    Modes = {"lustre", "mountpoint"}
    Ops = {"create", "recreate", "delete", "fail", "sweep"}
    Documented = TRUE
    Faults = {"step", "late", "rollback", "record", "event", "start", "timeout", "export", "progress"}
    None = None
SYMMETRY Symmetry
CHECK_DEADLOCK FALSE
INVARIANTS TypeOK CreatingHasWorkflow DestroyingHasWorkflow OneWorkflow ActiveIsUsable 
PROPERTY FollowsStatusMachine
