SPECIFICATION Spec
CONSTANTS
    Projects = {p1}
    Creations = {c1, c2}
    Destructions = {d1}
    Clients = {k1, k2}
    Modes = {"lustre"}
    Ops = {"create", "recreate", "delete", "fail"}
    Documented = FALSE
    Faults = {"event", "step"}
    None = None
SYMMETRY Symmetry
CHECK_DEADLOCK FALSE
INVARIANTS  CreatingHasWorkflow DestroyingHasWorkflow 
