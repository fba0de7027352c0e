SPECIFICATION Spec
CONSTANTS
    Projects = {p1}
    Creations = {c1}
    Destructions = {d1}
    Clients = {k1}
    Modes = {"lustre"}
    Ops = {"create", "delete"}
    Documented = TRUE
    Faults = {"step"}
    None = None
CHECK_DEADLOCK FALSE
INVARIANT DestroyCleansUp
