SPECIFICATION FairSpec
CONSTANTS
    Projects = {p1}
    Creations = {c1, c2}
    Destructions = {d1}
    Clients = {k1}
    Modes = {"lustre"}
    Ops = {"create", "recreate", "delete"}
    Documented = TRUE
    Faults = {"step", "rollback", "progress", "retry", "export"}
    None = None
CHECK_DEADLOCK FALSE
PROPERTIES CreatingSettles DestroyingSettles
