SPECIFICATION Spec
CONSTANTS
    Projects = {p1, p2}
    Creations = {c1, c2, c3}
    Destructions = {d1}
    Clients = {k1}
    Modes = {"mountpoint"}
    Ops = {"create"}
    Documented = FALSE
    Faults = {"step", "rollback"}
    None = None
SYMMETRY Symmetry
CHECK_DEADLOCK FALSE
INVARIANT NameIsExclusive
