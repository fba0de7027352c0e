\* The provisioned administrator and another user, four requests or runs of the
\* provisioner, and failures of every call.
SPECIFICATION Spec
CONSTANTS
    Users = {admin, u1}
    Admin = admin
    Requests = {1, 2, 3, 4}
    Base = 2
    Faults = {"cognito", "table"}
    None = None
INVARIANTS TypeOK UidsAreUnique UidsAreAboveBase 
PROPERTIES UidsArePermanent
CHECK_DEADLOCK FALSE
