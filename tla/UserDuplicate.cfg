\* An id is created twice, one request after the other; nothing fails.
SPECIFICATION Spec
CONSTANTS
    Users = {u1}
    Admin = u1
    Requests = {1, 2}
    Base = 2
    Faults = {}
    None = None
INVARIANT ExistingUsersKeepTheirLogin
CHECK_DEADLOCK FALSE
