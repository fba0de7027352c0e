\* A project is reactivated, Cognito refuses a member once, the audit runs.
SPECIFICATION Spec
CONSTANTS
    Users = {u1}
    Requests = {1}
    Nodes = {1}
    Ops = {"reactivate"}
    Faults = {"restore"}
    None = None
INVARIANT MembersAreInTheirGroup
CHECK_DEADLOCK FALSE
