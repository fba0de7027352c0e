\* One request of each kind, from every consistent set of records, beside a login
\* node that is replaced once, its address, and the daily audit, with every fault.
SPECIFICATION FairSpec
CONSTANTS
    Users = {u1}
    Requests = {1}
    Nodes = {1, 2}
    Ops = {"add", "role", "remove", "deactivate", "reactivate"}
    Faults = {"join", "leave", "restore", "ssm", "read", "event"}
    None = None
INVARIANTS TypeOK GroupsFollowRecords
PROPERTIES AddressConverges StaleAccountsAreLocked MembersGetAccounts MarksAreCleared
CHECK_DEADLOCK FALSE
