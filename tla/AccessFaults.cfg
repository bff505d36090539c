SPECIFICATION Spec
CONSTANTS
    owner = owner  newcomer = newcomer  admin = admin
    q1 = q1  q2 = q2
    None = None
    Owner = owner
    Users = {owner, newcomer, admin}
    Accounts = {owner, admin}
    Admins = {owner, admin, newcomer}
    Paths <- PathsDef
    Joining = {newcomer, admin}
    Guests = {newcomer}
    Invited = {2}
    Requests = {q1, q2}
    Failing = {"create user", "join", "set up drive", "delete member", "grant"}
    Regrants = "none"
CHECK_DEADLOCK FALSE
SYMMETRY Symmetry
PROPERTY ManagersRemovedByOwner
INVARIANT RemovalIsComplete
 
