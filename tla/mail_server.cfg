SPECIFICATION Spec
CONSTANTS
    Clients = {c1, c2}
    Users = {u1}
    NoUser = NoUser
    Late = Late
    Expiring = {u1}
    ListLimit = 1
    MaxMails = 1
    MaxTasks = 1
    MaxLate = 1
INVARIANTS AcceptedMailStays LoginJustified
CHECK_DEADLOCK FALSE
