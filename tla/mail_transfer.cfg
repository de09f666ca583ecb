SPECIFICATION FairSpec
CONSTANTS
    Clients = {c1}
    Users = {u1}
    NoUser = NoUser
    Late = Late
    Expiring = {}
    ListLimit = 1
    MaxMails = 2
    MaxTasks = 2
    MaxLate = 1
INVARIANT MailConsistent
PROPERTY TransferCompletes
CHECK_DEADLOCK FALSE
