CONSTANTS
    Devices <- Phone
    Emails = {"ann"}
    NoUser = NoUser
    MaxRequests = 3
    MaxDepth = 5
    MaxEdits = 1
    MaxKills = 1
    MaxSwipes = 0
    MaxFailures = 0
SPECIFICATION Spec
INVARIANTS RecordsAreReadable
CHECK_DEADLOCK FALSE
