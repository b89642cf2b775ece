CONSTANTS
    Devices <- Phone
    Emails = {"ann", "bob"}
    NoUser = NoUser
    MaxRequests = 3
    MaxDepth = 5
    MaxEdits = 1
    MaxKills = 1
    MaxSwipes = 1
    MaxFailures = 1
SPECIFICATION FairSpec
INVARIANTS TypeOK SignedInOnTabs RecordHasAccount
PROPERTIES TabsNeedVerified RecordStaysReadable AccountGetsRecord
CHECK_DEADLOCK FALSE
