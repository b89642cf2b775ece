CONSTANTS
    Clients = {"ann", "bob"}
    Screens = {"chat", "people", "bobsList"}
    Owner <- MCOwner
    Looks <- MCLooks
    Locations <- Lists
    Keys = {"m1", "u1"}
    LocOf <- MCLocOf
    Writes = {"text", "name", "bobs"}
    Writer <- MCWriter
    KeyOf <- MCKeyOf
    NoWrite = NoWrite
    NoData = NoData
    MaxDisconnects = 1
    MaxKills = 1
    MaxLog = 6
    Scenes <- MCScenes
SPECIFICATION Spec
INVARIANTS TypeOK PendingIsTracked
PROPERTIES AcceptedWriteIsOnTop ImplementsReplica WritesSettle ScreensConverge
CHECK_DEADLOCK FALSE
