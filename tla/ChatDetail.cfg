CONSTANTS
    Base = 2
    TimeChars = 2
    RandChars = 2
    Clients = {"annPhone", "bobPhone"}
    Screens = {"annBob", "bobAnn"}
    Owner <- MCOwner
    Looks <- MCLooks
    Locations = {"messages"}
    Keys = {1, 2, 3}
    LocOf <- MCLocOf
    Writes = {"hello", "again", "hi"}
    Writer <- MCWriter
    KeyOf <- MCKeyOf
    NoWrite = NoWrite
    NoData = NoData
    MaxLog = 3
    MaxKills = 1
    MaxSent = 2
    My <- MCMy
    Peer <- MCPeer
    SentOn <- MCSentOn
    Pushed <- MCPushed
SPECIFICATION FairSpec
INVARIANTS TypeOK RowsAreSound TableMatchesView OwnRowsInOrder
PROPERTIES VanishedRowReturns TablesConverge
CHECK_DEADLOCK FALSE
