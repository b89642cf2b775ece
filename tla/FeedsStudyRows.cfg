CONSTANTS
    Clients = {"annPhone", "otherDevice"}
    Screens = {"everybody", "me", "annsPosts", "bobsPosts", "allSubjects", "allTeachers"}
    Owner <- MCOwner
    Looks <- MCLooks
    Locations = {"users", "posts", "subjects", "teachers"}
    Keys = {1, 2, 3, 4, 5, 6}
    LocOf <- MCLocOf
    Writes = {"bobJoins", "annEdits", "onTablet", "onPhone", "algebra", "euler"}
    Writer <- MCWriter
    KeyOf <- MCKeyOf
    NoWrite = NoWrite
    NoData = NoData
    MaxLog = 3
    MaxKills = 1
    Controllers = {"ChatVC", "ProfileVC.profile", "ProfileVC.posts", "FriendsProfileVC", "StudyVC"}
    Observes <- MCObserves
    Pushed = {"FriendsProfileVC"}
    Kind <- MCKind
    Wanted <- MCWanted
    Author <- MCAuthor
    From <- MCFrom
    Elsewhere = Elsewhere
    Scenes <- StudyOnly
SPECIFICATION Spec
INVARIANTS SubjectForEveryRow
CHECK_DEADLOCK FALSE
