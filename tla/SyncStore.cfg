SPECIFICATION StoreSpec
CONSTANTS
    Sessions = {s1, s2}
    Threads = {}
    Items = {x1, x2}
    Apps = {a1}
    Days = {1, 2}
    Statuses = {applied, rejected}
    RowIds = {1, 2}
    MaxPurges = 1
    NoItem = NoItem
    NoDay = NoDay
    NoStatus = NoStatus
    Absent = Absent
    NoPick = NoPick
    Free = Free
SYMMETRY Symmetry
INVARIANTS TypeOK AtMostOncePerPurge OneSuggestionPerItem EventsHaveApplication
PROPERTIES NoRepeatedSuggestion SyncRespectsFloor
