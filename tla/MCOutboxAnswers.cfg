SPECIFICATION SyncSpec
CONSTANTS
    Absent = Absent
    Cleared = Cleared
    Fields = {category}
    Values = {a, b}
    Original = a
    Entered = {b}
    Rows = {w1}
    Keys = {k1, k2}
    Tabs = {t1}
    Kinds <- AllKinds
    MaxEntries = 2
    MaxOthers = 1
    NetworkFaults = TRUE
    StorageFaults = TRUE
    Refusals = TRUE
CHECK_DEADLOCK FALSE
PROPERTIES
    EveryAnswerIsSent
