SPECIFICATION Spec
CONSTANTS
    Absent = Absent
    Cleared = Cleared
    Fields = {category}
    Values = {a, b}
    Original = a
    Entered = {b, Cleared}
    Rows = {w1, w2}
    Keys = {k1}
    Tabs = {t1, t2}
    Kinds <- AllKinds
    MaxEntries = 2
    MaxOthers = 1
    NetworkFaults = TRUE
    StorageFaults = TRUE
    Refusals = TRUE
CHECK_DEADLOCK FALSE
SYMMETRY Interchangeable
INVARIANTS
    NoWriteLost
    ReCreatedIfGone
PROPERTIES
    LeavesForGood
