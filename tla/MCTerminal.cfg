SPECIFICATION Spec
CONSTANTS
    MaxPairs = 3
    MaxFlight = 3
    Tours <- MCTours
CHECK_DEADLOCK FALSE
INVARIANTS FreshRowsAreCurrent FormWaitsForItsCall NoSelfReuse
