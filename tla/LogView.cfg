SPECIFICATION Spec
CONSTANTS
    Filters <- Words
    Sizes = {1, 2}
    PerPage = 1
    FirstLines = {9}
    MaxLines = 11
    MaxRotations = 1
    MaxClicks = 3
    MaxFlight = 2
    MaxFailures = 1
INVARIANTS
    TypeOK
    PagesMakeUpTheLog
    ShownIsAsked
    ListIsUseful
PROPERTIES
    NextSkipsNothing
    LocksOpen
CHECK_DEADLOCK FALSE
