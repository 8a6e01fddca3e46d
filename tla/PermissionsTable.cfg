SPECIFICATION Spec
CONSTANTS
    udev = udev
    dbus = dbus
    review = review
    Threads = {udev, dbus}
    Values = {r1, r2}
    Calls <- PermissionsCalls
    FindFirst = FALSE
    MaxCalls = 3
    MaxBody = 2
    MaxFailures = 1
    MaxCrashes = 1
    Free = Free
    Lost = Lost
    Torn = Torn
INVARIANTS
    FileCatchesUp
PROPERTIES
    CallsReturn
    ImplementsAtomicTable
CHECK_DEADLOCK FALSE
