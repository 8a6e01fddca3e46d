SPECIFICATION Spec
CONSTANTS
    udev = udev
    review = review
    dbus = dbus
    Threads = {udev, review, dbus}
    Values = {r1, r2}
    Calls <- MountPointsCalls
    FindFirst = TRUE
    MaxCalls = 4
    MaxBody = 0
    MaxFailures = 1
    MaxCrashes = 1
    Free = Free
    Lost = Lost
    Torn = Torn
INVARIANTS
    TypeOK
    EditorsAlone
    OneFileWriter
    FileCatchesUp
PROPERTIES
    CallsReturn
    ImplementsAtomicTable
CHECK_DEADLOCK FALSE
