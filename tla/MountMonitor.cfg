SPECIFICATION Spec
CONSTANTS
    d1 = d1
    d2 = d2
    label = label
    uuid = uuid
    Devices = {d1, d2}
    Names = {label, uuid, usb}
    Label <- SameLabel
    Uid <- Nameless
    NoName = NoName
    Usb = usb
    Blank = {d2}
    Disks = {}
    Periodic = TRUE
    MaxEnvironment = 3
INVARIANTS
    TypeOK
    UniqueRows
    NoMountOverMount
CHECK_DEADLOCK FALSE
