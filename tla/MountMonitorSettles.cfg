SPECIFICATION Spec
CONSTANTS
    d1 = d1
    d2 = d2
    label = label
    uuid = uuid
    Devices = {d1, d2}
    Names = {label, uuid, usb}
    Label <- SameLabel
    Uid <- SameUid
    NoName = NoName
    Usb = usb
    Blank = {}
    Disks = {d2}
    Periodic = TRUE
    MaxEnvironment = 3
PROPERTIES
    Settles
CHECK_DEADLOCK FALSE
