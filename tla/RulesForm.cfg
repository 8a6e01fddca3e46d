SPECIFICATION Spec
CONSTANTS
    Devs = {d1, d2}
    Owners = {o1}
    Invalid = Invalid
    Blank = Blank
    NoText = NoText
    Same = Same
    MaxRows = 2
    MaxAdded = 1
    MaxEdits = 1
    MaxLoads = 1
INVARIANTS
    TypeOK
    ChangesCanBeSaved
    SelectedCanAct
PROPERTIES
    SentIsShown
    CompleteRowsAreUnique
SYMMETRY Symmetry
CHECK_DEADLOCK FALSE
