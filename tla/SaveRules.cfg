SPECIFICATION Spec
CONSTANTS
    Clients = {p1}
    Devs = {d1, b1}
    u1 = u1
    bash = bash
    Users = {u1}
    Groups = {g1}
    Shells = {bash}
    Root = Root
    NoUser = NoUser
    NotANumber = NotANumber
    IdRange = 8
    Plain = Plain
    Deserted = Deserted
    Ungrouped = Ungrouped
    Broken = Broken
    AccountFiles = {Plain, Deserted, Ungrouped, Broken}
    Text <- MCText
    BadDevs = {b1}
    Blank = Blank
    Deleted = Deleted
    Same = Same
    MaxRows = 1
    MaxSaves = 2
    MaxEdits = 2
    MaxAccidents = 2
    MaxChanges = 1
INVARIANTS
    TypeOK
    SavedAsShown
    OnlyStaleFormsThrow
PROPERTIES
    FileTakesWholeForms
CHECK_DEADLOCK FALSE
