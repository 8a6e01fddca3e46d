SPECIFICATION Spec
CONSTANTS
    Clients = {p1}
    Devs = {d1, d2, b1}
    u1 = u1
    bash = bash
    Users = {u1}
    Groups = {g1, g2}
    Shells = {bash}
    Root = Root
    NoUser = NoUser
    NotANumber = NotANumber
    IdRange = 8
    Plain = Plain
    Deserted = Deserted
    Ungrouped = Ungrouped
    Broken = Broken
    AccountFiles = {Plain, Deserted, Ungrouped, Broken}
    Text <- MCText
    BadDevs = {b1}
    Blank = Blank
    Deleted = Deleted
    Same = Same
    MaxRows = 2
    MaxSaves = 1
    MaxEdits = 2
    MaxAccidents = 1
    MaxChanges = 1
SYMMETRY Symmetry
INVARIANT ReplyOkMeansSaved
CHECK_DEADLOCK FALSE
