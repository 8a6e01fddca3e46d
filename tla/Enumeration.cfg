SPECIFICATION Spec
CONSTANTS
    s1 = s1
    s2 = s2
    Sticks = {s1, s2}
    Names = {1, 2}
    None = None
    FirstRules <- OneRule
    MaxPlugs = 2
    MaxCalls = 1
    MaxChanges = 1
INVARIANTS
    TypeOK
PROPERTIES
    ListIsRight
    RuledIsRefused
    CallsAnswered
    RuledAreMounted
CHECK_DEADLOCK FALSE
