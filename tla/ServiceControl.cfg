SPECIFICATION Spec
CONSTANT Polls = 2
INVARIANTS
    TypeOK
    RunHolds
    StopHolds
    SurvivesStop
PROPERTY CallsAnswered
