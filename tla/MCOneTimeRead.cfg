SPECIFICATION FairFirstSpec
CONSTANTS
    Reads = {r1, r2}
    Queries = {q1, q2}
    r1 = r1
    q1 = q1
    NoQuery = NoQuery
    MaxEvents = 2
    MaxRestarts = 1
CHECK_DEADLOCK FALSE
INVARIANTS
    AnsweredOnce
    AssertionsHold
    NoNeedlessWait
    NothingLeft
PROPERTIES
    WaitsOnlyBehindOld
