SPECIFICATION MCSpec
CONSTANTS
    Client = {c1, c2}
    Worker = worker
    Window = {0, 1}
    MaxWait = {2}
    MaxAge = 2
    Lookahead = 1
    Keep = 3
    MaxJump = 3
    MaxEpoch = 6
    QueueMax = 1
    MaxFaults = 1
    MaxRotations = 2
INVARIANTS OneFireInFlight OwedIsTracked Agree
PROPERTIES Progress NeverEmptied HealsOrGivesUp
