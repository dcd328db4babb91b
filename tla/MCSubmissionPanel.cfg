\* Two keys; the code is edited between them and may be empty; two faults.
SPECIFICATION FairSpec
CONSTANTS
    Sources = {a, b, empty}
    Invalid = {empty}
    MaxSends = 2
    MaxFaults = 2
INVARIANTS OneBodyPerKey FateCanBeLearned
PROPERTY NeverWaitsForever
CHECK_DEADLOCK FALSE
