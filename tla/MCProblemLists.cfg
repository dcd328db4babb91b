SPECIFICATION Spec
CONSTANTS
    Problems = {1, 2, 3, 4}
    Created = 4
    Size = 1
    Kind <- MCKind
    Title <- MCTitle
    MaxActs = 3
    MaxFaults = 1
INVARIANTS
    WalkIsSound
    NoListHidesTheCreated
CHECK_DEADLOCK FALSE
