SPECIFICATION MCSpec
CONSTANTS
    t1 = t1
    t2 = t2
    s1 = s1
    d1 = d1
    Texts = {t1, t2}
    Untitled = Untitled
    Unfinished = {t2}
    Tags = {"x"}
    TooLong = {}
    TagLimit = 1
    Filled = s1
    Drivers = {d1}
    NoDriver = NoDriver
    IsCore = TRUE
    None = None
    First <- MCFirst
    Digests = {1, 2}
    FirstData = 1
    MaxActs = 2
    MaxFaults = 1
INVARIANTS
    SavedWasStored
PROPERTIES
    PublicTextIsConfirmed
    PublicDataWasCalibrated
    EditsAreSaved
    CheckCatchesUp
CHECK_DEADLOCK FALSE
