SPECIFICATION MCSpec
CONSTANTS
    Accounts = {alice, bob}
    Restricted = {}
    Anonymous = Anonymous
    NSamples = 2
    Values = {"right", "wrong", "uncompiled"}
    Codes = {old, new}
    Bad = Bad
    MaxActs = 3
    MaxFaults = 2
    MaxTogether = 4
INVARIANTS
    ReportIsOfLiveRun
    HistoryIsOwn
PROPERTIES
    RunEnds
    AccountIsNoticed
CHECK_DEADLOCK FALSE
