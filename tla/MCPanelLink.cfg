\* One key, a link to an older submission, one fault.
SPECIFICATION Spec
CONSTANTS
    Sources = {a, b}
    Invalid = {}
    MaxSends = 1
    MaxFaults = 1
INVARIANT NotAcceptedIsOfTheKey
CHECK_DEADLOCK FALSE
