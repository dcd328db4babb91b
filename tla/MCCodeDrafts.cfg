SPECIFICATION Spec
CONSTANTS
    Tabs = {t1, t2}
    Mounts = 2
    Sources = {starter, edited, huge}
    Starter = starter
    Oversized = {huge}
    Foreign = foreign
    MaxEdits = 3
    MaxSeq = 2
    MaxFaults = 1
    Attended = {t1}
    NoRecord = NoRecord
    NoText = NoText
CHECK_DEADLOCK FALSE
INVARIANTS
    NeverFalselyCorrupt
    TypedTextIsSafe
PROPERTIES
    CopiesCompeteOpenly
