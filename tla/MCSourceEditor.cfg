SPECIFICATION Spec
CONSTANTS
    Tabs = {"here", "other"}
    Here = "here"
    Registry <- MCRegistry
    DefaultTheme = "cherry-black"
    FallbackTheme = "cherry-black"
    MaxActs = 3
    MaxFaults = 2
INVARIANTS
    EditorShowsTheValue
    NoEcho
    NoViewIsLeaked
    SwitchReachesEveryTab
CHECK_DEADLOCK FALSE
