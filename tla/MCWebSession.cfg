SPECIFICATION FairSpec
CONSTANTS
    Accounts = {"admin", "user"}
    Admins = {"admin"}
    NoOne = "nobody"
    Texts = {"typed"}
    MaxActs = 2
    MaxFaults = 1
INVARIANTS
    RetryIsFresh
    RefusedIsNotApplied
    NeverOverwritesUnseenPrefix
PROPERTIES
    GuardsSettle
    SignedOutPageIsLeft
CHECK_DEADLOCK FALSE
