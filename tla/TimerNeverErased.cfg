SPECIFICATION FairSpec
CONSTANTS
    Panel = {"p"}
    MaxTimers = 1
    Killer = FALSE
    NoPanel = "no panel"
PROPERTIES StoppedTimerErased
