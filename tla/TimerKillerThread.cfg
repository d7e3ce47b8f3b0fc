\* The design of the header: createThread was called.
SPECIFICATION FairSpec
CONSTANTS
    Panel = {"p"}
    MaxTimers = 2
    Killer = TRUE
    NoPanel = "no panel"
INVARIANTS TimerOutlivesProc
PROPERTIES StoppedTimerErased
