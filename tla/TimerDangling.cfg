SPECIFICATION Spec
CONSTANTS
    Panel = {"p"}
    MaxTimers = 1
    Killer = FALSE
    NoPanel = "no panel"
INVARIANTS RunningTaskExists
