\* The code as it runs: no killer thread.
SPECIFICATION FairSpec
CONSTANTS
    Panel = {"p", "q"}
    MaxTimers = 2
    Killer = FALSE
    NoPanel = "no panel"
INVARIANTS TypeOK RefsMatchOwners HandedOverOnce
PROPERTIES UnloadReleasesTasks ClearedNeverInvoked ClearedTimerStops TimeoutRuns
