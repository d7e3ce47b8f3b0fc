CONSTANTS
    Task = {t1, t2, t3}
    Worker = {w1, w2, w3}
    MaxWorkers = 2
    Main = Main
    NoOne = NoOne
    NoTask = NoTask
SPECIFICATION Spec
INVARIANT
    NothingLeftBehind
CHECK_DEADLOCK FALSE
