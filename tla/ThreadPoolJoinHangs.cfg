CONSTANTS
    Task = {t1}
    Worker = {w1, w2, w3}
    MaxWorkers = 2
    Main = Main
    NoOne = NoOne
    NoTask = NoTask
SPECIFICATION FairSpec
PROPERTY
    JoinEnds
CHECK_DEADLOCK FALSE
