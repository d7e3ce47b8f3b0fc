\* A pool that has quit, or waits in join for a worker that failed, stops.
SPECIFICATION FairSpec
CONSTANTS
    Task = {t1, t2}
    Worker = {w1, w2, w3}
    MaxWorkers = 2
    Main = Main
    NoOne = NoOne
    NoTask = NoTask
INVARIANTS
    TypeOK
    EventMatchesQueue
    QueuedHasWorker
    WorkersCounted
    JoinIsQuiet
    OneOwner
PROPERTIES
    ImplementsTaskPool
    TaskTaken
    JoinTerminates
    IdleWorkersRetire
CHECK_DEADLOCK FALSE
