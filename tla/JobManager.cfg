CONSTANTS
    Jobs = {j1, j2}
    Workers = {w1, w2}
    Cancelers = {c1, c2}
    QueueSize = 1
    NoJob = NoJob
SPECIFICATION FairSpec
INVARIANTS RunOnce ActiveReachable CancelReachesRun CleanShutdownFinishesAll
PROPERTIES ImplementsLifecycle SubmittedGetsDone
CHECK_DEADLOCK FALSE
