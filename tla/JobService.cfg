CONSTANTS
    Jobs = {j1}
    Workers = {w1}
    Cancelers = {c1, c2}
    QueueSize = 1
    NoJob = NoJob
    DbOutcomes = {TRUE, FALSE}
    MaxRestarts = 2
SPECIFICATION ServiceSpec
SYMMETRY Symmetry
INVARIANTS EndPersisted NoZombieRows CompletedRowsAreTrue
CHECK_DEADLOCK FALSE
