CONSTANTS
    Insts = {db}
    Retries = 2
    MaxPending = 2
    MaxLoops = 2
SPECIFICATION FairSpec
INVARIANTS NoLoopLeaks QueueIsDrained ListenersCatchUp
PROPERTIES ChangesArrive
