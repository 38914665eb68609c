CONSTANTS
    Callers = {c1}
    MaxBackups = 3
    MaxCrashes = 1
    MaxShared = 1
    Policies <- NewestOfIntervals
    BucketLen = 2
    DbOutcomes = {TRUE, FALSE}
SPECIFICATION Spec
VIEW View
INVARIANTS ChainsRestorable DataIsOwned RestartChangesNothing
 
CHECK_DEADLOCK FALSE
