CONSTANTS
    Callers = {c1, c2}
    Names = {1, 2}
    Entries = {e1, e2}
    Importers = {}
    NoEntry = NoEntry
    NoName = NoName
SPECIFICATION FairSpec
INVARIANTS MutualExclusion RefsCountUsers LockOrder
PROPERTIES AcquisitionEnds ImplementsMutex
