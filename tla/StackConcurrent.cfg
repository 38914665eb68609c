CONSTANTS
    db = db
    web = web
    Insts = {db, web}
    Order <- TwoInsts
    Checked = {}
    Callers = {c1, c2}
    Kinds = {"stop", "start", "destroy"}
    MaxDeploys = 1
    MaxCrashes = 0
    Restored = TRUE
    DeleteOutcomes = {TRUE, FALSE}
    DbOutcomes = {TRUE, FALSE}
SPECIFICATION FairSpec
INVARIANT StatusPersistedInOrder
PROPERTIES RecordOutlivesInstances CallsReturn
CHECK_DEADLOCK FALSE
