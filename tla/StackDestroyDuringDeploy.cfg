CONSTANTS
    db = db
    web = web
    Insts = {db}
    Order <- OneInst
    Checked = {}
    Callers = {c1, c2}
    Kinds = {"deploy", "destroy"}
    MaxDeploys = 1
    MaxCrashes = 0
    Restored = FALSE
    DeleteOutcomes = {TRUE}
    DbOutcomes = {TRUE}
SPECIFICATION Spec
INVARIANT NoOrphans
CHECK_DEADLOCK FALSE
