CONSTANTS
    db = db
    web = web
    Insts = {db, web}
    Order <- TwoInsts
    Checked = {db}
    Callers = {c1}
    Kinds = {"deploy", "stop", "start", "destroy"}
    MaxDeploys = 2
    MaxCrashes = 1
    Restored = FALSE
    DeleteOutcomes = {TRUE}
    DbOutcomes = {TRUE, FALSE}
SPECIFICATION Spec
INVARIANTS NoOrphans RestartFindsAll RegistriesFollowStack DeployingIsDriven
PROPERTY ReportsTrue
CHECK_DEADLOCK FALSE
