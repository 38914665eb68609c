SPECIFICATION Spec
CONSTANTS
  a = a
  b = b
  Names = {a, b}
  Clients = {client}
  Operations = {"create", "clone", "import", "delete", "start", "restart", "stop", "rename", "update", "expose", "unexpose"}
  MaxGen = 2
  MaxFaults = 2
  None = None
SYMMETRY Symmetry
INVARIANTS
  NoOrphans
  RecordIsTrue
  NoInheritedRules
