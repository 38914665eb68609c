SPECIFICATION Spec
CONSTANTS
  MaxLaunches = 3
  RebootBudget = 1
  None = None
PROPERTY StoppedStaysStopped
CHECK_DEADLOCK FALSE
