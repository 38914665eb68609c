SPECIFICATION Spec
CONSTANTS
  Systems <- MCSystems
  Programs <- MCPrograms
  Outline <- MCOutline
  Laws <- MCLaws
  MaxFaults = 1
  None = None
INVARIANTS
  FailureChangesNothing
  SuccessIsTrue
  NeverStuck
  GuestIsKnown
  OutlineHolds
