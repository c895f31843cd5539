\* An administrator alone, without failures: the deletion of another activity.
CONSTANTS
  MaxEdits = 1
  MaxOthers = 0
  MaxFetches = 0
  MaxErrors = 0
  MaxDiscards = 0
  MaxPulls = 1
  Refusals = {}
SPECIFICATION Spec
PROPERTY ConflictNeedsAnother
CHECK_DEADLOCK FALSE
