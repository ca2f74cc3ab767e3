SPECIFICATION Spec
CONSTANTS
  MaxChoices = 3
  MaxFaults = 0
INVARIANT RetailTakesCexMenu
CHECK_DEADLOCK FALSE
