CONSTANTS
  MaxUnits = 2
  MaxTotal = 4
  Acl = TRUE
  FreshTakes = {"all", "some", "none"}
SPECIFICATION Spec
INVARIANT PartlySentWaits
CHECK_DEADLOCK FALSE
