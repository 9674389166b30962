SPECIFICATION FairSpec
CONSTANTS
  Accounts = {"A", "B"}
  Requests = {"r1", "r2"}
  Operations <- TwoOwners
INVARIANT OneSelected
PROPERTIES SelectedUnauthorized ConnectingEnds
CHECK_DEADLOCK FALSE
