\* One user, no fault: one login and one signal are enough.
CONSTANTS
  Users = {1}
  DbFaults = FALSE
  MaxSessions = 1
SPECIFICATION AccountsSpec
INVARIANTS
  ShutdownLeavesNobodyActive
