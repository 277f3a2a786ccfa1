\* One user who logs in twice, no fault.
CONSTANTS
  Users = {1}
  DbFaults = FALSE
  MaxSessions = 2
SPECIFICATION AccountsSpec
PROPERTIES
  LogoutEndsSession
