\* Two users and two slots: a double login fills the table; every query may fail, the
\* process may be signalled or die at any time.
CONSTANTS
  Users = {1, 2}
  DbFaults = TRUE
  MaxSessions = 2
SPECIFICATION AccountsSpec
INVARIANTS
  AccountsTypeOK
  HandlersAreClean
  ActiveHasSession
  ActiveRegistered
PROPERTIES
  RequestEnds
  ShutdownEnds
