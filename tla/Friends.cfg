\* Two users, themselves included as a pair; every query may fail, the process may die.
CONSTANTS
  Users = {1, 2}
  DbFaults = TRUE
SPECIFICATION FriendsSpec
INVARIANTS
  FriendsTypeOK
  HandlersAreClean
  OneRowPerPair
  RowsHaveAccounts
  FriendsHaveMet
PROPERTIES
  ImplementsFriendship
