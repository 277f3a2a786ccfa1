\* A caller and two others.
CONSTANTS
  Users = {1, 2, 3}
  DbFaults = FALSE
SPECIFICATION FriendsSpec
INVARIANTS
  ActiveListHoldsFriends
