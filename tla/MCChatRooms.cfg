\* Two users, either of whom may name the other first, and one who names himself; every
\* query may fail, the process may die.
CONSTANTS
  Users = {1, 2}
  DbFaults = TRUE
  Couples <- CouplesAndSelf
SPECIFICATION ChatRoomsSpec
INVARIANTS
  ChatRoomsTypeOK
  HandlersAreClean
  OneRoomPerPair
  MessagesInOwnRoom
  RoomsForAcquaintances
PROPERTIES
  RoomIdsAreStable
  ChatStartIsUpToDate
  ImplementsRooms
