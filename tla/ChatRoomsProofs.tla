---------------------------- MODULE ChatRoomsProofs ----------------------------
(***************************************************************************)
(* Proofs about chat rooms, for every set of users, with faults or without. *)
(* Two threads run create_or_get_chat_room and each may find the other's    *)
(* work between its two queries; the invariant says what each still knows   *)
(* of what it has checked, and how the rooms are kept.                     *)
(***************************************************************************)
EXTENDS ChatRooms, FriendsProofs

Pairs == Users \X Users

\* Rows of chat_room: ids come from the counter, are not shared, and belong to sorted
\* pairs of users who have met.
RoomsKept ==
  /\ \A p \in Pairs : rooms[p] <= lastId
  /\ \A p, q \in Pairs : rooms[p] # NoRoom /\ rooms[p] = rooms[q] => p = q
  /\ \A p \in Pairs : rooms[p] # NoRoom => p[1] <= p[2] /\ p \in met

\* What handle_chat_start still knows at its INSERT ...
ChatInsertKnows ==
  http.pc = "chat_insert" =>
    /\ <<http.from, http.to>> \in Pairs
    /\ http.from <= http.to
    /\ AcceptedRows(http.from, http.to) # {}

\* ... and process_message, whose check may be outdated, at its INSERTs.
WsKnows ==
  /\ ws.pc # "idle" => /\ <<ws.from, ws.to>> \in Pairs
                       /\ Sorted(ws.from, ws.to) \in met
  /\ ws.pc = "save" => /\ ws.room # NoRoom
                       /\ ws.room = rooms[Sorted(ws.from, ws.to)]

ChatRoomsInv ==
  /\ ChatRoomsTypeOK
  /\ FriendsInv
  /\ RoomsKept
  /\ ChatInsertKnows
  /\ WsKnows
  /\ MessagesInOwnRoom

\* What every step does to rooms.
RoomsGrow == \A p \in Pairs : rooms[p] # NoRoom => rooms'[p] = rooms[p]

USE UsersAssumption, DbFaultsAssumption, CouplesAssumption
-----------------------------------------------------------------------------
(* Rooms and pairs.                                                        *)

LEMMA SortedPair ==
  ASSUME NEW u \in Users, NEW v \in Users
  PROVE  /\ Sorted(u, v) \in Pairs
         /\ Sorted(u, v)[1] <= Sorted(u, v)[2]
         /\ Sorted(u, v) = <<u, v>> \/ Sorted(u, v) = <<v, u>>
         /\ Sorted(u, v) = <<Sorted(u, v)[1], Sorted(u, v)[2]>>
BY DEF Sorted, Pairs

LEMMA AcceptedEitherWay ==
  ASSUME NEW u \in Users, NEW v \in Users
  PROVE  AcceptedRows(u, v) = AcceptedRows(v, u)
BY DEF AcceptedRows, Between

LEMMA CreateRoomKeeps ==
  ASSUME ChatRoomsInv, NEW pair \in Pairs, pair[1] <= pair[2], pair \in met,
         CreateRoom(pair), UNCHANGED met
  PROVE  /\ rooms' \in [Pairs -> Nat] /\ lastId' \in Nat
         /\ RoomsKept' /\ RoomsGrow
         /\ rooms'[pair] # NoRoom
         /\ \A p \in Pairs : p # pair => rooms'[p] = rooms[p]
<1>1. rooms \in [Pairs -> Nat] /\ lastId \in Nat
  BY DEF ChatRoomsInv, ChatRoomsTypeOK, Pairs
<1>2. CASE /\ rooms[pair] = NoRoom
           /\ rooms' = [rooms EXCEPT ![pair] = lastId + 1]
           /\ lastId' = lastId + 1
  <2>1. rooms' \in [Pairs -> Nat] /\ lastId' \in Nat
    BY <1>1, <1>2
  <2>2. rooms'[pair] = lastId + 1 /\ \A p \in Pairs : p # pair => rooms'[p] = rooms[p]
    BY <1>1, <1>2
  <2>3. \A p \in Pairs : rooms[p] \in Nat /\ rooms[p] <= lastId
    BY <1>1 DEF ChatRoomsInv, RoomsKept
  <2>4. \A p \in Pairs : rooms'[p] <= lastId'
    BY <1>1, <1>2, <2>2, <2>3
  <2>5. \A p, q \in Pairs : rooms'[p] # NoRoom /\ rooms'[p] = rooms'[q] => p = q
    BY <1>1, <2>2, <2>3 DEF ChatRoomsInv, RoomsKept
  <2>6. \A p \in Pairs : rooms'[p] # NoRoom => p[1] <= p[2] /\ p \in met'
    BY <2>2 DEF ChatRoomsInv, RoomsKept
  <2>. QED
    BY <1>1, <1>2, <2>1, <2>2, <2>4, <2>5, <2>6 DEF RoomsKept, RoomsGrow, NoRoom
<1>3. CASE rooms[pair] # NoRoom /\ UNCHANGED <<rooms, lastId>>
  BY <1>1, <1>3 DEF ChatRoomsInv, RoomsKept, RoomsGrow
<1>. QED
  BY <1>2, <1>3 DEF CreateRoom

LEMMA SameRooms ==
  ASSUME ChatRoomsInv, UNCHANGED <<rooms, lastId>>, met \subseteq met'
  PROVE  /\ rooms' \in [Pairs -> Nat] /\ lastId' \in Nat
         /\ RoomsKept' /\ RoomsGrow
BY DEF ChatRoomsInv, ChatRoomsTypeOK, Pairs, RoomsKept, RoomsGrow

LEMMA MessagesStay ==
  ASSUME ChatRoomsInv, RoomsGrow, UNCHANGED messages
  PROVE  MessagesInOwnRoom'
BY DEF ChatRoomsInv, MessagesInOwnRoom, RoomsGrow, Pairs

\* What a growing table of rooms keeps of the WebSocket thread's knowledge and messages.
LEMMA SameWs ==
  ASSUME ChatRoomsInv, RoomsGrow, met \subseteq met', UNCHANGED <<ws, messages>>
  PROVE  WsKnows' /\ MessagesInOwnRoom'
<1>1. WsKnows'
  <2>1. CASE ws.pc = "idle"
    BY <2>1 DEF WsKnows
  <2>2. CASE ws.pc # "idle"
    <3>1. <<ws.from, ws.to>> \in Pairs /\ Sorted(ws.from, ws.to) \in met
      BY <2>2 DEF ChatRoomsInv, WsKnows
    <3>2. Sorted(ws.from, ws.to) \in Pairs
      BY <3>1, SortedPair DEF Pairs
    <3>3. Sorted(ws'.from, ws'.to) = Sorted(ws.from, ws.to)
      BY DEF Sorted
    <3>. QED
      BY <3>1, <3>2, <3>3 DEF ChatRoomsInv, WsKnows, RoomsGrow
  <2>. QED
    BY <2>1, <2>2
<1>. QED
  BY <1>1, MessagesStay
-----------------------------------------------------------------------------
(* One lemma per group of actions: each keeps the invariant and lets the    *)
(* table of rooms only grow.                                               *)

LEMMA NoChatInsertAfter ==
  ASSUME ChatRoomsInv, FriendSteps
  PROVE  http'.pc # "chat_insert"
<1>1. CASE \E code \in StatusCodes : Serve(code)
  BY <1>1, IdleTypes DEF Serve
<1>2. CASE \E code \in StatusCodes : Return(code)
  BY <1>2, IdleTypes DEF Return
<1>3. CASE \E u, v \in Users : Enter("request_to", u, v)
  BY <1>3 DEF Enter
<1>4. CASE \E pc \in {"request_dup", "request_insert"} : Continue(pc)
  BY <1>4 DEF Continue, ChatRoomsInv, ChatRoomsTypeOK, FriendsTypeOK, HttpTypeOK
<1>5. ASSUME NEW u \in Users, NEW v \in Users,
             HandleFriendRequest(u, v) \/ HandleFriendAccept(u, v) \/ HandleFriendReject(u, v)
      PROVE  http'.pc # "chat_insert"
  BY <1>1, <1>3, <1>5 DEF HandleFriendRequest, HandleFriendAccept, HandleFriendReject,
                          Refuse, OrFault, StatusCodes
<1>6. CASE RequestCheckTo \/ RequestCheckDup \/ RequestInsert
  BY <1>2, <1>4, <1>6 DEF RequestCheckTo, RequestCheckDup, RequestInsert, OrFault, StatusCodes
<1>. QED
  BY <1>5, <1>6 DEF FriendSteps

LEMMA FriendStepsKeep ==
  ASSUME ChatRoomsInv, FriendSteps
  PROVE  ChatRoomsInv' /\ RoomsGrow
<1>1. UNCHANGED <<rooms, lastId, ws, wsdb, messages>>
  BY DEF FriendSteps, chatVars
<1>2. FriendsNext
  BY DEF FriendSteps, FriendsNext, FriendsHttp
<1>3. FriendsInv'
  BY <1>2, FriendsNextInv DEF ChatRoomsInv
<1>4. met \subseteq met'
  BY <1>2, StepCases DEF ChatRoomsInv, Inserts, Accepts, Deletes
<1>5. RoomsKept' /\ RoomsGrow /\ WsKnows' /\ MessagesInOwnRoom'
  BY <1>1, <1>4, SameRooms, SameWs
<1>6. ChatInsertKnows'
  BY NoChatInsertAfter DEF ChatInsertKnows
<1>7. ChatRoomsTypeOK'
  BY <1>1, <1>3 DEF ChatRoomsInv, ChatRoomsTypeOK, FriendsInv
<1>. QED
  BY <1>3, <1>5, <1>6, <1>7 DEF ChatRoomsInv

\* The handlers of this module do not touch the tables of Friends.
LEMMA TablesAlone ==
  ASSUME FriendsInv, UNCHANGED <<users, friend, met>>,
         HttpTypeOK' /\ SilentUntilReturn' /\ HandlersAreClean' /\ RequestKnows'
  PROVE  FriendsInv'
BY DEF FriendsInv, FriendsTypeOK, OneRowPerPair, RowsHaveAccounts, FriendsHaveMet,
       AcceptedRows, Present

LEMMA ReadsKeep ==
  ASSUME ChatRoomsInv, \E code \in StatusCodes : Serve(code),
         UNCHANGED <<users, active, friend, met, rooms, lastId, ws, wsdb, messages>>
  PROVE  ChatRoomsInv' /\ RoomsGrow
<1>1. FriendsInv'
  BY ServeIsClean, TablesAlone DEF ChatRoomsInv
<1>2. RoomsKept' /\ RoomsGrow /\ WsKnows' /\ MessagesInOwnRoom'
  BY SameRooms, SameWs
<1>3. ChatInsertKnows'
  BY IdleTypes DEF ChatInsertKnows, Serve
<1>4. ChatRoomsTypeOK'
  BY <1>1 DEF ChatRoomsInv, ChatRoomsTypeOK, FriendsInv
<1>. QED
  BY <1>1, <1>2, <1>3, <1>4 DEF ChatRoomsInv

LEMMA ChatStartKeeps ==
  ASSUME ChatRoomsInv, NEW u \in Users, NEW v \in Users, HandleChatStart(u, v)
  PROVE  ChatRoomsInv' /\ RoomsGrow
<1>1. UNCHANGED <<users, active, friend, met, rooms, lastId, ws, wsdb, messages>>
  BY DEF HandleChatStart, chatVars
<1>2. CASE \E code \in StatusCodes : Serve(code)
  BY <1>1, <1>2, ReadsKeep
<1>3. CASE CanChat(u, v) /\ Enter("chat_insert", Sorted(u, v)[1], Sorted(u, v)[2])
  <2>. DEFINE first == Sorted(u, v)[1]
              second == Sorted(u, v)[2]
  <2>1. /\ first \in Users /\ second \in Users /\ first <= second
        /\ <<first, second>> = <<u, v>> \/ <<first, second>> = <<v, u>>
    BY SortedPair DEF Pairs
  <2>2. AcceptedRows(first, second) # {}
    BY <1>3, <2>1, AcceptedEitherWay DEF CanChat
  <2>. HIDE DEF first, second
  <2>3. http' = [pc |-> "chat_insert", from |-> first, to |-> second] /\ answer' = <<>>
    BY <1>3 DEF Enter, first, second
  <2>4. Enter("chat_insert", first, second)
    BY <1>3 DEF first, second
  <2>5. HttpTypeOK'
    BY <1>1, <2>1, <2>4, EnterTypes DEF ChatRoomsInv, FriendsInv, FriendsTypeOK, HandlerPcs
  <2>6. http' # Idle
    BY <2>3, IdleTypes
  <2>7. SilentUntilReturn' /\ HandlersAreClean' /\ RequestKnows'
    BY <2>3, <2>6 DEF SilentUntilReturn, HandlersAreClean, RequestKnows
  <2>8. FriendsInv'
    BY <1>1, <2>5, <2>7, TablesAlone DEF ChatRoomsInv
  <2>9. ChatInsertKnows'
    BY <1>1, <2>1, <2>2, <2>3 DEF ChatInsertKnows, Pairs, AcceptedRows, Present
  <2>10. RoomsKept' /\ RoomsGrow /\ WsKnows' /\ MessagesInOwnRoom'
    BY <1>1, SameRooms, SameWs
  <2>11. ChatRoomsTypeOK'
    BY <1>1, <2>8 DEF ChatRoomsInv, ChatRoomsTypeOK, FriendsInv
  <2>. QED
    BY <2>8, <2>9, <2>10, <2>11 DEF ChatRoomsInv
<1>. QED
  BY <1>2, <1>3 DEF HandleChatStart, Refuse, OrFault, StatusCodes

LEMMA ChatInsertKeeps ==
  ASSUME ChatRoomsInv, ChatInsert
  PROVE  ChatRoomsInv' /\ RoomsGrow
<1>1. UNCHANGED <<users, active, friend, met, ws, wsdb, messages>> /\ http # Idle
  BY IdleTypes DEF ChatInsert
<1>2. \E code \in StatusCodes : Return(code)
  BY DEF ChatInsert, OrFault, StatusCodes
<1>3. FriendsInv'
  BY <1>1, <1>2, ReturnIsClean, TablesAlone DEF ChatRoomsInv
<1>4. /\ <<http.from, http.to>> \in Pairs /\ http.from <= http.to
      /\ <<http.from, http.to>> \in met
  BY DEF ChatInsert, ChatRoomsInv, ChatInsertKnows, FriendsInv, FriendsHaveMet, Pairs
<1>5. /\ rooms' \in [Pairs -> Nat] /\ lastId' \in Nat /\ RoomsKept' /\ RoomsGrow
  <2>1. CASE UNCHANGED <<rooms, lastId>>
    BY <1>1, <2>1, SameRooms
  <2>2. CASE CreateRoom(<<http.from, http.to>>)
    BY <1>1, <1>4, <2>2, CreateRoomKeeps
  <2>. QED
    BY <2>1, <2>2 DEF ChatInsert
<1>6. WsKnows' /\ MessagesInOwnRoom'
  BY <1>1, <1>5, SameWs
<1>7. ChatInsertKnows'
  BY <1>2, IdleTypes DEF ChatInsertKnows, Return
<1>8. ChatRoomsTypeOK'
  BY <1>1, <1>3, <1>5 DEF ChatRoomsInv, ChatRoomsTypeOK, FriendsInv, Pairs
<1>. QED
  BY <1>3, <1>5, <1>6, <1>7, <1>8 DEF ChatRoomsInv

\* A step of the HTTP thread that reads, whatever it does to its handler.
LEMMA TablesUnread ==
  ASSUME ChatRoomsInv, http'.pc # "chat_insert",
         UNCHANGED <<users, active, friend, met, rooms, lastId, ws, wsdb, messages>>,
         HttpTypeOK' /\ SilentUntilReturn' /\ HandlersAreClean' /\ RequestKnows'
  PROVE  ChatRoomsInv' /\ RoomsGrow
<1>1. FriendsInv'
  BY TablesAlone DEF ChatRoomsInv
<1>2. RoomsKept' /\ RoomsGrow /\ WsKnows' /\ MessagesInOwnRoom'
  BY SameRooms, SameWs
<1>3. ChatInsertKnows'
  BY DEF ChatInsertKnows
<1>4. ChatRoomsTypeOK'
  BY <1>1 DEF ChatRoomsInv, ChatRoomsTypeOK, FriendsInv
<1>. QED
  BY <1>1, <1>2, <1>3, <1>4 DEF ChatRoomsInv

LEMMA ChatHistoryKeeps ==
  ASSUME ChatRoomsInv, NEW u \in Users, NEW v \in Users, HandleChatHistory(u, v)
  PROVE  ChatRoomsInv' /\ RoomsGrow
<1>1. UNCHANGED <<users, active, friend, met, rooms, lastId, ws, wsdb, messages>>
  BY DEF HandleChatHistory, chatVars
<1>2. CASE \E code \in StatusCodes : Serve(code)
  BY <1>1, <1>2, ReadsKeep
<1>3. CASE Enter("history_read", u, v)
  <2>1. http' = [pc |-> "history_read", from |-> u, to |-> v] /\ answer' = <<>>
    BY <1>3 DEF Enter
  <2>2. HttpTypeOK'
    BY <1>1, <1>3, EnterTypes DEF ChatRoomsInv, FriendsInv, FriendsTypeOK, HandlerPcs
  <2>3. http' # Idle
    BY <2>1, IdleTypes
  <2>4. SilentUntilReturn' /\ HandlersAreClean' /\ RequestKnows'
    BY <2>1, <2>3 DEF SilentUntilReturn, HandlersAreClean, RequestKnows
  <2>. QED
    BY <1>1, <2>1, <2>2, <2>4, TablesUnread
<1>. QED
  BY <1>2, <1>3 DEF HandleChatHistory, Refuse, OrFault, StatusCodes

LEMMA GetChatHistoryKeeps ==
  ASSUME ChatRoomsInv, GetChatHistory
  PROVE  ChatRoomsInv' /\ RoomsGrow
<1>1. /\ UNCHANGED <<users, active, friend, met, rooms, lastId, ws, wsdb, messages>>
      /\ http # Idle
  BY IdleTypes DEF GetChatHistory, chatVars
<1>2. \E code \in StatusCodes : Return(code)
  BY DEF GetChatHistory, OrFault, StatusCodes
<1>3. http'.pc # "chat_insert"
  BY <1>2, IdleTypes DEF Return
<1>4. HttpTypeOK' /\ SilentUntilReturn' /\ HandlersAreClean' /\ RequestKnows'
  BY <1>1, <1>2, ReturnIsClean DEF ChatRoomsInv
<1>. QED
  BY <1>1, <1>3, <1>4, TablesUnread

LEMMA ChatHttpKeeps ==
  ASSUME ChatRoomsInv, ChatHttp
  PROVE  ChatRoomsInv' /\ RoomsGrow
<1>1. ASSUME NEW u \in Users, NEW v \in Users, HandleChatHistory(u, v)
      PROVE  ChatRoomsInv' /\ RoomsGrow
  BY <1>1, ChatHistoryKeeps
<1>2. CASE HandleChatRoomList
  BY <1>2, ReadsKeep DEF HandleChatRoomList, Refuse, OrFault, StatusCodes, chatVars
<1>. QED
  BY <1>1, <1>2, ChatStartKeeps, ChatInsertKeeps, GetChatHistoryKeeps DEF ChatHttp

\* Steps that leave the HTTP thread and its tables alone.
LEMMA HttpAlone ==
  ASSUME ChatRoomsInv, UNCHANGED <<users, active, http, db, answer, friend, met>>
  PROVE  FriendsInv' /\ ChatInsertKnows'
<1>1. FriendsInv'
  BY FriendsNextInv DEF ChatRoomsInv, friendsVars
<1>. QED
  BY <1>1 DEF ChatRoomsInv, ChatInsertKnows, AcceptedRows, Present

LEMMA WsMessageKeeps ==
  ASSUME ChatRoomsInv, NEW u \in Users, NEW v \in Users, WsMessage(u, v)
  PROVE  ChatRoomsInv' /\ RoomsGrow
<1>1. UNCHANGED <<users, active, http, db, answer, friend, met, rooms, lastId, messages>>
  BY DEF WsMessage
<1>2. FriendsInv' /\ ChatInsertKnows'
  BY <1>1, HttpAlone
<1>3. RoomsKept' /\ RoomsGrow
  BY <1>1, SameRooms
<1>4. wsdb' \in {"none", "open", "lost"}
  BY DEF WsMessage, WsQueryFails, ChatRoomsInv, ChatRoomsTypeOK
<1>5. CASE UNCHANGED ws
  <2>1. WsKnows' /\ MessagesInOwnRoom'
    BY <1>1, <1>3, <1>5, SameWs
  <2>. QED
    BY <1>1, <1>2, <1>3, <1>4, <1>5, <2>1 DEF ChatRoomsInv, ChatRoomsTypeOK, FriendsInv
<1>6. CASE CanChat(u, v) /\ ws' = [WsIdle EXCEPT !.pc = "insert", !.from = u, !.to = v]
  <2>1. ws' = [pc |-> "insert", from |-> u, to |-> v, room |-> NoRoom]
    BY <1>6 DEF WsIdle
  <2>2. Sorted(u, v) \in met
    <3>1. AcceptedRows(u, v) # {} /\ AcceptedRows(v, u) # {}
      BY <1>6, AcceptedEitherWay DEF CanChat
    <3>2. <<u, v>> \in met /\ <<v, u>> \in met
      BY <3>1 DEF ChatRoomsInv, FriendsInv, FriendsHaveMet
    <3>. QED
      BY <3>2, SortedPair
  <2>3. WsKnows'
    <3>1. ws'.pc = "insert" /\ ws'.from = u /\ ws'.to = v
      BY <2>1
    <3>2. Sorted(ws'.from, ws'.to) \in met'
      BY <1>1, <2>2, <3>1
    <3>. QED
      BY <3>1, <3>2 DEF WsKnows, Pairs, Sorted
  <2>4. MessagesInOwnRoom'
    BY <1>1 DEF ChatRoomsInv, MessagesInOwnRoom
  <2>5. ChatRoomsTypeOK'
    BY <1>1, <1>2, <1>4, <2>1 DEF ChatRoomsInv, ChatRoomsTypeOK, FriendsInv, NoRoom
  <2>. QED
    BY <1>2, <1>3, <2>3, <2>4, <2>5 DEF ChatRoomsInv
<1>. QED
  BY <1>5, <1>6 DEF WsMessage

LEMMA WsInsertKeeps ==
  ASSUME ChatRoomsInv, WsInsert
  PROVE  ChatRoomsInv' /\ RoomsGrow
<1>. DEFINE pair == Sorted(ws.from, ws.to)
<1>1. UNCHANGED <<users, active, http, db, answer, friend, met, messages>> /\ ws.pc = "insert"
  BY DEF WsInsert
<1>2. FriendsInv' /\ ChatInsertKnows'
  BY <1>1, HttpAlone
<1>3. ws.from \in Users /\ ws.to \in Users /\ pair \in met
  BY <1>1 DEF ChatRoomsInv, WsKnows, Pairs
<1>4. pair \in Pairs /\ pair[1] <= pair[2]
  BY <1>3, SortedPair
<1>5. wsdb' \in {"none", "open", "lost"}
  BY DEF WsInsert, WsQueryFails, ChatRoomsInv, ChatRoomsTypeOK
<1>6. /\ rooms' \in [Pairs -> Nat] /\ lastId' \in Nat /\ RoomsKept' /\ RoomsGrow
  <2>1. CASE UNCHANGED <<rooms, lastId>>
    BY <1>1, <2>1, SameRooms
  <2>2. CASE CreateRoom(pair)
    BY <1>1, <1>3, <1>4, <2>2, CreateRoomKeeps
  <2>. QED
    BY <2>1, <2>2 DEF WsInsert
<1>7. MessagesInOwnRoom'
  BY <1>1, <1>6, MessagesStay
<1>8. WsKnows' /\ ws' \in [pc : {"idle", "insert", "save"}, from : Users \cup {NoUser},
                           to : Users \cup {NoUser}, room : Nat]
  <2>1. CASE ws' = WsIdle
    BY <2>1 DEF WsIdle, WsKnows, NoRoom
  <2>2. CASE CreateRoom(pair) /\ ws' = [ws EXCEPT !.pc = "save", !.room = rooms'[pair]]
    <3>1. rooms'[pair] # NoRoom /\ rooms'[pair] \in Nat
      BY <1>1, <1>3, <1>4, <1>6, <2>2, CreateRoomKeeps
    <3>. HIDE DEF pair
    <3>2. /\ ws'.pc = "save" /\ ws'.from = ws.from /\ ws'.to = ws.to /\ ws'.room = rooms'[pair]
          /\ ws' \in [pc : {"idle", "insert", "save"}, from : Users \cup {NoUser},
                      to : Users \cup {NoUser}, room : Nat]
      BY <2>2, <3>1 DEF ChatRoomsInv, ChatRoomsTypeOK
    <3>3. Sorted(ws'.from, ws'.to) = pair
      BY <3>2 DEF Sorted, pair
    <3>. QED
      BY <1>1, <1>3, <3>1, <3>2, <3>3 DEF WsKnows, Pairs
  <2>. QED
    BY <2>1, <2>2 DEF WsInsert
<1>9. ChatRoomsTypeOK'
  BY <1>1, <1>2, <1>5, <1>6, <1>8 DEF ChatRoomsInv, ChatRoomsTypeOK, FriendsInv, Pairs
<1>. QED
  BY <1>2, <1>6, <1>7, <1>8, <1>9 DEF ChatRoomsInv

LEMMA WsSaveKeeps ==
  ASSUME ChatRoomsInv, WsSave
  PROVE  ChatRoomsInv' /\ RoomsGrow
<1>. DEFINE pair == Sorted(ws.from, ws.to)
            m == [room |-> ws.room, sender |-> ws.from]
<1>1. /\ UNCHANGED <<users, active, http, db, answer, friend, met, rooms, lastId>>
      /\ ws.pc = "save" /\ ws' = WsIdle
      /\ messages' = messages \/ messages' = messages \cup {m}
  BY DEF WsSave
<1>2. FriendsInv' /\ ChatInsertKnows'
  BY <1>1, HttpAlone
<1>3. RoomsKept' /\ RoomsGrow
  BY <1>1, SameRooms
<1>4. wsdb' \in {"none", "open", "lost"}
  BY DEF WsSave, WsQueryFails, ChatRoomsInv, ChatRoomsTypeOK
<1>5. WsKnows' /\ ws' \in [pc : {"idle", "insert", "save"}, from : Users \cup {NoUser},
                           to : Users \cup {NoUser}, room : Nat]
  BY <1>1 DEF WsIdle, WsKnows, NoRoom
<1>6. /\ ws.from \in Users /\ ws.to \in Users
      /\ ws.room # NoRoom /\ ws.room = rooms[pair] /\ ws.room \in Nat
  BY <1>1 DEF ChatRoomsInv, WsKnows, Pairs, ChatRoomsTypeOK
<1>7. messages' \subseteq [room : Nat, sender : Users]
  BY <1>1, <1>6 DEF ChatRoomsInv, ChatRoomsTypeOK
<1>8. MessagesInOwnRoom'
  <2>1. pair = <<ws.from, ws.to>> \/ pair = <<ws.to, ws.from>>
    BY <1>6, SortedPair
  <2>2. \E u, v \in Users : /\ m.sender \in {u, v} /\ rooms[<<u, v>>] = m.room
                            /\ m.room # NoRoom
    BY <1>6, <2>1
  <2>. HIDE DEF m
  <2>. QED
    BY <1>1, <2>2 DEF ChatRoomsInv, MessagesInOwnRoom
<1>9. ChatRoomsTypeOK'
  BY <1>1, <1>2, <1>4, <1>5, <1>7 DEF ChatRoomsInv, ChatRoomsTypeOK, FriendsInv
<1>. QED
  BY <1>2, <1>3, <1>5, <1>8, <1>9 DEF ChatRoomsInv

LEMMA WsThreadKeeps ==
  ASSUME ChatRoomsInv, WsThread
  PROVE  ChatRoomsInv' /\ RoomsGrow
<1>1. CASE WsStart
  <2>1. /\ UNCHANGED <<users, active, http, db, answer, friend, met, rooms, lastId, ws, messages>>
        /\ wsdb' = "open"
    BY <1>1 DEF WsStart
  <2>2. FriendsInv' /\ ChatInsertKnows'
    BY <2>1, HttpAlone
  <2>3. RoomsKept' /\ RoomsGrow /\ WsKnows' /\ MessagesInOwnRoom'
    BY <2>1, SameRooms, SameWs
  <2>. QED
    BY <2>1, <2>2, <2>3 DEF ChatRoomsInv, ChatRoomsTypeOK, FriendsInv
<1>. QED
  BY <1>1, WsMessageKeeps, WsInsertKeeps, WsSaveKeeps DEF WsThread

LEMMA ProcessKeeps ==
  ASSUME ChatRoomsInv, ActiveChanges \/ ProcessRestarts \/ UNCHANGED chatRoomsVars
  PROVE  ChatRoomsInv' /\ RoomsGrow
<1>1. UNCHANGED <<users, friend, met, rooms, lastId, messages>> /\ active' \subseteq Users
  BY DEF ActiveChanges, ProcessRestarts, chatVars, chatRoomsVars, ChatRoomsInv,
         FriendsInv, FriendsTypeOK, HttpTypeOK
<1>2. RoomsKept' /\ RoomsGrow
  BY <1>1, SameRooms
<1>3. CASE UNCHANGED <<http, db, answer, ws, wsdb>>
  <2>1. HttpTypeOK' /\ SilentUntilReturn' /\ HandlersAreClean' /\ RequestKnows'
    BY <1>1, <1>3 DEF ChatRoomsInv, FriendsInv, FriendsTypeOK, HttpTypeOK, SilentUntilReturn,
                      HandlersAreClean, RequestKnows, Present
  <2>2. FriendsInv'
    BY <1>1, <2>1, TablesAlone DEF ChatRoomsInv
  <2>3. ChatInsertKnows'
    BY <1>1, <1>3 DEF ChatRoomsInv, ChatInsertKnows, AcceptedRows, Present
  <2>4. WsKnows' /\ MessagesInOwnRoom'
    BY <1>1, <1>2, <1>3, SameWs
  <2>. QED
    BY <1>1, <1>2, <1>3, <2>2, <2>3, <2>4 DEF ChatRoomsInv, ChatRoomsTypeOK, FriendsInv
<1>4. CASE HttpDies /\ ws' = WsIdle /\ wsdb' = "none"
  <2>1. http' = Idle /\ db' = "closed" /\ answer' = <<Reset>>
    BY <1>4 DEF HttpDies
  <2>2. HttpTypeOK'
    BY <1>1, <2>1, IdleTypes DEF ChatRoomsInv, FriendsInv, FriendsTypeOK, HttpTypeOK
  <2>3. SilentUntilReturn' /\ HandlersAreClean' /\ RequestKnows' /\ ChatInsertKnows'
    BY <2>1, IdleTypes DEF SilentUntilReturn, HandlersAreClean, RequestKnows, ChatInsertKnows
  <2>4. FriendsInv'
    BY <1>1, <2>2, <2>3, TablesAlone DEF ChatRoomsInv
  <2>5. WsKnows' /\ ws' \in [pc : {"idle", "insert", "save"}, from : Users \cup {NoUser},
                             to : Users \cup {NoUser}, room : Nat]
    BY <1>4 DEF WsIdle, WsKnows, NoRoom
  <2>6. MessagesInOwnRoom'
    BY <1>1 DEF ChatRoomsInv, MessagesInOwnRoom
  <2>. QED
    BY <1>1, <1>2, <1>4, <2>3, <2>4, <2>5, <2>6 DEF ChatRoomsInv, ChatRoomsTypeOK, FriendsInv
<1>. QED
  BY <1>3, <1>4 DEF ActiveChanges, ProcessRestarts, chatVars, chatRoomsVars

LEMMA ChatRoomsNextInv ==
  ChatRoomsInv /\ [ChatRoomsNext]_chatRoomsVars => ChatRoomsInv' /\ RoomsGrow
BY FriendStepsKeep, ChatHttpKeeps, WsThreadKeeps, ProcessKeeps DEF ChatRoomsNext
-----------------------------------------------------------------------------
(* The theorems.                                                           *)

LEMMA ChatRoomsInitInv == ChatRoomsInit => ChatRoomsInv
<1>. SUFFICES ASSUME ChatRoomsInit PROVE ChatRoomsInv
  OBVIOUS
<1>. USE DEF ChatRoomsInit, HttpInit
<1>1. FriendsTypeOK
  BY IdleTypes DEF FriendsTypeOK, HttpTypeOK
<1>2. \A r \in Rows : ~Present(r)
  BY DEF Present
<1>3. FriendsInv
  BY <1>1, <1>2, IdleTypes
     DEF FriendsInv, SilentUntilReturn, HandlersAreClean, RequestKnows, OneRowPerPair,
         RowsHaveAccounts, FriendsHaveMet, AcceptedRows
<1>4. RoomsKept /\ rooms \in [Users \X Users -> Nat]
  BY DEF RoomsKept, Pairs, NoRoom
<1>5. WsKnows /\ ws \in [pc : {"idle", "insert", "save"}, from : Users \cup {NoUser},
                         to : Users \cup {NoUser}, room : Nat]
  BY DEF WsKnows, WsIdle, NoRoom
<1>6. ChatInsertKnows /\ MessagesInOwnRoom
  BY IdleTypes DEF ChatInsertKnows, MessagesInOwnRoom
<1>. QED
  BY <1>1, <1>3, <1>4, <1>5, <1>6 DEF ChatRoomsInv, ChatRoomsTypeOK

\* The invariant holds in every reachable state, however the two threads interleave.
THEOREM ChatRoomsInvariant == ChatRoomsSpec => []ChatRoomsInv
<1>1. ChatRoomsInv /\ [ChatRoomsNext]_chatRoomsVars => ChatRoomsInv'
  BY ChatRoomsNextInv
<1>. QED
  BY <1>1, ChatRoomsInitInv, PTL DEF ChatRoomsSpec

\* Rooms, messages and both threads always have their types.
THEOREM ChatRoomsTypeCorrect == ChatRoomsSpec => []ChatRoomsTypeOK
<1>1. ChatRoomsInv => ChatRoomsTypeOK
  BY DEF ChatRoomsInv
<1>. QED
  BY <1>1, ChatRoomsInvariant, PTL

\* A handler that has returned has closed its connection and given its one answer, that of
\* /chat/start (chat_room.c:14-63) included, whatever the WebSocket thread did meanwhile.
THEOREM ChatHandlersAreClean == ChatRoomsSpec => []HandlersAreClean
<1>1. ChatRoomsInv => HandlersAreClean
  BY DEF ChatRoomsInv, FriendsInv
<1>. QED
  BY <1>1, ChatRoomsInvariant, PTL

\* Two users share one room at most, found in either order, whichever thread created it
\* (chat_room.c:14-63, chat_history.c:43-70).
THEOREM PairsShareOneRoom == ChatRoomsSpec => []OneRoomPerPair
<1>1. ChatRoomsInv => OneRoomPerPair
  <2>. SUFFICES ASSUME ChatRoomsInv, NEW u \in Users, NEW v \in Users,
                       rooms[<<u, v>>] # NoRoom
                PROVE  /\ GetChatRoomId(u, v) = {rooms[<<u, v>>]}
                       /\ GetChatRoomId(v, u) = {rooms[<<u, v>>]}
    BY DEF ChatRoomsInv, RoomsKept, OneRoomPerPair, Pairs
  <2>1. u <= v
    BY DEF ChatRoomsInv, RoomsKept, Pairs
  <2>2. rooms[<<v, u>>] # NoRoom => v <= u
    BY DEF ChatRoomsInv, RoomsKept, Pairs
  <2>3. rooms[<<v, u>>] # NoRoom => u = v
    <3>1. u \in Nat /\ v \in Nat
      OBVIOUS
    <3>. QED
      BY <2>1, <2>2, <3>1
  <2>. QED
    BY <2>3 DEF GetChatRoomId
<1>. QED
  BY <1>1, ChatRoomsInvariant, PTL

\* Every stored message is in the room of a pair its sender belongs to
\* (websocket_server.c:36-65).
THEOREM MessagesStayInTheirRoom == ChatRoomsSpec => []MessagesInOwnRoom
<1>1. ChatRoomsInv => MessagesInOwnRoom
  BY DEF ChatRoomsInv
<1>. QED
  BY <1>1, ChatRoomsInvariant, PTL

\* Only users who once accepted each other get a room (chat_room.c:19-62).
THEOREM RoomsAreEarned == ChatRoomsSpec => []RoomsForAcquaintances
<1>1. ChatRoomsInv => RoomsForAcquaintances
  BY DEF ChatRoomsInv, RoomsKept, RoomsForAcquaintances, Pairs
<1>. QED
  BY <1>1, ChatRoomsInvariant, PTL

\* A room never changes its id: both callers upsert the row, neither replaces it
\* (chat_room.c:50-62).
THEOREM RoomsKeepTheirIds == ChatRoomsSpec => RoomIdsAreStable
<1>1. ChatRoomsInv /\ [ChatRoomsNext]_chatRoomsVars =>
        [\A p \in Users \X Users : rooms[p] # NoRoom => rooms'[p] = rooms[p]]_chatRoomsVars
  BY ChatRoomsNextInv DEF RoomsGrow, Pairs
<1>. QED
  BY <1>1, ChatRoomsInvariant, PTL DEF ChatRoomsSpec, RoomIdsAreStable

\* A room that /chat/start creates is for users who are friends at that very step
\* (chat_room.c:19-62): only another HTTP handler could end the friendship before.
THEOREM ChatStartsAreUpToDate == ChatRoomsSpec => ChatStartIsUpToDate
<1>1. ASSUME ChatRoomsInv, ChatRoomsNext, NEW p \in Pairs,
             http.pc = "chat_insert", http' = Idle, rooms'[p] # rooms[p]
      PROVE  AcceptedRows(p[1], p[2]) # {}
  <2>1. http' # http
    BY <1>1, IdleTypes
  <2>2. ChatInsert
    <3>1. ~FriendSteps /\ ~ActiveChanges /\ ~ProcessRestarts
      BY <1>1 DEF FriendSteps, ActiveChanges, ProcessRestarts, chatVars
    <3>2. ~WsThread
      BY <2>1 DEF WsThread, WsMessage, WsInsert, WsSave, WsStart
    <3>3. ChatHttp => ChatInsert
      BY <1>1 DEF ChatHttp, HandleChatStart, HandleChatHistory, GetChatHistory,
                  HandleChatRoomList, chatVars
    <3>. QED
      BY <1>1, <3>1, <3>2, <3>3 DEF ChatRoomsNext
  <2>3. CreateRoom(<<http.from, http.to>>)
    BY <1>1, <2>2 DEF ChatInsert
  <2>4. p = <<http.from, http.to>>
    BY <1>1, <2>3 DEF CreateRoom, ChatRoomsInv, ChatRoomsTypeOK, Pairs
  <2>. QED
    BY <1>1, <2>4 DEF ChatRoomsInv, ChatInsertKnows
<1>2. ChatRoomsInv /\ [ChatRoomsNext]_chatRoomsVars =>
        [\A p \in Users \X Users :
           http.pc = "chat_insert" /\ http' = Idle /\ rooms'[p] # rooms[p]
             => AcceptedRows(p[1], p[2]) # {}]_chatRoomsVars
  BY <1>1 DEF Pairs
<1>. QED
  BY <1>2, ChatRoomsInvariant, PTL DEF ChatRoomsSpec, ChatStartIsUpToDate
-----------------------------------------------------------------------------
(* The abstract relation of friend.c, in the whole program.                *)

\* What each step does to the friend table and its history.
LEMMA TableSteps ==
  ASSUME ChatRoomsInv, [ChatRoomsNext]_chatRoomsVars
  PROVE  \/ UNCHANGED <<friend, met>>
         \/ /\ \E u, v \in Users : Inserts(u, v) \/ Accepts(u, v) \/ Deletes(u, v)
            /\ UNCHANGED <<rooms, messages>>
<1>1. CASE FriendSteps
  <2>1. FriendsNext /\ UNCHANGED <<rooms, messages>>
    BY <1>1 DEF FriendSteps, FriendsNext, FriendsHttp, chatVars
  <2>. QED
    BY <2>1, StepCases DEF ChatRoomsInv
<1>2. CASE ChatHttp
  BY <1>2 DEF ChatHttp, HandleChatStart, ChatInsert, HandleChatHistory, GetChatHistory,
              HandleChatRoomList, chatVars
<1>3. CASE WsThread
  BY <1>3 DEF WsThread, WsMessage, WsInsert, WsSave, WsStart
<1>4. CASE ActiveChanges \/ ProcessRestarts \/ UNCHANGED chatRoomsVars
  BY <1>4 DEF ActiveChanges, ProcessRestarts, chatRoomsVars
<1>. QED
  BY <1>1, <1>2, <1>3, <1>4 DEF ChatRoomsNext

\* Chat rooms, the WebSocket thread, logins and restarts leave the abstract relation of
\* friend.c alone: the composed program implements it, too (friend.c:109-200).
THEOREM ChatRoomsImplementFriendship == ChatRoomsSpec => ImplementsFriendship
<1>1. ChatRoomsInit => Abstract!Init
  BY DEF ChatRoomsInit, Abstract!Init, Asked, Befriended, Present
<1>2. ChatRoomsInv /\ [ChatRoomsNext]_chatRoomsVars => [Abstract!Next]_(Abstract!relVars)
  <2>. SUFFICES ASSUME ChatRoomsInv, [ChatRoomsNext]_chatRoomsVars
                PROVE  Abstract!Next \/ UNCHANGED Abstract!relVars
    OBVIOUS
  <2>1. CASE UNCHANGED <<friend, met>>
    BY <2>1 DEF Abstract!relVars, Asked, Befriended, Present
  <2>2. ASSUME NEW u \in Users, NEW v \in Users,
               Inserts(u, v) \/ Accepts(u, v) \/ Deletes(u, v)
        PROVE  Abstract!Next
    BY <2>2, InsertIsAsk, AcceptIsAccept, DeleteIsPart DEF Abstract!Next, ChatRoomsInv
  <2>. QED
    BY <2>1, <2>2, TableSteps
<1>. QED
  BY <1>1, <1>2, ChatRoomsInvariant, PTL
     DEF ChatRoomsSpec, ImplementsFriendship, Abstract!Spec

\* The table keeps one row for a pair, rows of registered users, and friends who have met
\* (friend.c:76-200), also in the whole program.
THEOREM ChatRoomsKeepFriends ==
  ChatRoomsSpec => [](OneRowPerPair /\ RowsHaveAccounts /\ FriendsHaveMet)
<1>1. ChatRoomsInv => OneRowPerPair /\ RowsHaveAccounts /\ FriendsHaveMet
  BY DEF ChatRoomsInv, FriendsInv
<1>. QED
  BY <1>1, ChatRoomsInvariant, PTL
-----------------------------------------------------------------------------
(* Rooms without ids: ChatRooms implements Rooms.                          *)

\* A sorted pair is known by its people.
LEMMA SortedPeople ==
  ASSUME NEW p \in Pairs, NEW q \in Pairs, p[1] <= p[2], q[1] <= q[2], People(p) = People(q)
  PROVE  p = q
<1>1. /\ p[1] \in Nat /\ p[2] \in Nat /\ q[1] \in Nat /\ q[2] \in Nat
      /\ p = <<p[1], p[2]>> /\ q = <<q[1], q[2]>>
  <2>1. p[1] \in Users /\ p[2] \in Users /\ q[1] \in Users /\ q[2] \in Users
    BY DEF Pairs
  <2>2. p = <<p[1], p[2]>> /\ q = <<q[1], q[2]>>
    BY DEF Pairs
  <2>. QED
    BY <2>1, <2>2
<1>2. \/ p[1] = q[1] /\ p[2] = q[2]
      \/ p[1] = q[2] /\ p[2] = q[1]
  BY DEF People
<1>3. p[1] = q[1] /\ p[2] = q[2]
  BY <1>1, <1>2
<1>. QED
  BY <1>1, <1>3

\* An acceptance, an INSERT into chat_room and one into chat_message, as users see them.
LEMMA MeetingIsMeet ==
  ASSUME ChatRoomsInv, NEW u \in Users, NEW v \in Users, Accepts(u, v),
         UNCHANGED <<rooms, messages>>
  PROVE  Talk!Meet(u, v)
<1>1. met' = met \cup {<<u, v>>, <<v, u>>}
  BY DEF Accepts
<1>2. People(<<u, v>>) = {u, v} /\ People(<<v, u>>) = {u, v}
  BY DEF People
<1>3. Acquainted' = Acquainted \cup {{u, v}}
  BY <1>1, <1>2 DEF Acquainted
<1>. QED
  BY <1>3 DEF Talk!Meet, Opened, Posted

LEMMA CreationIsOpen ==
  ASSUME ChatRoomsInv, NEW pair \in Pairs, pair[1] <= pair[2], pair \in met,
         CreateRoom(pair), UNCHANGED <<met, messages>>
  PROVE  Talk!Open(pair[1], pair[2]) \/ UNCHANGED Talk!talkVars
<1>1. rooms \in [Pairs -> Nat] /\ lastId \in Nat
  BY DEF ChatRoomsInv, ChatRoomsTypeOK, Pairs
<1>2. CASE rooms[pair] # NoRoom /\ UNCHANGED <<rooms, lastId>>
  BY <1>2 DEF Talk!talkVars, Acquainted, Opened, Posted
<1>3. CASE rooms[pair] = NoRoom /\ rooms' = [rooms EXCEPT ![pair] = lastId + 1]
  <2>1. /\ rooms'[pair] = lastId + 1
        /\ \A p \in Pairs : p # pair => rooms'[p] = rooms[p]
    BY <1>1, <1>3
  <2>2. Acquainted' = Acquainted
    BY DEF Acquainted
  <2>3. People(pair) = {pair[1], pair[2]} /\ People(pair) \in Acquainted
    BY DEF People, Acquainted
  <2>4. People(pair) \notin Opened
    <3>. SUFFICES ASSUME NEW q \in Pairs, rooms[q] # NoRoom, People(q) = People(pair)
                  PROVE  FALSE
      BY DEF Opened, Pairs
    <3>1. q = pair
      BY SortedPeople DEF ChatRoomsInv, RoomsKept
    <3>. QED
      BY <1>3, <3>1
  <2>5. Opened' = Opened \cup {People(pair)}
    <3>1. \A p \in Pairs : rooms'[p] # NoRoom <=> rooms[p] # NoRoom \/ p = pair
      BY <1>1, <2>1 DEF NoRoom
    <3>. QED
      BY <3>1 DEF Opened, Pairs
  <2>6. Posted' = Posted
    <3>1. ASSUME NEW p \in Pairs, NEW s \in Users
          PROVE  [room |-> rooms'[p], sender |-> s] \in messages
                   <=> [room |-> rooms[p], sender |-> s] \in messages
      <4>1. CASE p # pair
        BY <2>1, <4>1
      <4>2. CASE p = pair
        <5>1. \A m \in messages : m.room # NoRoom /\ \E q \in Pairs : rooms[q] = m.room
          BY DEF ChatRoomsInv, MessagesInOwnRoom, Pairs
        <5>2. \A q \in Pairs : rooms[q] \in Nat /\ rooms[q] <= lastId
          BY <1>1 DEF ChatRoomsInv, RoomsKept
        <5>3. \A m \in messages : m.room # lastId + 1
          BY <1>1, <5>1, <5>2
        <5>4. [room |-> rooms[p], sender |-> s] \notin messages
          BY <1>3, <4>2, <5>1
        <5>5. [room |-> rooms'[p], sender |-> s] \notin messages
          BY <2>1, <4>2, <5>3
        <5>. QED
          BY <5>4, <5>5
      <4>. QED
        BY <4>1, <4>2
    <3>2. \A y \in Pairs \X Users :
            [room |-> rooms'[y[1]], sender |-> y[2]] \in messages
              <=> [room |-> rooms[y[1]], sender |-> y[2]] \in messages
      BY <3>1
    <3>. QED
      BY <3>2 DEF Posted, Pairs
  <2>. QED
    BY <2>2, <2>3, <2>4, <2>5, <2>6 DEF Talk!Open
<1>. QED
  BY <1>2, <1>3 DEF CreateRoom

LEMMA SavingIsPost ==
  ASSUME ChatRoomsInv, WsSave
  PROVE  Talk!Next \/ UNCHANGED Talk!talkVars
<1>. DEFINE pair == Sorted(ws.from, ws.to)
            m == [room |-> ws.room, sender |-> ws.from]
            post == [room |-> People(pair), sender |-> ws.from]
<1>1. UNCHANGED <<met, rooms>> /\ (messages' = messages \/ messages' = messages \cup {m})
  BY DEF WsSave
<1>2. Acquainted' = Acquainted /\ Opened' = Opened
  BY <1>1 DEF Acquainted, Opened
<1>3. CASE messages' = messages
  BY <1>1, <1>2, <1>3 DEF Talk!talkVars, Posted
<1>4. CASE messages' = messages \cup {m}
  <2>1. /\ ws.from \in Users /\ ws.to \in Users
        /\ ws.room # NoRoom /\ ws.room = rooms[pair]
    BY DEF WsSave, ChatRoomsInv, WsKnows, Pairs
  <2>2. pair \in Pairs /\ People(pair) = {ws.from, ws.to}
    BY <2>1, SortedPair DEF People
  <2>3. People(pair) \in Opened
    BY <2>1, <2>2 DEF Opened, Pairs
  <2>4. \A p \in Pairs : rooms[p] = ws.room => p = pair
    BY <2>1, <2>2 DEF ChatRoomsInv, RoomsKept
  <2>5. ASSUME NEW y \in Pairs \X Users
        PROVE  [room |-> rooms'[y[1]], sender |-> y[2]] \in messages'
                 <=> \/ [room |-> rooms[y[1]], sender |-> y[2]] \in messages
                     \/ y = <<pair, ws.from>>
    <3>1. y[1] \in Pairs /\ y = <<y[1], y[2]>>
      OBVIOUS
    <3>. HIDE DEF pair
    <3>2. [room |-> rooms[y[1]], sender |-> y[2]] = m <=> rooms[y[1]] = ws.room /\ y[2] = ws.from
      OBVIOUS
    <3>3. rooms[y[1]] = ws.room <=> y[1] = pair
      BY <2>1, <2>4, <3>1
    <3>. HIDE DEF m
    <3>. QED
      BY <1>1, <1>4, <3>1, <3>2, <3>3
  <2>6. Posted' = Posted \cup {post}
    <3>. DEFINE e == <<pair, ws.from>>
                P == Pairs \X Users
                In(y) == [room |-> rooms[y[1]], sender |-> y[2]] \in messages
                Post(y) == [room |-> People(y[1]), sender |-> y[2]]
    <3>1. e \in P /\ Post(e) = post
      BY <2>1, <2>2
    <3>2. Posted = {Post(y) : y \in {x \in P : In(x)}}
      BY DEF Posted, Pairs
    <3>3. Posted' = {Post(y) : y \in {x \in P : In(x)'}}
      BY DEF Posted, Pairs, People
    <3>4. \A y \in P : In(y)' <=> In(y) \/ y = e
      BY <2>5
    <3>. HIDE DEF e, P, In, Post, post
    <3>. QED
      BY <3>1, <3>2, <3>3, <3>4
  <2>7. Talk!Post(ws.from, ws.to)
    BY <1>2, <2>2, <2>3, <2>6 DEF Talk!Post
  <2>. QED
    BY <2>1, <2>7 DEF Talk!Next
<1>. QED
  BY <1>1, <1>3, <1>4

LEMMA TalkStep ==
  ChatRoomsInv /\ [ChatRoomsNext]_chatRoomsVars => [Talk!Next]_(Talk!talkVars)
<1>. SUFFICES ASSUME ChatRoomsInv, [ChatRoomsNext]_chatRoomsVars
              PROVE  Talk!Next \/ UNCHANGED Talk!talkVars
  OBVIOUS
<1>1. CASE UNCHANGED <<met, rooms, messages>>
  BY <1>1 DEF Talk!talkVars, Acquainted, Opened, Posted
<1>2. CASE FriendSteps
  <2>1. FriendsNext /\ UNCHANGED <<rooms, messages>>
    BY <1>2 DEF FriendSteps, FriendsNext, FriendsHttp, chatVars
  <2>2. ASSUME NEW u \in Users, NEW v \in Users, Accepts(u, v)
        PROVE  Talk!Next
    BY <2>1, <2>2, MeetingIsMeet DEF Talk!Next
  <2>3. ASSUME NEW u \in Users, NEW v \in Users, Inserts(u, v) \/ Deletes(u, v)
        PROVE  UNCHANGED met
    BY <2>3 DEF Inserts, Deletes
  <2>. QED
    BY <1>1, <2>1, <2>2, <2>3, StepCases DEF ChatRoomsInv
<1>3. ASSUME NEW pair \in Pairs, pair[1] <= pair[2], pair \in met,
             CreateRoom(pair), UNCHANGED <<met, messages>>
      PROVE  Talk!Next \/ UNCHANGED Talk!talkVars
  <2>1. pair[1] \in Users /\ pair[2] \in Users
    BY DEF Pairs
  <2>. QED
    BY <1>3, <2>1, CreationIsOpen DEF Talk!Next
<1>4. CASE ChatInsert
  <2>1. /\ <<http.from, http.to>> \in Pairs /\ http.from <= http.to
        /\ <<http.from, http.to>> \in met
    BY <1>4 DEF ChatInsert, ChatRoomsInv, ChatInsertKnows, FriendsInv, FriendsHaveMet, Pairs
  <2>. QED
    BY <1>1, <1>3, <1>4, <2>1 DEF ChatInsert
<1>5. CASE WsInsert
  <2>1. ws.from \in Users /\ ws.to \in Users /\ Sorted(ws.from, ws.to) \in met
    BY <1>5 DEF WsInsert, ChatRoomsInv, WsKnows, Pairs
  <2>2. /\ Sorted(ws.from, ws.to) \in Pairs
        /\ Sorted(ws.from, ws.to)[1] <= Sorted(ws.from, ws.to)[2]
    BY <2>1, SortedPair
  <2>. QED
    BY <1>1, <1>3, <1>5, <2>1, <2>2 DEF WsInsert
<1>6. CASE WsSave
  BY <1>6, SavingIsPost
<1>7. CASE ChatHttp /\ ~ChatInsert
  BY <1>1, <1>7 DEF ChatHttp, HandleChatStart, HandleChatHistory, GetChatHistory,
                    HandleChatRoomList, chatVars
<1>8. CASE WsThread /\ ~WsInsert /\ ~WsSave
  BY <1>1, <1>8 DEF WsThread, WsMessage, WsStart
<1>9. CASE ActiveChanges \/ ProcessRestarts \/ UNCHANGED chatRoomsVars
  BY <1>1, <1>9 DEF ActiveChanges, ProcessRestarts, chatVars, chatRoomsVars
<1>. QED
  BY <1>2, <1>4, <1>5, <1>6, <1>7, <1>8, <1>9 DEF ChatRoomsNext

\* Whatever the two threads interleave, rooms and messages change as in a service without
\* ids: no room for strangers or a second time, no message in another's room, and none that
\* ever leaves its room (chat_room.c:14-63, websocket_server.c:36-90).
THEOREM ChatRoomsImplementRooms == ChatRoomsSpec => ImplementsRooms
<1>1. ChatRoomsInit => Talk!Init
  BY DEF ChatRoomsInit, Talk!Init, Acquainted, Opened, Posted
<1>. QED
  BY <1>1, TalkStep, ChatRoomsInvariant, PTL DEF ChatRoomsSpec, ImplementsRooms, Talk!Spec
=============================================================================
