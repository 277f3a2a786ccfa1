------------------------------ MODULE ChatRooms -------------------------------
(***************************************************************************)
(* Chat rooms and the messages in them.  create_or_get_chat_room (chat_room *)
(* .c) is called by two threads: the HTTP one for /chat/start, on a         *)
(* connection of its own, and the WebSocket one for every message, on one   *)
(* global connection that is opened once and never again.  It reads friend  *)
(* and active_user, then inserts: the WebSocket thread may be overtaken in  *)
(* between by an HTTP handler that changes what it has read.               *)
(***************************************************************************)
EXTENDS Friends

CONSTANT Couples     \* <<u, v>>: u names v in its requests and messages

ASSUME CouplesAssumption == Couples \subseteq Users \X Users

VARIABLES rooms,     \* chat_room: the id of the row <<user1, user2>>, or NoRoom
          lastId,    \* its AUTO_INCREMENT counter
          ws,        \* the WebSocket thread: where process_message stands
          wsdb,      \* global_db_conn: "none" before its thread connects
          messages   \* chat_message: which sender wrote in which room

chatVars == <<rooms, lastId, ws, wsdb, messages>>
chatRoomsVars == <<users, active, http, db, answer, friend, met,
                   rooms, lastId, ws, wsdb, messages>>

NoRoom == 0

WsIdle == [pc |-> "idle", from |-> NoUser, to |-> NoUser, room |-> NoRoom]

\* The unique key of chat_room is over the pair, as ON DUPLICATE KEY UPDATE assumes.
ChatRoomsTypeOK ==
  /\ FriendsTypeOK
  /\ rooms \in [Users \X Users -> Nat]
  /\ lastId \in Nat
  /\ ws \in [pc : {"idle", "insert", "save"}, from : Users \cup {NoUser},
             to : Users \cup {NoUser}, room : Nat]
  /\ wsdb \in {"none", "open", "lost"}
  /\ messages \subseteq [room : Nat, sender : Users]

\* Everybody has an account, nobody a friend; the WebSocket thread is about to connect.
ChatRoomsInit ==
  /\ HttpInit
  /\ users = Users
  /\ active = {}
  /\ friend = [r \in Rows |-> 0]
  /\ met = {}
  /\ rooms = [p \in Users \X Users |-> NoRoom]
  /\ lastId = 0
  /\ ws = WsIdle
  /\ wsdb = "none"
  /\ messages = {}
-----------------------------------------------------------------------------
Sorted_AsGiven(u, v) == <<u, v>>

\* first_user and second_user: strcmp(user1, user2) < 0 ? ...
Sorted(u, v) == IF u < v THEN <<u, v>> ELSE <<v, u>>

CanChat_AnyStatus(u, v) ==
  (\E r \in Rows : Between(r, u, v) /\ Present(r)) /\ {u, v} \subseteq active

\* The COUNT over friend and active_user is not zero.
CanChat(u, v) == AcceptedRows(u, v) # {} /\ {u, v} \subseteq active

CreateRoom_Replace(pair) ==
  /\ rooms' = [rooms EXCEPT ![pair] = lastId + 1]
  /\ lastId' = lastId + 1

\* INSERT INTO chat_room ... ON DUPLICATE KEY UPDATE id=LAST_INSERT_ID(id): the id that
\* mysql_insert_id then returns is rooms'[pair].
CreateRoom(pair) ==
  \/ /\ rooms[pair] = NoRoom
     /\ rooms' = [rooms EXCEPT ![pair] = lastId + 1]
     /\ lastId' = lastId + 1
  \/ rooms[pair] # NoRoom /\ UNCHANGED <<rooms, lastId>>

\* handle_chat_start, up to the check in create_or_get_chat_room; -1 is answered 500.
HandleChatStart(u, v) ==
  /\ \/ Refuse
     \/ ~CanChat(u, v) /\ Serve(500)
     \/ CanChat(u, v) /\ Enter("chat_insert", Sorted(u, v)[1], Sorted(u, v)[2])
  /\ UNCHANGED <<users, active, friend, met, chatVars>>

ChatInsert_NoReply ==
  /\ http.pc = "chat_insert"
  /\ \/ DbFaults /\ http' = Idle /\ db' = "closed" /\ UNCHANGED <<answer, rooms, lastId>>
     \/ CreateRoom(<<http.from, http.to>>) /\ \E code \in OrFault(200) : Return(code)
  /\ UNCHANGED <<users, active, friend, met, ws, wsdb, messages>>

ChatInsert ==
  /\ http.pc = "chat_insert"
  /\ \/ DbFaults /\ Return(500) /\ UNCHANGED <<rooms, lastId>>
     \/ CreateRoom(<<http.from, http.to>>) /\ \E code \in OrFault(200) : Return(code)
  /\ UNCHANGED <<users, active, friend, met, ws, wsdb, messages>>

\* get_chat_room_id: the ids its query can return, asked in either order.
GetChatRoomId(u, v) == {rooms[p] : p \in {<<u, v>>, <<v, u>>}} \ {NoRoom}

\* handle_chat_history, up to get_chat_room_id, whose failure is told as a room that is not
\* found ...
HandleChatHistory(u, v) ==
  /\ \/ Refuse
     \/ (DbFaults \/ GetChatRoomId(u, v) = {}) /\ Serve(404)
     \/ GetChatRoomId(u, v) # {} /\ Enter("history_read", u, v)
  /\ UNCHANGED <<users, active, friend, met, chatVars>>

\* ... and get_chat_history, which reads the messages of that room.
GetChatHistory ==
  /\ http.pc = "history_read"
  /\ \E code \in OrFault(200) : Return(code)
  /\ UNCHANGED <<users, active, friend, met, chatVars>>

\* handle_chat_room_list has one query, and only reads.
HandleChatRoomList ==
  /\ Refuse \/ Serve(200)
  /\ UNCHANGED <<users, active, friend, met, chatVars>>
-----------------------------------------------------------------------------
(* process_message, on the WebSocket thread.                               *)

\* A query of this thread fails; when the connection broke, it stays broken.
WsQueryFails ==
  /\ DbFaults \/ wsdb = "lost"
  /\ wsdb' \in {wsdb, "lost"}

\* A text frame with its three fields, up to the check.  (A frame without them, or of
\* another type, and a check that says no, are answered or logged and change nothing.)
WsMessage(from, to) ==
  /\ ws = WsIdle
  /\ \/ WsQueryFails /\ UNCHANGED ws
     \/ /\ wsdb = "open"
        /\ CanChat(from, to)
        /\ ws' = [WsIdle EXCEPT !.pc = "insert", !.from = from, !.to = to]
        /\ UNCHANGED wsdb
  /\ wsdb # "none"
  /\ UNCHANGED <<users, active, http, db, answer, friend, met, rooms, lastId, messages>>

WsInsert_LastId ==
  /\ ws.pc = "insert"
  /\ wsdb = "open" /\ CreateRoom(Sorted(ws.from, ws.to))
  /\ ws' = [ws EXCEPT !.pc = "save", !.room = lastId']
  /\ UNCHANGED <<users, active, http, db, answer, friend, met, wsdb, messages>>

\* The INSERT of create_or_get_chat_room.  Its reply, too, may be lost.
WsInsert ==
  /\ ws.pc = "insert"
  /\ \/ /\ WsQueryFails
        /\ ws' = WsIdle
        /\ UNCHANGED <<rooms, lastId>> \/ (wsdb = "open" /\ CreateRoom(Sorted(ws.from, ws.to)))
     \/ /\ wsdb = "open"
        /\ CreateRoom(Sorted(ws.from, ws.to))
        /\ ws' = [ws EXCEPT !.pc = "save", !.room = rooms'[Sorted(ws.from, ws.to)]]
        /\ UNCHANGED wsdb
  /\ UNCHANGED <<users, active, http, db, answer, friend, met, messages>>

WsSave_FreedSender ==
  /\ ws.pc = "save"
  /\ ws' = WsIdle
  /\ wsdb = "open"
  /\ messages' = messages \cup {[room |-> ws.room, sender |-> ws'.from]}
  /\ UNCHANGED <<users, active, http, db, answer, friend, met, rooms, lastId, wsdb>>

\* The TCP exchange or the encryption fails and there is nothing to save; or save_message,
\* whose failure is only logged.
WsSave ==
  /\ ws.pc = "save"
  /\ ws' = WsIdle
  /\ \/ UNCHANGED <<wsdb, messages>>
     \/ WsQueryFails /\ UNCHANGED messages
     \/ /\ wsdb = "open"
        /\ messages' = messages \cup {[room |-> ws.room, sender |-> ws.from]}
        /\ UNCHANGED wsdb
  /\ UNCHANGED <<users, active, http, db, answer, friend, met, rooms, lastId>>

\* start_websocket_server: the one db_connect of its life.  When it fails the thread
\* returns, and no message is served before the process is started anew.
WsStart ==
  /\ wsdb = "none"
  /\ wsdb' = "open"
  /\ UNCHANGED <<users, active, http, db, answer, friend, met, rooms, lastId, ws, messages>>
-----------------------------------------------------------------------------
\* Logins and logouts, on the HTTP thread, and the TRUNCATE of the signal handler.
ActiveChanges ==
  /\ \/ http = Idle /\ (\E u \in Users : active' \in {active \cup {u}, active \ {u}})
     \/ active' = {}
  /\ UNCHANGED <<users, http, db, answer, friend, met, chatVars>>

\* The process dies; main starts it anew, on the same tables but for active_user.
ProcessRestarts ==
  /\ HttpDies
  /\ ws' = WsIdle
  /\ wsdb' = "none"
  /\ active' \in {active, {}}
  /\ UNCHANGED <<users, friend, met, rooms, lastId, messages>>

FriendSteps ==
  /\ \/ \E c \in Couples : \/ HandleFriendRequest(c[1], c[2])
                           \/ HandleFriendAccept(c[1], c[2])
                           \/ HandleFriendReject(c[1], c[2])
     \/ RequestCheckTo
     \/ RequestCheckDup
     \/ RequestInsert
  /\ UNCHANGED chatVars

ChatHttp ==
  \/ \E c \in Couples : HandleChatStart(c[1], c[2]) \/ HandleChatHistory(c[1], c[2])
  \/ ChatInsert
  \/ GetChatHistory
  \/ HandleChatRoomList

WsThread ==
  \/ \E c \in Couples : WsMessage(c[1], c[2])
  \/ WsInsert \/ WsSave \/ WsStart

ChatRoomsNext == FriendSteps \/ ChatHttp \/ WsThread \/ ActiveChanges \/ ProcessRestarts

ChatRoomsSpec == ChatRoomsInit /\ [][ChatRoomsNext]_chatRoomsVars
-----------------------------------------------------------------------------
(* Properties.                                                             *)

\* Two users share at most one room, whichever of them opened it and by which thread, no
\* room is shared by two pairs, and get_chat_room_id finds that room in either order.
\* Rests on the sorting in chat_room.c:15-17 and on the id both callers get back.
OneRoomPerPair ==
  /\ \A p, q \in Users \X Users : rooms[p] # NoRoom /\ rooms[p] = rooms[q] => p = q
  /\ \A u, v \in Users : rooms[<<u, v>>] # NoRoom =>
       /\ GetChatRoomId(u, v) = {rooms[<<u, v>>]}
       /\ GetChatRoomId(v, u) = {rooms[<<u, v>>]}

\* A message is stored in the room of a pair its sender belongs to, however the tables
\* changed between the three queries of process_message (websocket_server.c:36-65).
MessagesInOwnRoom ==
  \A m \in messages :
    \E u, v \in Users : m.sender \in {u, v} /\ rooms[<<u, v>>] = m.room /\ m.room # NoRoom

\* Only users who have been accepted friends at some time get a room, also when the
\* friendship ends between the check and the INSERT (chat_room.c:30-57).
RoomsForAcquaintances ==
  \A p \in Users \X Users : rooms[p] # NoRoom => p \in met

\* A room keeps its id for good: clients hold on to chat_room_id, messages refer to it.
RoomIdsAreStable ==
  [][\A p \in Users \X Users : rooms[p] # NoRoom => rooms'[p] = rooms[p]]_chatRoomsVars

\* A room that /chat/start opens is between users who are friends at that very moment:
\* unlike the WebSocket thread's check, the one of the HTTP thread cannot be outdated.
ChatStartIsUpToDate ==
  [][\A p \in Users \X Users :
       http.pc = "chat_insert" /\ http' = Idle /\ rooms'[p] # rooms[p]
         => AcceptedRows(p[1], p[2]) # {}]_chatRoomsVars

\* The tables as users see them: pairs of people, and who wrote in whose room.  An id is
\* only the way from a message to its pair.
People(p) == {p[1], p[2]}
Acquainted == {People(p) : p \in met}
Opened == {People(p) : p \in {q \in Users \X Users : rooms[q] # NoRoom}}
Posted == {[room |-> People(x[1]), sender |-> x[2]] :
             x \in {y \in (Users \X Users) \X Users :
                     [room |-> rooms[y[1]], sender |-> y[2]] \in messages}}

\* The two threads, with their checks and INSERTs in any order, do to the tables what a
\* service would that knows no ids: a room is opened for people who have met, and a message
\* appears in the room of its sender and never leaves it (chat_room.c:14-63,
\* websocket_server.c:36-90).
Talk == INSTANCE Rooms WITH known <- Acquainted, open <- Opened, posted <- Posted

ImplementsRooms == Talk!Spec
=============================================================================
