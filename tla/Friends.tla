------------------------------- MODULE Friends --------------------------------
(***************************************************************************)
(* friend.c: requests, acceptance, removal and the lists, on the HTTP       *)
(* thread.  The friend table is a bag of rows: its INSERT is a plain one    *)
(* and the schema is not in the repository, so nothing but the handler's    *)
(* own check keeps a second row out.                                       *)
(***************************************************************************)
EXTENDS HttpServer

VARIABLES friend,   \* friend[<<from_user, to_user, status>>]: the number of such rows
          met       \* history: <<u, v>> have been accepted friends at some time

friendsVars == <<users, active, http, db, answer, friend, met>>

Rows == Users \X Users \X {"pending", "accepted"}

Present(r) == friend[r] > 0

\* (from_user=u AND to_user=v) OR (from_user=v AND to_user=u)
Between(r, u, v) == <<r[1], r[2]>> \in {<<u, v>>, <<v, u>>}

AcceptedRows(u, v) == {r \in Rows : Between(r, u, v) /\ r[3] = "accepted" /\ Present(r)}

FriendsTypeOK ==
  /\ HttpTypeOK
  /\ friend \in [Rows -> Nat]
  /\ met \subseteq Users \X Users

FriendsInit ==
  /\ HttpInit
  /\ users = {}
  /\ active = {}
  /\ friend = [r \in Rows |-> 0]
  /\ met = {}

-----------------------------------------------------------------------------
\* handle_friend_request, first query: the sender has an account.  The result set of a
\* connection that dies under mysql_store_result counts as empty, hence the 400.
HandleFriendRequest(from, to) ==
  /\ \/ Refuse
     \/ from \notin users /\ Serve(400)
     \/ from \in users /\ Enter("request_to", from, to)
  /\ UNCHANGED <<users, active, friend, met>>

RequestCheckTo_Skipped ==
  /\ http.pc = "request_to"
  /\ \/ DbFaults /\ \E code \in {400, 500} : Return(code)
     \/ Continue("request_dup") /\ UNCHANGED db
  /\ UNCHANGED <<users, active, friend, met>>

RequestCheckTo_Leaks ==
  /\ http.pc = "request_to"
  /\ \/ DbFaults /\ \E code \in {400, 500} : Return(code)
     \/ http.to \notin users /\ http' = Idle /\ answer' = Append(answer, 400) /\ UNCHANGED db
     \/ http.to \in users /\ Continue("request_dup") /\ UNCHANGED db
  /\ UNCHANGED <<users, active, friend, met>>

\* Second query: so has the addressee.
RequestCheckTo ==
  /\ http.pc = "request_to"
  /\ \/ DbFaults /\ \E code \in {400, 500} : Return(code)
     \/ http.to \notin users /\ Return(400)
     \/ http.to \in users /\ Continue("request_dup") /\ UNCHANGED db
  /\ UNCHANGED <<users, active, friend, met>>

RequestCheckDup_OneWay ==
  /\ http.pc = "request_dup"
  /\ \/ (\E r \in Rows : <<r[1], r[2]>> = <<http.from, http.to>> /\ Present(r)) /\ Return(409)
     \/ /\ \A r \in Rows : <<r[1], r[2]>> = <<http.from, http.to>> => ~Present(r)
        /\ Continue("request_insert")
        /\ UNCHANGED db
  /\ UNCHANGED <<users, active, friend, met>>

\* Third query: no row between the two yet.  The result of mysql_store_result is not
\* checked: when the connection dies there, the empty result reads as "no row".
RequestCheckDup ==
  /\ http.pc = "request_dup"
  /\ \/ DbFaults /\ Return(500)
     \/ DbFaults /\ Continue("request_insert") /\ db' = "lost"
     \/ (\E r \in Rows : Between(r, http.from, http.to) /\ Present(r)) /\ Return(409)
     \/ /\ \A r \in Rows : Between(r, http.from, http.to) => ~Present(r)
        /\ Continue("request_insert")
        /\ UNCHANGED db
  /\ UNCHANGED <<users, active, friend, met>>

RequestInsert_Reconnects ==
  /\ http.pc = "request_insert"
  /\ \/ QueryMayFail /\ Return(500) /\ UNCHANGED friend
     \/ /\ friend' = [friend EXCEPT ![<<http.from, http.to, "pending">>] = @ + 1]
        /\ \E code \in OrFault(200) : Return(code)
  /\ UNCHANGED <<users, active, met>>

RequestInsert_Accepted ==
  /\ http.pc = "request_insert"
  /\ \/ QueryMayFail /\ Return(500) /\ UNCHANGED friend
     \/ /\ db = "open"
        /\ friend' = [friend EXCEPT ![<<http.from, http.to, "accepted">>] = @ + 1]
        /\ \E code \in OrFault(200) : Return(code)
  /\ UNCHANGED <<users, active, met>>

\* The INSERT.  A lost connection fails every later query on it.
RequestInsert ==
  /\ http.pc = "request_insert"
  /\ \/ QueryMayFail /\ Return(500) /\ UNCHANGED friend
     \/ /\ db = "open"
        /\ friend' = [friend EXCEPT ![<<http.from, http.to, "pending">>] = @ + 1]
        /\ \E code \in OrFault(200) : Return(code)
  /\ UNCHANGED <<users, active, met>>

\* handle_friend_accept: one UPDATE, by direction and status.
HandleFriendAccept(from, to) ==
  LET pending == <<from, to, "pending">>
      accepted == <<from, to, "accepted">>
  IN /\ \/ Refuse /\ UNCHANGED <<friend, met>>
        \/ ~Present(pending) /\ Serve(404) /\ UNCHANGED <<friend, met>>
        \/ /\ Present(pending)
           /\ friend' = [friend EXCEPT ![pending] = 0, ![accepted] = @ + friend[pending]]
           /\ met' = met \cup {<<from, to>>, <<to, from>>}
           /\ \E code \in OrFault(200) : Serve(code)
     /\ UNCHANGED <<users, active>>

HandleFriendReject_Counts(from, to) ==
  /\ \/ Refuse /\ UNCHANGED friend
     \/ /\ \E r \in Rows : Between(r, from, to) /\ Present(r)
        /\ friend' = [r \in Rows |-> IF Between(r, from, to) THEN friend[r] - 1 ELSE friend[r]]
        /\ Serve(200)
  /\ UNCHANGED <<users, active, met>>

\* handle_friend_reject: one DELETE of every row between the two, whatever its status.
HandleFriendReject(from, to) ==
  LET gone == {r \in Rows : Between(r, from, to) /\ Present(r)}
  IN /\ \/ Refuse /\ UNCHANGED friend
        \/ gone = {} /\ Serve(404) /\ UNCHANGED friend
        \/ /\ gone # {}
           /\ friend' = [r \in Rows |-> IF r \in gone THEN 0 ELSE friend[r]]
           /\ \E code \in OrFault(200) : Serve(code)
     /\ UNCHANGED <<users, active, met>>

\* The three lists only read: what each one's query selects.
FriendList(u) == {v \in Users : AcceptedRows(u, v) # {}}

ActiveFriendsList(u) ==
  {v \in users \cap active : v # u /\ \E w \in Users : AcceptedRows(v, w) # {}}

RequestedFriendList(u) == {v \in Users : Present(<<v, u, "pending">>)}

HandleLists ==
  /\ Refuse \/ Serve(200)
  /\ UNCHANGED <<users, active, friend, met>>

FriendsHttp ==
  \/ \E u, v \in Users : \/ HandleFriendRequest(u, v)
                         \/ HandleFriendAccept(u, v)
                         \/ HandleFriendReject(u, v)
  \/ RequestCheckTo
  \/ RequestCheckDup
  \/ RequestInsert
  \/ HandleLists
-----------------------------------------------------------------------------
(* What the rest of the process does to the tables these handlers read, and *)
(* its death, as coarsely as possible: any account, any active users.      *)

AccountsChange ==
  /\ users' \in {users \cup {u} : u \in Users}
  /\ active' \in SUBSET Users
  /\ UNCHANGED <<http, db, answer, friend, met>>

ProcessEnds ==
  /\ HttpDies
  /\ UNCHANGED <<users, active, friend, met>>

FriendsNext == FriendsHttp \/ AccountsChange \/ ProcessEnds

FriendsSpec == FriendsInit /\ [][FriendsNext]_friendsVars
-----------------------------------------------------------------------------
(* Properties.                                                             *)

\* Two users never have two rows between them, in either direction and of either status.
\* friend.c:76-105 checks with one query and inserts with another; what makes that enough
\* is the single HTTP thread, and that a lost connection cannot insert.
OneRowPerPair ==
  \A r \in Rows : Present(r) =>
    /\ friend[r] = 1
    /\ \A s \in Rows : Between(s, r[1], r[2]) /\ Present(s) => s = r

\* Both sides of every row have an account: no foreign key is relied on, the two SELECTs
\* of friend.c:30-74 come before the INSERT and no handler deletes an account.
RowsHaveAccounts ==
  \A r \in Rows : Present(r) => r[1] \in users /\ r[2] \in users

\* An accepted row was accepted through handle_friend_accept, and stays recorded in met.
FriendsHaveMet ==
  \A u, v \in Users : AcceptedRows(u, v) # {} => <<u, v>> \in met

\* The rows of each status, as pairs.
Asked == {<<r[1], r[2]>> : r \in {s \in Rows : Present(s) /\ s[3] = "pending"}}
Befriended == {<<r[1], r[2]>> : r \in {s \in Rows : Present(s) /\ s[3] = "accepted"}}

\* The table behaves as the abstract relation: request, then acceptance of that very
\* request, then removal of both directions at once (friend.c:109-200).
Abstract == INSTANCE Friendship WITH asked <- Asked, friends <- Befriended

ImplementsFriendship == Abstract!Spec

\* http_server.c:43 and friend.c:272 call the answer of /friend/active_list the active
\* friends of the caller.  (Where nobody is his own friend.)
ActiveListHoldsFriends ==
  (\A u \in Users : AcceptedRows(u, u) = {}) =>
    \A u \in Users : ActiveFriendsList(u) \subseteq FriendList(u)
=============================================================================
