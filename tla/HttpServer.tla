------------------------------ MODULE HttpServer ------------------------------
(***************************************************************************)
(* What every HTTP handler shares.  One thread runs mg_mgr_poll, so one     *)
(* handler runs at a time, from its first line to its return; but a handler *)
(* is a sequence of autocommitted MySQL queries, and the other threads of   *)
(* the process (and its death) come between two of them.  A handler is     *)
(* therefore a program counter with its two user arguments, and one action  *)
(* per query after the first.  Work that touches nothing shared (parsing    *)
(* the body, opening the connection) is part of the first action.          *)
(***************************************************************************)
EXTENDS Naturals, Sequences

CONSTANTS Users,     \* user names, as numbers in the order strcmp gives them
          DbFaults   \* TRUE: a connection or a query may fail at any time

ASSUME UsersAssumption == Users \subseteq Nat \ {0}
ASSUME DbFaultsAssumption == DbFaults \in BOOLEAN

VARIABLES users,    \* the rows of table user
          active,   \* the rows of table active_user
          http,     \* the HTTP thread: where its handler stands, and its arguments
          db,       \* the MySQL connection of that handler
          answer    \* status codes sent for the last request, in order

httpVars == <<http, db, answer>>

NoUser == 0

\* What the client of a handler gets when the process dies: its connection drops.
Reset == 0

StatusCodes == {200, 204, 400, 403, 404, 409, 500}

Idle == [pc |-> "idle", from |-> NoUser, to |-> NoUser]

HandlerPcs == {"idle", "login_ssh", "login_user", "login_active", "logout_active",
               "request_to", "request_dup", "request_insert", "chat_insert",
               "history_read"}

HttpTypeOK ==
  /\ users \subseteq Users
  /\ active \subseteq Users
  /\ http \in [pc : HandlerPcs, from : Users \cup {NoUser}, to : Users \cup {NoUser}]
  /\ db \in {"closed", "open", "lost"}
  /\ answer \in Seq(StatusCodes \cup {Reset})

HttpInit ==
  /\ http = Idle
  /\ db = "closed"
  /\ answer = <<Reset>>

-----------------------------------------------------------------------------
\* A handler that has answered after its first query at the latest.
Serve(code) ==
  /\ http = Idle
  /\ answer' = <<code>>
  /\ UNCHANGED <<http, db>>

\* What a handler may answer to a query that ran: its reply, too, may be lost.
OrFault(code) == {code} \cup (IF DbFaults THEN {500} ELSE {})

\* The early returns every handler starts with: a field is missing in the body, or
\* db_connect fails, or the first query does.
Refuse == \E code \in OrFault(400) : Serve(code)

\* A handler that has more queries to run than its first.
Enter(pc, from, to) ==
  /\ http = Idle
  /\ http' = [pc |-> pc, from |-> from, to |-> to]
  /\ db' = "open"
  /\ answer' = <<>>

Continue(pc) ==
  /\ http' = [http EXCEPT !.pc = pc]
  /\ UNCHANGED answer

Return(code) ==
  /\ http' = Idle
  /\ db' = "closed"
  /\ answer' = Append(answer, code)

\* A CORS preflight (http_server.c:14-22), and a URI without a handler (63-68).
HandleUnrouted ==
  /\ \E code \in {204, 404} : Serve(code)
  /\ UNCHANGED <<users, active>>

\* mysql_query fails because of a fault now, or of a connection lost earlier.
QueryMayFail == DbFaults \/ db = "lost"

\* The process dies, in whatever way: the thread and its connection are gone.
HttpDies ==
  /\ http' = Idle
  /\ db' = "closed"
  /\ answer' = <<Reset>>

-----------------------------------------------------------------------------
\* A handler that has returned has closed its connection (every return path of the
\* handlers must pass db_disconnect) and its client has got one answer.  The one
\* exception is the pair that handle_logout sends when the session is not found.
\* Handlers: auth.c:9-99, friend.c:13-124.
HandlersAreClean ==
  http = Idle => /\ db = "closed"
                 /\ \/ Len(answer) = 1
                    \/ Len(answer) = 2 /\ answer[1] = 404 /\ answer[2] = 200
=============================================================================
