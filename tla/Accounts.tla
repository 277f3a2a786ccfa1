------------------------------- MODULE Accounts -------------------------------
(***************************************************************************)
(* Login and logout (auth.c), the table of SSH sessions in memory           *)
(* (session.c), the active_user rows in MySQL (active_user.c) that are to   *)
(* follow it, and the life of the process (main.c): boot, signals, death.   *)
(* A TRUNCATE by the signal handler may come between any two queries of a   *)
(* handler, and rows outlive the process while sessions do not.            *)
(***************************************************************************)
EXTENDS HttpServer

CONSTANT MaxSessions     \* MAX_ACTIVE_SESSIONS

ASSUME MaxSessionsAssumption == MaxSessions \in Nat \ {0}

VARIABLES slots,     \* active_sessions: the user of each slot
          proc,      \* the process: "down", "boot" (main before the threads), "up"
          sig,       \* signal_handler: where it stands, and the thread it interrupts
          stale,     \* history: rows of active that an ignored failure left alone
          unsaved    \* history: users whose row in user an ignored failure lost

sessionVars == <<slots, proc, sig, stale, unsaved>>
accountsVars == <<users, active, http, db, answer, slots, proc, sig, stale, unsaved>>

Slots == 1..MaxSessions
SlotUsers == {slots[i] : i \in Slots} \ {NoUser}
NoSessions == [i \in Slots |-> NoUser]

\* "main" stands for every thread whose state no action of the project reads.
Threads == {"main", "http", "ws"}

NoSignal == [pc |-> "none", on |-> "none"]

AccountsTypeOK ==
  /\ HttpTypeOK
  /\ slots \in [Slots -> Users \cup {NoUser}]
  /\ proc \in {"down", "boot", "up"}
  /\ sig \in [pc : {"none", "clear", "exit"}, on : {"none"} \cup Threads]
  /\ stale \subseteq Users
  /\ unsaved \subseteq Users

\* The tables are those of a first start, the process is not running.
AccountsInit ==
  /\ HttpInit
  /\ users = {}
  /\ active = {}
  /\ slots = NoSessions
  /\ proc = "down"
  /\ sig = NoSignal
  /\ stale = {}
  /\ unsaved = {}

\* The HTTP thread can take a step: it is started and no signal handler interrupts it.
HttpRuns == proc = "up" /\ sig.on # "http"
-----------------------------------------------------------------------------
AddSession_OffByOne(u) ==
  /\ \E i \in 1..(MaxSessions + 1) :
       /\ i \in Slots => slots[i] = NoUser
       /\ \A j \in Slots : j < i => slots[j] # NoUser
       /\ slots' = [j \in Slots \cup {i} |-> IF j = i THEN u ELSE slots[j]]
  /\ UNCHANGED stale

\* add_session: the first empty slot, or, when there is none, a line in the log.
AddSession(u) ==
  \/ /\ \E i \in Slots : /\ slots[i] = NoUser
                         /\ \A j \in Slots : j < i => slots[j] # NoUser
                         /\ slots' = [slots EXCEPT ![i] = u]
     /\ UNCHANGED stale
  \/ /\ NoUser \notin {slots[i] : i \in Slots}
     /\ stale' = IF u \in SlotUsers THEN stale ELSE stale \cup {u}
     /\ UNCHANGED slots

\* remove_session: the first slot of that name; a second login's slot stays.
RemoveSession(u) ==
  \E i \in Slots : /\ slots[i] = u
                   /\ \A j \in Slots : j < i => slots[j] # u
                   /\ slots' = [slots EXCEPT ![i] = NoUser]

\* handle_login up to ssh_connection: the connection is open, the fields are there.
HandleLogin(u) ==
  /\ HttpRuns
  /\ Refuse \/ Enter("login_ssh", u, NoUser)
  /\ UNCHANGED <<users, active, sessionVars>>

LoginSsh_UserLater ==
  /\ HttpRuns /\ http.pc = "login_ssh"
  /\ \/ Return(403) /\ UNCHANGED <<slots, stale>>
     \/ AddSession(http.from) /\ Continue("login_active") /\ UNCHANGED db
  /\ UNCHANGED <<users, active, proc, sig, unsaved>>

\* ssh_connection: unreachable host or wrong password; or a session, kept in the table.
LoginSsh ==
  /\ HttpRuns /\ http.pc = "login_ssh"
  /\ \/ Return(403) /\ UNCHANGED <<slots, stale>>
     \/ AddSession(http.from) /\ Continue("login_user") /\ UNCHANGED db
  /\ UNCHANGED <<users, active, proc, sig, unsaved>>

LoginUser_Retried ==
  /\ HttpRuns /\ http.pc = "login_user"
  /\ \/ /\ db = "open" /\ Continue("login_active")
        /\ users' = users \cup {http.from}
        /\ UNCHANGED db
     \/ DbFaults /\ db' = "lost" /\ UNCHANGED <<users, http, answer>>
  /\ UNCHANGED <<active, slots, proc, sig, stale, unsaved>>

\* INSERT INTO user ... ON DUPLICATE KEY UPDATE; that it failed is logged, no more.
LoginUser ==
  /\ HttpRuns /\ http.pc = "login_user"
  /\ Continue("login_active")
  /\ \/ users' = users \cup {http.from} /\ unsaved' = unsaved \ {http.from}
     \/ /\ DbFaults
        /\ unsaved' = IF http.from \in users THEN unsaved ELSE unsaved \cup {http.from}
        /\ UNCHANGED users
  /\ db' \in {"open"} \cup (IF DbFaults THEN {"lost"} ELSE {})
  /\ UNCHANGED <<active, slots, proc, sig, stale>>

\* INSERT IGNORE INTO active_user, over the handler's connection.
AddActiveUser(u) ==
  \/ db = "open" /\ active' = active \cup {u}
  \/ QueryMayFail /\ UNCHANGED active

LoginActive_Returns ==
  /\ HttpRuns /\ http.pc = "login_active"
  /\ \/ active' = active \cup {http.from} /\ Return(200)
     \/ QueryMayFail /\ http' = Idle /\ UNCHANGED <<active, db, answer>>
  /\ UNCHANGED <<users, slots, proc, sig, stale, unsaved>>

\* The rest of handle_login: 200 whatever became of the queries.
LoginActive ==
  /\ HttpRuns /\ http.pc = "login_active"
  /\ AddActiveUser(http.from)
  /\ Return(200)
  /\ UNCHANGED <<users, slots, proc, sig, stale, unsaved>>

\* handle_logout up to its query.  A missing session is answered 404 without a return.
HandleLogout(u) ==
  /\ HttpRuns
  /\ \/ Refuse /\ UNCHANGED slots
     \/ /\ u \in SlotUsers
        /\ RemoveSession(u)
        /\ Enter("logout_active", u, NoUser)
     \/ /\ u \notin SlotUsers
        /\ http = Idle
        /\ http' = [pc |-> "logout_active", from |-> u, to |-> NoUser]
        /\ db' = "open"
        /\ answer' = <<404>>
        /\ UNCHANGED slots
  /\ UNCHANGED <<users, active, proc, sig, stale, unsaved>>

\* DELETE FROM active_user.
RemoveActiveUser(u) ==
  \/ active' = active \ {u} /\ stale' = stale \ {u}
  \/ DbFaults /\ stale' = stale \cup {u} /\ UNCHANGED active

\* The rest of handle_logout: 200 whatever became of the query and the session.
LogoutActive ==
  /\ HttpRuns /\ http.pc = "logout_active"
  /\ RemoveActiveUser(http.from)
  /\ Return(200)
  /\ UNCHANGED <<users, slots, proc, sig, unsaved>>

AccountsHttp ==
  \/ \E u \in Users : HandleLogin(u) \/ HandleLogout(u)
  \/ LoginSsh \/ LoginUser \/ LoginActive \/ LogoutActive
-----------------------------------------------------------------------------
(* main.c.                                                                 *)

Boot ==
  /\ proc = "down"
  /\ proc' = "boot"
  /\ UNCHANGED <<users, active, http, db, answer, slots, sig, stale, unsaved>>

\* TRUNCATE TABLE active_user.  The handler the HTTP thread is in may still insert a row.
ClearActiveUsers == active' = {} /\ stale' = stale \cap {http.from}

BootClear_Skipped ==
  /\ proc = "boot" /\ sig.pc = "none"
  /\ proc' = "up"
  /\ UNCHANGED <<users, active, http, db, answer, slots, sig, stale, unsaved>>

\* clear_active_users before the threads start; without a connection main returns 1.
BootClear ==
  /\ proc = "boot" /\ sig.pc = "none"
  /\ \/ ClearActiveUsers /\ proc' = "up"
     \/ DbFaults /\ proc' = "up" /\ stale' = stale \cup active /\ UNCHANGED active
     \/ DbFaults /\ proc' = "down" /\ UNCHANGED <<active, stale>>
  /\ UNCHANGED <<users, http, db, answer, slots, sig, unsaved>>

\* SIGINT or SIGTERM, on a thread that does not block it; a second one is not modelled.
Signal(thread) ==
  /\ proc # "down" /\ sig.pc = "none"
  /\ proc = "boot" => thread = "main"
  /\ sig' = [pc |-> "clear", on |-> thread]
  /\ UNCHANGED <<users, active, http, db, answer, slots, proc, stale, unsaved>>

SignalClear_Returns ==
  /\ sig.pc = "clear"
  /\ \/ ClearActiveUsers /\ sig' = [sig EXCEPT !.pc = "exit"]
     \/ DbFaults /\ sig' = NoSignal /\ UNCHANGED <<active, stale>>
  /\ UNCHANGED <<users, http, db, answer, slots, proc, unsaved>>

\* signal_handler connects and truncates; the failures are printed.
SignalClear ==
  /\ sig.pc = "clear"
  /\ sig' = [sig EXCEPT !.pc = "exit"]
  /\ ClearActiveUsers \/ (DbFaults /\ UNCHANGED <<active, stale>>)
  /\ UNCHANGED <<users, http, db, answer, slots, proc, unsaved>>

ProcessDies ==
  /\ proc' = "down"
  /\ sig' = NoSignal
  /\ slots' = NoSessions
  /\ HttpDies
  /\ UNCHANGED <<users, active, stale, unsaved>>

\* exit(0): the other threads end wherever they stand.
SignalExit == sig.pc = "exit" /\ ProcessDies

Crash == proc # "down" /\ ProcessDies

ProcessLife ==
  \/ Boot \/ BootClear \/ SignalClear \/ SignalExit \/ Crash
  \/ \E thread \in Threads : Signal(thread)
-----------------------------------------------------------------------------
HttpIdles == HttpRuns /\ HandleUnrouted /\ UNCHANGED sessionVars

AccountsNext == AccountsHttp \/ HttpIdles \/ ProcessLife

\* A handler that has started goes on (a query and an SSH login end, in one way or the
\* other), and so does signal_handler.  Requests and signals need not come.
AccountsFairness ==
  /\ WF_accountsVars(LoginSsh \/ LoginUser \/ LoginActive \/ LogoutActive)
  /\ WF_accountsVars(SignalClear)
  /\ WF_accountsVars(SignalExit)

AccountsSpec == AccountsInit /\ [][AccountsNext]_accountsVars /\ AccountsFairness
-----------------------------------------------------------------------------
(* Properties.                                                             *)

\* While the server is up, a user listed as active has a session in the table or is just
\* being logged out, except for the rows that a failed DELETE or TRUNCATE, or a full
\* table, left behind (auth.c:32-52, auth.c:82-91, session.c:45, main.c:38-39).
ActiveHasSession ==
  proc = "up" =>
    active \subseteq SlotUsers \cup stale
                     \cup (IF http.pc = "logout_active" THEN {http.from} ELSE {})

\* Nobody is listed as active without an account, at any time, restarts included, except
\* those whose INSERT INTO user failed and was only logged (auth.c:48-52).
ActiveRegistered == active \subseteq users \cup unsaved

\* Every request is answered or its client sees the connection drop: no handler is left
\* half done, even when a signal stops the HTTP thread under it (auth.c, main.c:12-26).
RequestEnds == http # Idle ~> http = Idle

\* Once a signal is handled the process ends (main.c:24).
ShutdownEnds == sig.pc # "none" ~> proc = "down"

\* main.c:20 prints that the table was cleaned up "during shutdown", and main.c:11 calls
\* this a graceful shutdown: from then to the end of the process nobody is active.
ShutdownLeavesNobodyActive == sig.pc = "exit" /\ ~DbFaults => active = {}

\* auth.c:92-95 answers "Logout successful.": who gets that has no session any more.
LogoutEndsSession ==
  [][http.pc = "logout_active" /\ http' = Idle /\ proc' = "up"
       => http.from \notin SlotUsers']_accountsVars
=============================================================================
