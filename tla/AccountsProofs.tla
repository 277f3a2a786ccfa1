---------------------------- MODULE AccountsProofs ----------------------------
(***************************************************************************)
(* Proofs about login, logout and the life of the process, for every set of *)
(* users, every size of the session table, with faults or without.  The     *)
(* invariant says what each half done login or logout still owes, for a     *)
(* signal or the death of the process may come at any of its queries.      *)
(***************************************************************************)
EXTENDS Accounts, HttpServerProofs

AccountsPcs == {"idle", "login_ssh", "login_user", "login_active", "logout_active"}

\* Sessions and handlers are in the memory of the process.
NothingBeforeTheThreads == proc # "up" => http = Idle /\ slots = NoSessions

\* What a login has done before each of its queries.
LoginKnows ==
  /\ http.pc \in AccountsPcs
  /\ http.pc = "idle" => http = Idle
  /\ http # Idle => http.from \in Users
  /\ http.pc \in {"login_user", "login_active"} => http.from \in SlotUsers \cup stale
  /\ http.pc = "login_active" => http.from \in users \cup unsaved

\* What a handler under way has sent: nothing, or the 404 of a logout without a session.
AnsweredAtMost404 ==
  http # Idle => answer = <<>> \/ (http.pc = "logout_active" /\ answer = <<404>>)

AccountsInv ==
  /\ AccountsTypeOK
  /\ NothingBeforeTheThreads
  /\ LoginKnows
  /\ AnsweredAtMost404
  /\ HandlersAreClean
  /\ ActiveHasSession
  /\ ActiveRegistered

USE UsersAssumption, DbFaultsAssumption, MaxSessionsAssumption
-----------------------------------------------------------------------------
(* The table of sessions.                                                  *)

LEMMA AddSessionAdds ==
  ASSUME AccountsTypeOK, NEW u \in Users, AddSession(u)
  PROVE  /\ slots' \in [Slots -> Users \cup {NoUser}]
         /\ stale' \subseteq Users
         /\ SlotUsers \subseteq SlotUsers' /\ stale \subseteq stale'
         /\ u \in SlotUsers' \cup stale'
<1>1. CASE \E i \in Slots : slots[i] = NoUser /\ slots' = [slots EXCEPT ![i] = u] /\ stale' = stale
  <2>1. PICK i \in Slots : slots[i] = NoUser /\ slots' = [slots EXCEPT ![i] = u] /\ stale' = stale
    BY <1>1
  <2>2. slots' \in [Slots -> Users \cup {NoUser}]
    BY <2>1 DEF AccountsTypeOK
  <2>3. slots'[i] = u /\ \A j \in Slots : j # i => slots'[j] = slots[j]
    BY <2>1 DEF AccountsTypeOK
  <2>4. u # NoUser
    BY DEF NoUser
  <2>5. u \in SlotUsers'
    BY <2>3, <2>4 DEF SlotUsers
  <2>6. SlotUsers \subseteq SlotUsers'
    BY <2>1, <2>3 DEF SlotUsers
  <2>. QED
    BY <2>1, <2>2, <2>5, <2>6 DEF AccountsTypeOK
<1>2. CASE /\ stale' = IF u \in SlotUsers THEN stale ELSE stale \cup {u}
           /\ slots' = slots
  <2>1. SlotUsers' = SlotUsers
    BY <1>2 DEF SlotUsers
  <2>. QED
    BY <1>2, <2>1 DEF AccountsTypeOK
<1>. QED
  BY <1>1, <1>2 DEF AddSession

LEMMA RemoveSessionRemoves ==
  ASSUME AccountsTypeOK, NEW u \in Users, RemoveSession(u)
  PROVE  /\ slots' \in [Slots -> Users \cup {NoUser}]
         /\ SlotUsers \subseteq SlotUsers' \cup {u}
<1>1. PICK i \in Slots : slots[i] = u /\ slots' = [slots EXCEPT ![i] = NoUser]
  BY DEF RemoveSession
<1>2. slots' \in [Slots -> Users \cup {NoUser}]
  BY <1>1 DEF AccountsTypeOK
<1>3. \A j \in Slots : j # i => slots'[j] = slots[j]
  BY <1>1 DEF AccountsTypeOK
<1>. QED
  BY <1>1, <1>2, <1>3 DEF SlotUsers
-----------------------------------------------------------------------------
(* One lemma per action.                                                   *)

LEMMA ServeKeeps ==
  ASSUME AccountsInv, \E code \in StatusCodes : Serve(code),
         UNCHANGED <<users, active, slots, proc, sig, stale, unsaved>>
  PROVE  AccountsInv'
<1>1. PICK code \in StatusCodes : Serve(code)
  OBVIOUS
<1>2. HttpTypeOK'
  BY <1>1, ServeTypes DEF AccountsInv, AccountsTypeOK
<1>3. http' = http /\ db' = db /\ http = Idle /\ answer' = <<code>>
  BY <1>1 DEF Serve
<1>4. AccountsTypeOK'
  BY <1>2 DEF AccountsInv, AccountsTypeOK
<1>5. NothingBeforeTheThreads' /\ LoginKnows' /\ ActiveHasSession' /\ ActiveRegistered'
  BY <1>3 DEF AccountsInv, NothingBeforeTheThreads, LoginKnows, ActiveHasSession,
              ActiveRegistered, SlotUsers
<1>6. AnsweredAtMost404' /\ HandlersAreClean'
  BY <1>3 DEF AccountsInv, AnsweredAtMost404, HandlersAreClean
<1>. QED
  BY <1>4, <1>5, <1>6 DEF AccountsInv

LEMMA RefuseKeeps ==
  ASSUME AccountsInv, Refuse, UNCHANGED <<users, active, slots, proc, sig, stale, unsaved>>
  PROVE  AccountsInv'
BY ServeKeeps DEF Refuse, OrFault, StatusCodes

LEMMA LoginKeeps ==
  ASSUME AccountsInv, NEW u \in Users, HandleLogin(u)
  PROVE  AccountsInv'
<1>1. UNCHANGED <<users, active, slots, proc, sig, stale, unsaved>>
  BY DEF HandleLogin, sessionVars
<1>2. CASE Refuse
  BY <1>1, <1>2, RefuseKeeps
<1>3. CASE Enter("login_ssh", u, NoUser)
  <2>1. http' = [pc |-> "login_ssh", from |-> u, to |-> NoUser] /\ db' = "open" /\ answer' = <<>>
    BY <1>3 DEF Enter
  <2>2. AccountsTypeOK'
    BY <1>1, <2>1 DEF AccountsInv, AccountsTypeOK, HttpTypeOK, HandlerPcs
  <2>3. proc = "up" /\ http = Idle
    BY <1>3 DEF HandleLogin, HttpRuns, Enter
  <2>4. NothingBeforeTheThreads' /\ LoginKnows' /\ AnsweredAtMost404' /\ HandlersAreClean'
    BY <1>1, <2>1, <2>3 DEF NothingBeforeTheThreads, LoginKnows, AnsweredAtMost404,
                            HandlersAreClean, AccountsPcs, Idle
  <2>5. ActiveHasSession' /\ ActiveRegistered'
    BY <1>1, <2>1, <2>3, IdleTypes DEF AccountsInv, ActiveHasSession, ActiveRegistered, SlotUsers
  <2>. QED
    BY <2>2, <2>4, <2>5 DEF AccountsInv
<1>. QED
  BY <1>2, <1>3 DEF HandleLogin

\* A handler that returns: what is left to show is about the tables.
LEMMA ReturnKeeps ==
  ASSUME AccountsInv, http # Idle, NEW code \in StatusCodes, Return(code),
         answer = <<>> \/ code = 200,
         users' \subseteq Users, active' \subseteq Users, UNCHANGED proc, proc = "up"
  PROVE  /\ HttpTypeOK' /\ NothingBeforeTheThreads' /\ LoginKnows'
         /\ AnsweredAtMost404' /\ HandlersAreClean' /\ http' = Idle
<1>1. http' = Idle /\ db' = "closed" /\ answer' = Append(answer, code)
  BY DEF Return
<1>2. Len(answer') = 1 \/ (Len(answer') = 2 /\ answer'[1] = 404 /\ answer'[2] = 200)
  <2>1. CASE answer = <<>>
    BY <1>1, <2>1
  <2>2. CASE answer = <<404>> /\ code = 200
    <3>1. answer \in Seq(Nat) /\ Len(answer) = 1 /\ answer[1] = 404
      BY <2>2
    <3>. QED
      BY <1>1, <2>2, <3>1
  <2>. QED
    BY <2>1, <2>2 DEF AccountsInv, AnsweredAtMost404
<1>3. answer' \in Seq(StatusCodes \cup {Reset})
  BY <1>1 DEF AccountsInv, AccountsTypeOK, HttpTypeOK
<1>4. HttpTypeOK'
  BY <1>1, <1>3, IdleTypes DEF HttpTypeOK
<1>5. HandlersAreClean'
  BY <1>1, <1>2 DEF HandlersAreClean
<1>6. LoginKnows'
  BY <1>1, IdleTypes DEF LoginKnows, AccountsPcs
<1>. QED
  BY <1>1, <1>4, <1>5, <1>6 DEF NothingBeforeTheThreads, AnsweredAtMost404

LEMMA ReturnCodes == 200 \in StatusCodes /\ 403 \in StatusCodes
BY DEF StatusCodes

LEMMA LoginSshKeeps ==
  ASSUME AccountsInv, LoginSsh
  PROVE  AccountsInv'
<1>1. /\ proc = "up" /\ http.pc = "login_ssh" /\ http # Idle
      /\ UNCHANGED <<users, active, proc, sig, unsaved>>
  BY IdleTypes DEF LoginSsh, HttpRuns
<1>2. http.from \in Users /\ answer = <<>> /\ active \subseteq SlotUsers \cup stale
  BY <1>1 DEF AccountsInv, LoginKnows, AnsweredAtMost404, ActiveHasSession
<1>3. users' \subseteq Users /\ active' \subseteq Users
  BY <1>1 DEF AccountsInv, AccountsTypeOK, HttpTypeOK
<1>4. CASE Return(403) /\ UNCHANGED <<slots, stale>>
  <2>1. /\ HttpTypeOK' /\ NothingBeforeTheThreads' /\ LoginKnows'
        /\ AnsweredAtMost404' /\ HandlersAreClean' /\ http' = Idle
    BY <1>1, <1>2, <1>3, <1>4, ReturnCodes, ReturnKeeps
  <2>2. AccountsTypeOK'
    BY <1>1, <1>4, <2>1 DEF AccountsInv, AccountsTypeOK
  <2>3. ActiveHasSession' /\ ActiveRegistered'
    BY <1>1, <1>2, <1>4 DEF AccountsInv, ActiveHasSession, ActiveRegistered, SlotUsers
  <2>. QED
    BY <2>1, <2>2, <2>3 DEF AccountsInv
<1>5. CASE AddSession(http.from) /\ Continue("login_user") /\ UNCHANGED db
  <2>1. /\ slots' \in [Slots -> Users \cup {NoUser}] /\ stale' \subseteq Users
        /\ SlotUsers \subseteq SlotUsers' /\ stale \subseteq stale'
        /\ http.from \in SlotUsers' \cup stale'
    BY <1>2, <1>5, AddSessionAdds DEF AccountsInv
  <2>2. HttpTypeOK'
    BY <1>1, <1>5, ContinueTypes DEF AccountsInv, AccountsTypeOK, HttpTypeOK, HandlerPcs
  <2>3. http'.pc = "login_user" /\ http'.from = http.from /\ answer' = answer
    BY <1>5 DEF Continue, AccountsInv, AccountsTypeOK, HttpTypeOK
  <2>4. http' # Idle
    BY <2>3, IdleTypes
  <2>5. AccountsTypeOK'
    BY <1>1, <2>1, <2>2 DEF AccountsInv, AccountsTypeOK
  <2>6. LoginKnows' /\ NothingBeforeTheThreads'
    BY <1>1, <1>2, <2>1, <2>3, <2>4 DEF LoginKnows, AccountsPcs, NothingBeforeTheThreads
  <2>7. AnsweredAtMost404' /\ HandlersAreClean'
    BY <1>2, <2>3, <2>4 DEF AnsweredAtMost404, HandlersAreClean
  <2>8. ActiveHasSession' /\ ActiveRegistered'
    BY <1>1, <1>2, <2>1 DEF AccountsInv, ActiveHasSession, ActiveRegistered
  <2>. QED
    BY <2>5, <2>6, <2>7, <2>8 DEF AccountsInv
<1>. QED
  BY <1>4, <1>5 DEF LoginSsh

LEMMA LoginUserKeeps ==
  ASSUME AccountsInv, LoginUser
  PROVE  AccountsInv'
<1>1. /\ proc = "up" /\ http.pc = "login_user" /\ http # Idle
      /\ UNCHANGED <<active, slots, proc, sig, stale>>
      /\ Continue("login_active") /\ db' \in {"open", "lost"}
  BY IdleTypes DEF LoginUser, HttpRuns
<1>2. /\ http.from \in Users /\ answer = <<>> /\ active \subseteq SlotUsers \cup stale
      /\ http.from \in SlotUsers \cup stale
  BY <1>1 DEF AccountsInv, LoginKnows, AnsweredAtMost404, ActiveHasSession
<1>3. \/ users' = users \cup {http.from} /\ unsaved' = unsaved \ {http.from}
      \/ /\ unsaved' = IF http.from \in users THEN unsaved ELSE unsaved \cup {http.from}
         /\ users' = users
  BY DEF LoginUser
<1>4. /\ users' \subseteq Users /\ unsaved' \subseteq Users
      /\ http.from \in users' \cup unsaved' /\ users \cup unsaved \subseteq users' \cup unsaved'
  BY <1>2, <1>3 DEF AccountsInv, AccountsTypeOK, HttpTypeOK
<1>5. http'.pc = "login_active" /\ http'.from = http.from /\ answer' = answer
  BY <1>1 DEF Continue, AccountsInv, AccountsTypeOK, HttpTypeOK
<1>6. http' \in [pc : HandlerPcs, from : Users \cup {NoUser}, to : Users \cup {NoUser}]
  BY <1>1 DEF Continue, AccountsInv, AccountsTypeOK, HttpTypeOK, HandlerPcs
<1>7. http' # Idle
  BY <1>5, IdleTypes
<1>8. AccountsTypeOK'
  BY <1>1, <1>4, <1>5, <1>6 DEF AccountsInv, AccountsTypeOK, HttpTypeOK
<1>9. SlotUsers' = SlotUsers
  BY <1>1 DEF SlotUsers
<1>10. LoginKnows' /\ NothingBeforeTheThreads'
  BY <1>1, <1>2, <1>4, <1>5, <1>7, <1>9 DEF LoginKnows, AccountsPcs, NothingBeforeTheThreads
<1>11. AnsweredAtMost404' /\ HandlersAreClean'
  BY <1>2, <1>5, <1>7 DEF AnsweredAtMost404, HandlersAreClean
<1>12. ActiveHasSession' /\ ActiveRegistered'
  BY <1>1, <1>2, <1>4, <1>9 DEF AccountsInv, ActiveHasSession, ActiveRegistered
<1>. QED
  BY <1>8, <1>10, <1>11, <1>12 DEF AccountsInv

LEMMA LoginActiveKeeps ==
  ASSUME AccountsInv, LoginActive
  PROVE  AccountsInv'
<1>1. /\ proc = "up" /\ http.pc = "login_active" /\ http # Idle /\ Return(200)
      /\ UNCHANGED <<users, slots, proc, sig, stale, unsaved>>
      /\ active' = active \cup {http.from} \/ active' = active
  BY IdleTypes DEF LoginActive, HttpRuns, AddActiveUser
<1>2. /\ http.from \in Users /\ answer = <<>> /\ active \subseteq SlotUsers \cup stale
      /\ http.from \in SlotUsers \cup stale /\ http.from \in users \cup unsaved
  BY <1>1 DEF AccountsInv, LoginKnows, AnsweredAtMost404, ActiveHasSession
<1>3. users' \subseteq Users /\ active' \subseteq Users
  BY <1>1, <1>2 DEF AccountsInv, AccountsTypeOK, HttpTypeOK
<1>4. /\ HttpTypeOK' /\ NothingBeforeTheThreads' /\ LoginKnows'
      /\ AnsweredAtMost404' /\ HandlersAreClean' /\ http' = Idle
  BY <1>1, <1>2, <1>3, ReturnCodes, ReturnKeeps
<1>5. AccountsTypeOK'
  BY <1>1, <1>4 DEF AccountsInv, AccountsTypeOK
<1>6. ActiveHasSession' /\ ActiveRegistered'
  BY <1>1, <1>2 DEF AccountsInv, ActiveHasSession, ActiveRegistered, SlotUsers
<1>. QED
  BY <1>4, <1>5, <1>6 DEF AccountsInv

LEMMA HandleLogoutKeeps ==
  ASSUME AccountsInv, NEW u \in Users, HandleLogout(u)
  PROVE  AccountsInv'
<1>1. proc = "up" /\ UNCHANGED <<users, active, proc, sig, stale, unsaved>>
  BY DEF HandleLogout, HttpRuns
<1>2. CASE Refuse /\ UNCHANGED slots
  BY <1>1, <1>2, RefuseKeeps
<1>3. ASSUME http = Idle,
             http' = [pc |-> "logout_active", from |-> u, to |-> NoUser], db' = "open",
             AnsweredAtMost404',
             slots' \in [Slots -> Users \cup {NoUser}], SlotUsers \subseteq SlotUsers' \cup {u}
      PROVE  AccountsInv'
  <2>1. http'.pc = "logout_active" /\ http'.from = u /\ http' # Idle
    BY <1>3, IdleTypes
  <2>2. AccountsTypeOK'
    <3>1. http' \in [pc : HandlerPcs, from : Users \cup {NoUser}, to : Users \cup {NoUser}]
      BY <1>3 DEF HandlerPcs
    <3>2. answer' \in Seq(StatusCodes \cup {Reset})
      <4>1. 404 \in StatusCodes \cup {Reset}
        BY DEF StatusCodes
      <4>2. CASE answer' = <<>>
        BY <4>2
      <4>3. CASE answer' = <<404>>
        BY <4>1, <4>3
      <4>. QED
        BY <1>3, <2>1, <4>2, <4>3 DEF AnsweredAtMost404
    <3>. QED
      BY <1>1, <1>3, <3>1, <3>2 DEF AccountsInv, AccountsTypeOK, HttpTypeOK
  <2>3. NothingBeforeTheThreads' /\ LoginKnows' /\ AnsweredAtMost404' /\ HandlersAreClean'
    BY <1>1, <1>3, <2>1 DEF NothingBeforeTheThreads, LoginKnows, AnsweredAtMost404,
                            HandlersAreClean, AccountsPcs
  <2>4. active \subseteq SlotUsers \cup stale
    BY <1>1, <1>3, IdleTypes DEF AccountsInv, ActiveHasSession
  <2>5. ActiveHasSession' /\ ActiveRegistered'
    BY <1>1, <1>3, <2>1, <2>4 DEF AccountsInv, ActiveHasSession, ActiveRegistered
  <2>. QED
    BY <2>2, <2>3, <2>5 DEF AccountsInv
<1>4. CASE RemoveSession(u) /\ Enter("logout_active", u, NoUser)
  <2>1. /\ slots' \in [Slots -> Users \cup {NoUser}]
        /\ SlotUsers \subseteq SlotUsers' \cup {u}
    BY <1>4, RemoveSessionRemoves DEF AccountsInv
  <2>. QED
    BY <1>3, <1>4, <2>1 DEF Enter, AnsweredAtMost404
<1>5. CASE /\ http = Idle
           /\ http' = [pc |-> "logout_active", from |-> u, to |-> NoUser]
           /\ db' = "open" /\ answer' = <<404>> /\ UNCHANGED slots
  <2>1. SlotUsers' = SlotUsers /\ slots' \in [Slots -> Users \cup {NoUser}]
    BY <1>5 DEF SlotUsers, AccountsInv, AccountsTypeOK
  <2>2. AnsweredAtMost404'
    BY <1>5 DEF AnsweredAtMost404
  <2>. QED
    BY <1>3, <1>5, <2>1, <2>2
<1>. QED
  BY <1>2, <1>4, <1>5 DEF HandleLogout

LEMMA LogoutActiveKeeps ==
  ASSUME AccountsInv, LogoutActive
  PROVE  AccountsInv'
<1>1. /\ proc = "up" /\ http.pc = "logout_active" /\ http # Idle /\ Return(200)
      /\ UNCHANGED <<users, slots, proc, sig, unsaved>>
      /\ \/ active' = active \ {http.from} /\ stale' = stale \ {http.from}
         \/ active' = active /\ stale' = stale \cup {http.from}
  BY IdleTypes DEF LogoutActive, HttpRuns, RemoveActiveUser
<1>2. http.from \in Users /\ active \subseteq SlotUsers \cup stale \cup {http.from}
  BY <1>1 DEF AccountsInv, LoginKnows, ActiveHasSession
<1>3. users' \subseteq Users /\ active' \subseteq Users /\ stale' \subseteq Users
  BY <1>1, <1>2 DEF AccountsInv, AccountsTypeOK, HttpTypeOK
<1>4. /\ HttpTypeOK' /\ NothingBeforeTheThreads' /\ LoginKnows'
      /\ AnsweredAtMost404' /\ HandlersAreClean' /\ http' = Idle
  BY <1>1, <1>3, ReturnCodes, ReturnKeeps
<1>5. AccountsTypeOK'
  BY <1>1, <1>3, <1>4 DEF AccountsInv, AccountsTypeOK
<1>6. ActiveHasSession' /\ ActiveRegistered'
  BY <1>1, <1>2 DEF AccountsInv, ActiveHasSession, ActiveRegistered, SlotUsers
<1>. QED
  BY <1>4, <1>5, <1>6 DEF AccountsInv

\* A step of main or of the signal handler that leaves the HTTP thread and the table of
\* sessions alone, and takes no row of active away from what explains it.
LEMMA ClearKeeps ==
  ASSUME AccountsInv, UNCHANGED <<users, http, db, answer, slots, unsaved>>,
         ClearActiveUsers \/ UNCHANGED <<active, stale>>,
         proc' \in {"down", "boot", "up"}, proc' = "up" => proc = "up" \/ active' = {},
         proc' # "up" => proc # "up",
         sig' \in [pc : {"none", "clear", "exit"}, on : {"none"} \cup Threads]
  PROVE  AccountsInv'
<1>1. SlotUsers' = SlotUsers
  BY DEF SlotUsers
<1>2. active' \subseteq active /\ stale' \subseteq stale
  BY DEF ClearActiveUsers
<1>3. AccountsTypeOK'
  BY <1>2 DEF AccountsInv, AccountsTypeOK, HttpTypeOK
<1>4. NothingBeforeTheThreads' /\ AnsweredAtMost404' /\ HandlersAreClean'
  BY DEF AccountsInv, NothingBeforeTheThreads, AnsweredAtMost404, HandlersAreClean
<1>5. http.from \in stale => http.from \in stale'
  BY DEF ClearActiveUsers
<1>6. LoginKnows'
  BY <1>1, <1>5 DEF AccountsInv, LoginKnows
<1>7. ActiveHasSession'
  BY <1>1, <1>2 DEF AccountsInv, ActiveHasSession, ClearActiveUsers
<1>8. ActiveRegistered'
  BY <1>2 DEF AccountsInv, ActiveRegistered
<1>. QED
  BY <1>3, <1>4, <1>6, <1>7, <1>8 DEF AccountsInv

LEMMA BootClearKeeps ==
  ASSUME AccountsInv, BootClear
  PROVE  AccountsInv'
<1>1. proc = "boot" /\ UNCHANGED <<users, http, db, answer, slots, sig, unsaved>>
  BY DEF BootClear
<1>2. sig' \in [pc : {"none", "clear", "exit"}, on : {"none"} \cup Threads]
  BY <1>1 DEF AccountsInv, AccountsTypeOK
<1>3. CASE ClearActiveUsers /\ proc' = "up"
  BY <1>1, <1>2, <1>3, ClearKeeps DEF ClearActiveUsers
<1>4. CASE proc' = "down" /\ UNCHANGED <<active, stale>>
  BY <1>1, <1>2, <1>4, ClearKeeps
<1>5. CASE proc' = "up" /\ stale' = stale \cup active /\ UNCHANGED active
  <2>1. SlotUsers' = SlotUsers
    BY <1>1 DEF SlotUsers
  <2>2. AccountsTypeOK'
    BY <1>1, <1>5 DEF AccountsInv, AccountsTypeOK, HttpTypeOK
  <2>3. NothingBeforeTheThreads' /\ AnsweredAtMost404' /\ HandlersAreClean' /\ LoginKnows'
    BY <1>1, <1>5, <2>1 DEF AccountsInv, NothingBeforeTheThreads, AnsweredAtMost404,
                            HandlersAreClean, LoginKnows
  <2>4. ActiveHasSession' /\ ActiveRegistered'
    BY <1>1, <1>5 DEF AccountsInv, ActiveHasSession, ActiveRegistered
  <2>. QED
    BY <2>2, <2>3, <2>4 DEF AccountsInv
<1>. QED
  BY <1>3, <1>4, <1>5 DEF BootClear

LEMMA ProcessDiesKeeps ==
  ASSUME AccountsInv, ProcessDies
  PROVE  AccountsInv'
<1>1. /\ proc' = "down" /\ sig' = NoSignal /\ slots' = NoSessions
      /\ http' = Idle /\ db' = "closed" /\ answer' = <<Reset>>
      /\ UNCHANGED <<users, active, stale, unsaved>>
  BY DEF ProcessDies, HttpDies
<1>2. AccountsTypeOK'
  BY <1>1, IdleTypes
     DEF AccountsInv, AccountsTypeOK, HttpTypeOK, NoSignal, NoSessions, Threads
<1>3. LoginKnows'
  BY <1>1, IdleTypes DEF LoginKnows, AccountsPcs
<1>4. NothingBeforeTheThreads' /\ AnsweredAtMost404' /\ HandlersAreClean'
  BY <1>1 DEF NothingBeforeTheThreads, AnsweredAtMost404, HandlersAreClean
<1>5. ActiveHasSession' /\ ActiveRegistered'
  BY <1>1 DEF AccountsInv, ActiveHasSession, ActiveRegistered
<1>. QED
  BY <1>2, <1>3, <1>4, <1>5 DEF AccountsInv

LEMMA ProcessLifeKeeps ==
  ASSUME AccountsInv, ProcessLife
  PROVE  AccountsInv'
<1>1. CASE Boot
  BY <1>1, ClearKeeps DEF Boot, AccountsInv, AccountsTypeOK
<1>2. CASE BootClear
  BY <1>2, BootClearKeeps
<1>3. CASE SignalClear
  BY <1>3, ClearKeeps DEF SignalClear, AccountsInv, AccountsTypeOK
<1>4. CASE SignalExit \/ Crash
  BY <1>4, ProcessDiesKeeps DEF SignalExit, Crash
<1>5. CASE \E thread \in Threads : Signal(thread)
  BY <1>5, ClearKeeps DEF Signal, AccountsInv, AccountsTypeOK
<1>. QED
  BY <1>1, <1>2, <1>3, <1>4, <1>5 DEF ProcessLife
-----------------------------------------------------------------------------
(* The theorems.                                                           *)

LEMMA AccountsInitInv == AccountsInit => AccountsInv
<1>. SUFFICES ASSUME AccountsInit PROVE AccountsInv
  OBVIOUS
<1>1. AccountsTypeOK
  BY IdleTypes DEF AccountsInit, HttpInit, AccountsTypeOK, HttpTypeOK, NoSignal, NoSessions
<1>2. LoginKnows
  BY IdleTypes DEF AccountsInit, HttpInit, LoginKnows, AccountsPcs
<1>3. NothingBeforeTheThreads /\ AnsweredAtMost404 /\ HandlersAreClean
  BY DEF AccountsInit, HttpInit, NothingBeforeTheThreads, AnsweredAtMost404, HandlersAreClean
<1>4. ActiveHasSession /\ ActiveRegistered
  BY DEF AccountsInit, ActiveHasSession, ActiveRegistered
<1>. QED
  BY <1>1, <1>2, <1>3, <1>4 DEF AccountsInv

LEMMA AccountsNextInv == AccountsInv /\ [AccountsNext]_accountsVars => AccountsInv'
<1>. SUFFICES ASSUME AccountsInv, [AccountsNext]_accountsVars PROVE AccountsInv'
  OBVIOUS
<1>1. CASE \E u \in Users : HandleLogin(u) \/ HandleLogout(u)
  BY <1>1, LoginKeeps, HandleLogoutKeeps
<1>2. CASE LoginSsh \/ LoginUser \/ LoginActive \/ LogoutActive
  BY <1>2, LoginSshKeeps, LoginUserKeeps, LoginActiveKeeps, LogoutActiveKeeps
<1>3. CASE HttpIdles
  BY <1>3, ServeKeeps DEF HttpIdles, HandleUnrouted, sessionVars, StatusCodes
<1>4. CASE ProcessLife
  BY <1>4, ProcessLifeKeeps
<1>5. CASE UNCHANGED accountsVars
  BY <1>5 DEF accountsVars, AccountsInv, AccountsTypeOK, HttpTypeOK, NothingBeforeTheThreads,
              LoginKnows, AnsweredAtMost404, HandlersAreClean, ActiveHasSession,
              ActiveRegistered, SlotUsers
<1>. QED
  BY <1>1, <1>2, <1>3, <1>4, <1>5 DEF AccountsNext, AccountsHttp

\* The invariant holds in every reachable state, whatever faults, signals and crashes
\* come between the queries of a login or a logout (auth.c, session.c, main.c).
THEOREM AccountsInvariant == AccountsSpec => []AccountsInv
BY AccountsInitInv, AccountsNextInv, PTL DEF AccountsSpec

\* The state of login, logout and the process always has its type; in particular a
\* session never lands outside the table (session.c:17-49).
THEOREM AccountsTypeCorrect == AccountsSpec => []AccountsTypeOK
<1>1. AccountsInv => AccountsTypeOK
  BY DEF AccountsInv
<1>. QED
  BY <1>1, AccountsInvariant, PTL

\* Whoever is listed as active has a session, is being logged out, or is explained by a
\* failure that the code ignores (auth.c, session.c, active_user.c, main.c).
THEOREM ActiveUsersHaveSessions == AccountsSpec => []ActiveHasSession
<1>1. AccountsInv => ActiveHasSession
  BY DEF AccountsInv
<1>. QED
  BY <1>1, AccountsInvariant, PTL

\* Whoever is listed as active has an account, or lost it to an ignored failure
\* (auth.c:44-52).
THEOREM ActiveUsersAreRegistered == AccountsSpec => []ActiveRegistered
<1>1. AccountsInv => ActiveRegistered
  BY DEF AccountsInv
<1>. QED
  BY <1>1, AccountsInvariant, PTL

\* Every login and logout that returns has closed its connection and answered once, or
\* with the pair 404 and 200 (auth.c:9-99).
THEOREM AccountHandlersAreClean == AccountsSpec => []HandlersAreClean
<1>1. AccountsInv => HandlersAreClean
  BY DEF AccountsInv
<1>. QED
  BY <1>1, AccountsInvariant, PTL
-----------------------------------------------------------------------------
(* What RequestEnds and ShutdownEnds rest on.                              *)

\* How many steps a login or a logout has before it, and the signal handler.
HandlerLeft ==
  CASE http.pc = "login_ssh" -> 3 [] http.pc = "login_user" -> 2
    [] http.pc \in {"login_active", "logout_active"} -> 1 [] OTHER -> 0

SignalLeft == CASE sig.pc = "clear" -> 2 [] sig.pc = "exit" -> 1 [] OTHER -> 0

SignalKnows == sig.pc = "none" => sig = NoSignal

\* A thread is interrupted only while its signal handler is under way.
LEMMA SignalKnowsStays ==
  ASSUME AccountsInv, SignalKnows, [AccountsNext]_accountsVars
  PROVE  SignalKnows'
<1>. USE DEF SignalKnows
<1>1. CASE AccountsHttp \/ HttpIdles \/ UNCHANGED accountsVars
  <2>1. UNCHANGED sig
    BY <1>1 DEF AccountsHttp, HandleLogin, HandleLogout, LoginSsh, LoginUser, LoginActive,
                LogoutActive, HttpIdles, sessionVars, accountsVars
  <2>. QED
    BY <2>1 DEF NoSignal
<1>2. CASE Boot \/ BootClear
  BY <1>2 DEF Boot, BootClear, NoSignal
<1>3. CASE SignalClear
  <2>1. sig'.pc = "exit"
    BY <1>3 DEF SignalClear, AccountsInv, AccountsTypeOK
  <2>. QED
    BY <2>1
<1>4. CASE SignalExit \/ Crash
  BY <1>4 DEF SignalExit, Crash, ProcessDies
<1>5. CASE \E thread \in Threads : Signal(thread)
  BY <1>5 DEF Signal
<1>. QED
  BY <1>1, <1>2, <1>3, <1>4, <1>5 DEF AccountsNext, ProcessLife

\* A handler under way goes on with its next query, or ends; nothing else enters it.
LEMMA HandlersGoOn ==
  ASSUME AccountsInv, [AccountsNext]_accountsVars, http # Idle
  PROVE  http' = http \/ HandlerLeft' < HandlerLeft
<1>1. /\ http \in [pc : HandlerPcs, from : Users \cup {NoUser}, to : Users \cup {NoUser}]
      /\ http.pc \in AccountsPcs \ {"idle"}
  BY DEF AccountsInv, AccountsTypeOK, HttpTypeOK, LoginKnows
<1>2. HandlerLeft \in 1..3
  BY <1>1 DEF HandlerLeft, AccountsPcs
<1>3. CASE http' = Idle
  <2>1. HandlerLeft' = 0
    BY <1>3 DEF HandlerLeft, Idle
  <2>. QED
    BY <1>2, <2>1
<1>4. CASE LoginSsh /\ http' # Idle
  <2>1. http.pc = "login_ssh" /\ http'.pc = "login_user"
    BY <1>1, <1>4 DEF LoginSsh, Return, Continue
  <2>. QED
    BY <2>1 DEF HandlerLeft
<1>5. CASE LoginUser
  <2>1. http.pc = "login_user" /\ http'.pc = "login_active"
    BY <1>1, <1>5 DEF LoginUser, Continue
  <2>. QED
    BY <2>1 DEF HandlerLeft
<1>6. CASE LoginActive \/ LogoutActive
  BY <1>3, <1>6 DEF LoginActive, LogoutActive, Return
<1>7. ASSUME NEW u \in Users, HandleLogin(u) \/ HandleLogout(u)
      PROVE  FALSE
  BY <1>7 DEF HandleLogin, HandleLogout, Refuse, Serve, Enter
<1>8. CASE HttpIdles
  BY <1>8 DEF HttpIdles, HandleUnrouted, Serve
<1>9. CASE ProcessLife
  BY <1>3, <1>9 DEF ProcessLife, Boot, BootClear, Signal, SignalClear, SignalExit, Crash,
                    ProcessDies, HttpDies
<1>10. CASE UNCHANGED accountsVars
  BY <1>10 DEF accountsVars
<1>. QED
  BY <1>3, <1>4, <1>5, <1>6, <1>7, <1>8, <1>9, <1>10 DEF AccountsNext, AccountsHttp

\* The signal handler goes on to its exit, or the process ends before; nothing calls it off.
LEMMA SignalsGoOn ==
  ASSUME AccountsInv, [AccountsNext]_accountsVars, sig.pc # "none"
  PROVE  \/ sig' = sig
         \/ sig'.on = sig.on /\ sig'.pc # "none" /\ SignalLeft' < SignalLeft
         \/ proc' = "down" /\ http' = Idle
<1>1. CASE AccountsHttp \/ HttpIdles \/ UNCHANGED accountsVars
  BY <1>1 DEF AccountsHttp, HandleLogin, HandleLogout, LoginSsh, LoginUser, LoginActive,
              LogoutActive, HttpIdles, sessionVars, accountsVars
<1>2. CASE Boot \/ BootClear \/ \E thread \in Threads : Signal(thread)
  BY <1>2 DEF Boot, BootClear, Signal
<1>3. CASE SignalClear
  <2>1. sig.pc = "clear" /\ sig'.pc = "exit" /\ sig'.on = sig.on
    BY <1>3 DEF SignalClear, AccountsInv, AccountsTypeOK
  <2>. QED
    BY <2>1 DEF SignalLeft
<1>4. CASE SignalExit \/ Crash
  BY <1>4 DEF SignalExit, Crash, ProcessDies, HttpDies
<1>. QED
  BY <1>1, <1>2, <1>3, <1>4 DEF AccountsNext, ProcessLife

\* A login or a logout that has begun is never stuck: its thread can run, or a signal handler
\* is under way on it; each step brings the one nearer to its answer (auth.c:30-99) and
\* the other nearer to the exit of the process (main.c:12-26), and nothing enters, repeats
\* or calls off either of them.
THEOREM WhatStartsGoesOn ==
  AccountsSpec =>
    /\ [](http # Idle => HttpRuns \/ (sig.on = "http" /\ sig.pc \in {"clear", "exit"}))
    /\ [][/\ http # Idle => http' = http \/ HandlerLeft' < HandlerLeft
          /\ sig.pc # "none" => \/ sig' = sig
                                \/ /\ sig'.on = sig.on /\ sig'.pc # "none"
                                   /\ SignalLeft' < SignalLeft
                                \/ proc' = "down" /\ http' = Idle]_accountsVars
<1>1. AccountsInit => SignalKnows
  BY DEF AccountsInit, SignalKnows
<1>2. AccountsInv /\ SignalKnows /\ [AccountsNext]_accountsVars => SignalKnows'
  BY SignalKnowsStays
<1>3. AccountsSpec => []SignalKnows
  BY <1>1, <1>2, AccountsInvariant, PTL DEF AccountsSpec
<1>4. AccountsInv /\ SignalKnows =>
        (http # Idle => HttpRuns \/ (sig.on = "http" /\ sig.pc \in {"clear", "exit"}))
  BY DEF AccountsInv, NothingBeforeTheThreads, HttpRuns, SignalKnows, NoSignal, AccountsTypeOK
<1>5. AccountsInv /\ [AccountsNext]_accountsVars =>
        [/\ http # Idle => http' = http \/ HandlerLeft' < HandlerLeft
         /\ sig.pc # "none" => \/ sig' = sig
                               \/ /\ sig'.on = sig.on /\ sig'.pc # "none"
                                  /\ SignalLeft' < SignalLeft
                               \/ proc' = "down" /\ http' = Idle]_accountsVars
  BY HandlersGoOn, SignalsGoOn
<1>. QED
  BY <1>3, <1>4, <1>5, AccountsInvariant, PTL DEF AccountsSpec
=============================================================================
