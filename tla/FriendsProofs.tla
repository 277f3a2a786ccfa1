---------------------------- MODULE FriendsProofs -----------------------------
(***************************************************************************)
(* Proofs about friend.c, for every set of users, with faults or without.   *)
(* The step that matters is the INSERT of handle_friend_request: it is      *)
(* right because of what two earlier queries read, so the invariant says    *)
(* what is still true of the tables at each point of the handler.          *)
(***************************************************************************)
EXTENDS Friends, HttpServerProofs

\* What handle_friend_request knows at each of its queries.
RequestKnows ==
  /\ http.pc \in {"request_to", "request_dup", "request_insert"} => http.from \in users
  /\ http.pc \in {"request_dup", "request_insert"} => http.to \in users
  /\ http.pc = "request_insert" /\ db = "open" =>
       \A r \in Rows : Between(r, http.from, http.to) => ~Present(r)

\* A handler under way has not answered yet.
SilentUntilReturn == http # Idle => answer = <<>>

FriendsInv ==
  /\ FriendsTypeOK
  /\ SilentUntilReturn
  /\ HandlersAreClean
  /\ RequestKnows
  /\ OneRowPerPair
  /\ RowsHaveAccounts
  /\ FriendsHaveMet

\* The ways in which a step may change the table: a new row for a pair without one ...
Inserts(u, v) ==
  /\ u \in users /\ v \in users
  /\ \A r \in Rows : Between(r, u, v) => ~Present(r)
  /\ friend' = [friend EXCEPT ![<<u, v, "pending">>] = @ + 1]
  /\ UNCHANGED met

\* ... a pending row that becomes accepted ...
Accepts(u, v) ==
  /\ Present(<<u, v, "pending">>)
  /\ friend' = [friend EXCEPT ![<<u, v, "pending">>] = 0,
                              ![<<u, v, "accepted">>] = @ + friend[<<u, v, "pending">>]]
  /\ met' = met \cup {<<u, v>>, <<v, u>>}

\* ... or the loss of every row of a pair.
Deletes(u, v) ==
  /\ \E r \in Rows : Between(r, u, v) /\ Present(r)
  /\ friend' = [r \in Rows |-> IF Between(r, u, v) /\ Present(r) THEN 0 ELSE friend[r]]
  /\ UNCHANGED met

USE UsersAssumption, DbFaultsAssumption
-----------------------------------------------------------------------------
LEMMA InitTypes == FriendsInit => FriendsTypeOK
<1>. SUFFICES ASSUME FriendsInit PROVE FriendsTypeOK
  OBVIOUS
<1>1. http \in [pc : HandlerPcs, from : Users \cup {NoUser}, to : Users \cup {NoUser}]
  BY DEF FriendsInit, HttpInit, Idle, HandlerPcs
<1>2. answer \in Seq(StatusCodes \cup {Reset})
  BY DEF FriendsInit, HttpInit
<1>3. friend \in [Rows -> Nat]
  BY DEF FriendsInit
<1>. QED BY <1>1, <1>2, <1>3 DEF FriendsInit, HttpInit, FriendsTypeOK, HttpTypeOK
-----------------------------------------------------------------------------
\* Every step of the handlers keeps the types, and changes friend in one of three ways.

LEMMA RequestSteps ==
  ASSUME FriendsInv, NEW u \in Users, NEW v \in Users, HandleFriendRequest(u, v)
  PROVE  FriendsTypeOK' /\ SilentUntilReturn' /\ HandlersAreClean' /\ RequestKnows'
<1>1. UNCHANGED <<users, active, friend, met>>
  BY DEF HandleFriendRequest
<1>2. CASE \E code \in StatusCodes : Serve(code)
  <2>1. PICK code \in StatusCodes : Serve(code)
    BY <1>2
  <2>2. HttpTypeOK'
    BY <1>1, <2>1, ServeTypes DEF FriendsInv, FriendsTypeOK
  <2>. QED
    BY <1>1, <2>1, <2>2 DEF FriendsInv, FriendsTypeOK, SilentUntilReturn, HandlersAreClean,
                            RequestKnows, Serve, Idle
<1>3. CASE u \in users /\ Enter("request_to", u, v)
  <2>1. HttpTypeOK'
    BY <1>1, <1>3, EnterTypes DEF FriendsInv, FriendsTypeOK, HandlerPcs
  <2>. QED
    BY <1>1, <1>3, <2>1 DEF FriendsInv, FriendsTypeOK, SilentUntilReturn, HandlersAreClean,
                            RequestKnows, Enter, Idle
<1>. QED
  BY <1>2, <1>3 DEF HandleFriendRequest, Refuse, OrFault, StatusCodes

LEMMA ReturnIsClean ==
  ASSUME FriendsInv, http # Idle, NEW code \in StatusCodes, Return(code),
         UNCHANGED <<users, active>>
  PROVE  HttpTypeOK' /\ SilentUntilReturn' /\ HandlersAreClean' /\ RequestKnows'
<1>1. HttpTypeOK'
  BY ReturnTypes DEF FriendsInv, FriendsTypeOK
<1>2. answer' = <<code>>
  BY DEF FriendsInv, SilentUntilReturn, Return
<1>. QED
  BY <1>1, <1>2 DEF SilentUntilReturn, HandlersAreClean, RequestKnows, Return, Idle

LEMMA CheckSteps ==
  ASSUME FriendsInv, RequestCheckTo \/ RequestCheckDup
  PROVE  FriendsTypeOK' /\ SilentUntilReturn' /\ HandlersAreClean' /\ RequestKnows'
<1>1. UNCHANGED <<users, active, friend, met>> /\ http # Idle
  BY DEF RequestCheckTo, RequestCheckDup, Idle
<1>2. CASE \E code \in StatusCodes : Return(code)
  BY <1>1, <1>2, ReturnIsClean DEF FriendsInv, FriendsTypeOK
<1>3. CASE RequestCheckTo /\ Continue("request_dup") /\ http.to \in users /\ db' = db
  <2>1. HttpTypeOK'
    BY <1>1, <1>3, ContinueTypes DEF FriendsInv, FriendsTypeOK, HttpTypeOK, HandlerPcs
  <2>2. http' = [http EXCEPT !.pc = "request_dup"] /\ answer' = answer
    BY <1>3 DEF Continue
  <2>3. http'.pc = "request_dup" /\ http'.from = http.from /\ http'.to = http.to
    BY <2>2 DEF FriendsInv, FriendsTypeOK, HttpTypeOK
  <2>4. http.from \in users
    BY <1>3 DEF FriendsInv, RequestKnows, RequestCheckTo
  <2>. QED
    BY <1>1, <1>3, <2>1, <2>2, <2>3, <2>4
       DEF FriendsInv, FriendsTypeOK, SilentUntilReturn, HandlersAreClean, RequestKnows, Idle
<1>4. CASE /\ RequestCheckDup
           /\ Continue("request_insert")
           /\ \/ db' = "lost"
              \/ db' = db /\ (\A r \in Rows : Between(r, http.from, http.to) => ~Present(r))
  <2>1. HttpTypeOK'
    BY <1>1, <1>4, ContinueTypes DEF FriendsInv, FriendsTypeOK, HttpTypeOK, HandlerPcs
  <2>2. http' = [http EXCEPT !.pc = "request_insert"] /\ answer' = answer
    BY <1>4 DEF Continue
  <2>3. http'.pc = "request_insert" /\ http'.from = http.from /\ http'.to = http.to
    BY <2>2 DEF FriendsInv, FriendsTypeOK, HttpTypeOK
  <2>4. http.from \in users /\ http.to \in users
    BY <1>4 DEF FriendsInv, RequestKnows, RequestCheckDup
  <2>5. RequestKnows'
    BY <1>1, <1>4, <2>3, <2>4 DEF RequestKnows, Between, Present, Rows
  <2>. QED
    BY <1>1, <2>1, <2>2, <2>3, <2>5
       DEF FriendsInv, FriendsTypeOK, SilentUntilReturn, HandlersAreClean, Idle
<1>. QED
  BY <1>1, <1>2, <1>3, <1>4 DEF RequestCheckTo, RequestCheckDup, StatusCodes

LEMMA InsertStep ==
  ASSUME FriendsInv, RequestInsert
  PROVE  /\ FriendsTypeOK' /\ SilentUntilReturn' /\ HandlersAreClean' /\ RequestKnows'
         /\ UNCHANGED users
         /\ \/ UNCHANGED <<friend, met>>
            \/ \E u, v \in Users : Inserts(u, v)
<1>1. UNCHANGED <<users, active, met>> /\ http # Idle
  BY DEF RequestInsert, Idle
<1>2. \E code \in StatusCodes : Return(code)
  BY DEF RequestInsert, OrFault, StatusCodes
<1>3. HttpTypeOK' /\ SilentUntilReturn' /\ HandlersAreClean' /\ RequestKnows'
  BY <1>1, <1>2, ReturnIsClean
<1>4. CASE UNCHANGED friend
  BY <1>1, <1>3, <1>4 DEF FriendsInv, FriendsTypeOK
<1>5. CASE /\ db = "open"
           /\ friend' = [friend EXCEPT ![<<http.from, http.to, "pending">>] = @ + 1]
  <2>1. http.from \in users /\ http.to \in users /\ http.from \in Users /\ http.to \in Users
    BY DEF FriendsInv, RequestKnows, RequestInsert, FriendsTypeOK, HttpTypeOK
  <2>2. \A r \in Rows : Between(r, http.from, http.to) => ~Present(r)
    BY <1>5 DEF FriendsInv, RequestKnows, RequestInsert
  <2>3. Inserts(http.from, http.to)
    BY <1>1, <1>5, <2>1, <2>2 DEF Inserts
  <2>4. friend' \in [Rows -> Nat]
    <3>1. <<http.from, http.to, "pending">> \in Rows
      BY <2>1 DEF Rows
    <3>. QED
      BY <1>5, <3>1 DEF FriendsInv, FriendsTypeOK
  <2>. QED
    BY <1>1, <1>3, <2>1, <2>3, <2>4 DEF FriendsInv, FriendsTypeOK
<1>. QED
  BY <1>4, <1>5 DEF RequestInsert

LEMMA ServeIsClean ==
  ASSUME FriendsInv, \E code \in StatusCodes : Serve(code), UNCHANGED <<users, active>>
  PROVE  HttpTypeOK' /\ SilentUntilReturn' /\ HandlersAreClean' /\ RequestKnows'
<1>1. PICK code \in StatusCodes : Serve(code)
  OBVIOUS
<1>2. HttpTypeOK'
  BY <1>1, ServeTypes DEF FriendsInv, FriendsTypeOK
<1>. QED
  BY <1>1, <1>2 DEF FriendsInv, SilentUntilReturn, HandlersAreClean, RequestKnows, Serve, Idle

LEMMA AcceptStep ==
  ASSUME FriendsInv, NEW u \in Users, NEW v \in Users, HandleFriendAccept(u, v)
  PROVE  /\ FriendsTypeOK' /\ SilentUntilReturn' /\ HandlersAreClean' /\ RequestKnows'
         /\ UNCHANGED users
         /\ UNCHANGED <<friend, met>> \/ Accepts(u, v)
<1>1. UNCHANGED <<users, active>> /\ \E code \in StatusCodes : Serve(code)
  BY DEF HandleFriendAccept, Refuse, OrFault, StatusCodes
<1>2. HttpTypeOK' /\ SilentUntilReturn' /\ HandlersAreClean' /\ RequestKnows'
  BY <1>1, ServeIsClean
<1>3. UNCHANGED <<friend, met>> \/ Accepts(u, v)
  BY DEF HandleFriendAccept, Accepts
<1>4. friend' \in [Rows -> Nat] /\ met' \subseteq Users \X Users
  <2>1. CASE Accepts(u, v)
    <3>1. <<u, v, "pending">> \in Rows /\ <<u, v, "accepted">> \in Rows
      BY DEF Rows
    <3>. QED
      BY <2>1, <3>1 DEF Accepts, FriendsInv, FriendsTypeOK
  <2>. QED
    BY <1>3, <2>1 DEF FriendsInv, FriendsTypeOK
<1>. QED
  BY <1>1, <1>2, <1>3, <1>4 DEF FriendsTypeOK

LEMMA RejectStep ==
  ASSUME FriendsInv, NEW u \in Users, NEW v \in Users, HandleFriendReject(u, v)
  PROVE  /\ FriendsTypeOK' /\ SilentUntilReturn' /\ HandlersAreClean' /\ RequestKnows'
         /\ UNCHANGED users
         /\ UNCHANGED <<friend, met>> \/ Deletes(u, v)
<1>1. UNCHANGED <<users, active, met>> /\ \E code \in StatusCodes : Serve(code)
  BY DEF HandleFriendReject, Refuse, OrFault, StatusCodes
<1>2. HttpTypeOK' /\ SilentUntilReturn' /\ HandlersAreClean' /\ RequestKnows'
  BY <1>1, ServeIsClean
<1>3. UNCHANGED <<friend, met>> \/ Deletes(u, v)
  BY <1>1 DEF HandleFriendReject, Deletes
<1>4. friend' \in [Rows -> Nat]
  BY <1>3 DEF Deletes, FriendsInv, FriendsTypeOK
<1>. QED
  BY <1>1, <1>2, <1>3, <1>4 DEF FriendsInv, FriendsTypeOK

LEMMA OtherSteps ==
  ASSUME FriendsInv,
         HandleLists \/ AccountsChange \/ ProcessEnds \/ UNCHANGED friendsVars
  PROVE  /\ FriendsTypeOK' /\ SilentUntilReturn' /\ HandlersAreClean' /\ RequestKnows'
         /\ users \subseteq users'
         /\ UNCHANGED <<friend, met>>
<1>1. CASE HandleLists
  BY <1>1, ServeIsClean DEF HandleLists, Refuse, OrFault, StatusCodes, FriendsInv, FriendsTypeOK
<1>2. CASE AccountsChange
  <2>1. UNCHANGED <<http, db, answer, friend, met>> /\ users \subseteq users'
        /\ users' \subseteq Users /\ active' \subseteq Users
    BY <1>2 DEF AccountsChange, FriendsInv, FriendsTypeOK, HttpTypeOK
  <2>2. FriendsTypeOK'
    BY <2>1 DEF FriendsInv, FriendsTypeOK, HttpTypeOK
  <2>3. SilentUntilReturn' /\ HandlersAreClean'
    BY <2>1 DEF FriendsInv, SilentUntilReturn, HandlersAreClean
  <2>4. RequestKnows'
    BY <2>1 DEF FriendsInv, RequestKnows, Present
  <2>. QED
    BY <2>1, <2>2, <2>3, <2>4
<1>3. CASE ProcessEnds
  <2>1. /\ UNCHANGED <<users, active, friend, met>>
        /\ http' = Idle /\ db' = "closed" /\ answer' = <<Reset>>
    BY <1>3 DEF ProcessEnds, HttpDies
  <2>2. Idle \in [pc : HandlerPcs, from : Users \cup {NoUser}, to : Users \cup {NoUser}]
    BY DEF Idle, HandlerPcs
  <2>3. FriendsTypeOK'
    BY <2>1, <2>2 DEF FriendsInv, FriendsTypeOK, HttpTypeOK
  <2>. QED
    BY <2>1, <2>3 DEF SilentUntilReturn, HandlersAreClean, RequestKnows, Idle
<1>4. CASE UNCHANGED friendsVars
  BY <1>4 DEF friendsVars, FriendsInv, FriendsTypeOK, HttpTypeOK, SilentUntilReturn,
              HandlersAreClean, RequestKnows, Present
<1>. QED
  BY <1>1, <1>2, <1>3, <1>4

\* The cases the proofs below go through.
LEMMA StepCases ==
  ASSUME FriendsInv, [FriendsNext]_friendsVars
  PROVE  /\ FriendsTypeOK' /\ SilentUntilReturn' /\ HandlersAreClean' /\ RequestKnows'
         /\ users \subseteq users'
         /\ \/ UNCHANGED <<friend, met>>
            \/ \E u, v \in Users : Inserts(u, v) \/ Accepts(u, v) \/ Deletes(u, v)
<1>1. CASE \E u, v \in Users : HandleFriendRequest(u, v)
  BY <1>1, RequestSteps DEF HandleFriendRequest
<1>2. CASE RequestCheckTo \/ RequestCheckDup
  BY <1>2, CheckSteps DEF RequestCheckTo, RequestCheckDup
<1>3. CASE RequestInsert
  BY <1>3, InsertStep
<1>4. CASE \E u, v \in Users : HandleFriendAccept(u, v)
  BY <1>4, AcceptStep
<1>5. CASE \E u, v \in Users : HandleFriendReject(u, v)
  BY <1>5, RejectStep
<1>6. CASE HandleLists \/ AccountsChange \/ ProcessEnds \/ UNCHANGED friendsVars
  BY <1>6, OtherSteps
<1>. QED
  BY <1>1, <1>2, <1>3, <1>4, <1>5, <1>6 DEF FriendsNext, FriendsHttp
-----------------------------------------------------------------------------
\* What each kind of change does to a row.

LEMMA RowsOfPair ==
  ASSUME NEW u \in Users, NEW v \in Users
  PROVE  /\ <<u, v, "pending">> \in Rows /\ <<u, v, "accepted">> \in Rows
         /\ <<u, v, "pending">> # <<u, v, "accepted">>
BY DEF Rows

LEMMA RowsAfterInsert ==
  ASSUME FriendsTypeOK, NEW u \in Users, NEW v \in Users, Inserts(u, v)
  PROVE  /\ friend[<<u, v, "pending">>] = 0 /\ friend'[<<u, v, "pending">>] = 1
         /\ \A r \in Rows : r # <<u, v, "pending">> => friend'[r] = friend[r]
<1>1. <<u, v, "pending">> \in Rows
  BY RowsOfPair
<1>2. friend[<<u, v, "pending">>] = 0
  BY <1>1 DEF Inserts, Between, Present, FriendsTypeOK
<1>. QED
  BY <1>1, <1>2 DEF Inserts, FriendsTypeOK

LEMMA RowsAfterAccept ==
  ASSUME FriendsTypeOK, OneRowPerPair, NEW u \in Users, NEW v \in Users, Accepts(u, v)
  PROVE  /\ friend[<<u, v, "pending">>] = 1 /\ friend'[<<u, v, "pending">>] = 0
         /\ friend[<<u, v, "accepted">>] = 0 /\ friend'[<<u, v, "accepted">>] = 1
         /\ \A r \in Rows :
              r \notin {<<u, v, "pending">>, <<u, v, "accepted">>} => friend'[r] = friend[r]
<1>. DEFINE p == <<u, v, "pending">>
            a == <<u, v, "accepted">>
<1>1. p \in Rows /\ a \in Rows /\ p # a
  BY RowsOfPair
<1>2. Present(p) /\ Between(a, p[1], p[2])
  BY DEF Accepts, Between
<1>3. friend[p] = 1 /\ ~Present(a)
  BY <1>1, <1>2 DEF OneRowPerPair
<1>4. friend[a] = 0
  BY <1>1, <1>3 DEF Present, FriendsTypeOK
<1>. QED
  BY <1>1, <1>3, <1>4 DEF Accepts, FriendsTypeOK

LEMMA RowsAfterDelete ==
  ASSUME FriendsTypeOK, NEW u \in Users, NEW v \in Users, Deletes(u, v)
  PROVE  \A r \in Rows : IF Between(r, u, v) THEN friend'[r] = 0 ELSE friend'[r] = friend[r]
<1>. SUFFICES ASSUME NEW r \in Rows
              PROVE  IF Between(r, u, v) THEN friend'[r] = 0 ELSE friend'[r] = friend[r]
  OBVIOUS
<1>1. friend[r] \in Nat
  BY DEF FriendsTypeOK
<1>. QED
  BY <1>1 DEF Deletes, Present

LEMMA RowsAccepted ==
  ASSUME FriendsTypeOK, OneRowPerPair, NEW u \in Users, NEW v \in Users, Accepts(u, v),
         NEW r \in Rows, Present(r)'
  PROVE  Present(r) \/ r = <<u, v, "accepted">>
<1>. DEFINE p == <<u, v, "pending">>
            a == <<u, v, "accepted">>
<1>1. friend'[p] = 0 /\ (r \notin {p, a} => friend'[r] = friend[r])
  BY RowsAfterAccept
<1>2. r # p
  BY <1>1 DEF Present
<1>. QED
  BY <1>1, <1>2 DEF Present

\* Being between two users is a relation that does not care for direction.
LEMMA BetweenSymmetric ==
  ASSUME NEW r \in Rows, NEW s \in Rows, NEW u \in Users, NEW v \in Users
  PROVE  /\ Between(r, s[1], s[2]) <=> Between(s, r[1], r[2])
         /\ Between(r, u, v) /\ Between(s, r[1], r[2]) => Between(s, u, v)
BY DEF Between, Rows
-----------------------------------------------------------------------------
(* The three invariants.                                                   *)

LEMMA OneRowPerPairStep ==
  ASSUME FriendsInv, [FriendsNext]_friendsVars
  PROVE  OneRowPerPair'
<1>. USE DEF FriendsInv
<1>1. CASE UNCHANGED friend
  BY <1>1 DEF OneRowPerPair, Present
<1>2. ASSUME NEW u \in Users, NEW v \in Users, Inserts(u, v)
      PROVE  OneRowPerPair'
  <2>. DEFINE p == <<u, v, "pending">>
  <2>. SUFFICES ASSUME NEW r \in Rows, Present(r)'
                PROVE  /\ friend'[r] = 1
                       /\ \A s \in Rows : Between(s, r[1], r[2]) /\ Present(s)' => s = r
    BY DEF OneRowPerPair, Between
  <2>1. p \in Rows /\ Between(p, u, v)
    BY RowsOfPair DEF Between
  <2>2. friend'[p] = 1 /\ \A s \in Rows : s # p => friend'[s] = friend[s]
    BY <1>2, RowsAfterInsert
  <2>3. \A s \in Rows : Between(s, u, v) /\ s # p => ~Present(s)'
    BY <1>2, <2>2 DEF Inserts, Present
  <2>4. CASE r = p
    <3>1. r[1] = u /\ r[2] = v
      BY <2>4
    <3>. QED
      BY <2>2, <2>3, <2>4, <3>1
  <2>5. CASE r # p
    <3>1. Present(r) /\ friend[r] = 1 /\ friend'[r] = 1
      BY <2>2, <2>5 DEF Present, OneRowPerPair
    <3>2. ~Between(p, r[1], r[2])
      BY <2>1, <2>3, <2>5, BetweenSymmetric DEF Between
    <3>. QED
      BY <2>2, <3>1, <3>2 DEF Present, OneRowPerPair
  <2>. QED
    BY <2>4, <2>5
<1>3. ASSUME NEW u \in Users, NEW v \in Users, Accepts(u, v)
      PROVE  OneRowPerPair'
  <2>. DEFINE p == <<u, v, "pending">>
              a == <<u, v, "accepted">>
  <2>. SUFFICES ASSUME NEW r \in Rows, Present(r)'
                PROVE  /\ friend'[r] = 1
                       /\ \A s \in Rows : Between(s, r[1], r[2]) /\ Present(s)' => s = r
    BY DEF OneRowPerPair, Between
  <2>1. p \in Rows /\ a \in Rows /\ p # a /\ Between(p, u, v) /\ Between(a, u, v)
    BY RowsOfPair DEF Between
  <2>2. /\ friend[p] = 1 /\ friend'[p] = 0 /\ friend[a] = 0 /\ friend'[a] = 1
        /\ \A s \in Rows : s \notin {p, a} => friend'[s] = friend[s]
    BY <1>3, RowsAfterAccept
  <2>3. \A s \in Rows : Between(s, u, v) /\ s # a => ~Present(s)'
    <3>1. \A s \in Rows : Between(s, u, v) /\ Present(s) => s = p
      BY <2>1, <2>2 DEF OneRowPerPair, Present
    <3>. QED
      BY <2>2, <3>1 DEF Present
  <2>4. CASE r = a
    <3>1. r[1] = u /\ r[2] = v
      BY <2>4
    <3>. QED
      BY <2>2, <2>3, <2>4, <3>1
  <2>5. CASE r # a
    <3>1. r # p /\ Present(r) /\ friend[r] = 1 /\ friend'[r] = 1
      BY <2>2, <2>5 DEF Present, OneRowPerPair
    <3>2. ~Between(a, r[1], r[2])
      BY <2>1, <2>3, <2>5, BetweenSymmetric DEF Between
    <3>. QED
      BY <2>2, <3>1, <3>2 DEF Present, OneRowPerPair
  <2>. QED
    BY <2>4, <2>5
<1>4. ASSUME NEW u \in Users, NEW v \in Users, Deletes(u, v)
      PROVE  OneRowPerPair'
  <2>1. \A r \in Rows : Present(r)' => Present(r) /\ friend'[r] = friend[r]
    BY <1>4, RowsAfterDelete DEF Present
  <2>. QED
    BY <2>1 DEF OneRowPerPair, Between
<1>. QED
  BY <1>1, <1>2, <1>3, <1>4, StepCases

LEMMA RowsHaveAccountsStep ==
  ASSUME FriendsInv, [FriendsNext]_friendsVars
  PROVE  RowsHaveAccounts'
<1>. USE DEF FriendsInv
<1>1. users \subseteq users'
  BY StepCases
<1>2. CASE UNCHANGED friend
  BY <1>1, <1>2 DEF RowsHaveAccounts, Present
<1>3. ASSUME NEW u \in Users, NEW v \in Users, Inserts(u, v)
      PROVE  RowsHaveAccounts'
  <2>1. \A r \in Rows : Present(r)' => Present(r) \/ r = <<u, v, "pending">>
    BY <1>3, RowsAfterInsert DEF Present
  <2>2. u \in users /\ v \in users
    BY <1>3 DEF Inserts
  <2>3. ASSUME NEW r \in Rows, Present(r)'
        PROVE  r[1] \in users' /\ r[2] \in users'
    <3>1. CASE Present(r)
      BY <1>1, <3>1 DEF RowsHaveAccounts
    <3>2. CASE r[1] = u /\ r[2] = v
      BY <1>1, <2>2, <3>2
    <3>. QED
      BY <2>1, <2>3, <3>1, <3>2
  <2>. QED
    BY <2>3 DEF RowsHaveAccounts
<1>4. ASSUME NEW u \in Users, NEW v \in Users, Accepts(u, v)
      PROVE  RowsHaveAccounts'
  <2>1. \A r \in Rows : Present(r)' => Present(r) \/ r = <<u, v, "accepted">>
    BY <1>4, RowsAccepted
  <2>2. u \in users /\ v \in users
    BY <1>4, RowsOfPair DEF Accepts, RowsHaveAccounts
  <2>3. ASSUME NEW r \in Rows, Present(r)'
        PROVE  r[1] \in users' /\ r[2] \in users'
    <3>1. CASE Present(r)
      BY <1>1, <3>1 DEF RowsHaveAccounts
    <3>2. CASE r[1] = u /\ r[2] = v
      BY <1>1, <2>2, <3>2
    <3>. QED
      BY <2>1, <2>3, <3>1, <3>2
  <2>. QED
    BY <2>3 DEF RowsHaveAccounts
<1>5. ASSUME NEW u \in Users, NEW v \in Users, Deletes(u, v)
      PROVE  RowsHaveAccounts'
  BY <1>1, <1>5, RowsAfterDelete DEF RowsHaveAccounts, Present
<1>. QED
  BY <1>2, <1>3, <1>4, <1>5, StepCases

LEMMA FriendsHaveMetStep ==
  ASSUME FriendsInv, [FriendsNext]_friendsVars
  PROVE  FriendsHaveMet'
<1>. USE DEF FriendsInv
<1>. DEFINE Met(r) == r[3] = "accepted" =>
                        /\ <<r[1], r[2]>> \in met' /\ <<r[2], r[1]>> \in met'
<1>1. \A r \in Rows : Present(r) /\ r[3] = "accepted" =>
        <<r[1], r[2]>> \in met /\ <<r[2], r[1]>> \in met
  BY DEF FriendsHaveMet, AcceptedRows, Between, Rows
<1>2. \A r \in Rows : Present(r)' => Met(r)
  <2>1. CASE UNCHANGED <<friend, met>>
    BY <1>1, <2>1 DEF Present
  <2>2. ASSUME NEW u \in Users, NEW v \in Users, Inserts(u, v)
        PROVE  \A r \in Rows : Present(r)' => Met(r)
    <3>1. \A r \in Rows : Present(r)' => Present(r) \/ r = <<u, v, "pending">>
      BY <2>2, RowsAfterInsert DEF Present
    <3>. QED
      BY <1>1, <2>2, <3>1 DEF Inserts
  <2>3. ASSUME NEW u \in Users, NEW v \in Users, Accepts(u, v)
        PROVE  \A r \in Rows : Present(r)' => Met(r)
    <3>1. \A r \in Rows : Present(r)' => Present(r) \/ r = <<u, v, "accepted">>
      BY <2>3, RowsAccepted
    <3>. QED
      BY <1>1, <2>3, <3>1 DEF Accepts
  <2>4. ASSUME NEW u \in Users, NEW v \in Users, Deletes(u, v)
        PROVE  \A r \in Rows : Present(r)' => Met(r)
    BY <1>1, <2>4, RowsAfterDelete DEF Deletes, Present
  <2>. QED
    BY <2>1, <2>2, <2>3, <2>4, StepCases
<1>. QED
  BY <1>2 DEF FriendsHaveMet, AcceptedRows, Between, Rows

LEMMA FriendsNextInv == FriendsInv /\ [FriendsNext]_friendsVars => FriendsInv'
BY StepCases, OneRowPerPairStep, RowsHaveAccountsStep, FriendsHaveMetStep DEF FriendsInv

\* FriendsInv holds at the start and every step keeps it.
THEOREM FriendsInvariant == FriendsSpec => []FriendsInv
<1>1. FriendsInit => FriendsInv
  <2>. SUFFICES ASSUME FriendsInit PROVE FriendsInv
    OBVIOUS
  <2>1. \A r \in Rows : ~Present(r)
    BY DEF FriendsInit, Present
  <2>2. SilentUntilReturn /\ HandlersAreClean /\ RequestKnows
    BY DEF FriendsInit, HttpInit, Idle, SilentUntilReturn, HandlersAreClean, RequestKnows
  <2>. QED
    BY <2>1, <2>2, InitTypes
       DEF FriendsInv, OneRowPerPair, RowsHaveAccounts, FriendsHaveMet, AcceptedRows
<1>. QED
  BY <1>1, FriendsNextInv, PTL DEF FriendsSpec

\* For any users and any faults, the table, the thread and the answers keep their types.
THEOREM FriendsTypeCorrect == FriendsSpec => []FriendsTypeOK
BY FriendsInvariant, PTL DEF FriendsInv

\* No two rows for a pair of users, although the schema may allow them: for any users,
\* any faults, any point at which the process dies (friend.c:76-119).
THEOREM NeverTwoRows == FriendsSpec => []OneRowPerPair
BY FriendsInvariant, PTL DEF FriendsInv

\* Both users of a row have an account (friend.c:30-74), and an accepted row was accepted
\* by handle_friend_accept (friend.c:127-164).
THEOREM RowsAreEarned == FriendsSpec => [](RowsHaveAccounts /\ FriendsHaveMet)
BY FriendsInvariant, PTL DEF FriendsInv

\* Every return path of the handlers closes the connection and answers once.
THEOREM FriendHandlersAreClean == FriendsSpec => []HandlersAreClean
BY FriendsInvariant, PTL DEF FriendsInv
-----------------------------------------------------------------------------
(* The table implements the abstract relation of module Friendship.        *)

\* A pair is in the relation exactly when its row is in the table.
RowsArePairs ==
  /\ Asked \subseteq Users \X Users /\ Befriended \subseteq Users \X Users
  /\ \A x, y \in Users :
       /\ <<x, y>> \in Asked <=> Present(<<x, y, "pending">>)
       /\ <<x, y>> \in Befriended <=> Present(<<x, y, "accepted">>)

LEMMA PairsOfRows == RowsArePairs
<1>1. \A r \in Rows : r = <<r[1], r[2], r[3]>> /\ r[1] \in Users /\ r[2] \in Users
  BY DEF Rows
<1>2. \A x, y \in Users : <<x, y, "pending">> \in Rows /\ <<x, y, "accepted">> \in Rows
  BY DEF Rows
<1>3. Asked \subseteq Users \X Users /\ Befriended \subseteq Users \X Users
  BY <1>1 DEF Asked, Befriended
<1>4. ASSUME NEW x \in Users, NEW y \in Users
      PROVE  <<x, y>> \in Asked <=> Present(<<x, y, "pending">>)
  <2>1. ASSUME <<x, y>> \in Asked PROVE Present(<<x, y, "pending">>)
    <3>1. PICK r \in Rows : Present(r) /\ r[3] = "pending" /\ <<x, y>> = <<r[1], r[2]>>
      BY <2>1 DEF Asked
    <3>2. r = <<x, y, "pending">>
      BY <1>1, <3>1
    <3>. QED
      BY <3>1, <3>2
  <2>2. ASSUME Present(<<x, y, "pending">>) PROVE <<x, y>> \in Asked
    <3>. DEFINE r == <<x, y, "pending">>
    <3>1. r \in Rows /\ Present(r) /\ r[3] = "pending" /\ <<x, y>> = <<r[1], r[2]>>
      BY <1>2, <2>2
    <3>. QED
      BY <3>1 DEF Asked
  <2>. QED
    BY <2>1, <2>2
<1>5. ASSUME NEW x \in Users, NEW y \in Users
      PROVE  <<x, y>> \in Befriended <=> Present(<<x, y, "accepted">>)
  <2>1. ASSUME <<x, y>> \in Befriended PROVE Present(<<x, y, "accepted">>)
    <3>1. PICK r \in Rows : Present(r) /\ r[3] = "accepted" /\ <<x, y>> = <<r[1], r[2]>>
      BY <2>1 DEF Befriended
    <3>2. r = <<x, y, "accepted">>
      BY <1>1, <3>1
    <3>. QED
      BY <3>1, <3>2
  <2>2. ASSUME Present(<<x, y, "accepted">>) PROVE <<x, y>> \in Befriended
    <3>. DEFINE r == <<x, y, "accepted">>
    <3>1. r \in Rows /\ Present(r) /\ r[3] = "accepted" /\ <<x, y>> = <<r[1], r[2]>>
      BY <1>2, <2>2
    <3>. QED
      BY <3>1 DEF Befriended
  <2>. QED
    BY <2>1, <2>2
<1>. QED
  BY <1>3, <1>4, <1>5 DEF RowsArePairs

LEMMA PairsOfRowsNext == RowsArePairs'
BY PairsOfRows, PTL

LEMMA SamePairs ==
  ASSUME NEW A, NEW B, A \subseteq Users \X Users, B \subseteq Users \X Users,
         \A x, y \in Users : <<x, y>> \in A <=> <<x, y>> \in B
  PROVE  A = B
<1>1. \A c \in Users \X Users : c = <<c[1], c[2]>> /\ c[1] \in Users /\ c[2] \in Users
  OBVIOUS
<1>2. ASSUME NEW c \in Users \X Users
      PROVE  c \in A <=> c \in B
  <2>1. PICK x \in Users, y \in Users : c = <<x, y>>
    BY <1>1
  <2>. QED
    BY <2>1
<1>. QED
  BY <1>2

LEMMA RowNames ==
  ASSUME NEW x \in Users, NEW y \in Users, NEW u \in Users, NEW v \in Users
  PROVE  /\ <<x, y, "pending">> \in Rows /\ <<x, y, "accepted">> \in Rows
         /\ <<x, y, "pending">> # <<u, v, "accepted">>
         /\ <<x, y, "accepted">> # <<u, v, "pending">>
         /\ <<x, y, "pending">> = <<u, v, "pending">> <=> <<x, y>> = <<u, v>>
         /\ <<x, y, "accepted">> = <<u, v, "accepted">> <=> <<x, y>> = <<u, v>>
         /\ Between(<<x, y, "pending">>, u, v) <=> <<x, y>> \in {<<u, v>>, <<v, u>>}
         /\ Between(<<x, y, "accepted">>, u, v) <=> <<x, y>> \in {<<u, v>>, <<v, u>>}
BY DEF Rows, Between

LEMMA PairOfRow ==
  ASSUME NEW x \in Users, NEW y \in Users
  PROVE  /\ <<x, y>> \in Asked <=> Present(<<x, y, "pending">>)
         /\ <<x, y>> \in Befriended <=> Present(<<x, y, "accepted">>)
BY PairsOfRows DEF RowsArePairs

LEMMA RelationsInUsers == Asked \subseteq Users \X Users /\ Befriended \subseteq Users \X Users
BY PairsOfRows DEF RowsArePairs

\* The relations after a step, from what the step does to the row of each pair.
LEMMA AskedAfter ==
  ASSUME NEW S, S \subseteq Users \X Users,
         \A x, y \in Users : Present(<<x, y, "pending">>)' <=> <<x, y>> \in S
  PROVE  Asked' = S
<1>1. ASSUME NEW x \in Users, NEW y \in Users
      PROVE  <<x, y>> \in Asked' <=> <<x, y>> \in S
  BY PairsOfRowsNext DEF RowsArePairs
<1>2. Asked' \subseteq Users \X Users
  BY PairsOfRowsNext DEF RowsArePairs
<1>. QED
  BY <1>1, <1>2, SamePairs

LEMMA BefriendedAfter ==
  ASSUME NEW S, S \subseteq Users \X Users,
         \A x, y \in Users : Present(<<x, y, "accepted">>)' <=> <<x, y>> \in S
  PROVE  Befriended' = S
<1>1. ASSUME NEW x \in Users, NEW y \in Users
      PROVE  <<x, y>> \in Befriended' <=> <<x, y>> \in S
  BY PairsOfRowsNext DEF RowsArePairs
<1>2. Befriended' \subseteq Users \X Users
  BY PairsOfRowsNext DEF RowsArePairs
<1>. QED
  BY <1>1, <1>2, SamePairs

LEMMA InsertIsAsk ==
  ASSUME FriendsInv, NEW u \in Users, NEW v \in Users, Inserts(u, v)
  PROVE  Abstract!Ask(u, v)
<1>. DEFINE p == <<u, v, "pending">>
<1>1. friend'[p] = 1 /\ \A r \in Rows : r # p => friend'[r] = friend[r]
  BY RowsAfterInsert DEF FriendsInv
<1>2. ~Abstract!Related(u, v)
  <2>1. /\ ~Present(<<u, v, "pending">>) /\ ~Present(<<u, v, "accepted">>)
        /\ ~Present(<<v, u, "pending">>) /\ ~Present(<<v, u, "accepted">>)
    BY RowNames DEF Inserts
  <2>. QED
    BY <2>1, PairOfRow DEF Abstract!Related
<1>3. Asked' = (Asked \cup {<<u, v>>})
  <2>1. ASSUME NEW x \in Users, NEW y \in Users
        PROVE  Present(<<x, y, "pending">>)' <=> <<x, y>> \in (Asked \cup {<<u, v>>})
    <3>. DEFINE r == <<x, y, "pending">>
    <3>1. <<x, y>> \in Asked <=> Present(r)
      BY PairOfRow
    <3>2. r \in Rows /\ (r = p <=> <<x, y>> = <<u, v>>)
      BY RowNames
    <3>3. Present(r)' <=> Present(r) \/ r = p
      BY <1>1, <3>2 DEF Present
    <3>. QED
      BY <3>1, <3>2, <3>3
  <2>2. (Asked \cup {<<u, v>>}) \subseteq Users \X Users
    BY RelationsInUsers
  <2>. QED
    BY <2>1, <2>2, AskedAfter
<1>4. Befriended' = Befriended
  <2>1. ASSUME NEW x \in Users, NEW y \in Users
        PROVE  Present(<<x, y, "accepted">>)' <=> <<x, y>> \in Befriended
    <3>. DEFINE r == <<x, y, "accepted">>
    <3>1. <<x, y>> \in Befriended <=> Present(r)
      BY PairOfRow
    <3>2. r \in Rows /\ r # p
      BY RowNames
    <3>3. Present(r)' <=> Present(r)
      BY <1>1, <3>2 DEF Present
    <3>. QED
      BY <3>1, <3>2, <3>3
  <2>2. Befriended \subseteq Users \X Users
    BY RelationsInUsers
  <2>. QED
    BY <2>1, <2>2, BefriendedAfter
<1>. QED
  BY <1>2, <1>3, <1>4 DEF Abstract!Ask

LEMMA AcceptIsAccept ==
  ASSUME FriendsInv, NEW u \in Users, NEW v \in Users, Accepts(u, v)
  PROVE  Abstract!Accept(u, v)
<1>. DEFINE p == <<u, v, "pending">>
            a == <<u, v, "accepted">>
<1>1. /\ friend'[p] = 0 /\ friend'[a] = 1
      /\ \A r \in Rows : r \notin {p, a} => friend'[r] = friend[r]
  BY RowsAfterAccept DEF FriendsInv
<1>2. <<u, v>> \in Asked
  BY PairOfRow DEF Accepts
<1>3. Asked' = (Asked \ {<<u, v>>})
  <2>1. ASSUME NEW x \in Users, NEW y \in Users
        PROVE  Present(<<x, y, "pending">>)' <=> <<x, y>> \in (Asked \ {<<u, v>>})
    <3>. DEFINE r == <<x, y, "pending">>
    <3>1. <<x, y>> \in Asked <=> Present(r)
      BY PairOfRow
    <3>2. r \in Rows /\ r # a /\ (r = p <=> <<x, y>> = <<u, v>>)
      BY RowNames
    <3>3. Present(r)' <=> Present(r) /\ r # p
      BY <1>1, <3>2 DEF Present
    <3>. QED
      BY <3>1, <3>2, <3>3
  <2>2. (Asked \ {<<u, v>>}) \subseteq Users \X Users
    BY RelationsInUsers
  <2>. QED
    BY <2>1, <2>2, AskedAfter
<1>4. Befriended' = (Befriended \cup {<<u, v>>})
  <2>1. ASSUME NEW x \in Users, NEW y \in Users
        PROVE  Present(<<x, y, "accepted">>)' <=> <<x, y>> \in (Befriended \cup {<<u, v>>})
    <3>. DEFINE r == <<x, y, "accepted">>
    <3>1. <<x, y>> \in Befriended <=> Present(r)
      BY PairOfRow
    <3>2. r \in Rows /\ r # p /\ (r = a <=> <<x, y>> = <<u, v>>)
      BY RowNames
    <3>3. Present(r)' <=> Present(r) \/ r = a
      BY <1>1, <3>2 DEF Present
    <3>. QED
      BY <3>1, <3>2, <3>3
  <2>2. (Befriended \cup {<<u, v>>}) \subseteq Users \X Users
    BY RelationsInUsers
  <2>. QED
    BY <2>1, <2>2, BefriendedAfter
<1>. QED
  BY <1>2, <1>3, <1>4 DEF Abstract!Accept

LEMMA DeleteIsPart ==
  ASSUME FriendsInv, NEW u \in Users, NEW v \in Users, Deletes(u, v)
  PROVE  Abstract!Part(u, v)
<1>1. \A r \in Rows : IF Between(r, u, v) THEN friend'[r] = 0 ELSE friend'[r] = friend[r]
  BY RowsAfterDelete DEF FriendsInv
<1>2. Abstract!Related(u, v)
  <2>1. PICK r \in Rows : Between(r, u, v) /\ Present(r)
    BY DEF Deletes
  <2>2. <<r[1], r[2]>> \in Asked \cup Befriended
    BY <2>1 DEF Asked, Befriended, Rows
  <2>. QED
    BY <2>1, <2>2 DEF Between, Abstract!Related
<1>3. Asked' = (Asked \ {<<u, v>>, <<v, u>>})
  <2>1. ASSUME NEW x \in Users, NEW y \in Users
        PROVE  Present(<<x, y, "pending">>)' <=> <<x, y>> \in (Asked \ {<<u, v>>, <<v, u>>})
    <3>. DEFINE r == <<x, y, "pending">>
    <3>1. <<x, y>> \in Asked <=> Present(r)
      BY PairOfRow
    <3>2. r \in Rows /\ (Between(r, u, v) <=> <<x, y>> \in {<<u, v>>, <<v, u>>})
      BY RowNames
    <3>3. Present(r)' <=> Present(r) /\ ~Between(r, u, v)
      BY <1>1, <3>2 DEF Present
    <3>. QED
      BY <3>1, <3>2, <3>3
  <2>2. (Asked \ {<<u, v>>, <<v, u>>}) \subseteq Users \X Users
    BY RelationsInUsers
  <2>. QED
    BY <2>1, <2>2, AskedAfter
<1>4. Befriended' = (Befriended \ {<<u, v>>, <<v, u>>})
  <2>1. ASSUME NEW x \in Users, NEW y \in Users
        PROVE  Present(<<x, y, "accepted">>)' <=> <<x, y>> \in (Befriended \ {<<u, v>>, <<v, u>>})
    <3>. DEFINE r == <<x, y, "accepted">>
    <3>1. <<x, y>> \in Befriended <=> Present(r)
      BY PairOfRow
    <3>2. r \in Rows /\ (Between(r, u, v) <=> <<x, y>> \in {<<u, v>>, <<v, u>>})
      BY RowNames
    <3>3. Present(r)' <=> Present(r) /\ ~Between(r, u, v)
      BY <1>1, <3>2 DEF Present
    <3>. QED
      BY <3>1, <3>2, <3>3
  <2>2. (Befriended \ {<<u, v>>, <<v, u>>}) \subseteq Users \X Users
    BY RelationsInUsers
  <2>. QED
    BY <2>1, <2>2, BefriendedAfter
<1>. QED
  BY <1>2, <1>3, <1>4 DEF Abstract!Part

\* Every behaviour of the handlers on the table is one of the abstract relation: requests,
\* acceptances of that very request, removals of both directions (friend.c:109-200).
THEOREM FriendsImplementFriendship == FriendsSpec => ImplementsFriendship
<1>1. FriendsInit => Abstract!Init
  BY DEF FriendsInit, Abstract!Init, Asked, Befriended, Present
<1>2. FriendsInv /\ [FriendsNext]_friendsVars => [Abstract!Next]_(Abstract!relVars)
  <2>. SUFFICES ASSUME FriendsInv, [FriendsNext]_friendsVars
                PROVE  Abstract!Next \/ UNCHANGED Abstract!relVars
    OBVIOUS
  <2>1. CASE UNCHANGED <<friend, met>>
    BY <2>1 DEF Abstract!relVars, Asked, Befriended, Present
  <2>2. ASSUME NEW u \in Users, NEW v \in Users,
               Inserts(u, v) \/ Accepts(u, v) \/ Deletes(u, v)
        PROVE  Abstract!Next
    BY <2>2, InsertIsAsk, AcceptIsAccept, DeleteIsPart DEF Abstract!Next
  <2>. QED
    BY <2>1, <2>2, StepCases
<1>. QED
  BY <1>1, <1>2, FriendsInvariant, PTL DEF FriendsSpec, ImplementsFriendship, Abstract!Spec
=============================================================================
