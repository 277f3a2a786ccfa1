--------------------------- MODULE HttpServerProofs ---------------------------
(***************************************************************************)
(* What the common steps of the handlers do to the types of the state that  *)
(* all of them share: an answer, a first query, one more query.            *)
(***************************************************************************)
EXTENDS HttpServer, TLAPS

USE UsersAssumption, DbFaultsAssumption

LEMMA ServeTypes ==
  ASSUME HttpTypeOK, NEW code \in StatusCodes, Serve(code), UNCHANGED <<users, active>>
  PROVE  HttpTypeOK'
BY DEF HttpTypeOK, Serve

LEMMA ReturnTypes ==
  ASSUME HttpTypeOK, NEW code \in StatusCodes, Return(code), UNCHANGED <<users, active>>
  PROVE  HttpTypeOK'
<1>1. answer' \in Seq(StatusCodes \cup {Reset})
  BY DEF HttpTypeOK, Return
<1>2. http' \in [pc : HandlerPcs, from : Users \cup {NoUser}, to : Users \cup {NoUser}]
  BY DEF Return, Idle, HandlerPcs
<1>. QED BY <1>1, <1>2 DEF HttpTypeOK, Return

LEMMA RefuseTypes ==
  ASSUME HttpTypeOK, Refuse, UNCHANGED <<users, active>>
  PROVE  HttpTypeOK'
BY ServeTypes DEF Refuse, OrFault, StatusCodes

LEMMA EnterTypes ==
  ASSUME HttpTypeOK, NEW pc \in HandlerPcs, NEW u \in Users, NEW v \in Users,
         Enter(pc, u, v), UNCHANGED <<users, active>>
  PROVE  HttpTypeOK'
BY DEF HttpTypeOK, Enter

LEMMA ContinueTypes ==
  ASSUME HttpTypeOK, NEW pc \in HandlerPcs, Continue(pc), db' \in {"open", "lost", "closed"},
         UNCHANGED <<users, active>>
  PROVE  HttpTypeOK'
BY DEF HttpTypeOK, Continue

LEMMA IdleTypes ==
  /\ Idle \in [pc : HandlerPcs, from : Users \cup {NoUser}, to : Users \cup {NoUser}]
  /\ Idle.pc = "idle" /\ Idle.from = NoUser /\ Idle.to = NoUser
BY DEF Idle, HandlerPcs
=============================================================================
