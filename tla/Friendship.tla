------------------------------ MODULE Friendship ------------------------------
(***************************************************************************)
(* What friend.c promises about a pair of users, with no table, no query    *)
(* and no thread: a friendship starts as a request of one to the other,     *)
(* becomes mutual when that request is accepted, and ends for both at once. *)
(* Two users are never related twice.                                      *)
(***************************************************************************)
CONSTANT Users

VARIABLES asked,     \* <<u, v>>: u has asked v
          friends    \* <<u, v>>: they are friends, u had asked

relVars == <<asked, friends>>

Related(u, v) == {<<u, v>>, <<v, u>>} \cap (asked \cup friends) # {}

Init == asked = {} /\ friends = {}

Ask(u, v) ==
  /\ ~Related(u, v)
  /\ asked' = asked \cup {<<u, v>>}
  /\ UNCHANGED friends

Accept(u, v) ==
  /\ <<u, v>> \in asked
  /\ asked' = asked \ {<<u, v>>}
  /\ friends' = friends \cup {<<u, v>>}

Part(u, v) ==
  /\ Related(u, v)
  /\ asked' = asked \ {<<u, v>>, <<v, u>>}
  /\ friends' = friends \ {<<u, v>>, <<v, u>>}

Next == \E u, v \in Users : Ask(u, v) \/ Accept(u, v) \/ Part(u, v)

Spec == Init /\ [][Next]_relVars
=============================================================================
