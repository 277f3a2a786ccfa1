-------------------------------- MODULE Rooms ---------------------------------
(***************************************************************************)
(* What chat_room.c and save_message promise to two users, with no id, no   *)
(* query and no thread: once they have met, they may get a room; it is      *)
(* theirs for good; what one of them writes stays in it; and nobody else    *)
(* ever writes there.                                                      *)
(***************************************************************************)
CONSTANT Users

VARIABLES known,    \* {u, v}: they have been friends
          open,     \* {u, v}: they have a room
          posted    \* who has written in whose room

talkVars == <<known, open, posted>>

Init == known = {} /\ open = {} /\ posted = {}

Meet(u, v) ==
  /\ known' = known \cup {{u, v}}
  /\ UNCHANGED <<open, posted>>

Open(u, v) ==
  /\ {u, v} \in known \ open
  /\ open' = open \cup {{u, v}}
  /\ UNCHANGED <<known, posted>>

Post(u, v) ==
  /\ {u, v} \in open
  /\ posted' = posted \cup {[room |-> {u, v}, sender |-> u]}
  /\ UNCHANGED <<known, open>>

Next == \E u, v \in Users : Meet(u, v) \/ Open(u, v) \/ Post(u, v)

Spec == Init /\ [][Next]_talkVars
=============================================================================
