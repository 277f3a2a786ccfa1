----------------------------- MODULE MCChatRooms ------------------------------
\* Instances of ChatRooms for TLC.
EXTENDS ChatRooms

\* Two users who name each other, and one who also names himself.
CouplesAndSelf == {<<1, 2>>, <<2, 1>>, <<1, 1>>}
=============================================================================
