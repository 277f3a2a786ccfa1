\* Two connections at a time, of the client, of outsiders or left from before, and a
\* backlog of one; two descriptors, so that the accept in front of one connection fails
\* while the socket of the client and an outsider's connection have them.
CONSTANTS
  Fds = {1, 2}
  Conns = {1, 2}
  Backlog = 1
  SocketFaults = TRUE
SPECIFICATION TcpSpec
INVARIANTS
  TcpTypeOK
  DescriptorsAreOwned
  RepliesAreEarned
  NobodyIsForgotten
PROPERTIES
  ServedAndClosed
  CallsReturn
