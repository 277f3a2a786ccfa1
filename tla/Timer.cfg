CONSTANTS
  Clients = {c1, c2}
  Addresses = {a1}
  Nobody = Nobody
SPECIFICATION TimerSpec
INVARIANT BoomReachesAsker
CHECK_DEADLOCK FALSE
