-------------------------------- MODULE Timer ---------------------------------
(***************************************************************************)
(* /chat/boom.  handle_timer, on the HTTP thread, leaves the address of the *)
(* connection to a detached thread, which answers on it ten seconds later.  *)
(* mongoose frees a connection when it ends, on the HTTP thread, and the    *)
(* memory of a freed connection may be given to the next one.              *)
(***************************************************************************)
EXTENDS Naturals

CONSTANTS Clients,    \* HTTP clients; each asks for a timer at most once
          Addresses,  \* where a struct mg_connection may be
          Nobody      \* no client: owner of memory that is free

VARIABLES conns,    \* whose connection is at an address
          timers,   \* the threads that sleep: data->conn, and who asked for it
          asked,    \* history: the clients that asked for a timer
          told      \* what was written to the connection of a client

timerVars == <<conns, timers, asked, told>>

TimerInit ==
  /\ conns = [a \in Addresses |-> Nobody]
  /\ timers = {}
  /\ asked = {}
  /\ told = [c \in Clients |-> {}]
-----------------------------------------------------------------------------
Accept(c) ==
  /\ \A a \in Addresses : conns[a] # c
  /\ \E a \in Addresses : conns[a] = Nobody /\ conns' = [conns EXCEPT ![a] = c]
  /\ UNCHANGED <<timers, asked, told>>

\* The client has gone, and mongoose frees the connection.
CloseConnection(a) ==
  /\ conns[a] # Nobody
  /\ conns' = [conns EXCEPT ![a] = Nobody]
  /\ UNCHANGED <<timers, asked, told>>

\* malloc and pthread_create, of which each may fail: 500.
HandleTimer(a) ==
  LET c == conns[a] IN
    /\ c \in Clients \ asked
    /\ asked' = asked \cup {c}
    /\ \/ told' = [told EXCEPT ![c] = @ \cup {"error"}] /\ UNCHANGED timers
       \/ timers' = timers \cup {[conn |-> a, asker |-> c]} /\ UNCHANGED told
    /\ UNCHANGED conns

\* timer_thread after its sleep: mg_http_reply on whatever is at the address by now.  The
\* HTTP thread uses the same buffers without a lock, so that the answer may get lost;
\* written to freed memory, it does.
TimerFires(t) ==
  LET c == conns[t.conn] IN
    /\ timers' = timers \ {t}
    /\ told' \in {told} \cup (IF c = Nobody THEN {}
                              ELSE {[told EXCEPT ![c] = @ \cup {"boom"}]})
    /\ UNCHANGED <<conns, asked>>

TimerNext ==
  \/ \E c \in Clients : Accept(c)
  \/ \E a \in Addresses : CloseConnection(a) \/ HandleTimer(a)
  \/ \E t \in timers : TimerFires(t)

TimerSpec == TimerInit /\ [][TimerNext]_timerVars
-----------------------------------------------------------------------------
\* Expected to fail: the answer of a timer goes to the client that asked for it, as the
\* comment of self_destruct.c:45 has it, or to nobody.
BoomReachesAsker == \A c \in Clients : "boom" \in told[c] => c \in asked
=============================================================================
