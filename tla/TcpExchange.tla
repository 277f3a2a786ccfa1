----------------------------- MODULE TcpExchange ------------------------------
(***************************************************************************)
(* The TCP service on port 9001 and its client, both in this process:       *)
(* start_tcp_server accepts and hands every connection to a detached thread *)
(* that reads once, answers once and closes; send_tcp_request, on the       *)
(* WebSocket thread, opens a socket, writes, reads once and closes.  The    *)
(* two share one table of descriptors, whose numbers are used again as soon *)
(* as they are closed: a close too many would hit somebody else's           *)
(* connection.  Other programs may connect to the port as well.            *)
(***************************************************************************)
EXTENDS Naturals, Sequences

CONSTANTS Fds,            \* descriptors left for the exchanges, as numbers
          Conns,          \* names for connections that exist at the same time
          Backlog,        \* connections that wait to be accepted
          SocketFaults    \* TRUE: a call may fail although its arguments are good

ASSUME FdsAssumption == Fds \subseteq Nat \ {0}
ASSUME ConnsAssumption == Conns \subseteq Nat \ {0}
ASSUME BacklogAssumption == Backlog \in Nat
ASSUME SocketFaultsAssumption == SocketFaults \in BOOLEAN

VARIABLES fds,       \* the table of descriptors: which end of which connection
          conn,      \* the connections, as the kernel keeps them
          queue,     \* those that wait to be accepted, in order
          acceptor,  \* start_tcp_server: where it stands, and client_sock
          threads,   \* the threads that run client_handler_thread
          client     \* send_tcp_request: where it stands, its socket, its result

tcpVars == <<fds, conn, queue, acceptor, threads, client>>

NoFd == 0
NoConn == 0
FreeFd == [conn |-> NoConn, end |-> "none"]
NoLink == [client |-> "none", server |-> "none", sent |-> FALSE, read |-> FALSE,
           replied |-> FALSE]
NoCall == [pc |-> "idle", sock |-> NoFd, reply |-> "none"]

\* What send_tcp_request returns: NULL, or what one recv has read of the reply.
Replies == {"whole", "part"}

TcpTypeOK ==
  /\ fds \in [Fds -> [conn : Conns \cup {NoConn}, end : {"none", "client", "server"}]]
  /\ conn \in [Conns -> [client : {"none", "open", "closed"},
                         server : {"none", "queued", "open", "closed"},
                         sent : BOOLEAN, read : BOOLEAN, replied : BOOLEAN]]
  /\ queue \in Seq(Conns)
  /\ acceptor \in [pc : {"off", "accept", "accepted"}, sock : Fds \cup {NoFd}]
  /\ threads \subseteq [pc : {"start", "recv", "send", "close"}, sock : Fds]
  /\ client \in [pc : {"idle", "socket", "connect", "send", "recv", "done"},
                 sock : Fds \cup {NoFd}, reply : Replies \cup {"none", "null"}]

TcpInit ==
  /\ fds = [d \in Fds |-> FreeFd]
  /\ conn = [c \in Conns |-> NoLink]
  /\ queue = <<>>
  /\ acceptor = [pc |-> "off", sock |-> NoFd]
  /\ threads = {}
  /\ client = NoCall
-----------------------------------------------------------------------------
(* What the kernel does.                                                   *)

FreeFds == {d \in Fds : fds[d] = FreeFd}

\* A new descriptor has the lowest number that is free; a new connection, too, here.
LowestFd == {d \in FreeFds : \A e \in FreeFds : d <= e}
LowestConn == {c \in Conns : /\ conn[c] = NoLink
                             /\ \A b \in Conns : conn[b] = NoLink => c <= b}

\* The connection after one of its ends was closed; it is gone when both are.
Closed(r, end) ==
  CASE end = "client" /\ r.server # "closed" -> [r EXCEPT !.client = "closed"]
    [] end = "server" /\ r.client # "closed" -> [r EXCEPT !.server = "closed"]
    [] OTHER -> NoLink

\* close(d), whatever d is by now; the descriptor of nothing is an error without effect.
Close(d) ==
  /\ fds' = [fds EXCEPT ![d] = FreeFd]
  /\ conn' = IF fds[d].conn = NoConn THEN conn
             ELSE [conn EXCEPT ![fds[d].conn] = Closed(@, fds[d].end)]

\* send(d, ...): the request from one end, "Processed" from the other.
Write(d) ==
  conn' = CASE fds[d].conn = NoConn -> conn
            [] fds[d].end = "client" -> [conn EXCEPT ![fds[d].conn].sent = TRUE]
            [] OTHER -> [conn EXCEPT ![fds[d].conn].replied = TRUE]

Connect(c) ==
  /\ acceptor.pc # "off"
  /\ Len(queue) < Backlog
  /\ conn' = [conn EXCEPT ![c] = [NoLink EXCEPT !.client = "open", !.server = "queued"]]
  /\ queue' = Append(queue, c)
-----------------------------------------------------------------------------
(* send_tcp_request, one action per system call.                           *)

Returns(reply) == client' = [NoCall EXCEPT !.pc = "done", !.reply = reply]

ClientCalls ==
  /\ client.pc = "idle"
  /\ client' = [NoCall EXCEPT !.pc = "socket"]
  /\ UNCHANGED <<fds, conn, queue, acceptor, threads>>

ClientSocket ==
  /\ client.pc = "socket"
  /\ \/ /\ FreeFds = {} \/ SocketFaults
        /\ Returns("null")
        /\ UNCHANGED fds
     \/ \E d \in LowestFd :
          /\ fds' = [fds EXCEPT ![d] = [conn |-> NoConn, end |-> "client"]]
          /\ client' = [client EXCEPT !.pc = "connect", !.sock = d]
  /\ UNCHANGED <<conn, queue, acceptor, threads>>

ClientConnect_Leaks ==
  /\ client.pc = "connect"
  /\ \/ Returns("null") /\ UNCHANGED <<fds, conn, queue>>
     \/ \E c \in LowestConn :
          /\ Connect(c)
          /\ fds' = [fds EXCEPT ![client.sock] = [conn |-> c, end |-> "client"]]
          /\ client' = [client EXCEPT !.pc = "send"]
  /\ UNCHANGED <<acceptor, threads>>

\* Nobody listens, or the backlog is full until the attempt times out; or the inet_pton
\* above it failed.
ClientConnect ==
  /\ client.pc = "connect"
  /\ \/ /\ acceptor.pc = "off" \/ Len(queue) >= Backlog \/ SocketFaults
        /\ Close(client.sock)
        /\ Returns("null")
        /\ UNCHANGED queue
     \/ \E c \in LowestConn :
          /\ Connect(c)
          /\ fds' = [fds EXCEPT ![client.sock] = [conn |-> c, end |-> "client"]]
          /\ client' = [client EXCEPT !.pc = "send"]
  /\ UNCHANGED <<acceptor, threads>>

Link(d) == conn[fds[d].conn]

ClientSend ==
  /\ client.pc = "send"
  /\ \/ /\ Link(client.sock).server = "closed" \/ SocketFaults
        /\ Close(client.sock)
        /\ Returns("null")
     \/ /\ Write(client.sock)
        /\ client' = [client EXCEPT !.pc = "recv"]
        /\ UNCHANGED fds
  /\ UNCHANGED <<queue, acceptor, threads>>

\* One recv, without a timeout, until there is a byte, the end of the stream or a reset.
\* A stream may split, and a server that closes with unread bytes resets it.
ClientRecv ==
  /\ client.pc = "recv"
  /\ \/ Link(client.sock).replied /\ \E r \in Replies : Returns(r)
     \/ /\ Link(client.sock).server = "closed"
        /\ ~Link(client.sock).replied \/ SocketFaults
        /\ Returns("null")
  /\ Close(client.sock)
  /\ UNCHANGED <<queue, acceptor, threads>>

ClientReturns ==
  /\ client.pc = "done"
  /\ client' = NoCall
  /\ UNCHANGED <<fds, conn, queue, acceptor, threads>>
-----------------------------------------------------------------------------
(* start_tcp_server.  When its socket, bind or listen fails it exits the    *)
(* process, which is one of the ways in which TcpDies.                      *)

TcpListens ==
  /\ acceptor.pc = "off"
  /\ acceptor' = [acceptor EXCEPT !.pc = "accept"]
  /\ UNCHANGED <<fds, conn, queue, threads, client>>

AcceptConnection ==
  /\ acceptor.pc = "accept"
  /\ queue # <<>>
  /\ \E d \in LowestFd :
       /\ fds' = [fds EXCEPT ![d] = [conn |-> Head(queue), end |-> "server"]]
       /\ acceptor' = [pc |-> "accepted", sock |-> d]
  /\ conn' = [conn EXCEPT ![Head(queue)].server = "open"]
  /\ queue' = Tail(queue)
  /\ UNCHANGED <<threads, client>>

AcceptFails_Stops ==
  /\ acceptor.pc = "accept"
  /\ queue # <<>>
  /\ FreeFds = {}
  /\ acceptor' = [acceptor EXCEPT !.pc = "off"]
  /\ UNCHANGED <<fds, conn, queue, threads, client>>

\* Somebody waits and there is no free descriptor: logged, and tried again at once.
AcceptFails ==
  /\ acceptor.pc = "accept"
  /\ queue # <<>>
  /\ FreeFds = {}
  /\ UNCHANGED tcpVars

StartThread_EmptyArg ==
  /\ acceptor.pc = "accepted"
  /\ acceptor' = [acceptor EXCEPT !.pc = "accept"]
  /\ threads' = threads \cup {[pc |-> "start", sock |-> NoFd]}
  /\ UNCHANGED <<fds, conn, queue, client>>

StartThread_Leaks ==
  /\ acceptor.pc = "accepted"
  /\ acceptor' = [acceptor EXCEPT !.pc = "accept"]
  /\ \/ SocketFaults /\ UNCHANGED threads
     \/ threads' = threads \cup {[pc |-> "start", sock |-> acceptor.sock]}
  /\ UNCHANGED <<fds, conn, queue, client>>

\* malloc, pthread_create and pthread_detach; client_sock keeps its value.
StartThread ==
  /\ acceptor.pc = "accepted"
  /\ acceptor' = [acceptor EXCEPT !.pc = "accept"]
  /\ \/ SocketFaults /\ Close(acceptor.sock) /\ UNCHANGED threads
     \/ /\ threads' = threads \cup {[pc |-> "start", sock |-> acceptor.sock]}
        /\ UNCHANGED <<fds, conn>>
  /\ UNCHANGED <<queue, client>>

Becomes(t, pc) == threads' = (threads \ {t}) \cup {[t EXCEPT !.pc = pc]}

ThreadStarts_SharedSock(t) ==
  /\ t.pc = "start"
  /\ threads' = (threads \ {t}) \cup {[pc |-> "recv", sock |-> acceptor.sock]}
  /\ UNCHANGED <<fds, conn, queue, acceptor, client>>

\* client_handler_thread takes the number from memory of its own and frees it.
ThreadStarts(t) ==
  /\ t.pc = "start"
  /\ Becomes(t, "recv")
  /\ UNCHANGED <<fds, conn, queue, acceptor, client>>

ThreadReceives_NoReturn(t) ==
  /\ t.pc = "recv"
  /\ \/ /\ Link(t.sock).sent
        /\ conn' = [conn EXCEPT ![fds[t.sock].conn].read = TRUE]
        /\ Becomes(t, "send")
        /\ UNCHANGED fds
     \/ /\ Link(t.sock).client = "closed"
        /\ Becomes(t, "send")
        /\ UNCHANGED <<fds, conn>>
  /\ UNCHANGED <<queue, acceptor, client>>

ThreadReceives_Retries(t) ==
  /\ t.pc = "recv"
  /\ Link(t.sock).sent
  /\ conn' = [conn EXCEPT ![fds[t.sock].conn].read = TRUE]
  /\ Becomes(t, "send")
  /\ UNCHANGED <<fds, queue, acceptor, client>>

\* handle_client.  One recv, which returns some bytes of the request, or its end.
ThreadReceives(t) ==
  /\ t.pc = "recv"
  /\ \/ /\ Link(t.sock).sent
        /\ conn' = [conn EXCEPT ![fds[t.sock].conn].read = TRUE]
        /\ Becomes(t, "send")
        /\ UNCHANGED fds
     \/ /\ Link(t.sock).client = "closed"
        /\ ~Link(t.sock).sent \/ SocketFaults
        /\ Close(t.sock)
        /\ threads' = threads \ {t}
  /\ UNCHANGED <<queue, acceptor, client>>

\* The result of send is not looked at.
ThreadSends(t) ==
  /\ t.pc = "send"
  /\ Write(t.sock)
  /\ Becomes(t, "close")
  /\ UNCHANGED <<fds, queue, acceptor, client>>

ThreadCloses(t) ==
  /\ t.pc = "close"
  /\ Close(t.sock)
  /\ threads' = threads \ {t}
  /\ UNCHANGED <<queue, acceptor, client>>

ThreadStep(t) == ThreadStarts(t) \/ ThreadReceives(t) \/ ThreadSends(t) \/ ThreadCloses(t)
-----------------------------------------------------------------------------
(* Other programs, whose ends are no descriptors of this process.          *)

OutsiderConnects ==
  /\ \E c \in LowestConn : Connect(c)
  /\ UNCHANGED <<fds, acceptor, threads, client>>

Outside(c) == /\ conn[c].client = "open"
              /\ \A d \in Fds : fds[d] # [conn |-> c, end |-> "client"]

OutsiderSends(c) ==
  /\ Outside(c)
  /\ conn' = [conn EXCEPT ![c].sent = TRUE]
  /\ UNCHANGED <<fds, queue, acceptor, threads, client>>

OutsiderCloses(c) ==
  /\ Outside(c)
  /\ conn' = [conn EXCEPT ![c] = Closed(@, "client")]
  /\ UNCHANGED <<fds, queue, acceptor, threads, client>>

\* The process ends, with its threads and descriptors; the port is open no more.
TcpDies ==
  /\ fds' = [d \in Fds |-> FreeFd]
  /\ conn' = [c \in Conns |-> NoLink]
  /\ queue' = <<>>
  /\ acceptor' = [pc |-> "off", sock |-> NoFd]
  /\ threads' = {}
  /\ client' = NoCall

ClientStep == ClientSocket \/ ClientConnect \/ ClientSend \/ ClientRecv

ServerStep == \/ AcceptConnection \/ AcceptFails \/ StartThread
              \/ (\E t \in threads : ThreadStep(t))

Outsiders == OutsiderConnects \/ (\E c \in Conns : OutsiderSends(c) \/ OutsiderCloses(c))

TcpNext == \/ ClientCalls \/ ClientStep \/ ClientReturns
           \/ TcpListens \/ ServerStep \/ Outsiders \/ TcpDies

\* The steps of each thread that can be taken are taken.  Nothing makes outsiders send or
\* close, and nothing makes WebSocket frames come.
TcpFairness ==
  /\ WF_tcpVars(ClientStep)
  /\ WF_tcpVars(AcceptConnection)
  /\ WF_tcpVars(StartThread)
  /\ \A d \in Fds : WF_tcpVars(\E t \in threads : t.sock = d /\ ThreadStep(t))

TcpSpec == TcpInit /\ [][TcpNext]_tcpVars /\ TcpFairness
-----------------------------------------------------------------------------
(* Properties.                                                             *)

ClientHolds(d) == client.pc \in {"connect", "send", "recv"} /\ client.sock = d
AcceptorHolds(d) == acceptor.pc = "accepted" /\ acceptor.sock = d
ThreadHolds(d) == \E t \in threads : t.sock = d

\* Every open descriptor has exactly one owner that is still going to close it, and
\* nobody works on a descriptor that is closed or somebody else's: no leak, no double
\* close, on any path of socket_client.c:10-58 and socket_server.c:10-96, although the
\* numbers are used again and two threads of the server may start at the same time.
DescriptorsAreOwned ==
  /\ \A d \in Fds :
       /\ ClientHolds(d) <=> fds[d].end = "client"
       /\ AcceptorHolds(d) \/ ThreadHolds(d) <=> fds[d].end = "server"
       /\ ~(AcceptorHolds(d) /\ ThreadHolds(d))
  /\ \A t, u \in threads : t.sock = u.sock => t = u

\* "Processed" is on a connection only if a thread of the server has read from that very
\* connection (socket_server.c:12-23).
RepliesAreEarned ==
  \A c \in Conns : conn[c].replied => conn[c].read /\ conn[c].sent

\* Nobody who has reached the port waits for nothing.  A connection in the backlog has an
\* acceptor in front of it; one that was accepted has the acceptor or a thread, which has
\* not come to its close before it has answered; and what send_tcp_request waits for in its
\* recv, which has no timeout, is a connection on which the request was sent.  So its recv
\* ends, or somebody who is not waiting for the client has it in hand (socket_client.c:33-56,
\* socket_server.c:10-96): what CallsReturn and ServedAndClosed rest on at each moment.
NobodyIsForgotten ==
  /\ \A c \in Conns :
       /\ conn[c].server = "queued" =>
            acceptor.pc # "off" /\ \E i \in 1..Len(queue) : queue[i] = c
       /\ conn[c].server = "open" =>
            \E d \in Fds :
              /\ fds[d] = [conn |-> c, end |-> "server"]
              /\ \/ AcceptorHolds(d)
                 \/ \E t \in threads : t.sock = d /\ (t.pc = "close" => conn[c].replied)
  /\ client.pc = "recv" => Link(client.sock).sent /\ Link(client.sock).server # "none"

Waits(c, d) == fds[d] = [conn |-> c, end |-> "server"]
               /\ (conn[c].sent \/ conn[c].client = "closed")

\* send_tcp_request returns, although it waits for connect and recv without a timeout on
\* the only WebSocket thread (socket_client.c:33-56), and although the accept in front of
\* it may fail again and again for want of a descriptor (socket_server.c:71-75).  Only if
\* from some moment on no descriptor is ever free is its connection left in the backlog,
\* where nobody answers or closes it.
CallsReturn ==
  []<>(FreeFds # {}) => (client.pc = "socket" ~> client.pc \in {"done", "idle"})

\* A connection that was accepted is closed some day if its client has said something or
\* gone; one that does neither keeps its thread for good.
ServedAndClosed ==
  \A c \in Conns, d \in Fds : Waits(c, d) ~> fds[d] # [conn |-> c, end |-> "server"]
=============================================================================
