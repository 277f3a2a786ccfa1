--------------------------- MODULE TcpExchangeProofs ---------------------------
(***************************************************************************)
(* Descriptors of TcpExchange have one owner each, and replies are earned,  *)
(* for any number of descriptors and connections and any backlog.  The      *)
(* invariant IInv adds to the properties which end of which connection a    *)
(* descriptor may be (Linked), what waits in the backlog (Queued), and what *)
(* a thread that is about to answer has read (Earned).  That nobody who     *)
(* waits is forgotten is a second invariant on top of it, Attended.         *)
(***************************************************************************)
EXTENDS TcpExchange, SequenceTheorems, TLAPS

USE FdsAssumption, ConnsAssumption, BacklogAssumption, SocketFaultsAssumption

FdType == [conn : Conns \cup {NoConn}, end : {"none", "client", "server"}]
LinkType == [client : {"none", "open", "closed"},
             server : {"none", "queued", "open", "closed"},
             sent : BOOLEAN, read : BOOLEAN, replied : BOOLEAN]

\* A descriptor is an open end of a connection, which has no other descriptor for it.
Linked ==
  /\ \A d \in Fds : fds[d].end = "none" => fds[d].conn = NoConn
  /\ \A d \in Fds : fds[d].end = "server" =>
       fds[d].conn # NoConn /\ conn[fds[d].conn].server = "open"
  /\ \A d \in Fds : fds[d].end = "client" /\ fds[d].conn # NoConn =>
       conn[fds[d].conn].client = "open"
  /\ \A d, e \in Fds : fds[d] = fds[e] /\ fds[d].conn # NoConn => d = e

\* Who works on a descriptor has one, and the client has a connection when it uses it.
Holding ==
  /\ client.pc \in {"connect", "send", "recv"} => client.sock \in Fds
  /\ client.pc \in {"send", "recv"} => fds[client.sock].conn # NoConn
  /\ acceptor.pc = "accepted" => acceptor.sock \in Fds

\* The backlog holds connections that were not accepted, each once.
Queued ==
  /\ \A i \in 1..Len(queue) : conn[queue[i]].server = "queued"
  /\ \A i, j \in 1..Len(queue) : queue[i] = queue[j] => i = j

Earned ==
  \A t \in threads : t.pc = "send" =>
    conn[fds[t.sock].conn].read /\ conn[fds[t.sock].conn].sent

IInv == TcpTypeOK /\ DescriptorsAreOwned /\ Linked /\ Holding /\ Queued /\ Earned
        /\ RepliesAreEarned
-----------------------------------------------------------------------------
(* The kernel's operations.                                                *)

LEMMA Types ==
  ASSUME TcpTypeOK
  PROVE  /\ fds \in [Fds -> FdType]
         /\ conn \in [Conns -> LinkType]
         /\ \A d \in Fds : fds[d] \in FdType /\ fds[d].conn \in Conns \cup {NoConn}
                           /\ fds[d].end \in {"none", "client", "server"}
         /\ \A c \in Conns : conn[c] \in LinkType
         /\ 0 \notin Conns /\ 0 \notin Fds
BY DEF TcpTypeOK, FdType, LinkType

LEMMA ClosedLink ==
  ASSUME NEW r \in LinkType
  PROVE  /\ r.server # "closed" => Closed(r, "client") = [r EXCEPT !.client = "closed"]
         /\ r.server = "closed" => Closed(r, "client") = NoLink
         /\ r.client # "closed" => Closed(r, "server") = [r EXCEPT !.server = "closed"]
         /\ r.client = "closed" => Closed(r, "server") = NoLink
         /\ NoLink \in LinkType
         /\ [r EXCEPT !.client = "closed"] \in LinkType
         /\ [r EXCEPT !.server = "closed"] \in LinkType
BY DEF Closed, NoLink, LinkType

\* What close leaves of the other descriptors, the connections and the backlog.
LEMMA CloseKeeps ==
  ASSUME TcpTypeOK, Linked, RepliesAreEarned, NEW d \in Fds,
         fds[d].end \in {"client", "server"}, Close(d)
  PROVE  /\ fds' \in [Fds -> FdType] /\ conn' \in [Conns -> LinkType]
         /\ fds'[d] = FreeFd
         /\ \A e \in Fds : e # d => fds'[e] = fds[e]
         /\ Linked' /\ RepliesAreEarned'
         /\ \A c \in Conns : conn[c].server = "queued" => conn'[c].server = "queued"
         /\ \A e \in Fds : e # d /\ fds[e].end = "server" =>
              /\ conn'[fds[e].conn].read = conn[fds[e].conn].read
              /\ conn'[fds[e].conn].sent = conn[fds[e].conn].sent
<1>. DEFINE c == fds[d].conn
<1>1. /\ fds \in [Fds -> FdType] /\ conn \in [Conns -> LinkType] /\ c \in Conns \cup {NoConn}
      /\ \A e \in Fds : fds[e] \in FdType /\ fds[e].conn \in Conns \cup {NoConn}
                        /\ fds[e].end \in {"none", "client", "server"}
      /\ \A b \in Conns : conn[b] \in LinkType
      /\ 0 \notin Conns
  BY Types
<1>2. FreeFd \in FdType /\ FreeFd.end = "none" /\ FreeFd.conn = NoConn
  BY DEF FreeFd, FdType
<1>3. /\ fds' \in [Fds -> FdType] /\ fds'[d] = FreeFd
      /\ \A e \in Fds : e # d => fds'[e] = fds[e]
  BY <1>1, <1>2 DEF Close
<1>4. CASE c = NoConn
  <2>1. conn' = conn
    BY <1>4 DEF Close
  <2>2. Linked'
    BY <1>2, <1>3, <2>1 DEF Linked
  <2>. QED BY <1>1, <1>3, <2>1, <2>2 DEF RepliesAreEarned
<1>5. CASE c # NoConn
  <2>1. c \in Conns /\ conn[c] \in LinkType
    BY <1>1, <1>5
  <2>2. conn' = [conn EXCEPT ![c] = Closed(conn[c], fds[d].end)]
    BY <1>5 DEF Close
  <2>. DEFINE r == Closed(conn[c], fds[d].end)
  <2>a. LET x == conn[c] IN
        /\ x.server # "closed" => Closed(x, "client") = [x EXCEPT !.client = "closed"]
        /\ x.server = "closed" => Closed(x, "client") = NoLink
        /\ x.client # "closed" => Closed(x, "server") = [x EXCEPT !.server = "closed"]
        /\ x.client = "closed" => Closed(x, "server") = NoLink
        /\ NoLink \in LinkType
        /\ [x EXCEPT !.client = "closed"] \in LinkType
        /\ [x EXCEPT !.server = "closed"] \in LinkType
    BY <2>1, ClosedLink
  <2>3. r \in LinkType
    BY <2>a
  <2>4. /\ conn' \in [Conns -> LinkType] /\ conn'[c] = r
        /\ \A b \in Conns : b # c => conn'[b] = conn[b]
    <3>. HIDE DEF r
    <3>. QED BY <1>1, <2>1, <2>2, <2>3 DEF r
  <2>5. \A e \in Fds : e # d /\ fds[e].end = fds[d].end => fds[e].conn # c
    BY <1>1, <1>5 DEF Linked, FdType
  <2>6. ASSUME fds[d].end = "client"
        PROVE  /\ conn[c].server # "closed" =>
                    /\ r.server = conn[c].server /\ r.read = conn[c].read
                    /\ r.sent = conn[c].sent /\ r.replied = conn[c].replied
               /\ conn[c].server = "closed" => ~r.replied
    <3>1. conn[c].server # "closed" => r = [conn[c] EXCEPT !.client = "closed"]
      BY <2>6, <2>a
    <3>2. conn[c].server = "closed" => r = NoLink
      BY <2>6, <2>a
    <3>. HIDE DEF r
    <3>. QED BY <2>1, <3>1, <3>2 DEF LinkType, NoLink
  <2>7. ASSUME fds[d].end = "server"
        PROVE  /\ conn[c].server = "open"
               /\ conn[c].client = "closed" => ~r.replied
               /\ conn[c].client # "closed" =>
                    /\ r.client = conn[c].client /\ r.read = conn[c].read
                    /\ r.sent = conn[c].sent /\ r.replied = conn[c].replied
    <3>1. conn[c].client # "closed" => r = [conn[c] EXCEPT !.server = "closed"]
      BY <2>7, <2>a
    <3>2. conn[c].client = "closed" => r = NoLink
      BY <2>7, <2>a
    <3>3. conn[c].server = "open"
      BY <2>7 DEF Linked
    <3>. HIDE DEF r
    <3>. QED BY <2>1, <3>1, <3>2, <3>3 DEF LinkType, NoLink
  <2>. HIDE DEF r
  <2>8. RepliesAreEarned'
    BY <2>1, <2>4, <2>6, <2>7 DEF RepliesAreEarned
  <2>9. \A b \in Conns : conn[b].server = "queued" => conn'[b].server = "queued"
    BY <2>1, <2>4, <2>6, <2>7
  <2>10. \A e \in Fds : e # d /\ fds[e].end = "server" =>
           /\ conn'[fds[e].conn].server = "open"
           /\ conn'[fds[e].conn].read = conn[fds[e].conn].read
           /\ conn'[fds[e].conn].sent = conn[fds[e].conn].sent
    <3>. SUFFICES ASSUME NEW e \in Fds, e # d, fds[e].end = "server"
                  PROVE  /\ conn'[fds[e].conn].server = "open"
                         /\ conn'[fds[e].conn].read = conn[fds[e].conn].read
                         /\ conn'[fds[e].conn].sent = conn[fds[e].conn].sent
      OBVIOUS
    <3>1. fds[e].conn \in Conns /\ conn[fds[e].conn].server = "open"
      BY <1>1 DEF Linked
    <3>. QED BY <2>4, <2>5, <2>6, <3>1
  <2>11. \A e \in Fds : e # d /\ fds[e].end = "client" /\ fds[e].conn # NoConn =>
           conn'[fds[e].conn].client = "open"
    <3>. SUFFICES ASSUME NEW e \in Fds, e # d, fds[e].end = "client", fds[e].conn # NoConn
                  PROVE  conn'[fds[e].conn].client = "open"
      OBVIOUS
    <3>1. fds[e].conn \in Conns /\ conn[fds[e].conn].client = "open"
      BY <1>1 DEF Linked
    <3>. QED BY <2>4, <2>5, <2>7, <3>1
  <2>12. Linked'
    <3>1. \A e \in Fds : fds'[e].end # "none" => e # d /\ fds'[e] = fds[e]
      BY <1>2, <1>3
    <3>2. \A e \in Fds : fds'[e].conn # NoConn => e # d /\ fds'[e] = fds[e]
      BY <1>2, <1>3
    <3>3. \A e \in Fds : fds'[e].end = "none" => fds'[e].conn = NoConn
      <4>. SUFFICES ASSUME NEW e \in Fds, fds'[e].end = "none"
                    PROVE  fds'[e].conn = NoConn
        OBVIOUS
      <4>1. CASE e = d
        BY <1>2, <1>3, <4>1
      <4>2. CASE e # d
        <5>1. fds'[e] = fds[e]
          BY <1>2, <1>3, <4>2
        <5>. QED BY <5>1 DEF Linked
      <4>. QED BY <4>1, <4>2
    <3>4. \A e, g \in Fds : fds'[e] = fds'[g] /\ fds'[e].conn # NoConn => e = g
      BY <3>2 DEF Linked
    <3>5. \A e \in Fds : fds'[e].end = "server" =>
            fds'[e].conn # NoConn /\ conn'[fds'[e].conn].server = "open"
      BY <2>10, <3>1 DEF Linked
    <3>6. \A e \in Fds : fds'[e].end = "client" /\ fds'[e].conn # NoConn =>
            conn'[fds'[e].conn].client = "open"
      BY <2>11, <3>1
    <3>. QED BY <3>3, <3>4, <3>5, <3>6 DEF Linked
  <2>. QED BY <1>3, <2>4, <2>8, <2>9, <2>10, <2>12
<1>. QED BY <1>4, <1>5
-----------------------------------------------------------------------------
(* The backlog.                                                            *)

LEMMA WhatWaits ==
  ASSUME IInv
  PROVE  /\ \A i \in 1..Len(queue) : queue[i] \in Conns
         /\ Len(queue) \in Nat
         /\ queue # <<>> => /\ Head(queue) \in Conns /\ Head(queue) = queue[1]
                            /\ conn[Head(queue)].server = "queued"
                            /\ 1 \in 1..Len(queue)
BY DEF IInv, TcpTypeOK, Queued

\* A backlog whose connections are still queued is as it was.
LEMMA QueueStays ==
  ASSUME IInv, queue' = queue,
         \A c \in Conns : conn[c].server = "queued" => conn'[c].server = "queued"
  PROVE  Queued'
BY WhatWaits DEF IInv, Queued
-----------------------------------------------------------------------------
(* send_tcp_request.                                                       *)

\* On every path that ends behind connect: the socket is closed.
LEMMA ClientLeaves ==
  ASSUME IInv, client.pc \in {"connect", "send", "recv"}, Close(client.sock),
         NEW reply \in Replies \cup {"null"}, Returns(reply),
         UNCHANGED <<queue, acceptor, threads>>
  PROVE  IInv'
<1>. USE DEF IInv
<1>. DEFINE s == client.sock
<1>1. s \in Fds /\ fds[s].end = "client"
  BY DEF Holding, DescriptorsAreOwned, ClientHolds
<1>2. /\ fds' \in [Fds -> FdType] /\ conn' \in [Conns -> LinkType]
      /\ fds'[s] = FreeFd
      /\ \A e \in Fds : e # s => fds'[e] = fds[e]
      /\ Linked' /\ RepliesAreEarned'
      /\ \A c \in Conns : conn[c].server = "queued" => conn'[c].server = "queued"
      /\ \A e \in Fds : e # s /\ fds[e].end = "server" =>
           /\ conn'[fds[e].conn].read = conn[fds[e].conn].read
           /\ conn'[fds[e].conn].sent = conn[fds[e].conn].sent
  BY <1>1, CloseKeeps
<1>3. client' = [pc |-> "done", sock |-> NoFd, reply |-> reply]
  BY DEF Returns, NoCall
<1>4. TcpTypeOK'
  BY <1>2, <1>3 DEF TcpTypeOK, FdType, LinkType
<1>5. Holding'
  BY <1>3 DEF Holding
<1>6. Queued'
  BY <1>2, QueueStays
<1>7. \A t \in threads : t.sock \in Fds /\ t.sock # s /\ fds[t.sock].end = "server"
  <2>1. \A t \in threads : t.sock \in Fds /\ ThreadHolds(t.sock)
    BY DEF TcpTypeOK, ThreadHolds
  <2>2. \A t \in threads : fds[t.sock].end = "server"
    BY <2>1 DEF DescriptorsAreOwned
  <2>. QED BY <1>1, <2>1, <2>2
<1>8. Earned'
  BY <1>2, <1>7 DEF Earned
<1>9. DescriptorsAreOwned'
  <2>1. ASSUME NEW d \in Fds
        PROVE  /\ ClientHolds(d)' <=> fds'[d].end = "client"
               /\ AcceptorHolds(d)' \/ ThreadHolds(d)' <=> fds'[d].end = "server"
               /\ ~(AcceptorHolds(d)' /\ ThreadHolds(d)')
    <3>1. ~ClientHolds(d)'
      BY <1>3 DEF ClientHolds
    <3>2. (AcceptorHolds(d)' <=> AcceptorHolds(d)) /\ (ThreadHolds(d)' <=> ThreadHolds(d))
      BY DEF AcceptorHolds, ThreadHolds
    <3>3. FreeFd.end = "none"
      BY DEF FreeFd
    <3>4. CASE d = s
      BY <1>1, <1>2, <3>1, <3>2, <3>3, <3>4 DEF DescriptorsAreOwned
    <3>5. CASE d # s
      <4>1. fds'[d] = fds[d] /\ ~ClientHolds(d)
        BY <1>2, <3>5 DEF ClientHolds
      <4>. QED BY <3>1, <3>2, <4>1 DEF DescriptorsAreOwned
    <3>. QED BY <3>4, <3>5
  <2>. QED BY <2>1 DEF DescriptorsAreOwned
<1>. QED BY <1>2, <1>4, <1>5, <1>6, <1>8, <1>9

LEMMA ClientCallsIInv ==
  ASSUME IInv, ClientCalls
  PROVE  IInv'
BY DEF IInv, ClientCalls, NoCall, TcpTypeOK, DescriptorsAreOwned, ClientHolds, AcceptorHolds,
   ThreadHolds, Linked, Holding, Queued, Earned, RepliesAreEarned

LEMMA ClientReturnsIInv ==
  ASSUME IInv, ClientReturns
  PROVE  IInv'
BY DEF IInv, ClientReturns, NoCall, TcpTypeOK, DescriptorsAreOwned, ClientHolds,
   AcceptorHolds, ThreadHolds, Linked, Holding, Queued, Earned, RepliesAreEarned

\* A descriptor that is taken by one who had none.
LEMMA TakeKeeps ==
  ASSUME IInv, NEW d \in Fds, fds[d] = FreeFd, NEW e \in FdType, fds' = [fds EXCEPT ![d] = e]
  PROVE  /\ fds' \in [Fds -> FdType] /\ fds'[d] = e
         /\ \A g \in Fds : g # d => fds'[g] = fds[g]
         /\ ~ClientHolds(d) /\ ~AcceptorHolds(d) /\ ~ThreadHolds(d)
         /\ \A t \in threads : t.sock \in Fds /\ t.sock # d
<1>1. fds \in [Fds -> FdType]
  BY Types DEF IInv
<1>2. fds[d].end = "none"
  BY DEF FreeFd
<1>3. ~ClientHolds(d) /\ ~AcceptorHolds(d) /\ ~ThreadHolds(d)
  BY <1>2 DEF IInv, DescriptorsAreOwned
<1>. QED BY <1>1, <1>3 DEF ThreadHolds, IInv, TcpTypeOK

LEMMA ClientSocketIInv ==
  ASSUME IInv, ClientSocket
  PROVE  IInv'
<1>. USE DEF IInv
<1>1. client.pc = "socket" /\ UNCHANGED <<conn, queue, acceptor, threads>>
  BY DEF ClientSocket
<1>2. CASE Returns("null") /\ UNCHANGED fds
  <2>1. /\ client'.pc = "done"
        /\ client' \in [pc : {"idle", "socket", "connect", "send", "recv", "done"},
                        sock : Fds \cup {NoFd}, reply : Replies \cup {"none", "null"}]
    BY <1>2 DEF Returns, NoCall
  <2>2. TcpTypeOK'
    BY <1>1, <1>2, <2>1 DEF TcpTypeOK
  <2>3. DescriptorsAreOwned'
    BY <1>1, <1>2, <2>1 DEF DescriptorsAreOwned, ClientHolds, AcceptorHolds, ThreadHolds
  <2>4. Linked' /\ Queued' /\ Earned' /\ RepliesAreEarned'
    BY <1>1, <1>2 DEF Linked, Queued, Earned, RepliesAreEarned
  <2>5. Holding'
    BY <1>1, <1>2, <2>1 DEF Holding
  <2>. QED BY <2>2, <2>3, <2>4, <2>5
<1>3. CASE \E d \in LowestFd :
             /\ fds' = [fds EXCEPT ![d] = [conn |-> NoConn, end |-> "client"]]
             /\ client' = [client EXCEPT !.pc = "connect", !.sock = d]
  <2>. DEFINE e == [conn |-> NoConn, end |-> "client"]
  <2>1. PICK d \in LowestFd : /\ fds' = [fds EXCEPT ![d] = e]
                              /\ client' = [client EXCEPT !.pc = "connect", !.sock = d]
    BY <1>3
  <2>2. d \in Fds /\ fds[d] = FreeFd /\ e \in FdType
    BY DEF LowestFd, FreeFds, FdType
  <2>3. /\ fds' \in [Fds -> FdType] /\ fds'[d] = e
        /\ \A g \in Fds : g # d => fds'[g] = fds[g]
        /\ ~ClientHolds(d) /\ ~AcceptorHolds(d) /\ ~ThreadHolds(d)
        /\ \A t \in threads : t.sock \in Fds /\ t.sock # d
    BY <2>1, <2>2, TakeKeeps
  <2>4. client'.pc = "connect" /\ client'.sock = d
    BY <2>1 DEF TcpTypeOK
  <2>5. TcpTypeOK'
    BY <1>1, <2>1, <2>2, <2>3 DEF TcpTypeOK, FdType
  <2>6. Holding' /\ Queued' /\ RepliesAreEarned'
    BY <1>1, <2>2, <2>4 DEF Holding, Queued, RepliesAreEarned
  <2>7. Earned'
    BY <1>1, <2>3 DEF Earned
  <2>8. Linked'
    BY <1>1, <2>3 DEF Linked
  <2>9. DescriptorsAreOwned'
    <3>1. ASSUME NEW g \in Fds
          PROVE  /\ ClientHolds(g)' <=> fds'[g].end = "client"
                 /\ AcceptorHolds(g)' \/ ThreadHolds(g)' <=> fds'[g].end = "server"
                 /\ ~(AcceptorHolds(g)' /\ ThreadHolds(g)')
      <4>1. ClientHolds(g)' <=> g = d
        BY <2>4 DEF ClientHolds
      <4>2. (AcceptorHolds(g)' <=> AcceptorHolds(g)) /\ (ThreadHolds(g)' <=> ThreadHolds(g))
        BY <1>1 DEF AcceptorHolds, ThreadHolds
      <4>3. ~ClientHolds(g)
        BY <1>1 DEF ClientHolds
      <4>4. CASE g = d
        BY <2>3, <4>1, <4>2, <4>4
      <4>5. CASE g # d
        BY <2>3, <4>1, <4>2, <4>3, <4>5 DEF DescriptorsAreOwned
      <4>. QED BY <4>4, <4>5
    <3>. QED BY <1>1, <3>1 DEF DescriptorsAreOwned
  <2>. QED BY <2>5, <2>6, <2>7, <2>8, <2>9
<1>. QED BY <1>2, <1>3 DEF ClientSocket

\* A new connection has a name that no descriptor and no place in the backlog has.
LEMMA ConnectKeeps ==
  ASSUME IInv, NEW c \in LowestConn, Connect(c)
  PROVE  /\ c \in Conns /\ conn' \in [Conns -> LinkType]
         /\ conn'[c].client = "open" /\ conn'[c].server = "queued"
         /\ \A b \in Conns : b # c => conn'[b] = conn[b]
         /\ \A d \in Fds : fds[d].conn # c
         /\ queue' \in Seq(Conns) /\ Queued' /\ RepliesAreEarned'
<1>. USE DEF IInv
<1>. DEFINE r == [NoLink EXCEPT !.client = "open", !.server = "queued"]
<1>1. c \in Conns /\ conn[c] = NoLink
  BY DEF LowestConn
<1>2. NoLink.client = "none" /\ NoLink.server = "none"
  BY DEF NoLink
<1>3. r \in LinkType /\ r.client = "open" /\ r.server = "queued" /\ ~r.replied
  BY DEF NoLink, LinkType
<1>4. conn \in [Conns -> LinkType] /\ 0 \notin Conns
  BY Types
<1>5. conn' = [conn EXCEPT ![c] = r] /\ queue' = Append(queue, c)
  BY DEF Connect
<1>. HIDE DEF r
<1>6. /\ conn' \in [Conns -> LinkType] /\ conn'[c] = r
      /\ \A b \in Conns : b # c => conn'[b] = conn[b]
  BY <1>1, <1>3, <1>4, <1>5
<1>7. \A d \in Fds : fds[d].conn # c
  <2>. SUFFICES ASSUME NEW d \in Fds, fds[d].conn = c PROVE FALSE
    OBVIOUS
  <2>1. fds[d].end \in {"none", "client", "server"} /\ fds[d].conn # NoConn
    BY <1>1, <1>4, Types DEF NoConn
  <2>2. CASE fds[d].end = "none"
    BY <2>1, <2>2 DEF Linked
  <2>3. CASE fds[d].end = "client"
    BY <1>1, <1>2, <2>1, <2>3 DEF Linked
  <2>4. CASE fds[d].end = "server"
    BY <1>1, <1>2, <2>4 DEF Linked
  <2>. QED BY <2>1, <2>2, <2>3, <2>4
<1>8. /\ queue \in Seq(Conns) /\ Len(queue) \in Nat
      /\ \A i \in 1..Len(queue) : queue[i] \in Conns /\ queue[i] # c
                                  /\ conn[queue[i]].server = "queued"
  <2>1. \A i \in 1..Len(queue) : queue[i] \in Conns
    BY WhatWaits
  <2>2. \A i \in 1..Len(queue) : conn[queue[i]].server = "queued"
    BY DEF Queued
  <2>3. queue \in Seq(Conns) /\ Len(queue) \in Nat
    BY WhatWaits DEF TcpTypeOK
  <2>. QED BY <1>1, <1>2, <2>1, <2>2, <2>3
<1>9. /\ queue' \in Seq(Conns) /\ Len(queue') = Len(queue) + 1
      /\ queue'[Len(queue) + 1] = c
      /\ \A i \in 1..Len(queue) : queue'[i] = queue[i]
  BY <1>1, <1>5, <1>8, AppendProperties
<1>10. Queued'
  <2>1. \A i \in 1..Len(queue') : i = Len(queue) + 1 \/ i \in 1..Len(queue)
    BY <1>8, <1>9, SMT
  <2>2. \A i \in 1..Len(queue') : conn'[queue'[i]].server = "queued"
    <3>1. conn'[queue'[Len(queue) + 1]].server = "queued"
      BY <1>3, <1>6, <1>9
    <3>2. \A i \in 1..Len(queue) : conn'[queue'[i]].server = "queued"
      BY <1>6, <1>8, <1>9
    <3>. QED BY <2>1, <3>1, <3>2
  <2>3. \A i, j \in 1..Len(queue') : queue'[i] = queue'[j] => i = j
    BY <1>8, <1>9, <2>1 DEF Queued
  <2>. QED BY <2>2, <2>3 DEF Queued
<1>11. RepliesAreEarned'
  BY <1>3, <1>6 DEF RepliesAreEarned
<1>. QED BY <1>1, <1>3, <1>6, <1>7, <1>9, <1>10, <1>11

\* The ends that were there stay so.
LEMMA EndsStay ==
  ASSUME IInv, NEW c \in Conns, \A d \in Fds : fds[d].conn # c,
         \A b \in Conns : b # c => conn'[b] = conn[b]
  PROVE  \A d \in Fds : fds[d].conn # NoConn =>
           fds[d].conn \in Conns /\ conn'[fds[d].conn] = conn[fds[d].conn]
BY Types DEF IInv

LEMMA ClientConnectIInv ==
  ASSUME IInv, ClientConnect
  PROVE  IInv'
<1>. USE DEF IInv
<1>1. client.pc = "connect" /\ UNCHANGED <<acceptor, threads>>
  BY DEF ClientConnect
<1>2. CASE Close(client.sock) /\ Returns("null") /\ UNCHANGED queue
  BY <1>1, <1>2, ClientLeaves
<1>3. CASE \E c \in LowestConn :
             /\ Connect(c)
             /\ fds' = [fds EXCEPT ![client.sock] = [conn |-> c, end |-> "client"]]
             /\ client' = [client EXCEPT !.pc = "send"]
  <2>. DEFINE s == client.sock
  <2>1. PICK c \in LowestConn : /\ Connect(c)
                                /\ fds' = [fds EXCEPT ![s] = [conn |-> c, end |-> "client"]]
                                /\ client' = [client EXCEPT !.pc = "send"]
    BY <1>3
  <2>2. /\ c \in Conns /\ conn' \in [Conns -> LinkType]
        /\ conn'[c].client = "open" /\ conn'[c].server = "queued"
        /\ \A b \in Conns : b # c => conn'[b] = conn[b]
        /\ \A d \in Fds : fds[d].conn # c
        /\ queue' \in Seq(Conns) /\ Queued' /\ RepliesAreEarned'
    BY <2>1, ConnectKeeps
  <2>. DEFINE e == [conn |-> c, end |-> "client"]
  <2>3. e \in FdType /\ e.conn = c /\ e.end = "client"
    BY <2>2 DEF FdType
  <2>4. s \in Fds /\ fds[s].end = "client" /\ c # NoConn
    BY <1>1, <2>2, Types DEF Holding, DescriptorsAreOwned, ClientHolds, NoConn
  <2>5. /\ fds' \in [Fds -> FdType] /\ fds'[s] = e
        /\ \A d \in Fds : d # s => fds'[d] = fds[d]
    <3>. HIDE DEF e
    <3>. QED BY <2>1, <2>3, <2>4, Types DEF e
  <2>6. \A d \in Fds : fds[d].conn # NoConn =>
          fds[d].conn \in Conns /\ conn'[fds[d].conn] = conn[fds[d].conn]
    BY <2>2, EndsStay
  <2>7. client'.pc = "send" /\ client'.sock = s
    BY <2>1 DEF TcpTypeOK
  <2>8. TcpTypeOK'
    <3>. HIDE DEF e
    <3>. QED BY <1>1, <2>1, <2>2, <2>5 DEF TcpTypeOK, FdType, LinkType
  <2>9. Linked'
    <3>. HIDE DEF e
    <3>1. \A d \in Fds : fds'[d].end = "none" => fds'[d].conn = NoConn
      BY <2>3, <2>5 DEF Linked
    <3>2. \A d \in Fds : fds'[d].end = "server" =>
            fds'[d].conn # NoConn /\ conn'[fds'[d].conn].server = "open"
      BY <2>3, <2>5, <2>6 DEF Linked
    <3>3. \A d \in Fds : fds'[d].end = "client" /\ fds'[d].conn # NoConn =>
            conn'[fds'[d].conn].client = "open"
      BY <2>2, <2>3, <2>5, <2>6 DEF Linked
    <3>4. \A d, g \in Fds : fds'[d] = fds'[g] /\ fds'[d].conn # NoConn => d = g
      <4>1. fds'[s].conn = c /\ \A d \in Fds : d # s => fds'[d].conn # c
        BY <2>2, <2>3, <2>5
      <4>2. \A d, g \in Fds : d # s /\ g # s /\ fds'[d] = fds'[g] /\ fds'[d].conn # NoConn => d = g
        BY <2>5 DEF Linked
      <4>. QED BY <4>1, <4>2
    <3>. QED BY <3>1, <3>2, <3>3, <3>4 DEF Linked
  <2>10. Holding'
    BY <1>1, <2>3, <2>4, <2>5, <2>7 DEF Holding
  <2>11. \A t \in threads : t.sock \in Fds /\ t.sock # s /\ fds[t.sock].end = "server"
    BY <2>4 DEF TcpTypeOK, DescriptorsAreOwned, ThreadHolds
  <2>12. Earned'
    <3>1. \A t \in threads : fds'[t.sock] = fds[t.sock] /\ fds[t.sock].conn # NoConn
      BY <2>5, <2>11 DEF Linked
    <3>2. \A t \in threads : conn'[fds'[t.sock].conn] = conn[fds[t.sock].conn]
      BY <2>6, <2>11, <3>1
    <3>. QED BY <1>1, <3>2 DEF Earned
  <2>13. DescriptorsAreOwned'
    <3>1. ASSUME NEW d \in Fds
          PROVE  /\ ClientHolds(d)' <=> fds'[d].end = "client"
                 /\ AcceptorHolds(d)' \/ ThreadHolds(d)' <=> fds'[d].end = "server"
                 /\ ~(AcceptorHolds(d)' /\ ThreadHolds(d)')
      <4>1. /\ ClientHolds(d)' <=> ClientHolds(d)
            /\ AcceptorHolds(d)' <=> AcceptorHolds(d)
            /\ ThreadHolds(d)' <=> ThreadHolds(d)
        BY <1>1, <2>7 DEF ClientHolds, AcceptorHolds, ThreadHolds
      <4>2. fds'[d].end = fds[d].end
        BY <2>3, <2>4, <2>5
      <4>. QED BY <4>1, <4>2 DEF DescriptorsAreOwned
    <3>. QED BY <1>1, <3>1 DEF DescriptorsAreOwned
  <2>. QED BY <2>2, <2>8, <2>9, <2>10, <2>12, <2>13
<1>. QED BY <1>2, <1>3 DEF ClientConnect

LEMMA WrittenLink ==
  ASSUME NEW x \in LinkType
  PROVE  /\ [x EXCEPT !.sent = TRUE] \in LinkType
         /\ [x EXCEPT !.replied = TRUE] \in LinkType
         /\ [x EXCEPT !.read = TRUE] \in LinkType
BY DEF LinkType

\* What send does to the connections.
LEMMA WriteKeeps ==
  ASSUME IInv, NEW d \in Fds, fds[d].conn # NoConn, Write(d),
         fds[d].end = "server" =>
           conn[fds[d].conn].read /\ conn[fds[d].conn].sent
  PROVE  /\ conn' \in [Conns -> LinkType]
         /\ \A c \in Conns : /\ conn'[c].client = conn[c].client
                             /\ conn'[c].server = conn[c].server
                             /\ conn[c].read => conn'[c].read
                             /\ conn[c].sent => conn'[c].sent
         /\ RepliesAreEarned'
<1>. USE DEF IInv
<1>. DEFINE c == fds[d].conn
<1>1. c \in Conns /\ conn \in [Conns -> LinkType]
  BY Types
<1>2. \A b \in Conns : conn[b] \in LinkType
  BY <1>1
<1>3. CASE fds[d].end = "client"
  <2>1. conn' = [conn EXCEPT ![c].sent = TRUE]
    BY <1>3 DEF Write
  <2>. DEFINE r == [conn[c] EXCEPT !.sent = TRUE]
  <2>2. /\ r \in LinkType /\ r.client = conn[c].client /\ r.server = conn[c].server
        /\ r.read = conn[c].read /\ r.sent = TRUE /\ r.replied = conn[c].replied
    <3>1. conn[c] \in LinkType
      BY <1>1, <1>2
    <3>2. r \in LinkType
      BY <3>1, WrittenLink
    <3>. QED BY <3>1, <3>2 DEF LinkType
  <2>a. conn' = [conn EXCEPT ![c] = r]
    BY <2>1
  <2>. HIDE DEF r
  <2>3. /\ conn' \in [Conns -> LinkType] /\ conn'[c] = r
        /\ \A b \in Conns : b # c => conn'[b] = conn[b]
    BY <1>1, <2>a, <2>2
  <2>. QED BY <1>1, <2>2, <2>3 DEF RepliesAreEarned
<1>4. CASE fds[d].end # "client"
  <2>1. conn' = [conn EXCEPT ![c].replied = TRUE]
    BY <1>4 DEF Write
  <2>2. fds[d].end = "server"
    BY <1>4, Types DEF Linked
  <2>. DEFINE r == [conn[c] EXCEPT !.replied = TRUE]
  <2>3. /\ r \in LinkType /\ r.client = conn[c].client /\ r.server = conn[c].server
        /\ r.read = conn[c].read /\ r.sent = conn[c].sent
    <3>1. conn[c] \in LinkType
      BY <1>1, <1>2
    <3>2. r \in LinkType
      BY <3>1, WrittenLink
    <3>. QED BY <3>1, <3>2 DEF LinkType
  <2>a. conn' = [conn EXCEPT ![c] = r]
    BY <2>1
  <2>. HIDE DEF r
  <2>4. /\ conn' \in [Conns -> LinkType] /\ conn'[c] = r
        /\ \A b \in Conns : b # c => conn'[b] = conn[b]
    BY <1>1, <2>a, <2>3
  <2>. QED BY <1>1, <2>2, <2>3, <2>4 DEF RepliesAreEarned
<1>. QED BY <1>3, <1>4

\* Connections that keep what they had: nothing else depends on them.
LEMMA MoreIsSent ==
  ASSUME IInv, UNCHANGED <<fds, queue>>,
         \A c \in Conns : /\ conn'[c].client = conn[c].client
                          /\ conn'[c].server = conn[c].server
                          /\ conn[c].read => conn'[c].read
                          /\ conn[c].sent => conn'[c].sent
  PROVE  /\ Linked' /\ Queued'
         /\ \A t \in threads : t.pc = "send" =>
              conn'[fds[t.sock].conn].read /\ conn'[fds[t.sock].conn].sent
<1>. USE DEF IInv
<1>1. \A d \in Fds : fds[d].conn # NoConn => fds[d].conn \in Conns
  BY Types
<1>2. Linked'
  BY <1>1 DEF Linked
<1>3. Queued'
  BY QueueStays
<1>4. \A t \in threads : fds[t.sock].conn \in Conns
  <2>1. \A t \in threads : t.sock \in Fds /\ fds[t.sock].end = "server"
    BY DEF TcpTypeOK, DescriptorsAreOwned, ThreadHolds
  <2>. QED BY <1>1, <2>1 DEF Linked
<1>. QED BY <1>2, <1>3, <1>4 DEF Earned

LEMMA ClientSendIInv ==
  ASSUME IInv, ClientSend
  PROVE  IInv'
<1>. USE DEF IInv
<1>1. client.pc = "send" /\ UNCHANGED <<queue, acceptor, threads>>
  BY DEF ClientSend
<1>2. CASE Close(client.sock) /\ Returns("null")
  BY <1>1, <1>2, ClientLeaves
<1>3. CASE /\ Write(client.sock)
           /\ client' = [client EXCEPT !.pc = "recv"]
           /\ UNCHANGED fds
  <2>1. /\ client.sock \in Fds /\ fds[client.sock].conn # NoConn
        /\ fds[client.sock].end = "client"
    BY <1>1 DEF Holding, DescriptorsAreOwned, ClientHolds
  <2>2. /\ conn' \in [Conns -> LinkType]
        /\ \A c \in Conns : /\ conn'[c].client = conn[c].client
                            /\ conn'[c].server = conn[c].server
                            /\ conn[c].read => conn'[c].read
                            /\ conn[c].sent => conn'[c].sent
        /\ RepliesAreEarned'
    BY <1>3, <2>1, WriteKeeps
  <2>3. /\ Linked' /\ Queued'
        /\ \A t \in threads : t.pc = "send" =>
             conn'[fds[t.sock].conn].read /\ conn'[fds[t.sock].conn].sent
    BY <1>1, <1>3, <2>2, MoreIsSent
  <2>4. Earned'
    BY <1>1, <1>3, <2>3 DEF Earned
  <2>5. client'.pc = "recv" /\ client'.sock = client.sock
    BY <1>3 DEF TcpTypeOK
  <2>6. TcpTypeOK'
    BY <1>1, <1>3, <2>2 DEF TcpTypeOK, LinkType
  <2>7. Holding' /\ DescriptorsAreOwned'
    BY <1>1, <1>3, <2>1, <2>5 DEF Holding, DescriptorsAreOwned, ClientHolds, AcceptorHolds,
       ThreadHolds
  <2>. QED BY <2>2, <2>3, <2>4, <2>6, <2>7
<1>. QED BY <1>2, <1>3 DEF ClientSend

LEMMA ClientRecvIInv ==
  ASSUME IInv, ClientRecv
  PROVE  IInv'
<1>1. PICK reply \in Replies \cup {"null"} : Returns(reply)
  BY DEF ClientRecv
<1>. QED BY <1>1, ClientLeaves DEF ClientRecv
-----------------------------------------------------------------------------
(* start_tcp_server.                                                       *)

LEMMA TcpListensIInv ==
  ASSUME IInv, TcpListens
  PROVE  IInv'
<1>. USE DEF IInv
<1>1. /\ UNCHANGED <<fds, conn, queue, threads, client>>
      /\ acceptor.pc = "off" /\ acceptor' = [acceptor EXCEPT !.pc = "accept"]
  BY DEF TcpListens
<1>2. /\ acceptor' \in [pc : {"off", "accept", "accepted"}, sock : Fds \cup {NoFd}]
      /\ acceptor'.pc = "accept"
  BY <1>1 DEF TcpTypeOK
<1>3. TcpTypeOK'
  BY <1>1, <1>2 DEF TcpTypeOK
<1>4. DescriptorsAreOwned'
  BY <1>1, <1>2 DEF DescriptorsAreOwned, ClientHolds, AcceptorHolds, ThreadHolds
<1>5. Linked' /\ Queued' /\ Earned' /\ RepliesAreEarned'
  BY <1>1 DEF Linked, Queued, Earned, RepliesAreEarned
<1>6. Holding'
  BY <1>1, <1>2 DEF Holding
<1>. QED BY <1>3, <1>4, <1>5, <1>6

LEMMA AcceptConnectionIInv ==
  ASSUME IInv, AcceptConnection
  PROVE  IInv'
<1>. USE DEF IInv
<1>. DEFINE c == Head(queue)
            e == [conn |-> c, end |-> "server"]
            r == [conn[c] EXCEPT !.server = "open"]
<1>1. /\ acceptor.pc = "accept" /\ queue # <<>> /\ UNCHANGED <<threads, client>>
      /\ queue' = Tail(queue)
  BY DEF AcceptConnection
<1>2. c \in Conns /\ c = queue[1] /\ conn[c].server = "queued" /\ c # NoConn
  BY <1>1, WhatWaits, Types DEF NoConn
<1>3. PICK d \in LowestFd : /\ fds' = [fds EXCEPT ![d] = e]
                            /\ acceptor' = [pc |-> "accepted", sock |-> d]
  BY DEF AcceptConnection
<1>4. d \in Fds /\ fds[d] = FreeFd
  BY DEF LowestFd, FreeFds
<1>5. e \in FdType /\ e.conn = c /\ e.end = "server"
  BY <1>2 DEF FdType
<1>6. conn' = [conn EXCEPT ![c] = r]
  BY DEF AcceptConnection
<1>7. /\ r \in LinkType /\ r.server = "open" /\ r.client = conn[c].client
      /\ r.sent = conn[c].sent /\ r.read = conn[c].read /\ r.replied = conn[c].replied
  <2>1. conn[c] \in LinkType
    BY <1>2, Types
  <2>. QED BY <2>1 DEF LinkType
<1>. HIDE DEF e, r, c
<1>8. /\ conn' \in [Conns -> LinkType] /\ conn'[c] = r
      /\ \A b \in Conns : b # c => conn'[b] = conn[b]
  BY <1>2, <1>6, <1>7, Types
<1>9. /\ fds' \in [Fds -> FdType] /\ fds'[d] = e
      /\ \A g \in Fds : g # d => fds'[g] = fds[g]
      /\ ~ClientHolds(d) /\ ~AcceptorHolds(d) /\ ~ThreadHolds(d)
      /\ \A t \in threads : t.sock \in Fds /\ t.sock # d
  BY <1>3, <1>4, <1>5, TakeKeeps
<1>10. /\ queue' \in Seq(Conns) /\ Len(queue') \in Nat /\ Len(queue') = Len(queue) - 1
       /\ \A i \in 1..Len(queue') : /\ queue'[i] = queue[i + 1]
                                    /\ i + 1 \in 1..Len(queue) /\ i + 1 # 1
  BY <1>1, SMT DEF TcpTypeOK
<1>11. Queued'
  <2>1. ASSUME NEW i \in 1..Len(queue') PROVE conn'[queue'[i]].server = "queued"
    <3>1. queue[i + 1] # queue[1] /\ queue[i + 1] \in Conns
          /\ conn[queue[i + 1]].server = "queued"
      BY <1>1, <1>10, WhatWaits DEF Queued
    <3>. QED BY <1>2, <1>8, <1>10, <3>1
  <2>2. ASSUME NEW i \in 1..Len(queue'), NEW j \in 1..Len(queue'), queue'[i] = queue'[j]
        PROVE  i = j
    <3>1. i + 1 = j + 1
      BY <1>10, <2>2 DEF Queued
    <3>. QED BY <1>10, <3>1, SMT
  <2>. QED BY <2>1, <2>2 DEF Queued
<1>12. \A g \in Fds : fds[g].conn # NoConn =>
         /\ fds[g].conn \in Conns
         /\ fds[g].end = "server" => fds[g].conn # c
         /\ conn'[fds[g].conn].client = conn[fds[g].conn].client
         /\ conn'[fds[g].conn].read = conn[fds[g].conn].read
         /\ conn'[fds[g].conn].sent = conn[fds[g].conn].sent
  <2>1. \A g \in Fds : fds[g].end = "server" => fds[g].conn # c
    BY <1>2 DEF Linked
  <2>2. \A b \in Conns : /\ conn'[b].client = conn[b].client
                         /\ conn'[b].read = conn[b].read /\ conn'[b].sent = conn[b].sent
    BY <1>7, <1>8
  <2>3. \A g \in Fds : fds[g].conn # NoConn => fds[g].conn \in Conns
    BY Types
  <2>. QED BY <2>1, <2>2, <2>3
<1>13. Linked'
  <2>1. \A g \in Fds : fds'[g].end = "none" => fds'[g].conn = NoConn
    BY <1>5, <1>9 DEF Linked
  <2>2. \A g \in Fds : fds'[g].end = "server" =>
          fds'[g].conn # NoConn /\ conn'[fds'[g].conn].server = "open"
    <3>. SUFFICES ASSUME NEW g \in Fds, fds'[g].end = "server"
                  PROVE  fds'[g].conn # NoConn /\ conn'[fds'[g].conn].server = "open"
      OBVIOUS
    <3>1. CASE g = d
      BY <1>2, <1>5, <1>7, <1>8, <1>9, <3>1
    <3>2. CASE g # d
      <4>1. fds'[g] = fds[g] /\ fds[g].conn # NoConn /\ conn[fds[g].conn].server = "open"
        BY <1>9, <3>2 DEF Linked
      <4>2. fds[g].conn \in Conns /\ fds[g].conn # c
        BY <1>12, <4>1
      <4>. QED BY <1>8, <4>1, <4>2
    <3>. QED BY <3>1, <3>2
  <2>3. \A g \in Fds : fds'[g].end = "client" /\ fds'[g].conn # NoConn =>
          conn'[fds'[g].conn].client = "open"
    BY <1>5, <1>9, <1>12 DEF Linked
  <2>4. \A g \in Fds : g # d => fds'[g] # e
    <3>. SUFFICES ASSUME NEW g \in Fds, g # d, fds[g] = e PROVE FALSE
      BY <1>9
    <3>. QED BY <1>2, <1>5, <1>12
  <2>5. \A g, h \in Fds : fds'[g] = fds'[h] /\ fds'[g].conn # NoConn => g = h
    BY <1>9, <2>4 DEF Linked
  <2>. QED BY <2>1, <2>2, <2>3, <2>5 DEF Linked
<1>14. RepliesAreEarned'
  BY <1>7, <1>8 DEF RepliesAreEarned
<1>15. Earned'
  <2>1. \A t \in threads : fds'[t.sock] = fds[t.sock] /\ fds[t.sock].conn # NoConn
    BY <1>9 DEF DescriptorsAreOwned, ThreadHolds, Linked
  <2>. QED BY <1>1, <1>9, <1>12, <2>1 DEF Earned
<1>16. TcpTypeOK'
  BY <1>1, <1>3, <1>4, <1>8, <1>9, <1>10 DEF TcpTypeOK, FdType, LinkType
<1>17. Holding'
  <2>1. client.pc \in {"connect", "send", "recv"} => client.sock # d
    BY <1>9 DEF ClientHolds
  <2>. QED BY <1>1, <1>3, <1>4, <1>9, <2>1 DEF Holding
<1>18. DescriptorsAreOwned'
  <2>1. ASSUME NEW g \in Fds
        PROVE  /\ ClientHolds(g)' <=> fds'[g].end = "client"
               /\ AcceptorHolds(g)' \/ ThreadHolds(g)' <=> fds'[g].end = "server"
               /\ ~(AcceptorHolds(g)' /\ ThreadHolds(g)')
    <3>1. AcceptorHolds(g)' <=> g = d
      BY <1>3 DEF AcceptorHolds
    <3>2. (ClientHolds(g)' <=> ClientHolds(g)) /\ (ThreadHolds(g)' <=> ThreadHolds(g))
      BY <1>1 DEF ClientHolds, ThreadHolds
    <3>3. ~AcceptorHolds(g)
      BY <1>1 DEF AcceptorHolds
    <3>4. CASE g = d
      BY <1>5, <1>9, <3>1, <3>2, <3>4
    <3>5. CASE g # d
      BY <1>9, <3>1, <3>2, <3>3, <3>5 DEF DescriptorsAreOwned
    <3>. QED BY <3>4, <3>5
  <2>. QED BY <1>1, <2>1 DEF DescriptorsAreOwned
<1>. QED BY <1>11, <1>13, <1>14, <1>15, <1>16, <1>17, <1>18

\* Who had the server's end of a connection closes it, and has done with it.
LEMMA ServerLeaves ==
  ASSUME IInv, NEW d \in Fds, AcceptorHolds(d) \/ ThreadHolds(d), Close(d),
         UNCHANGED <<queue, client>>, threads' \subseteq threads,
         acceptor' \in [pc : {"off", "accept", "accepted"}, sock : Fds \cup {NoFd}],
         acceptor'.pc = "accepted" => acceptor'.sock \in Fds,
         ~AcceptorHolds(d)', ~ThreadHolds(d)',
         \A g \in Fds : g # d => /\ AcceptorHolds(g)' <=> AcceptorHolds(g)
                                 /\ ThreadHolds(g)' <=> ThreadHolds(g)
  PROVE  IInv'
<1>. USE DEF IInv
<1>1. fds[d].end = "server"
  BY DEF DescriptorsAreOwned
<1>2. /\ fds' \in [Fds -> FdType] /\ conn' \in [Conns -> LinkType]
      /\ fds'[d] = FreeFd
      /\ \A e \in Fds : e # d => fds'[e] = fds[e]
      /\ Linked' /\ RepliesAreEarned'
      /\ \A c \in Conns : conn[c].server = "queued" => conn'[c].server = "queued"
      /\ \A e \in Fds : e # d /\ fds[e].end = "server" =>
           /\ conn'[fds[e].conn].read = conn[fds[e].conn].read
           /\ conn'[fds[e].conn].sent = conn[fds[e].conn].sent
  BY <1>1, CloseKeeps
<1>3. TcpTypeOK'
  BY <1>2 DEF TcpTypeOK, FdType, LinkType
<1>4. Queued'
  BY <1>2, QueueStays
<1>5. \A t \in threads' : t \in threads /\ t.sock \in Fds /\ t.sock # d
                          /\ fds[t.sock].end = "server"
  <2>. SUFFICES ASSUME NEW t \in threads'
                PROVE  t \in threads /\ t.sock \in Fds /\ t.sock # d /\ fds[t.sock].end = "server"
    OBVIOUS
  <2>1. t \in threads /\ t.sock \in Fds
    BY DEF TcpTypeOK
  <2>2. ThreadHolds(t.sock)
    BY <2>1 DEF ThreadHolds
  <2>3. t.sock # d
    BY DEF ThreadHolds
  <2>. QED BY <2>1, <2>2, <2>3 DEF DescriptorsAreOwned
<1>6. Earned'
  BY <1>2, <1>5 DEF Earned
<1>7. ~ClientHolds(d)
  BY <1>1 DEF DescriptorsAreOwned
<1>8. Holding'
  BY <1>2, <1>7 DEF Holding, ClientHolds
<1>9. DescriptorsAreOwned'
  <2>1. ASSUME NEW g \in Fds
        PROVE  /\ ClientHolds(g)' <=> fds'[g].end = "client"
               /\ AcceptorHolds(g)' \/ ThreadHolds(g)' <=> fds'[g].end = "server"
               /\ ~(AcceptorHolds(g)' /\ ThreadHolds(g)')
    <3>1. ClientHolds(g)' <=> ClientHolds(g)
      BY DEF ClientHolds
    <3>2. FreeFd.end = "none"
      BY DEF FreeFd
    <3>3. CASE g = d
      BY <1>2, <1>7, <3>1, <3>2, <3>3
    <3>4. CASE g # d
      BY <1>2, <3>1, <3>4 DEF DescriptorsAreOwned
    <3>. QED BY <3>3, <3>4
  <2>. QED BY <1>5, <2>1 DEF DescriptorsAreOwned
<1>. QED BY <1>2, <1>3, <1>4, <1>6, <1>8, <1>9

LEMMA StartThreadIInv ==
  ASSUME IInv, StartThread
  PROVE  IInv'
<1>. USE DEF IInv
<1>. DEFINE d == acceptor.sock
            t == [pc |-> "start", sock |-> d]
<1>1. /\ acceptor.pc = "accepted" /\ acceptor' = [acceptor EXCEPT !.pc = "accept"]
      /\ UNCHANGED <<queue, client>>
  BY DEF StartThread
<1>2. d \in Fds /\ AcceptorHolds(d) /\ ~ThreadHolds(d)
  BY <1>1 DEF Holding, AcceptorHolds, DescriptorsAreOwned
<1>3. acceptor'.pc = "accept" /\ \A g \in Fds : ~AcceptorHolds(g)'
  BY <1>1 DEF AcceptorHolds, TcpTypeOK
<1>4. \A g \in Fds : g # d => ~AcceptorHolds(g)
  BY DEF AcceptorHolds
<1>5. acceptor' \in [pc : {"off", "accept", "accepted"}, sock : Fds \cup {NoFd}]
  BY <1>1 DEF TcpTypeOK
<1>6. CASE Close(d) /\ UNCHANGED threads
  <2>1. \A g \in Fds : ThreadHolds(g)' <=> ThreadHolds(g)
    BY <1>6 DEF ThreadHolds
  <2>. QED BY <1>1, <1>2, <1>3, <1>4, <1>5, <1>6, <2>1, ServerLeaves
<1>7. CASE threads' = threads \cup {t} /\ UNCHANGED <<fds, conn>>
  <2>1. t.sock = d /\ t.pc = "start"
        /\ t \in [pc : {"start", "recv", "send", "close"}, sock : Fds]
    BY <1>2
  <2>. HIDE DEF t
  <2>2. TcpTypeOK'
    BY <1>1, <1>5, <1>7, <2>1 DEF TcpTypeOK
  <2>3. Holding' /\ Linked' /\ Queued' /\ RepliesAreEarned'
    BY <1>1, <1>3, <1>7 DEF Holding, Linked, Queued, RepliesAreEarned
  <2>4. Earned'
    BY <1>7, <2>1 DEF Earned
  <2>5. \A g \in Fds : ThreadHolds(g)' <=> ThreadHolds(g) \/ g = d
    BY <1>7, <2>1 DEF ThreadHolds
  <2>6. \A g \in Fds : ClientHolds(g)' <=> ClientHolds(g)
    BY <1>1 DEF ClientHolds
  <2>7. \A u, v \in threads' : u.sock = v.sock => u = v
    BY <1>2, <1>7, <2>1 DEF DescriptorsAreOwned, ThreadHolds
  <2>8. DescriptorsAreOwned'
    BY <1>2, <1>3, <1>4, <1>7, <2>5, <2>6, <2>7 DEF DescriptorsAreOwned
  <2>. QED BY <2>2, <2>3, <2>4, <2>8
<1>. QED BY <1>6, <1>7 DEF StartThread
-----------------------------------------------------------------------------
(* client_handler_thread.                                                  *)

\* A thread that goes on, on the same descriptor.
LEMMA ThreadGoesOn ==
  ASSUME IInv, NEW t \in threads, NEW pc \in {"recv", "send", "close"}, Becomes(t, pc),
         UNCHANGED <<acceptor, client>>, fds' = fds
  PROVE  /\ threads' \subseteq [pc : {"start", "recv", "send", "close"}, sock : Fds]
         /\ \A u \in threads' : (u \in threads /\ u # t) \/ (u.pc = pc /\ u.sock = t.sock)
         /\ DescriptorsAreOwned'
<1>. USE DEF IInv
<1>. DEFINE n == [t EXCEPT !.pc = pc]
<1>1. t \in [pc : {"start", "recv", "send", "close"}, sock : Fds]
  BY DEF TcpTypeOK
<1>2. /\ n \in [pc : {"start", "recv", "send", "close"}, sock : Fds]
      /\ n.pc = pc /\ n.sock = t.sock
  BY <1>1
<1>3. threads' = (threads \ {t}) \cup {n}
  BY DEF Becomes
<1>. HIDE DEF n
<1>4. threads' \subseteq [pc : {"start", "recv", "send", "close"}, sock : Fds]
  BY <1>2, <1>3 DEF TcpTypeOK
<1>5. \A d \in Fds : ThreadHolds(d)' <=> ThreadHolds(d)
  BY <1>2, <1>3 DEF ThreadHolds
<1>6. \A d \in Fds : /\ ClientHolds(d)' <=> ClientHolds(d)
                     /\ AcceptorHolds(d)' <=> AcceptorHolds(d)
  BY DEF ClientHolds, AcceptorHolds
<1>7. \A u, v \in threads' : u.sock = v.sock => u = v
  BY <1>2, <1>3 DEF DescriptorsAreOwned
<1>8. DescriptorsAreOwned'
  BY <1>5, <1>6, <1>7 DEF DescriptorsAreOwned
<1>. QED BY <1>2, <1>3, <1>4, <1>8

\* A thread that closes its descriptor and ends.
LEMMA ThreadLeaves ==
  ASSUME IInv, NEW t \in threads, Close(t.sock), threads' = threads \ {t},
         UNCHANGED <<queue, acceptor, client>>
  PROVE  IInv'
<1>. USE DEF IInv
<1>1. t.sock \in Fds /\ ThreadHolds(t.sock)
  BY DEF TcpTypeOK, ThreadHolds
<1>2. \A u \in threads : u # t => u.sock # t.sock
  BY DEF DescriptorsAreOwned
<1>3. ~ThreadHolds(t.sock)'
  BY <1>2 DEF ThreadHolds
<1>4. \A g \in Fds : g # t.sock => (ThreadHolds(g)' <=> ThreadHolds(g))
  BY DEF ThreadHolds
<1>5. \A g \in Fds : AcceptorHolds(g)' <=> AcceptorHolds(g)
  BY DEF AcceptorHolds
<1>6. ~AcceptorHolds(t.sock)
  BY <1>1 DEF DescriptorsAreOwned
<1>7. /\ acceptor' \in [pc : {"off", "accept", "accepted"}, sock : Fds \cup {NoFd}]
      /\ acceptor'.pc = "accepted" => acceptor'.sock \in Fds
  BY DEF TcpTypeOK, Holding
<1>. QED BY <1>1, <1>3, <1>4, <1>5, <1>6, <1>7, ServerLeaves

\* The connection of a thread is open at its end.
LEMMA ThreadsConnection ==
  ASSUME IInv, NEW t \in threads
  PROVE  /\ t.sock \in Fds /\ fds[t.sock].end = "server" /\ fds[t.sock].conn \in Conns
         /\ fds[t.sock].conn # NoConn
         /\ conn[fds[t.sock].conn].server = "open" /\ conn[fds[t.sock].conn] \in LinkType
<1>. USE DEF IInv
<1>1. t.sock \in Fds /\ ThreadHolds(t.sock)
  BY DEF TcpTypeOK, ThreadHolds
<1>2. fds[t.sock].end = "server"
  BY <1>1 DEF DescriptorsAreOwned
<1>. QED BY <1>1, <1>2, Types DEF Linked

LEMMA ThreadStartsIInv ==
  ASSUME IInv, NEW t \in threads, ThreadStarts(t)
  PROVE  IInv'
<1>. USE DEF IInv
<1>1. Becomes(t, "recv") /\ UNCHANGED <<fds, conn, queue, acceptor, client>>
  BY DEF ThreadStarts
<1>2. /\ threads' \subseteq [pc : {"start", "recv", "send", "close"}, sock : Fds]
      /\ \A u \in threads' : (u \in threads /\ u # t) \/ (u.pc = "recv" /\ u.sock = t.sock)
      /\ DescriptorsAreOwned'
  BY <1>1, ThreadGoesOn
<1>. QED BY <1>1, <1>2 DEF TcpTypeOK, Linked, Holding, Queued, Earned, RepliesAreEarned

LEMMA ThreadReceivesIInv ==
  ASSUME IInv, NEW t \in threads, ThreadReceives(t)
  PROVE  IInv'
<1>. USE DEF IInv
<1>. DEFINE c == fds[t.sock].conn
            r == [conn[c] EXCEPT !.read = TRUE]
<1>1. UNCHANGED <<queue, acceptor, client>>
  BY DEF ThreadReceives
<1>2. CASE Close(t.sock) /\ threads' = threads \ {t}
  BY <1>1, <1>2, ThreadLeaves
<1>3. CASE /\ Link(t.sock).sent
           /\ conn' = [conn EXCEPT ![fds[t.sock].conn].read = TRUE]
           /\ Becomes(t, "send")
           /\ UNCHANGED fds
  <2>1. /\ threads' \subseteq [pc : {"start", "recv", "send", "close"}, sock : Fds]
        /\ \A u \in threads' : (u \in threads /\ u # t) \/ (u.pc = "send" /\ u.sock = t.sock)
        /\ DescriptorsAreOwned'
    BY <1>1, <1>3, ThreadGoesOn
  <2>2. /\ t.sock \in Fds /\ c \in Conns /\ conn[c] \in LinkType /\ conn[c].sent
    BY <1>3, ThreadsConnection DEF Link
  <2>3. r \in LinkType
    BY <2>2, WrittenLink
  <2>4. /\ r.client = conn[c].client /\ r.server = conn[c].server /\ r.read = TRUE
        /\ r.sent = conn[c].sent /\ r.replied = conn[c].replied
    BY <2>2 DEF LinkType
  <2>5. conn' = [conn EXCEPT ![c] = r]
    BY <1>3
  <2>. HIDE DEF r
  <2>6. /\ conn' \in [Conns -> LinkType] /\ conn'[c] = r
        /\ \A b \in Conns : b # c => conn'[b] = conn[b]
    BY <2>2, <2>3, <2>5, Types
  <2>7. \A b \in Conns : /\ conn'[b].client = conn[b].client
                         /\ conn'[b].server = conn[b].server
                         /\ conn[b].read => conn'[b].read
                         /\ conn[b].sent => conn'[b].sent
    BY <2>4, <2>6
  <2>8. /\ Linked' /\ Queued'
        /\ \A u \in threads : u.pc = "send" =>
             conn'[fds[u.sock].conn].read /\ conn'[fds[u.sock].conn].sent
    BY <1>1, <1>3, <2>7, MoreIsSent
  <2>9. conn'[c].read /\ conn'[c].sent
    BY <2>2, <2>4, <2>6
  <2>10. Earned'
    BY <1>3, <2>1, <2>8, <2>9 DEF Earned
  <2>11. RepliesAreEarned'
    BY <2>4, <2>6 DEF RepliesAreEarned
  <2>12. TcpTypeOK'
    BY <1>1, <1>3, <2>1, <2>6 DEF TcpTypeOK, LinkType
  <2>13. Holding'
    BY <1>1, <1>3 DEF Holding
  <2>. QED BY <2>1, <2>8, <2>10, <2>11, <2>12, <2>13
<1>. QED BY <1>2, <1>3 DEF ThreadReceives

LEMMA ThreadSendsIInv ==
  ASSUME IInv, NEW t \in threads, ThreadSends(t)
  PROVE  IInv'
<1>. USE DEF IInv
<1>1. /\ t.pc = "send" /\ Write(t.sock) /\ Becomes(t, "close")
      /\ UNCHANGED <<fds, queue, acceptor, client>>
  BY DEF ThreadSends
<1>2. /\ threads' \subseteq [pc : {"start", "recv", "send", "close"}, sock : Fds]
      /\ \A u \in threads' : (u \in threads /\ u # t) \/ (u.pc = "close" /\ u.sock = t.sock)
      /\ DescriptorsAreOwned'
  BY <1>1, ThreadGoesOn
<1>3. /\ t.sock \in Fds /\ fds[t.sock].conn # NoConn
      /\ conn[fds[t.sock].conn].read /\ conn[fds[t.sock].conn].sent
  BY <1>1, ThreadsConnection DEF Earned
<1>4. /\ conn' \in [Conns -> LinkType]
      /\ \A c \in Conns : /\ conn'[c].client = conn[c].client
                          /\ conn'[c].server = conn[c].server
                          /\ conn[c].read => conn'[c].read
                          /\ conn[c].sent => conn'[c].sent
      /\ RepliesAreEarned'
  BY <1>1, <1>3, WriteKeeps
<1>5. /\ Linked' /\ Queued'
      /\ \A u \in threads : u.pc = "send" =>
           conn'[fds[u.sock].conn].read /\ conn'[fds[u.sock].conn].sent
  BY <1>1, <1>4, MoreIsSent
<1>6. Earned'
  BY <1>1, <1>2, <1>5 DEF Earned
<1>7. TcpTypeOK' /\ Holding'
  BY <1>1, <1>2, <1>4 DEF TcpTypeOK, LinkType, Holding
<1>. QED BY <1>2, <1>4, <1>5, <1>6, <1>7

LEMMA ThreadClosesIInv ==
  ASSUME IInv, NEW t \in threads, ThreadCloses(t)
  PROVE  IInv'
BY ThreadLeaves DEF ThreadCloses
-----------------------------------------------------------------------------
(* Other programs, and the end of the process.                             *)

LEMMA OutsiderConnectsIInv ==
  ASSUME IInv, OutsiderConnects
  PROVE  IInv'
<1>. USE DEF IInv
<1>1. UNCHANGED <<fds, acceptor, threads, client>>
  BY DEF OutsiderConnects
<1>2. PICK c \in LowestConn : Connect(c)
  BY DEF OutsiderConnects
<1>3. /\ c \in Conns /\ conn' \in [Conns -> LinkType]
      /\ \A b \in Conns : b # c => conn'[b] = conn[b]
      /\ \A d \in Fds : fds[d].conn # c
      /\ queue' \in Seq(Conns) /\ Queued' /\ RepliesAreEarned'
  BY <1>2, ConnectKeeps
<1>4. \A d \in Fds : fds[d].conn # NoConn => conn'[fds[d].conn] = conn[fds[d].conn]
  BY <1>3, EndsStay
<1>5. Linked'
  BY <1>1, <1>4 DEF Linked
<1>6. Earned'
  BY <1>1, <1>4, ThreadsConnection DEF Earned
<1>7. TcpTypeOK' /\ Holding' /\ DescriptorsAreOwned'
  BY <1>1, <1>3 DEF TcpTypeOK, LinkType, Holding, DescriptorsAreOwned, ClientHolds,
     AcceptorHolds, ThreadHolds
<1>. QED BY <1>3, <1>5, <1>6, <1>7

LEMMA OutsiderSendsIInv ==
  ASSUME IInv, NEW c \in Conns, OutsiderSends(c)
  PROVE  IInv'
<1>. USE DEF IInv
<1>. DEFINE r == [conn[c] EXCEPT !.sent = TRUE]
<1>1. UNCHANGED <<fds, queue, acceptor, threads, client>>
  BY DEF OutsiderSends
<1>2. conn' = [conn EXCEPT ![c] = r]
  BY DEF OutsiderSends
<1>3. conn[c] \in LinkType /\ r \in LinkType
  BY Types, WrittenLink
<1>4. /\ r.client = conn[c].client /\ r.server = conn[c].server /\ r.read = conn[c].read
      /\ r.sent = TRUE /\ r.replied = conn[c].replied
  BY <1>3 DEF LinkType
<1>. HIDE DEF r
<1>5. /\ conn' \in [Conns -> LinkType] /\ conn'[c] = r
      /\ \A b \in Conns : b # c => conn'[b] = conn[b]
  BY <1>2, <1>3, Types
<1>6. \A b \in Conns : /\ conn'[b].client = conn[b].client
                       /\ conn'[b].server = conn[b].server
                       /\ conn[b].read => conn'[b].read
                       /\ conn[b].sent => conn'[b].sent
  BY <1>4, <1>5
<1>7. /\ Linked' /\ Queued'
      /\ \A u \in threads : u.pc = "send" =>
           conn'[fds[u.sock].conn].read /\ conn'[fds[u.sock].conn].sent
  BY <1>1, <1>6, MoreIsSent
<1>8. Earned' /\ RepliesAreEarned'
  BY <1>1, <1>4, <1>5, <1>7 DEF Earned, RepliesAreEarned
<1>9. TcpTypeOK' /\ Holding' /\ DescriptorsAreOwned'
  BY <1>1, <1>5 DEF TcpTypeOK, LinkType, Holding, DescriptorsAreOwned, ClientHolds,
     AcceptorHolds, ThreadHolds
<1>. QED BY <1>7, <1>8, <1>9

LEMMA OutsiderClosesIInv ==
  ASSUME IInv, NEW c \in Conns, OutsiderCloses(c)
  PROVE  IInv'
<1>. USE DEF IInv
<1>. DEFINE r == Closed(conn[c], "client")
<1>1. UNCHANGED <<fds, queue, acceptor, threads, client>>
  BY DEF OutsiderCloses
<1>2. conn' = [conn EXCEPT ![c] = r]
  BY DEF OutsiderCloses
<1>3. /\ conn[c] \in LinkType
      /\ \A d \in Fds : fds[d] # [conn |-> c, end |-> "client"]
  BY Types DEF OutsiderCloses, Outside
<1>4. /\ conn[c].server # "closed" => r = [conn[c] EXCEPT !.client = "closed"]
      /\ conn[c].server = "closed" => r = NoLink
      /\ [conn[c] EXCEPT !.client = "closed"] \in LinkType /\ NoLink \in LinkType
  BY <1>3, ClosedLink
<1>. HIDE DEF r
<1>5. /\ r \in LinkType
      /\ conn[c].server # "closed" => /\ r.server = conn[c].server
                                      /\ r.read = conn[c].read /\ r.sent = conn[c].sent
                                      /\ r.replied = conn[c].replied
      /\ conn[c].server = "closed" => ~r.replied
  BY <1>3, <1>4 DEF LinkType, NoLink
<1>6. /\ conn' \in [Conns -> LinkType] /\ conn'[c] = r
      /\ \A b \in Conns : b # c => conn'[b] = conn[b]
  BY <1>2, <1>5, Types
<1>7. Queued'
  <2>1. \A b \in Conns : conn[b].server = "queued" => conn'[b].server = "queued"
    BY <1>5, <1>6
  <2>. QED BY <1>1, <2>1, QueueStays
<1>8. RepliesAreEarned'
  BY <1>5, <1>6 DEF RepliesAreEarned
<1>9. \A d \in Fds : fds[d].end = "server" =>
        /\ fds[d].conn \in Conns
        /\ conn'[fds[d].conn].server = "open"
        /\ conn'[fds[d].conn].read = conn[fds[d].conn].read
        /\ conn'[fds[d].conn].sent = conn[fds[d].conn].sent
  <2>. SUFFICES ASSUME NEW d \in Fds, fds[d].end = "server"
                PROVE  /\ fds[d].conn \in Conns
                       /\ conn'[fds[d].conn].server = "open"
                       /\ conn'[fds[d].conn].read = conn[fds[d].conn].read
                       /\ conn'[fds[d].conn].sent = conn[fds[d].conn].sent
    OBVIOUS
  <2>1. fds[d].conn \in Conns /\ conn[fds[d].conn].server = "open"
    BY Types DEF Linked
  <2>. QED BY <1>5, <1>6, <2>1
<1>10. \A d \in Fds : fds[d].end = "client" => fds[d].conn # c
  BY <1>3, Types DEF FdType
<1>11. Linked'
  <2>1. \A d \in Fds : fds[d].end = "client" /\ fds[d].conn # NoConn =>
          conn'[fds[d].conn].client = "open"
    <3>1. \A d \in Fds : fds[d].conn # NoConn => fds[d].conn \in Conns
      BY Types
    <3>. QED BY <1>6, <1>10, <3>1 DEF Linked
  <2>. QED BY <1>1, <1>9, <2>1 DEF Linked
<1>12. Earned'
  BY <1>1, <1>9, ThreadsConnection DEF Earned
<1>13. TcpTypeOK' /\ Holding' /\ DescriptorsAreOwned'
  BY <1>1, <1>6 DEF TcpTypeOK, LinkType, Holding, DescriptorsAreOwned, ClientHolds,
     AcceptorHolds, ThreadHolds
<1>. QED BY <1>7, <1>8, <1>11, <1>12, <1>13

\* Nothing is open when the process starts, and when it has ended.
LEMMA InitIInv == TcpInit => IInv
<1>. SUFFICES ASSUME TcpInit PROVE IInv
  OBVIOUS
<1>. USE DEF TcpInit
<1>1. \A d \in Fds : fds[d].conn = NoConn /\ fds[d].end = "none"
  BY DEF FreeFd
<1>2. \A c \in Conns : ~conn[c].replied
  BY DEF NoLink
<1>3. /\ client.pc = "idle" /\ client.sock = NoFd /\ client.reply = "none"
      /\ acceptor.pc = "off"
  BY DEF NoCall
<1>4. TcpTypeOK
  BY DEF TcpTypeOK, FreeFd, NoLink, NoCall
<1>5. Queued
  <2>1. \A i \in 1..Len(queue) : FALSE
    BY SMT
  <2>. QED BY <2>1 DEF Queued
<1>. QED
  BY <1>1, <1>2, <1>3, <1>4, <1>5 DEF IInv, DescriptorsAreOwned, ClientHolds, AcceptorHolds,
     ThreadHolds, Linked, Holding, Earned, RepliesAreEarned

LEMMA TcpDiesIInv ==
  ASSUME TcpDies
  PROVE  IInv'
<1>1. TcpInit'
  BY DEF TcpDies, TcpInit
<1>. QED BY <1>1, InitIInv, PTL
-----------------------------------------------------------------------------
LEMMA StutterIInv ==
  ASSUME IInv, UNCHANGED tcpVars
  PROVE  IInv'
BY DEF IInv, tcpVars, TcpTypeOK, DescriptorsAreOwned, ClientHolds, AcceptorHolds,
   ThreadHolds, Linked, Holding, Queued, Earned, RepliesAreEarned

\* Who owns which end of which connection, in every reachable state.
THEOREM TcpInvariant == TcpSpec => []IInv
<1>1. IInv /\ [TcpNext]_tcpVars => IInv'
  <2>. SUFFICES ASSUME IInv, [TcpNext]_tcpVars PROVE IInv'
    OBVIOUS
  <2>1. CASE ClientCalls \/ ClientStep \/ ClientReturns
    BY <2>1, ClientCallsIInv, ClientSocketIInv, ClientConnectIInv, ClientSendIInv,
       ClientRecvIInv, ClientReturnsIInv DEF ClientStep
  <2>2. CASE TcpListens \/ AcceptConnection \/ StartThread
    BY <2>2, TcpListensIInv, AcceptConnectionIInv, StartThreadIInv
  <2>3. CASE \E t \in threads : ThreadStep(t)
    BY <2>3, ThreadStartsIInv, ThreadReceivesIInv, ThreadSendsIInv, ThreadClosesIInv
    DEF ThreadStep
  <2>4. CASE Outsiders
    BY <2>4, OutsiderConnectsIInv, OutsiderSendsIInv, OutsiderClosesIInv DEF Outsiders
  <2>5. CASE TcpDies
    BY <2>5, TcpDiesIInv
  <2>6. CASE AcceptFails \/ UNCHANGED tcpVars
    BY <2>6, StutterIInv DEF AcceptFails
  <2>. QED BY <2>1, <2>2, <2>3, <2>4, <2>5, <2>6 DEF TcpNext, ServerStep
<1>. QED BY InitIInv, <1>1, PTL DEF TcpSpec

\* Every variable keeps its type (socket_client.c:10-58 and socket_server.c:10-96).
THEOREM TcpTypes == TcpSpec => []TcpTypeOK
<1>1. IInv => TcpTypeOK
  BY DEF IInv
<1>. QED BY <1>1, TcpInvariant, PTL

\* No descriptor leaks and none is closed by somebody else, on any path of
\* socket_client.c:10-58 and socket_server.c:10-96.
THEOREM DescriptorsStayOwned == TcpSpec => []DescriptorsAreOwned
<1>1. IInv => DescriptorsAreOwned
  BY DEF IInv
<1>. QED BY <1>1, TcpInvariant, PTL

\* Every "Processed" was earned by a request (socket_server.c:12-23).
THEOREM EveryReplyIsEarned == TcpSpec => []RepliesAreEarned
<1>1. IInv => RepliesAreEarned
  BY DEF IInv
<1>. QED BY <1>1, TcpInvariant, PTL
-----------------------------------------------------------------------------
(* Nobody is forgotten.  The invariant Attended holds of the states in      *)
(* which IInv does, and is kept by the same steps.                         *)

Listening == queue # <<>> => acceptor.pc # "off"

InBacklog ==
  \A c \in Conns : conn[c].server = "queued" => \E i \in 1..Len(queue) : queue[i] = c

HasServer ==
  \A c \in Conns : conn[c].server = "open" =>
    \E d \in Fds : fds[d] = [conn |-> c, end |-> "server"]

\* A connection has both ends, open or not, or there is none.
BothEnds == \A c \in Conns : conn[c].client = "none" <=> conn[c].server = "none"

Answered == \A t \in threads : t.pc = "close" => conn[fds[t.sock].conn].replied

Asked == client.pc = "recv" => conn[fds[client.sock].conn].sent

Attended == Listening /\ InBacklog /\ HasServer /\ BothEnds /\ Answered /\ Asked

\* Connections that keep their ends, and what was sent on them.
LEMMA GrowingAttends ==
  ASSUME IInv, Attended, UNCHANGED <<fds, queue>>,
         \A c \in Conns : /\ conn'[c].client = conn[c].client
                          /\ conn'[c].server = conn[c].server
                          /\ conn[c].sent => conn'[c].sent
                          /\ conn[c].replied => conn'[c].replied
  PROVE  /\ InBacklog' /\ HasServer' /\ BothEnds'
         /\ \A t \in threads : t.pc = "close" => conn'[fds[t.sock].conn].replied
         /\ client.pc = "recv" => conn'[fds[client.sock].conn].sent
<1>1. InBacklog' /\ HasServer' /\ BothEnds'
  BY DEF Attended, InBacklog, HasServer, BothEnds
<1>2. \A t \in threads : fds[t.sock].conn \in Conns
  BY ThreadsConnection
<1>3. client.pc = "recv" => fds[client.sock].conn \in Conns
  BY Types DEF IInv, Holding
<1>. QED BY <1>1, <1>2, <1>3 DEF Attended, Answered, Asked

\* What close leaves of them.
LEMMA CloseAttends ==
  ASSUME IInv, Attended, NEW d \in Fds, fds[d].end \in {"client", "server"}, Close(d),
         UNCHANGED queue
  PROVE  /\ InBacklog' /\ HasServer' /\ BothEnds'
         /\ \A e \in Fds : e # d /\ fds[e].conn # NoConn =>
              /\ fds'[e] = fds[e]
              /\ conn'[fds[e].conn].sent = conn[fds[e].conn].sent
              /\ conn'[fds[e].conn].replied = conn[fds[e].conn].replied
<1>. DEFINE c == fds[d].conn
<1>1. /\ fds \in [Fds -> FdType] /\ conn \in [Conns -> LinkType] /\ c \in Conns \cup {NoConn}
      /\ \A e \in Fds : fds[e] \in FdType /\ fds[e].conn \in Conns \cup {NoConn}
                        /\ fds[e].end \in {"none", "client", "server"}
      /\ 0 \notin Conns
  BY Types DEF IInv
<1>2. \A e \in Fds : e # d => fds'[e] = fds[e]
  BY <1>1 DEF Close
<1>3. CASE c = NoConn
  <2>1. conn' = conn
    BY <1>3 DEF Close
  <2>2. HasServer'
    <3>. SUFFICES ASSUME NEW b \in Conns, conn[b].server = "open"
                  PROVE  \E g \in Fds : fds'[g] = [conn |-> b, end |-> "server"]
      BY <2>1 DEF HasServer
    <3>1. PICK g \in Fds : fds[g] = [conn |-> b, end |-> "server"]
      BY DEF Attended, HasServer
    <3>2. g # d
      BY <1>1, <1>3, <3>1 DEF NoConn
    <3>. QED BY <1>2, <3>1, <3>2
  <2>3. InBacklog' /\ BothEnds'
    BY <2>1 DEF Attended, InBacklog, BothEnds
  <2>. QED BY <1>2, <2>1, <2>2, <2>3
<1>4. CASE c # NoConn
  <2>. DEFINE r == Closed(conn[c], fds[d].end)
  <2>1. c \in Conns /\ conn[c] \in LinkType
    BY <1>1, <1>4
  <2>2. conn' = [conn EXCEPT ![c] = r]
    BY <1>4 DEF Close
  <2>3. conn'[c] = r /\ \A b \in Conns : b # c => conn'[b] = conn[b]
    <3>. HIDE DEF r
    <3>. QED BY <1>1, <2>1, <2>2
  <2>5. \A e \in Fds : e # d /\ fds[e].end = fds[d].end => fds[e].conn # c
    BY <1>1, <1>4 DEF IInv, Linked, FdType
  <2>6. \A e \in Fds : fds[e].conn = c => fds[e].end # "none"
    BY <1>4 DEF IInv, Linked
  <2>7. /\ r.server = "queued" => conn[c].server = "queued"
        /\ r.server = "open" => conn[c].server = "open" /\ fds[d].end = "client"
        /\ r.client = "none" <=> r.server = "none"
        /\ \A e \in Fds : e # d /\ fds[e].conn = c =>
             r.sent = conn[c].sent /\ r.replied = conn[c].replied
    <3>1. NoLink.client = "none" /\ NoLink.server = "none"
      BY DEF NoLink
    <3>2. CASE fds[d].end = "client"
      <4>1. conn[c].client = "open" /\ conn[c].server # "none"
        BY <1>4, <2>1, <3>2 DEF IInv, Linked, Attended, BothEnds
      <4>2. \A e \in Fds : e # d /\ fds[e].conn = c => conn[c].server = "open"
        <5>1. \A e \in Fds : e # d /\ fds[e].conn = c => fds[e].end = "server"
          BY <1>1, <2>5, <2>6, <3>2
        <5>. QED BY <5>1 DEF IInv, Linked
      <4>3. CASE conn[c].server = "closed"
        <5>1. r = NoLink
          BY <2>1, <3>2, <4>3, ClosedLink
        <5>. HIDE DEF r
        <5>. QED BY <3>1, <4>2, <4>3, <5>1
      <4>4. CASE conn[c].server # "closed"
        <5>1. r = [conn[c] EXCEPT !.client = "closed"]
          BY <2>1, <3>2, <4>4, ClosedLink
        <5>2. /\ r.client = "closed" /\ r.server = conn[c].server
              /\ r.sent = conn[c].sent /\ r.replied = conn[c].replied
          BY <2>1, <5>1 DEF LinkType
        <5>. HIDE DEF r
        <5>. QED BY <3>2, <4>1, <5>2
      <4>. QED BY <4>3, <4>4
    <3>3. CASE fds[d].end = "server"
      <4>1. conn[c].server = "open" /\ conn[c].client # "none"
        BY <1>4, <2>1, <3>3 DEF IInv, Linked, Attended, BothEnds
      <4>2. \A e \in Fds : e # d /\ fds[e].conn = c => conn[c].client = "open"
        <5>1. \A e \in Fds : e # d /\ fds[e].conn = c => fds[e].end = "client"
          BY <1>1, <2>5, <2>6, <3>3
        <5>. QED BY <1>4, <5>1 DEF IInv, Linked
      <4>3. CASE conn[c].client = "closed"
        <5>1. r = NoLink
          BY <2>1, <3>3, <4>3, ClosedLink
        <5>. HIDE DEF r
        <5>. QED BY <3>1, <4>2, <4>3, <5>1
      <4>4. CASE conn[c].client # "closed"
        <5>1. r = [conn[c] EXCEPT !.server = "closed"]
          BY <2>1, <3>3, <4>4, ClosedLink
        <5>2. /\ r.server = "closed" /\ r.client = conn[c].client
              /\ r.sent = conn[c].sent /\ r.replied = conn[c].replied
          BY <2>1, <5>1 DEF LinkType
        <5>. HIDE DEF r
        <5>. QED BY <4>1, <5>2
      <4>. QED BY <4>3, <4>4
    <3>. QED BY <3>2, <3>3
  <2>. HIDE DEF r
  <2>8. InBacklog' /\ BothEnds'
    BY <2>1, <2>3, <2>7 DEF Attended, InBacklog, BothEnds
  <2>9. HasServer'
    <3>. SUFFICES ASSUME NEW b \in Conns, conn'[b].server = "open"
                  PROVE  \E g \in Fds : fds'[g] = [conn |-> b, end |-> "server"]
      BY DEF HasServer
    <3>1. conn[b].server = "open" /\ (b = c => fds[d].end = "client")
      BY <2>3, <2>7
    <3>2. PICK g \in Fds : fds[g] = [conn |-> b, end |-> "server"]
      BY <3>1 DEF Attended, HasServer
    <3>3. g # d
      BY <3>1, <3>2
    <3>. QED BY <1>2, <3>2, <3>3
  <2>10. ASSUME NEW e \in Fds, e # d, fds[e].conn # NoConn
         PROVE  /\ conn'[fds[e].conn].sent = conn[fds[e].conn].sent
                /\ conn'[fds[e].conn].replied = conn[fds[e].conn].replied
    <3>1. fds[e].conn \in Conns
      BY <1>1, <2>10
    <3>. QED BY <2>3, <2>7, <2>10, <3>1
  <2>. QED BY <1>2, <2>8, <2>9, <2>10
<1>. QED BY <1>3, <1>4

\* The threads at work and the client that waits have a connection.
LEMMA WhoHasAConnection ==
  ASSUME IInv
  PROVE  /\ \A t \in threads : t.sock \in Fds /\ fds[t.sock].conn # NoConn
                               /\ fds[t.sock].end = "server"
         /\ client.pc \in {"send", "recv"} =>
              /\ client.sock \in Fds /\ fds[client.sock].conn # NoConn
              /\ fds[client.sock].end = "client"
<1>1. \A t \in threads : t.sock \in Fds /\ fds[t.sock].conn # NoConn
                         /\ fds[t.sock].end = "server"
  BY ThreadsConnection, Types DEF IInv, NoConn
<1>2. client.pc \in {"send", "recv"} => client.sock \in Fds /\ ClientHolds(client.sock)
  BY DEF IInv, Holding, ClientHolds
<1>. QED BY <1>1, <1>2 DEF IInv, Holding, DescriptorsAreOwned

LEMMA ClientLeavesAttended ==
  ASSUME IInv, Attended, client.pc \in {"connect", "send", "recv"}, Close(client.sock),
         client'.pc = "done", UNCHANGED <<queue, acceptor, threads>>
  PROVE  Attended'
<1>. DEFINE s == client.sock
<1>1. s \in Fds /\ fds[s].end = "client"
  BY DEF IInv, Holding, DescriptorsAreOwned, ClientHolds
<1>2. /\ InBacklog' /\ HasServer' /\ BothEnds'
      /\ \A e \in Fds : e # s /\ fds[e].conn # NoConn =>
           /\ fds'[e] = fds[e]
           /\ conn'[fds[e].conn].replied = conn[fds[e].conn].replied
  BY <1>1, CloseAttends
<1>3. \A t \in threads : t.sock \in Fds /\ t.sock # s /\ fds[t.sock].conn # NoConn
  BY <1>1, WhoHasAConnection
<1>4. Answered'
  BY <1>2, <1>3 DEF Attended, Answered
<1>5. Asked' /\ Listening'
  BY DEF Attended, Asked, Listening
<1>. QED BY <1>2, <1>4, <1>5 DEF Attended

\* A thread, or the acceptor for want of one, has closed its descriptor.
LEMMA ServerLeavesAttended ==
  ASSUME IInv, Attended, NEW d \in Fds, fds[d].end = "server", Close(d),
         UNCHANGED <<queue, client>>, acceptor.pc # "off" => acceptor'.pc # "off",
         threads' \subseteq threads, \A t \in threads' : t.sock # d
  PROVE  Attended'
<1>1. /\ InBacklog' /\ HasServer' /\ BothEnds'
      /\ \A e \in Fds : e # d /\ fds[e].conn # NoConn =>
           /\ fds'[e] = fds[e]
           /\ conn'[fds[e].conn].sent = conn[fds[e].conn].sent
           /\ conn'[fds[e].conn].replied = conn[fds[e].conn].replied
  BY CloseAttends
<1>2. Answered'
  BY <1>1, WhoHasAConnection DEF Attended, Answered
<1>3. Asked'
  <2>1. client.pc = "recv" => client.sock \in Fds /\ client.sock # d
                              /\ fds[client.sock].conn # NoConn
    BY WhoHasAConnection
  <2>. QED BY <1>1, <2>1 DEF Attended, Asked
<1>4. Listening'
  BY DEF Attended, Listening
<1>. QED BY <1>1, <1>2, <1>3, <1>4 DEF Attended

\* A connection that is new in the backlog.
LEMMA ConnectAttends ==
  ASSUME IInv, Attended, NEW c \in LowestConn, Connect(c), UNCHANGED <<acceptor, threads>>,
         \A e \in Fds : fds[e].end = "server" => fds'[e] = fds[e]
  PROVE  Listening' /\ InBacklog' /\ HasServer' /\ BothEnds' /\ Answered'
<1>1. /\ c \in Conns
      /\ conn'[c].client = "open" /\ conn'[c].server = "queued"
      /\ \A b \in Conns : b # c => conn'[b] = conn[b]
      /\ \A d \in Fds : fds[d].conn # c
  BY ConnectKeeps
<1>2. queue \in Seq(Conns) /\ Len(queue) \in Nat /\ queue' = Append(queue, c)
  BY DEF IInv, TcpTypeOK, Connect
<1>3. /\ Len(queue') = Len(queue) + 1 /\ queue'[Len(queue) + 1] = c
      /\ \A i \in 1..Len(queue) : queue'[i] = queue[i]
  BY <1>1, <1>2, AppendProperties
<1>4. /\ Len(queue) + 1 \in 1..Len(queue')
      /\ \A i \in 1..Len(queue) : i \in 1..Len(queue')
  BY <1>2, <1>3
<1>5. InBacklog'
  <2>. SUFFICES ASSUME NEW b \in Conns, conn'[b].server = "queued"
                PROVE  \E i \in 1..Len(queue') : queue'[i] = b
    BY DEF InBacklog
  <2>1. CASE b = c
    BY <1>3, <1>4, <2>1
  <2>2. CASE b # c
    <3>1. PICK i \in 1..Len(queue) : queue[i] = b
      BY <1>1, <2>2 DEF Attended, InBacklog
    <3>. QED BY <1>3, <1>4, <3>1
  <2>. QED BY <2>1, <2>2
<1>6. HasServer'
  <2>. SUFFICES ASSUME NEW b \in Conns, conn'[b].server = "open"
                PROVE  \E d \in Fds : fds'[d] = [conn |-> b, end |-> "server"]
    BY DEF HasServer
  <2>1. PICK d \in Fds : fds[d] = [conn |-> b, end |-> "server"]
    BY <1>1 DEF Attended, HasServer
  <2>. QED BY <2>1
<1>7. BothEnds'
  BY <1>1 DEF Attended, BothEnds
<1>8. Answered'
  <2>1. \A t \in threads : /\ fds'[t.sock] = fds[t.sock]
                           /\ fds[t.sock].conn \in Conns /\ fds[t.sock].conn # c
    BY <1>1, WhoHasAConnection, ThreadsConnection
  <2>2. \A t \in threads : conn'[fds'[t.sock].conn] = conn[fds[t.sock].conn]
    BY <1>1, <2>1
  <2>. QED BY <2>2 DEF Attended, Answered
<1>9. Listening'
  BY DEF Connect, Listening
<1>. QED BY <1>5, <1>6, <1>7, <1>8, <1>9
-----------------------------------------------------------------------------
(* One lemma for each thread.                                              *)

LEMMA ClientAttended ==
  ASSUME IInv, Attended, ClientCalls \/ ClientStep \/ ClientReturns
  PROVE  Attended'
<1>1. CASE ClientCalls \/ ClientReturns
  <2>1. UNCHANGED <<fds, conn, queue, acceptor, threads>> /\ client'.pc # "recv"
    BY <1>1 DEF ClientCalls, ClientReturns, NoCall
  <2>. QED BY <2>1 DEF Attended, Listening, InBacklog, HasServer, BothEnds, Answered, Asked
<1>2. CASE ClientSocket
  <2>1. UNCHANGED <<conn, queue, acceptor, threads>>
    BY <1>2 DEF ClientSocket
  <2>2. client'.pc # "recv"
    BY <1>2 DEF ClientSocket, Returns, NoCall, IInv, TcpTypeOK
  <2>3. \A e \in Fds : fds[e].end = "server" => fds'[e] = fds[e]
    <3>1. CASE UNCHANGED fds
      BY <3>1
    <3>2. ASSUME NEW d \in LowestFd, fds' = [fds EXCEPT ![d] = [conn |-> NoConn, end |-> "client"]]
          PROVE  \A e \in Fds : fds[e].end = "server" => fds'[e] = fds[e]
      <4>1. fds[d].end = "none"
        BY DEF LowestFd, FreeFds, FreeFd
      <4>. QED BY <3>2, <4>1, Types DEF IInv
    <3>. QED BY <1>2, <3>1, <3>2 DEF ClientSocket
  <2>4. HasServer'
    <3>. SUFFICES ASSUME NEW b \in Conns, conn[b].server = "open"
                  PROVE  \E d \in Fds : fds'[d] = [conn |-> b, end |-> "server"]
      BY <2>1 DEF HasServer
    <3>1. PICK d \in Fds : fds[d] = [conn |-> b, end |-> "server"]
      BY DEF Attended, HasServer
    <3>. QED BY <2>3, <3>1
  <2>5. Answered'
    BY <2>1, <2>3, WhoHasAConnection DEF Attended, Answered
  <2>. QED BY <2>1, <2>2, <2>4, <2>5 DEF Attended, Listening, InBacklog, BothEnds, Asked
<1>3. ASSUME client.pc \in {"connect", "send", "recv"}, Close(client.sock),
             UNCHANGED <<queue, acceptor, threads>>, NEW reply, Returns(reply)
      PROVE  Attended'
  <2>1. client'.pc = "done"
    BY <1>3 DEF Returns, NoCall
  <2>. QED BY <1>3, <2>1, ClientLeavesAttended
<1>4. CASE ClientConnect
  <2>1. CASE Close(client.sock) /\ Returns("null") /\ UNCHANGED queue
    BY <1>3, <1>4, <2>1 DEF ClientConnect
  <2>2. ASSUME NEW c \in LowestConn, Connect(c),
               fds' = [fds EXCEPT ![client.sock] = [conn |-> c, end |-> "client"]],
               client' = [client EXCEPT !.pc = "send"]
        PROVE  Attended'
    <3>1. fds[client.sock].end = "client" /\ UNCHANGED <<acceptor, threads>>
      BY <1>4 DEF ClientConnect, IInv, Holding, DescriptorsAreOwned, ClientHolds
    <3>2. \A e \in Fds : fds[e].end = "server" => fds'[e] = fds[e]
      BY <2>2, <3>1, Types DEF IInv
    <3>3. Asked'
      BY <2>2 DEF Asked, IInv, TcpTypeOK
    <3>. QED BY <2>2, <3>1, <3>2, <3>3, ConnectAttends DEF Attended
  <2>. QED BY <1>4, <2>1, <2>2 DEF ClientConnect
<1>5. CASE ClientSend
  <2>1. CASE Close(client.sock) /\ Returns("null")
    BY <1>3, <1>5, <2>1 DEF ClientSend
  <2>2. CASE /\ Write(client.sock)
             /\ client' = [client EXCEPT !.pc = "recv"]
             /\ UNCHANGED fds
    <3>. DEFINE c == fds[client.sock].conn
    <3>1. UNCHANGED <<fds, queue, acceptor, threads>>
      BY <1>5, <2>2 DEF ClientSend
    <3>2. /\ client.sock \in Fds /\ c \in Conns
          /\ fds[client.sock].end = "client"
      BY <1>5, WhoHasAConnection, Types DEF ClientSend, IInv
    <3>3. conn' = [conn EXCEPT ![c].sent = TRUE]
      BY <2>2, <3>2, Types DEF Write, IInv, NoConn
    <3>4. /\ conn'[c].sent
          /\ \A b \in Conns : /\ conn'[b].client = conn[b].client
                              /\ conn'[b].server = conn[b].server
                              /\ conn[b].sent => conn'[b].sent
                              /\ conn[b].replied => conn'[b].replied
      BY <3>2, <3>3, Types DEF IInv, LinkType
    <3>5. /\ InBacklog' /\ HasServer' /\ BothEnds'
          /\ \A t \in threads : t.pc = "close" => conn'[fds[t.sock].conn].replied
      BY <3>1, <3>4, GrowingAttends
    <3>6. client'.sock = client.sock
      BY <2>2 DEF IInv, TcpTypeOK
    <3>7. Asked' /\ Answered'
      BY <3>1, <3>4, <3>5, <3>6 DEF Asked, Answered
    <3>. QED BY <3>1, <3>5, <3>7 DEF Attended, Listening
  <2>. QED BY <1>5, <2>1, <2>2 DEF ClientSend
<1>6. CASE ClientRecv
  BY <1>3, <1>6 DEF ClientRecv
<1>. QED BY <1>1, <1>2, <1>4, <1>5, <1>6 DEF ClientStep

LEMMA AcceptorAttended ==
  ASSUME IInv, Attended, TcpListens \/ AcceptConnection \/ StartThread
  PROVE  Attended'
<1>1. CASE TcpListens
  <2>1. UNCHANGED <<fds, conn, queue, threads, client>> /\ acceptor'.pc = "accept"
    BY <1>1 DEF TcpListens, IInv, TcpTypeOK
  <2>. QED BY <2>1 DEF Attended, Listening, InBacklog, HasServer, BothEnds, Answered, Asked
<1>2. CASE AcceptConnection
  <2>. DEFINE c == Head(queue)
              e == [conn |-> c, end |-> "server"]
  <2>1. /\ queue # <<>> /\ queue' = Tail(queue) /\ UNCHANGED <<threads, client>>
        /\ conn' = [conn EXCEPT ![c].server = "open"]
    BY <1>2 DEF AcceptConnection
  <2>2. c \in Conns /\ c = queue[1] /\ conn[c].server = "queued"
    BY <2>1, WhatWaits
  <2>3. PICK d \in LowestFd : fds' = [fds EXCEPT ![d] = e]
                              /\ acceptor' = [pc |-> "accepted", sock |-> d]
    BY <1>2 DEF AcceptConnection
  <2>4. /\ d \in Fds /\ fds[d].end = "none" /\ fds[d].conn = NoConn
        /\ fds'[d] = e /\ \A g \in Fds : g # d => fds'[g] = fds[g]
    BY <2>3, Types DEF LowestFd, FreeFds, FreeFd, IInv
  <2>5. /\ conn'[c].server = "open" /\ conn'[c].client = conn[c].client
        /\ \A b \in Conns : /\ b # c => conn'[b] = conn[b]
                            /\ conn'[b].sent = conn[b].sent
                            /\ conn'[b].replied = conn[b].replied
    <3>. HIDE DEF c
    <3>. QED BY <2>1, <2>2, Types DEF IInv, LinkType
  <2>6. /\ Len(queue) \in Nat /\ Len(queue') \in Nat /\ Len(queue') = Len(queue) - 1
        /\ \A i \in 1..Len(queue') : queue'[i] = queue[i + 1]
    BY <2>1, SMT DEF IInv, TcpTypeOK
  <2>. HIDE DEF c
  <2>7. InBacklog'
    <3>. SUFFICES ASSUME NEW b \in Conns, conn'[b].server = "queued"
                  PROVE  \E i \in 1..Len(queue') : queue'[i] = b
      BY DEF InBacklog
    <3>1. b # c /\ conn[b].server = "queued"
      BY <2>5
    <3>2. PICK i \in 1..Len(queue) : queue[i] = b
      BY <3>1 DEF Attended, InBacklog
    <3>3. i # 1
      BY <2>2, <3>1, <3>2
    <3>4. i - 1 \in 1..Len(queue') /\ (i - 1) + 1 = i
      BY <2>6, <3>3
    <3>5. queue'[i - 1] = queue[(i - 1) + 1]
      BY <2>6, <3>4
    <3>. QED BY <3>2, <3>4, <3>5
  <2>8. HasServer'
    <3>. SUFFICES ASSUME NEW b \in Conns, conn'[b].server = "open"
                  PROVE  \E g \in Fds : fds'[g] = [conn |-> b, end |-> "server"]
      BY DEF HasServer
    <3>1. CASE b = c
      BY <2>4, <3>1
    <3>2. CASE b # c
      <4>1. PICK g \in Fds : fds[g] = [conn |-> b, end |-> "server"]
        BY <2>5, <3>2 DEF Attended, HasServer
      <4>2. g # d
        BY <2>4, <4>1
      <4>. QED BY <2>4, <4>1, <4>2
    <3>. QED BY <3>1, <3>2
  <2>9. BothEnds'
    <3>. SUFFICES ASSUME NEW b \in Conns
                  PROVE  conn'[b].client = "none" <=> conn'[b].server = "none"
      BY DEF BothEnds
    <3>1. conn[b].client = "none" <=> conn[b].server = "none"
      BY DEF Attended, BothEnds
    <3>2. CASE b = c
      BY <2>2, <2>5, <3>1, <3>2
    <3>3. CASE b # c
      BY <2>5, <3>1, <3>3
    <3>. QED BY <3>2, <3>3
  <2>10. Answered'
    <3>1. \A t \in threads : fds'[t.sock] = fds[t.sock] /\ fds[t.sock].conn \in Conns
      BY <2>4, WhoHasAConnection, ThreadsConnection
    <3>. QED BY <2>1, <2>5, <3>1 DEF Attended, Answered
  <2>11. Asked'
    <3>1. client.pc = "recv" => /\ fds'[client.sock] = fds[client.sock]
                                /\ fds[client.sock].conn \in Conns
      BY <2>4, WhoHasAConnection, Types DEF IInv
    <3>. QED BY <2>1, <2>5, <3>1 DEF Attended, Asked
  <2>12. Listening'
    BY <2>3 DEF Listening
  <2>. QED BY <2>7, <2>8, <2>9, <2>10, <2>11, <2>12 DEF Attended
<1>3. CASE StartThread
  <2>1. /\ acceptor.pc = "accepted" /\ acceptor'.pc = "accept" /\ UNCHANGED <<queue, client>>
    BY <1>3 DEF StartThread, IInv, TcpTypeOK
  <2>2. /\ acceptor.sock \in Fds /\ fds[acceptor.sock].end = "server"
        /\ \A t \in threads : t.sock # acceptor.sock
    BY <2>1 DEF IInv, Holding, DescriptorsAreOwned, AcceptorHolds, ThreadHolds
  <2>3. CASE Close(acceptor.sock) /\ UNCHANGED threads
    BY <2>1, <2>2, <2>3, ServerLeavesAttended
  <2>4. CASE /\ threads' = threads \cup {[pc |-> "start", sock |-> acceptor.sock]}
             /\ UNCHANGED <<fds, conn>>
    <3>1. \A t \in threads' : t.pc = "close" => t \in threads
      BY <2>4
    <3>2. Answered'
      BY <2>4, <3>1 DEF Attended, Answered
    <3>. QED BY <2>1, <2>4, <3>2 DEF Attended, Listening, InBacklog, HasServer, BothEnds, Asked
  <2>. QED BY <1>3, <2>3, <2>4 DEF StartThread
<1>. QED BY <1>1, <1>2, <1>3

LEMMA ThreadAttended ==
  ASSUME IInv, Attended, NEW t \in threads, ThreadStep(t)
  PROVE  Attended'
<1>1. /\ t.sock \in Fds /\ fds[t.sock].end = "server" /\ fds[t.sock].conn \in Conns
      /\ fds[t.sock].conn # NoConn
  BY WhoHasAConnection, ThreadsConnection
<1>2. UNCHANGED <<queue, acceptor, client>>
  BY DEF ThreadStep, ThreadStarts, ThreadReceives, ThreadSends, ThreadCloses
<1>3. CASE Close(t.sock) /\ threads' = threads \ {t}
  <2>1. \A u \in threads' : u.sock # t.sock
    BY <1>3 DEF IInv, DescriptorsAreOwned
  <2>. QED BY <1>1, <1>2, <1>3, <2>1, ServerLeavesAttended
<1>4. ASSUME NEW pc \in {"recv", "send", "close"}, Becomes(t, pc), UNCHANGED fds,
             \A c \in Conns : /\ conn'[c].client = conn[c].client
                              /\ conn'[c].server = conn[c].server
                              /\ conn[c].sent => conn'[c].sent
                              /\ conn[c].replied => conn'[c].replied,
             pc = "close" => conn'[fds[t.sock].conn].replied
      PROVE  Attended'
  <2>1. /\ InBacklog' /\ HasServer' /\ BothEnds'
        /\ \A u \in threads : u.pc = "close" => conn'[fds[u.sock].conn].replied
        /\ client.pc = "recv" => conn'[fds[client.sock].conn].sent
    BY <1>2, <1>4, GrowingAttends
  <2>2. \A u \in threads' : u \in threads \/ (u.sock = t.sock /\ u.pc = pc)
    BY <1>4 DEF Becomes, IInv, TcpTypeOK
  <2>3. Answered'
    BY <1>4, <2>1, <2>2 DEF Answered
  <2>4. Asked' /\ Listening'
    BY <1>2, <1>4, <2>1 DEF Asked, Attended, Listening
  <2>. QED BY <2>1, <2>3, <2>4 DEF Attended
<1>5. CASE ThreadStarts(t)
  BY <1>4, <1>5 DEF ThreadStarts
<1>6. CASE ThreadReceives(t)
  <2>1. CASE Close(t.sock) /\ threads' = threads \ {t}
    BY <1>3, <2>1
  <2>2. CASE /\ conn' = [conn EXCEPT ![fds[t.sock].conn].read = TRUE]
             /\ Becomes(t, "send") /\ UNCHANGED fds
    <3>1. \A c \in Conns : /\ conn'[c].client = conn[c].client
                           /\ conn'[c].server = conn[c].server
                           /\ conn[c].sent => conn'[c].sent
                           /\ conn[c].replied => conn'[c].replied
      BY <1>1, <2>2, Types DEF IInv, LinkType
    <3>. QED BY <1>4, <2>2, <3>1
  <2>. QED BY <1>6, <2>1, <2>2 DEF ThreadReceives
<1>7. CASE ThreadSends(t)
  <2>1. Becomes(t, "close") /\ UNCHANGED fds
    BY <1>7 DEF ThreadSends
  <2>2. conn' = [conn EXCEPT ![fds[t.sock].conn].replied = TRUE]
    BY <1>1, <1>7 DEF ThreadSends, Write
  <2>3. /\ conn'[fds[t.sock].conn].replied
        /\ \A c \in Conns : /\ conn'[c].client = conn[c].client
                            /\ conn'[c].server = conn[c].server
                            /\ conn[c].sent => conn'[c].sent
                            /\ conn[c].replied => conn'[c].replied
    BY <1>1, <2>2, Types DEF IInv, LinkType
  <2>. QED BY <1>4, <2>1, <2>3
<1>8. CASE ThreadCloses(t)
  BY <1>3, <1>8 DEF ThreadCloses
<1>. QED BY <1>5, <1>6, <1>7, <1>8 DEF ThreadStep

LEMMA OutsidersAttended ==
  ASSUME IInv, Attended, Outsiders
  PROVE  Attended'
<1>1. CASE OutsiderConnects
  <2>1. PICK c \in LowestConn : Connect(c)
    BY <1>1 DEF OutsiderConnects
  <2>2. UNCHANGED <<fds, acceptor, threads, client>>
    BY <1>1 DEF OutsiderConnects
  <2>3. Listening' /\ InBacklog' /\ HasServer' /\ BothEnds' /\ Answered'
    BY <2>1, <2>2, ConnectAttends
  <2>4. Asked'
    <3>1. \A b \in Conns : b # c => conn'[b] = conn[b]
      BY <2>1, ConnectKeeps
    <3>2. client.pc = "recv" => fds[client.sock].conn \in Conns /\ fds[client.sock].conn # c
      BY <2>1, ConnectKeeps, WhoHasAConnection, Types DEF IInv
    <3>. QED BY <2>2, <3>1, <3>2 DEF Attended, Asked
  <2>. QED BY <2>3, <2>4 DEF Attended
<1>2. ASSUME NEW c \in Conns, OutsiderSends(c)
      PROVE  Attended'
  <2>1. UNCHANGED <<fds, queue, acceptor, threads, client>>
        /\ conn' = [conn EXCEPT ![c].sent = TRUE]
    BY <1>2 DEF OutsiderSends
  <2>2. \A b \in Conns : /\ conn'[b].client = conn[b].client
                         /\ conn'[b].server = conn[b].server
                         /\ conn[b].sent => conn'[b].sent
                         /\ conn[b].replied => conn'[b].replied
    BY <2>1, Types DEF IInv, LinkType
  <2>3. /\ InBacklog' /\ HasServer' /\ BothEnds'
        /\ \A t \in threads : t.pc = "close" => conn'[fds[t.sock].conn].replied
        /\ client.pc = "recv" => conn'[fds[client.sock].conn].sent
    BY <2>1, <2>2, GrowingAttends
  <2>. QED BY <2>1, <2>3 DEF Attended, Listening, Answered, Asked
<1>3. ASSUME NEW c \in Conns, OutsiderCloses(c)
      PROVE  Attended'
  <2>. DEFINE r == Closed(conn[c], "client")
  <2>1. /\ UNCHANGED <<fds, queue, acceptor, threads, client>>
        /\ conn' = [conn EXCEPT ![c] = r]
        /\ conn[c].client = "open" /\ \A d \in Fds : fds[d] # [conn |-> c, end |-> "client"]
    BY <1>3 DEF OutsiderCloses, Outside
  <2>2. conn[c] \in LinkType /\ conn[c].server # "none"
    BY <2>1, Types DEF IInv, Attended, BothEnds
  <2>3. /\ conn[c].server = "closed" => r = NoLink
        /\ conn[c].server # "closed" => r = [conn[c] EXCEPT !.client = "closed"]
    BY <2>2, ClosedLink
  <2>4. /\ conn[c].server # "closed" => /\ r.server = conn[c].server /\ r.client = "closed"
                                        /\ r.sent = conn[c].sent
                                        /\ r.replied = conn[c].replied
        /\ conn[c].server = "closed" => r.server = "none" /\ r.client = "none"
    <3>1. CASE conn[c].server = "closed"
      BY <2>3, <3>1 DEF NoLink
    <3>2. CASE conn[c].server # "closed"
      <4>. HIDE DEF r
      <4>. QED BY <2>2, <2>3, <3>2 DEF LinkType
    <3>. QED BY <3>1, <3>2
  <2>. HIDE DEF r
  <2>5. conn'[c] = r /\ \A b \in Conns : b # c => conn'[b] = conn[b]
    BY <2>1, Types DEF IInv
  <2>6. InBacklog' /\ HasServer' /\ BothEnds'
    BY <2>1, <2>2, <2>4, <2>5 DEF Attended, InBacklog, HasServer, BothEnds
  <2>7. Answered'
    <3>. SUFFICES ASSUME NEW t \in threads, t.pc = "close"
                  PROVE  conn'[fds[t.sock].conn].replied
      BY <2>1 DEF Answered
    <3>1. /\ fds[t.sock].conn \in Conns /\ conn[fds[t.sock].conn].server = "open"
          /\ conn[fds[t.sock].conn].replied
      BY WhoHasAConnection, ThreadsConnection DEF IInv, Linked, Attended, Answered
    <3>. QED BY <2>4, <2>5, <3>1
  <2>8. Asked'
    <3>. SUFFICES ASSUME client.pc = "recv"
                  PROVE  conn'[fds[client.sock].conn].sent
      BY <2>1 DEF Asked
    <3>1. /\ fds[client.sock].conn \in Conns /\ fds[client.sock].conn # c
          /\ conn[fds[client.sock].conn].sent
      <4>1. client.sock \in Fds /\ fds[client.sock] \in FdType /\ fds[client.sock].end = "client"
            /\ fds[client.sock].conn # NoConn
        BY WhoHasAConnection, Types DEF IInv
      <4>2. fds[client.sock] = [conn |-> fds[client.sock].conn, end |-> "client"]
        BY <4>1 DEF FdType
      <4>. QED BY <2>1, <4>1, <4>2 DEF FdType, Attended, Asked
    <3>. QED BY <2>5, <3>1
  <2>. QED BY <2>1, <2>6, <2>7, <2>8 DEF Attended, Listening
<1>. QED BY <1>1, <1>2, <1>3 DEF Outsiders

LEMMA InitAttended == TcpInit => Attended
<1>. SUFFICES ASSUME TcpInit PROVE Attended
  OBVIOUS
<1>1. \A c \in Conns : conn[c].client = "none" /\ conn[c].server = "none"
  BY DEF TcpInit, NoLink
<1>2. queue = <<>> /\ threads = {} /\ client.pc = "idle"
  BY DEF TcpInit, NoCall
<1>. QED BY <1>1, <1>2 DEF Attended, Listening, InBacklog, HasServer, BothEnds, Answered, Asked

LEMMA AttendedNext == IInv /\ Attended /\ [TcpNext]_tcpVars => Attended'
<1>. SUFFICES ASSUME IInv, Attended, [TcpNext]_tcpVars PROVE Attended'
  OBVIOUS
<1>1. CASE TcpDies
  <2>1. TcpInit'
    BY <1>1 DEF TcpDies, TcpInit
  <2>. QED BY <2>1, InitAttended, PTL
<1>2. CASE AcceptFails \/ UNCHANGED tcpVars
  BY <1>2 DEF AcceptFails, tcpVars, Attended, Listening, InBacklog, HasServer, BothEnds, Answered, Asked
<1>. QED BY <1>1, <1>2, ClientAttended, AcceptorAttended, ThreadAttended, OutsidersAttended
         DEF TcpNext, ServerStep

\* Whoever waits, in the backlog or in a recv, waits for somebody who has the connection in
\* hand and is not waiting for him (socket_client.c:33-56, socket_server.c:10-96).
THEOREM NobodyIsEverForgotten == TcpSpec => []NobodyIsForgotten
<1>1. IInv /\ Attended => NobodyIsForgotten
  <2>. SUFFICES ASSUME IInv, Attended PROVE NobodyIsForgotten
    OBVIOUS
  <2>1. ASSUME NEW c \in Conns, conn[c].server = "queued"
        PROVE  acceptor.pc # "off" /\ \E i \in 1..Len(queue) : queue[i] = c
    <3>1. PICK i \in 1..Len(queue) : queue[i] = c
      BY <2>1 DEF Attended, InBacklog
    <3>2. queue # <<>>
      BY <3>1, SMT DEF IInv, TcpTypeOK
    <3>. QED BY <3>1, <3>2 DEF Attended, Listening
  <2>2. ASSUME NEW c \in Conns, conn[c].server = "open"
        PROVE  \E d \in Fds :
                 /\ fds[d] = [conn |-> c, end |-> "server"]
                 /\ \/ AcceptorHolds(d)
                    \/ \E t \in threads : t.sock = d /\ (t.pc = "close" => conn[c].replied)
    <3>1. PICK d \in Fds : fds[d] = [conn |-> c, end |-> "server"]
      BY <2>2 DEF Attended, HasServer
    <3>2. fds[d].conn = c /\ fds[d].end = "server"
      BY <3>1
    <3>3. AcceptorHolds(d) \/ ThreadHolds(d)
      BY <3>2 DEF IInv, DescriptorsAreOwned
    <3>4. ASSUME NEW t \in threads, t.sock = d
          PROVE  t.pc = "close" => conn[c].replied
      BY <3>2, <3>4 DEF Attended, Answered
    <3>. QED BY <3>1, <3>3, <3>4 DEF ThreadHolds
  <2>3. client.pc = "recv" => Link(client.sock).sent /\ Link(client.sock).server # "none"
    <3>. SUFFICES ASSUME client.pc = "recv"
                  PROVE  Link(client.sock).sent /\ Link(client.sock).server # "none"
      OBVIOUS
    <3>1. /\ fds[client.sock].conn \in Conns /\ conn[fds[client.sock].conn].client = "open"
          /\ conn[fds[client.sock].conn].sent
      BY WhoHasAConnection, Types DEF IInv, Linked, Attended, Asked
    <3>. QED BY <3>1 DEF Link, Attended, BothEnds
  <2>. QED BY <2>1, <2>2, <2>3 DEF NobodyIsForgotten
<1>2. TcpSpec => []Attended
  BY InitAttended, AttendedNext, TcpInvariant, PTL DEF TcpSpec
<1>. QED BY <1>1, <1>2, TcpInvariant, PTL
=====
