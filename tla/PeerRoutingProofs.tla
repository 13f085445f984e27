-------------------------- MODULE PeerRoutingProofs --------------------------
(***************************************************************************)
(* The routing of packets is right for any number of Factorio clients, of  *)
(* ids and of queue places, and for every loss, failure and interleaving   *)
(* of PeerRouting.                                                         *)
(*                                                                         *)
(* LiveReachable and NoCrossTalk are not inductive: whether a packet that  *)
(* is taken from the network reaches the right player depends on what the  *)
(* tables and the datagrams under way say.  Inv adds that.                 *)
(***************************************************************************)
EXTENDS PeerRouting, TLAPS

AllAre(queue, x) == \A i \in DOMAIN queue : queue[i] = x

\* The number of a peer follows its id: ids are given out once.
IdsInv ==
    /\ next_peer_id = Len(peers)
    /\ \A p \in DOMAIN peers : peers[p].id = p - 1

\* A peer that is not made has no halves, and nothing waits for them.
UnmadeInv ==
    \A p \in Peer : p > Len(peers) =>
        /\ client[p] = "none" /\ server[p] = "none"
        /\ server_receive_queue[p] = <<>> /\ receive_queue[p] = <<>>

\* What is in the tables are peers of the address or id they are filed under.
TablesInv ==
    /\ \A a \in Addr : addr_to_queue[a] # 0 =>
           addr_to_queue[a] \in DOMAIN peers /\ peers[addr_to_queue[a]].addr = a
    /\ \A i \in Id : id_to_queue[i] # 0 => id_to_queue[i] \in DOMAIN peers /\ id_to_queue[i] = i + 1
    /\ \A i \in Id : outgoing_queues[i] # 0 =>
           outgoing_queues[i] \in DOMAIN peers /\ outgoing_queues[i] = i + 1

\* The tables lead to every half that runs, whether or not a router is left.
ReachInv ==
    \A p \in DOMAIN peers :
        /\ Live(p) => addr_to_queue[peers[p].addr] = p /\ id_to_queue[peers[p].id] = p
        /\ server[p] = "running" => outgoing_queues[peers[p].id] = p

\* Streams belong to peers.
StreamsInv ==
    /\ \A i \in DOMAIN streams : streams[i] \in DOMAIN peers
    /\ written \subseteq DOMAIN peers
    /\ accepting \in DOMAIN peers \cup {0}

\* A datagram under way carries a packet of the peer whose id it carries.
NetInv ==
    /\ \A d \in to_server : d.peer_id + 1 \in DOMAIN peers /\ d.data = peers[d.peer_id + 1].addr
    /\ \A d \in to_client : d.peer_id + 1 \in DOMAIN peers /\ d.data = d.peer_id + 1

\* A queue holds packets of its peer.
QueuesInv ==
    \A p \in DOMAIN peers :
        /\ AllAre(client_receive_queue[p], peers[p].addr)
        /\ AllAre(server_receive_queue[p], p)
        /\ AllAre(receive_queue[p], peers[p].addr)

Inv ==
    /\ TypeOK /\ IdsInv /\ UnmadeInv /\ TablesInv /\ ReachInv
    /\ StreamsInv /\ NetInv /\ QueuesInv

-----------------------------------------------------------------------------
\* What try_send leaves in a bounded queue.
LEMMA TrySendFacts ==
    ASSUME NEW S, NEW q \in Seq(S), Len(q) <= QueueSize, NEW x \in S, NEW open \in BOOLEAN
    PROVE  /\ TrySend(q, open, x) \in Seq(S)
           /\ Len(TrySend(q, open, x)) <= QueueSize
           /\ AllAre(q, x) => AllAre(TrySend(q, open, x), x)
<1>1. CASE open /\ Len(q) < QueueSize
  <2>1. TrySend(q, open, x) = Append(q, x)
    BY <1>1 DEF TrySend
  <2>2. Append(q, x) \in Seq(S) /\ Len(Append(q, x)) <= QueueSize
    BY <1>1, RoutingAssumption
  <2>3. AllAre(q, x) => AllAre(Append(q, x), x)
    <3>1. /\ DOMAIN q = 1 .. Len(q) /\ DOMAIN Append(q, x) = 1 .. Len(q) + 1 /\ Len(q) \in Nat
          /\ \A i \in 1 .. Len(q) : Append(q, x)[i] = q[i]
          /\ Append(q, x)[Len(q) + 1] = x
      OBVIOUS
    <3> QED
      BY <3>1 DEF AllAre
  <2> QED
    BY <2>1, <2>2, <2>3, Zenon
<1>2. CASE ~(open /\ Len(q) < QueueSize)
  BY <1>2 DEF TrySend
<1> QED
  BY <1>1, <1>2

\* What is left of a queue when its head is taken.
LEMMA TailFacts ==
    ASSUME NEW S, NEW q \in Seq(S), q # <<>>, Len(q) <= QueueSize
    PROVE  /\ Tail(q) \in Seq(S) /\ Head(q) \in S
           /\ Len(Tail(q)) <= QueueSize
           /\ \A x : AllAre(q, x) => AllAre(Tail(q), x) /\ Head(q) = x
<1>1. Len(q) \in Nat /\ Len(q) # 0 /\ Tail(q) \in Seq(S) /\ Len(Tail(q)) = Len(q) - 1
  OBVIOUS
<1>2. Head(q) = q[1] /\ \A i \in DOMAIN Tail(q) : i + 1 \in DOMAIN q /\ Tail(q)[i] = q[i + 1]
  BY <1>1
<1> QED
  BY <1>1, <1>2, RoutingAssumption DEF AllAre

\* What is under way after a datagram was sent.
LEMMA SendFacts ==
    ASSUME NEW set, NEW id, NEW x
    PROVE  SendDatagram(set, id, x) \subseteq set \cup {[peer_id |-> id, data |-> x]}
BY DEF SendDatagram

\* A made peer is a peer, its id is an id, and its address an address.
LEMMA MadePeer ==
    ASSUME TypeOK, IdsInv, NEW p \in DOMAIN peers
    PROVE  /\ p \in Peer /\ p - 1 \in Id /\ peers[p].id = p - 1 /\ peers[p].addr \in Addr
           /\ DOMAIN peers = 1 .. Len(peers) /\ Len(peers) \in Nat
<1>1. /\ DOMAIN peers = 1 .. Len(peers) /\ Len(peers) \in Nat /\ Len(peers) <= MaxId
      /\ peers[p] \in PeerInfo
  BY DEF TypeOK
<1>2. peers[p].addr \in Addr /\ p \in Peer /\ p - 1 \in Id
  BY <1>1, RoutingAssumption DEF Peer, Id, PeerInfo
<1> QED
  BY <1>1, <1>2 DEF IdsInv

LEMMA MadePeers ==
    ASSUME TypeOK
    PROVE  DOMAIN peers \subseteq Peer /\ DOMAIN peers = 1 .. Len(peers) /\ Len(peers) \in Nat
<1>1. DOMAIN peers = 1 .. Len(peers) /\ Len(peers) \in Nat /\ Len(peers) <= MaxId
  BY DEF TypeOK
<1> QED
  BY <1>1, RoutingAssumption DEF Peer

LEMMA InitInv == Init => Inv
<1> SUFFICES ASSUME Init PROVE Inv
  OBVIOUS
<1>1. TypeOK
  <2>1. \A S : <<>> \in Seq(S) /\ Len(<<>>) = 0
    OBVIOUS
  <2> QED
    BY <2>1, RoutingAssumption DEF Init, TypeOK, Peer, Id
<1>2. DOMAIN peers = {} /\ DOMAIN streams = {} /\ Len(peers) = 0
  BY DEF Init
<1> QED
  BY <1>1, <1>2 DEF Init, Inv, IdsInv, UnmadeInv, TablesInv, ReachInv, StreamsInv, NetInv,
     QueuesInv, AllAre, Peer

-----------------------------------------------------------------------------
\* A packet of a known address is filed in a queue of that address.
LEMMA ForwardStep == ASSUME Inv, NEW a \in Addr, Forward(a) PROVE Inv'
<1> DEFINE p == addr_to_queue[a]
<1>1. p \in DOMAIN peers /\ peers[p].addr = a /\ p \in Peer
  BY MadePeer DEF Inv, TablesInv, Forward, HasQueue
<1> DEFINE q == client_receive_queue[p]
<1>2. /\ TrySend(q, TRUE, a) \in Seq(Addr)
      /\ Len(TrySend(q, TRUE, a)) <= QueueSize
      /\ AllAre(TrySend(q, TRUE, a), a)
  <2>1. q \in Seq(Addr) /\ Len(q) <= QueueSize /\ AllAre(q, a)
    BY <1>1 DEF Inv, TypeOK, QueuesInv
  <2> QED
    BY <2>1, TrySendFacts
<1>3. client_receive_queue' = [client_receive_queue EXCEPT ![p] = TrySend(q, TRUE, a)]
  BY DEF Forward
<1>4. TypeOK'
  <2>1. /\ client_receive_queue' \in [Peer -> Seq(Addr)]
        /\ \A r \in Peer : Len(client_receive_queue'[r]) <= QueueSize
    BY <1>1, <1>2, <1>3 DEF Inv, TypeOK
  <2> QED
    BY <2>1 DEF Inv, TypeOK, Forward, up, tables, halves, accept, net
<1>5. QueuesInv'
  <2> SUFFICES ASSUME NEW r \in DOMAIN peers
               PROVE  /\ AllAre(client_receive_queue'[r], peers[r].addr)
                      /\ AllAre(server_receive_queue'[r], r)
                      /\ AllAre(receive_queue'[r], peers[r].addr)
    BY DEF QueuesInv, Forward, tables
  <2>1. /\ AllAre(client_receive_queue[r], peers[r].addr)
        /\ AllAre(server_receive_queue[r], r)
        /\ AllAre(receive_queue[r], peers[r].addr)
        /\ r \in Peer
    BY MadePeers DEF Inv, QueuesInv
  <2>2. client_receive_queue'[r] = IF r = p THEN TrySend(q, TRUE, a) ELSE client_receive_queue[r]
    BY <1>3, <2>1 DEF Inv, TypeOK
  <2> QED
    BY <1>1, <1>2, <2>1, <2>2 DEF Forward
<1> QED
  BY <1>4, <1>5 DEF Inv, IdsInv, UnmadeInv, TablesInv, ReachInv, StreamsInv, NetInv, Live,
     Forward, up, tables, halves, accept, net

\* A new peer is the one that both tables of the client lead to; a live peer of
\* the same address would have been found.
LEMMA NewPeerStep == ASSUME Inv, NEW a \in Addr, NewPeer(a) PROVE Inv'
<1> DEFINE n == Len(peers) + 1
           info == [id |-> next_peer_id, addr |-> a]
<1>1. /\ ~HasQueue(a) /\ next_peer_id < MaxId
      /\ next_peer_id' = next_peer_id + 1
      /\ peers' = Append(peers, info)
      /\ addr_to_queue' = [addr_to_queue EXCEPT ![a] = n]
      /\ id_to_queue' = [id_to_queue EXCEPT ![next_peer_id] = n]
      /\ client' = [client EXCEPT ![n] = "opening"]
      /\ client_receive_queue' = [client_receive_queue EXCEPT ![n] = <<a>>]
      /\ UNCHANGED <<up, outgoing_queues, server, transfer, server_receive_queue, receive_queue,
                     accept, net>>
  BY DEF NewPeer, NewId, FileId
<1>2. /\ next_peer_id = Len(peers) /\ Len(peers) \in Nat /\ n \in Peer /\ next_peer_id + 1 \in Id
      /\ next_peer_id \in Id /\ info \in PeerInfo
  <2>1. /\ next_peer_id = Len(peers) /\ Len(peers) \in Nat /\ n \in Peer
        /\ next_peer_id + 1 \in Id /\ next_peer_id \in Id
    BY <1>1, MadePeers, RoutingAssumption DEF Inv, IdsInv, Peer, Id
  <2> QED
    BY <2>1 DEF PeerInfo
<1>3. /\ peers' \in Seq(PeerInfo) /\ Len(peers') = n
      /\ DOMAIN peers = 1 .. Len(peers) /\ DOMAIN peers' = DOMAIN peers \cup {n}
      /\ n \notin DOMAIN peers
      /\ \A p \in DOMAIN peers : p \in Peer /\ peers'[p] = peers[p] /\ p \in DOMAIN peers'
      /\ peers'[n] = info /\ n \in DOMAIN peers'
  <2> HIDE DEF info
  <2>1. peers \in Seq(PeerInfo)
    BY DEF Inv, TypeOK
  <2>2. /\ peers' \in Seq(PeerInfo) /\ Len(peers') = n
        /\ DOMAIN peers = 1 .. Len(peers) /\ DOMAIN peers' = 1 .. n
        /\ \A p \in 1 .. Len(peers) : peers'[p] = peers[p]
        /\ peers'[n] = info
    BY <1>1, <1>2, <2>1
  <2> QED
    BY <1>2, <2>2, MadePeers DEF Inv
<1>4. <<a>> \in Seq(Addr) /\ Len(<<a>>) <= QueueSize /\ AllAre(<<a>>, a)
  <2>1. <<a>> \in Seq(Addr) /\ Len(<<a>>) = 1 /\ DOMAIN <<a>> = 1 .. 1 /\ <<a>>[1] = a
    OBVIOUS
  <2> QED
    BY <2>1, RoutingAssumption DEF AllAre
<1>5. TypeOK'
  <2> HIDE DEF info
  <2>1. Len(peers') <= MaxId
    BY <1>1, <1>2, <1>3, RoutingAssumption
  <2>2. /\ addr_to_queue' \in [Addr -> Peer \cup {0}]
        /\ id_to_queue' \in [Id -> Peer \cup {0}]
        /\ client' \in [Peer -> {"none", "opening", "opened", "running", "gone"}]
    BY <1>1, <1>2 DEF Inv, TypeOK
  <2>3. /\ client_receive_queue' \in [Peer -> Seq(Addr)]
        /\ \A p \in Peer : Len(client_receive_queue'[p]) <= QueueSize
    BY <1>1, <1>2, <1>4 DEF Inv, TypeOK
  <2> QED
    BY <1>1, <1>2, <1>3, <2>1, <2>2, <2>3 DEF Inv, TypeOK, up, accept, net
<1>6. IdsInv'
  <2>1. next_peer_id' = Len(peers') /\ peers'[n].id = n - 1
    BY <1>1, <1>2, <1>3
  <2> QED
    BY <1>3, <2>1 DEF Inv, IdsInv
<1>7. UnmadeInv'
  <2> SUFFICES ASSUME NEW p \in Peer, p > n
               PROVE  /\ client'[p] = "none" /\ server'[p] = "none"
                      /\ server_receive_queue'[p] = <<>> /\ receive_queue'[p] = <<>>
    BY <1>3 DEF UnmadeInv
  <2> QED
    BY <1>1, <1>2 DEF Inv, UnmadeInv, TypeOK, Peer
<1>8. TablesInv'
  <2>1. ASSUME NEW b \in Addr, addr_to_queue'[b] # 0
        PROVE  addr_to_queue'[b] \in DOMAIN peers' /\ peers'[addr_to_queue'[b]].addr = b
    <3>1. CASE b = a
      BY <1>1, <1>3, <3>1 DEF Inv, TypeOK
    <3>2. CASE b # a
      BY <1>1, <1>3, <2>1, <3>2 DEF Inv, TypeOK, TablesInv
    <3> QED
      BY <3>1, <3>2
  <2>2. ASSUME NEW i \in Id, id_to_queue'[i] # 0
        PROVE  id_to_queue'[i] \in DOMAIN peers' /\ id_to_queue'[i] = i + 1
    BY <1>1, <1>2, <1>3, <2>2 DEF Inv, TypeOK, TablesInv
  <2>3. ASSUME NEW i \in Id, outgoing_queues'[i] # 0
        PROVE  outgoing_queues'[i] \in DOMAIN peers' /\ outgoing_queues'[i] = i + 1
    BY <1>1, <1>3, <2>3 DEF Inv, TablesInv
  <2> QED
    BY <2>1, <2>2, <2>3 DEF TablesInv
<1>9. ReachInv'
  <2> SUFFICES ASSUME NEW p \in DOMAIN peers'
               PROVE  /\ Live(p)' => /\ addr_to_queue'[peers'[p].addr] = p
                                     /\ id_to_queue'[peers'[p].id] = p
                      /\ server'[p] = "running" => outgoing_queues'[peers'[p].id] = p
    BY DEF ReachInv
  <2>1. CASE p = n
    <3>1. server'[p] = "none"
      BY <1>1, <1>2, <2>1 DEF Inv, UnmadeInv
    <3> QED
      BY <1>1, <1>2, <1>3, <2>1, <3>1 DEF Inv, TypeOK
  <2>2. CASE p \in DOMAIN peers
    <3>1. /\ p \in Peer /\ p # n /\ peers'[p] = peers[p] /\ client'[p] = client[p]
          /\ peers[p].id = p - 1 /\ p - 1 \in Id /\ p - 1 # next_peer_id
          /\ peers[p].addr \in Addr
      BY <1>1, <1>2, <1>3, <2>2, MadePeer, SMTT(30) DEF Inv, TypeOK
    <3>2. Live(p)' => Live(p)
      BY <3>1 DEF Live
    <3>3. Live(p) => peers[p].addr # a
      BY <1>1, <2>2 DEF Inv, ReachInv, HasQueue
    <3>4. ASSUME Live(p)
          PROVE  addr_to_queue'[peers[p].addr] = p /\ id_to_queue'[peers[p].id] = p
      BY <1>1, <2>2, <3>1, <3>3, <3>4 DEF Inv, ReachInv, TypeOK
    <3>5. server'[p] = "running" => outgoing_queues'[peers[p].id] = p
      BY <1>1, <2>2 DEF Inv, ReachInv
    <3> QED
      BY <3>1, <3>2, <3>4, <3>5
  <2> QED
    BY <1>3, <2>1, <2>2
<1>10. StreamsInv'
  BY <1>1, <1>3 DEF Inv, StreamsInv, accept
<1>11. NetInv'
  BY <1>1, <1>3 DEF Inv, NetInv, net
<1>12. QueuesInv'
  <2> SUFFICES ASSUME NEW p \in DOMAIN peers'
               PROVE  /\ AllAre(client_receive_queue'[p], peers'[p].addr)
                      /\ AllAre(server_receive_queue'[p], p)
                      /\ AllAre(receive_queue'[p], peers'[p].addr)
    BY DEF QueuesInv
  <2>1. CASE p = n
    <3>1. client_receive_queue'[p] = <<a>> /\ peers'[p].addr = a
      BY <1>1, <1>2, <1>3, <2>1 DEF Inv, TypeOK
    <3>2. server_receive_queue'[p] = <<>> /\ receive_queue'[p] = <<>>
      BY <1>1, <1>2, <2>1 DEF Inv, UnmadeInv
    <3> QED
      BY <1>4, <3>1, <3>2 DEF AllAre
  <2>2. CASE p \in DOMAIN peers
    BY <1>1, <1>2, <1>3, <2>2 DEF Inv, TypeOK, QueuesInv
  <2> QED
    BY <1>3, <2>1, <2>2
<1> QED
  BY <1>5, <1>6, <1>7, <1>8, <1>9, <1>10, <1>11, <1>12 DEF Inv

\* Every half and queue of the client is gone.
LEMMA ClientGoneStep == ASSUME Inv, ClientGone PROVE Inv'
<1>1. <<>> \in Seq(Addr) /\ <<>> \in Seq(Peer) /\ Len(<<>>) = 0 /\ \A x : AllAre(<<>>, x)
  BY DEF AllAre
<1>2. TypeOK'
  <2>1. client' \in [Peer -> {"none", "opening", "opened", "running", "gone"}]
    BY DEF ClientGone
  <2>2. /\ client_receive_queue' \in [Peer -> Seq(Addr)]
        /\ server_receive_queue' \in [Peer -> Seq(Peer)]
        /\ \A p \in Peer : /\ Len(client_receive_queue'[p]) <= QueueSize
                           /\ Len(server_receive_queue'[p]) <= QueueSize
    BY <1>1, RoutingAssumption DEF ClientGone
  <2> QED
    BY <2>1, <2>2 DEF Inv, TypeOK, ClientGone, tables, accept, net
<1>3. UnmadeInv'
  BY DEF Inv, UnmadeInv, ClientGone, tables
<1>4. ReachInv'
  BY MadePeers DEF Inv, TypeOK, ReachInv, Live, ClientGone, tables
<1>5. QueuesInv'
  BY <1>1, MadePeers DEF Inv, QueuesInv, ClientGone, tables
<1> QED
  BY <1>2, <1>3, <1>4, <1>5 DEF Inv, IdsInv, TablesInv, StreamsInv, NetInv, ClientGone, tables,
     accept, net

\* A datagram from the server is filed in the queue of the peer it is from.
LEMMA ClientDatagramStep == ASSUME Inv, NEW d \in to_client, ClientDatagram(d) PROVE Inv'
<1> DEFINE p == id_to_queue[d.peer_id]
           q == server_receive_queue[p]
           filed == TrySend(q, Live(p), d.data)
<1>1. /\ to_client' = to_client \ {d}
      /\ server_receive_queue' =
             IF p = 0 THEN server_receive_queue
             ELSE [server_receive_queue EXCEPT ![p] = filed]
      /\ UNCHANGED <<up, tables, halves, client_receive_queue, receive_queue, accept, to_server>>
  BY DEF ClientDatagram
<1>2. p # 0 => p \in DOMAIN peers /\ p \in Peer /\ d.data = p
  <2>1. d \in Datagram /\ d.data = d.peer_id + 1
    BY DEF Inv, TypeOK, NetInv
  <2>2. d.peer_id \in Id
    BY <2>1 DEF Datagram
  <2> QED
    BY <2>1, <2>2, MadePeers DEF Inv, TablesInv
<1>3. ASSUME p # 0
      PROVE  /\ filed \in Seq(Peer)
             /\ Len(filed) <= QueueSize
             /\ AllAre(filed, p)
  <2>1. q \in Seq(Peer) /\ Len(q) <= QueueSize /\ AllAre(q, p)
    BY <1>2, <1>3 DEF Inv, TypeOK, QueuesInv
  <2>2. Live(p) \in BOOLEAN
    BY DEF Live
  <2> QED
    BY <1>2, <1>3, <2>1, <2>2, TrySendFacts
<1> HIDE DEF filed
<1>4. TypeOK'
  <2>1. server_receive_queue' \in [Peer -> Seq(Peer)]
    BY <1>1, <1>2, <1>3 DEF Inv, TypeOK
  <2>2. \A r \in Peer : Len(server_receive_queue'[r]) <= QueueSize
    BY <1>1, <1>2, <1>3 DEF Inv, TypeOK
  <2> QED
    BY <1>1, <2>1, <2>2 DEF Inv, TypeOK, up, tables, halves, accept, net
<1>5. QueuesInv'
  <2> SUFFICES ASSUME NEW r \in DOMAIN peers
               PROVE  AllAre(server_receive_queue'[r], r)
    BY <1>1 DEF Inv, QueuesInv, tables
  <2>1. AllAre(server_receive_queue[r], r) /\ r \in Peer
    BY MadePeers DEF Inv, QueuesInv
  <2>2. \/ server_receive_queue'[r] = server_receive_queue[r]
        \/ p # 0 /\ r = p /\ server_receive_queue'[r] = filed
    BY <1>1, <2>1 DEF Inv, TypeOK
  <2> QED
    BY <1>3, <2>1, <2>2
<1>6. UnmadeInv'
  <2> SUFFICES ASSUME NEW r \in Peer, r > Len(peers)
               PROVE  server_receive_queue'[r] = <<>>
    BY <1>1 DEF Inv, UnmadeInv, tables, halves
  <2>1. p # 0 => r # p
    BY <1>2, MadePeers DEF Inv
  <2>2. server_receive_queue'[r] = server_receive_queue[r]
    BY <1>1, <2>1 DEF Inv, TypeOK
  <2> QED
    BY <2>2 DEF Inv, UnmadeInv
<1> QED
  BY <1>1, <1>4, <1>5, <1>6 DEF Inv, IdsInv, TablesInv, ReachInv, StreamsInv, NetInv, Live,
     up, tables, halves, accept

-----------------------------------------------------------------------------
\* The halves of the client change their state, but do not come to life.
LEMMA OpenStreamStep == ASSUME Inv, NEW p \in DOMAIN peers, OpenStream(p) PROVE Inv'
<1>1. /\ client[p] = "opening"
      /\ client' = [client EXCEPT ![p] = "opened"]
      /\ streams' = Append(streams, p)
      /\ UNCHANGED <<up, tables, server, transfer, queues, written, accepting, net>>
      /\ p \in Peer
  BY MadePeers DEF OpenStream, Inv
<1>2. TypeOK'
  <2>1. client' \in [Peer -> {"none", "opening", "opened", "running", "gone"}]
    BY <1>1 DEF Inv, TypeOK
  <2>2. streams' \in Seq(Peer)
    BY <1>1 DEF Inv, TypeOK
  <2> QED
    BY <1>1, <2>1, <2>2 DEF Inv, TypeOK, up, tables, queues, net
<1>3. UnmadeInv'
  BY <1>1 DEF Inv, TypeOK, UnmadeInv, tables, queues
<1>4. ReachInv'
  <2>1. \A r \in DOMAIN peers : Live(r)' => Live(r)
    BY <1>1, MadePeers DEF Inv, TypeOK, Live
  <2> QED
    BY <1>1, <2>1 DEF Inv, ReachInv, tables
<1>5. StreamsInv'
  <2>1. streams \in Seq(Peer)
    BY DEF Inv, TypeOK
  <2>2. \A i \in DOMAIN streams' :
            \/ i \in DOMAIN streams /\ streams'[i] = streams[i]
            \/ streams'[i] = p
    BY <1>1, <2>1
  <2> QED
    BY <1>1, <2>2 DEF Inv, StreamsInv, tables
<1> QED
  BY <1>1, <1>2, <1>3, <1>4, <1>5 DEF Inv, IdsInv, TablesInv, NetInv, QueuesInv, tables, queues,
     net

LEMMA WriteIdStep == ASSUME Inv, NEW p \in DOMAIN peers, WriteId(p) PROVE Inv'
<1>1. /\ client[p] = "opened"
      /\ client' = [client EXCEPT ![p] = "running"]
      /\ written' = written \cup {p}
      /\ UNCHANGED <<up, tables, server, transfer, queues, streams, accepting, net>>
      /\ p \in Peer
  BY MadePeers DEF WriteId, Inv
<1>2. TypeOK'
  BY <1>1 DEF Inv, TypeOK, up, tables, queues, net
<1>3. UnmadeInv'
  BY <1>1 DEF Inv, TypeOK, UnmadeInv, tables, queues
<1>4. ReachInv'
  <2>1. \A r \in DOMAIN peers : Live(r)' => Live(r)
    BY <1>1, MadePeers DEF Inv, TypeOK, Live
  <2> QED
    BY <1>1, <2>1 DEF Inv, ReachInv, tables
<1>5. StreamsInv'
  BY <1>1 DEF Inv, StreamsInv, tables
<1> QED
  BY <1>1, <1>2, <1>3, <1>4, <1>5 DEF Inv, IdsInv, TablesInv, NetInv, QueuesInv, tables, queues,
     net

\* A packet goes out with the id of the peer in whose queue it was.
LEMMA ClientHalfSendsStep == ASSUME Inv, NEW p \in DOMAIN peers, ClientHalfSends(p) PROVE Inv'
<1> DEFINE q == client_receive_queue[p]
           d == [peer_id |-> peers[p].id, data |-> Head(q)]
<1>1. /\ q # <<>>
      /\ client_receive_queue' = [client_receive_queue EXCEPT ![p] = Tail(q)]
      /\ UNCHANGED <<up, tables, halves, server_receive_queue, receive_queue, accept, to_client>>
      /\ to_server' \subseteq to_server \cup {d}
  BY SendFacts DEF ClientHalfSends
<1>2. /\ p \in Peer /\ p - 1 \in Id /\ peers[p].id = p - 1 /\ peers[p].addr \in Addr
  BY MadePeer DEF Inv
<1>3. /\ Tail(q) \in Seq(Addr) /\ Len(Tail(q)) <= QueueSize
      /\ AllAre(Tail(q), peers[p].addr) /\ Head(q) = peers[p].addr
  <2>1. q \in Seq(Addr) /\ Len(q) <= QueueSize /\ AllAre(q, peers[p].addr)
    BY <1>2 DEF Inv, TypeOK, QueuesInv
  <2> QED
    BY <1>1, <2>1, TailFacts
<1>4. d \in Datagram /\ d.peer_id + 1 = p /\ d.data = peers[p].addr
  BY <1>2, <1>3 DEF Datagram, Id
<1> HIDE DEF d
<1>5. TypeOK'
  <2>1. /\ client_receive_queue' \in [Peer -> Seq(Addr)]
        /\ \A r \in Peer : Len(client_receive_queue'[r]) <= QueueSize
    BY <1>1, <1>2, <1>3 DEF Inv, TypeOK
  <2> QED
    BY <1>1, <1>4, <2>1 DEF Inv, TypeOK, up, tables, halves, accept, net
<1>6. NetInv'
  BY <1>1, <1>4 DEF Inv, NetInv, tables
<1>7. QueuesInv'
  <2> SUFFICES ASSUME NEW r \in DOMAIN peers
               PROVE  AllAre(client_receive_queue'[r], peers[r].addr)
    BY <1>1 DEF Inv, QueuesInv, tables
  <2>1. client_receive_queue'[r] = IF r = p THEN Tail(q) ELSE client_receive_queue[r]
    BY <1>1, MadePeers DEF Inv, TypeOK
  <2> QED
    BY <1>3, <2>1 DEF Inv, QueuesInv
<1> QED
  BY <1>1, <1>5, <1>6, <1>7 DEF Inv, IdsInv, UnmadeInv, TablesInv, ReachInv, StreamsInv, Live,
     tables, halves, accept

LEMMA ClientHalfDeliversStep ==
    ASSUME Inv, NEW p \in DOMAIN peers, ClientHalfDelivers(p) PROVE Inv'
<1> DEFINE q == server_receive_queue[p]
<1>1. /\ q # <<>>
      /\ server_receive_queue' = [server_receive_queue EXCEPT ![p] = Tail(q)]
      /\ UNCHANGED <<up, tables, halves, client_receive_queue, receive_queue, accept, net>>
      /\ p \in Peer
  BY MadePeers DEF ClientHalfDelivers, Inv
<1>2. Tail(q) \in Seq(Peer) /\ Len(Tail(q)) <= QueueSize /\ AllAre(Tail(q), p)
  <2>1. q \in Seq(Peer) /\ Len(q) <= QueueSize /\ AllAre(q, p)
    BY <1>1 DEF Inv, TypeOK, QueuesInv
  <2> QED
    BY <1>1, <2>1, TailFacts
<1>3. TypeOK'
  <2>1. /\ server_receive_queue' \in [Peer -> Seq(Peer)]
        /\ \A r \in Peer : Len(server_receive_queue'[r]) <= QueueSize
    BY <1>1, <1>2 DEF Inv, TypeOK
  <2> QED
    BY <1>1, <2>1 DEF Inv, TypeOK, up, tables, halves, accept, net
<1>4. \A r \in Peer : server_receive_queue'[r] = IF r = p THEN Tail(q) ELSE server_receive_queue[r]
  BY <1>1 DEF Inv, TypeOK
<1>5. UnmadeInv'
  BY <1>1, <1>4, MadePeers DEF Inv, UnmadeInv, tables, halves
<1>6. QueuesInv'
  BY <1>1, <1>2, <1>4, MadePeers DEF Inv, QueuesInv, tables
<1> QED
  BY <1>1, <1>3, <1>5, <1>6 DEF Inv, IdsInv, TablesInv, ReachInv, StreamsInv, NetInv, Live,
     tables, halves, accept, net

LEMMA ClientHalfEndsStep == ASSUME Inv, NEW p \in DOMAIN peers, ClientHalfEnds(p) PROVE Inv'
<1>1. /\ client' = [client EXCEPT ![p] = "gone"]
      /\ client_receive_queue' = [client_receive_queue EXCEPT ![p] = <<>>]
      /\ server_receive_queue' = [server_receive_queue EXCEPT ![p] = <<>>]
      /\ UNCHANGED <<up, tables, server, transfer, receive_queue, accept, net>>
      /\ p \in Peer
  BY MadePeers DEF ClientHalfEnds, Inv
<1>2. <<>> \in Seq(Addr) /\ <<>> \in Seq(Peer) /\ Len(<<>>) = 0 /\ \A x : AllAre(<<>>, x)
  BY DEF AllAre
<1>3. TypeOK'
  <2>1. /\ client_receive_queue' \in [Peer -> Seq(Addr)]
        /\ server_receive_queue' \in [Peer -> Seq(Peer)]
    BY <1>1, <1>2 DEF Inv, TypeOK
  <2>2. \A r \in Peer : /\ Len(client_receive_queue'[r]) <= QueueSize
                        /\ Len(server_receive_queue'[r]) <= QueueSize
    BY <1>1, <1>2, RoutingAssumption DEF Inv, TypeOK
  <2> QED
    BY <1>1, <2>1, <2>2 DEF Inv, TypeOK, up, tables, accept, net
<1>4. \A r \in Peer : /\ \/ client_receive_queue'[r] = <<>>
                         \/ client_receive_queue'[r] = client_receive_queue[r]
                      /\ \/ server_receive_queue'[r] = <<>>
                         \/ server_receive_queue'[r] = server_receive_queue[r]
  BY <1>1 DEF Inv, TypeOK
<1>5. UnmadeInv'
  BY <1>1, <1>4, MadePeers DEF Inv, TypeOK, UnmadeInv, tables
<1>6. ReachInv'
  <2>1. \A r \in DOMAIN peers : Live(r)' => Live(r)
    BY <1>1, MadePeers DEF Inv, TypeOK, Live
  <2> QED
    BY <1>1, <2>1 DEF Inv, ReachInv, tables
<1>7. QueuesInv'
  BY <1>1, <1>2, <1>4, MadePeers DEF Inv, QueuesInv, tables
<1> QED
  BY <1>1, <1>3, <1>5, <1>6, <1>7 DEF Inv, IdsInv, TablesInv, StreamsInv, NetInv, tables, accept,
     net

-----------------------------------------------------------------------------
\* A datagram from the client is filed in the queue of the peer it is from.
LEMMA ServerDatagramStep == ASSUME Inv, NEW d \in to_server, ServerDatagram(d) PROVE Inv'
<1> DEFINE p == outgoing_queues[d.peer_id]
           q == receive_queue[p]
           filed == TrySend(q, server[p] = "running", d.data)
<1>1. /\ to_server' = to_server \ {d}
      /\ receive_queue' = IF p = 0 THEN receive_queue ELSE [receive_queue EXCEPT ![p] = filed]
      /\ UNCHANGED <<up, tables, halves, client_receive_queue, server_receive_queue, accept,
                     to_client>>
  BY DEF ServerDatagram
<1>2. p # 0 => p \in DOMAIN peers /\ p \in Peer /\ d.data = peers[p].addr /\ d.data \in Addr
  <2>1. d \in Datagram /\ d.peer_id + 1 \in DOMAIN peers /\ d.data = peers[d.peer_id + 1].addr
    BY DEF Inv, TypeOK, NetInv
  <2>2. d.peer_id \in Id
    BY <2>1 DEF Datagram
  <2>3. peers[d.peer_id + 1].addr \in Addr
    BY <2>1, MadePeer DEF Inv
  <2> QED
    BY <2>1, <2>2, <2>3, MadePeers DEF Inv, TablesInv
<1>3. ASSUME p # 0
      PROVE  filed \in Seq(Addr) /\ Len(filed) <= QueueSize /\ AllAre(filed, peers[p].addr)
  <2>1. q \in Seq(Addr) /\ Len(q) <= QueueSize /\ AllAre(q, peers[p].addr)
    BY <1>2, <1>3 DEF Inv, TypeOK, QueuesInv
  <2>2. (server[p] = "running") \in BOOLEAN
    OBVIOUS
  <2> QED
    BY <1>2, <1>3, <2>1, <2>2, TrySendFacts
<1> HIDE DEF filed
<1>4. TypeOK'
  <2>1. receive_queue' \in [Peer -> Seq(Addr)]
    BY <1>1, <1>2, <1>3 DEF Inv, TypeOK
  <2>2. \A r \in Peer : Len(receive_queue'[r]) <= QueueSize
    BY <1>1, <1>2, <1>3 DEF Inv, TypeOK
  <2> QED
    BY <1>1, <2>1, <2>2 DEF Inv, TypeOK, up, tables, halves, accept, net
<1>5. \A r \in Peer : \/ receive_queue'[r] = receive_queue[r]
                      \/ p # 0 /\ r = p /\ receive_queue'[r] = filed
  BY <1>1 DEF Inv, TypeOK
<1>6. UnmadeInv'
  BY <1>1, <1>2, <1>5, MadePeers DEF Inv, UnmadeInv, tables, halves
<1>7. QueuesInv'
  BY <1>1, <1>3, <1>5, MadePeers DEF Inv, QueuesInv, tables
<1> QED
  BY <1>1, <1>4, <1>6, <1>7 DEF Inv, IdsInv, TablesInv, ReachInv, StreamsInv, NetInv, Live,
     tables, halves, accept

\* A stream keeps its peer when it is accepted.
LEMMA AcceptStreamStep == ASSUME Inv, AcceptStream PROVE Inv'
<1>1. /\ streams # <<>> /\ streams \in Seq(Peer)
      /\ accepting' = Head(streams) /\ streams' = Tail(streams)
      /\ UNCHANGED <<up, tables, halves, queues, written, net>>
  BY DEF AcceptStream, MayAccept, Inv, TypeOK
<1>2. /\ Tail(streams) \in Seq(Peer) /\ Head(streams) \in Peer
      /\ 1 \in DOMAIN streams /\ Head(streams) = streams[1]
      /\ \A i \in DOMAIN Tail(streams) : i + 1 \in DOMAIN streams /\ Tail(streams)[i] = streams[i + 1]
  BY <1>1
<1>3. TypeOK'
  BY <1>1, <1>2 DEF Inv, TypeOK, up, tables, halves, queues, net
<1>4. StreamsInv'
  BY <1>1, <1>2 DEF Inv, StreamsInv, tables
<1> QED
  BY <1>1, <1>3, <1>4 DEF Inv, IdsInv, UnmadeInv, TablesInv, ReachInv, NetInv, QueuesInv, Live,
     tables, halves, queues, net

\* The peer is filed under its own id, so that it replaces no other.
LEMMA StartPeerStep == ASSUME Inv, StartPeer PROVE Inv'
<1> DEFINE p == accepting
<1>1. /\ p \in written
      /\ server' = [server EXCEPT ![p] = "running"]
      /\ outgoing_queues' = [outgoing_queues EXCEPT ![peers[p].id] = p]
      /\ accepting' = 0
      /\ UNCHANGED <<up, next_peer_id, peers, addr_to_queue, id_to_queue, client, transfer,
                     queues, streams, written, net>>
  BY DEF StartPeer
<1>2. p \in DOMAIN peers /\ p \in Peer /\ p - 1 \in Id /\ peers[p].id = p - 1
  BY <1>1, MadePeer DEF Inv, StreamsInv
<1>3. TypeOK'
  BY <1>1, <1>2 DEF Inv, TypeOK, up, queues, net
<1>4. UnmadeInv'
  BY <1>1, <1>2, MadePeers DEF Inv, TypeOK, UnmadeInv, queues
<1>5. \A i \in Id : outgoing_queues'[i] = IF i = p - 1 THEN p ELSE outgoing_queues[i]
  BY <1>1, <1>2 DEF Inv, TypeOK
<1>6. TablesInv'
  <2>1. p = (p - 1) + 1
    BY <1>2 DEF Peer
  <2> QED
    BY <1>1, <1>2, <1>5, <2>1 DEF Inv, TablesInv
<1>7. ReachInv'
  <2> SUFFICES ASSUME NEW r \in DOMAIN peers
               PROVE  /\ Live(r)' => addr_to_queue[peers[r].addr] = r /\ id_to_queue[peers[r].id] = r
                      /\ server'[r] = "running" => outgoing_queues'[peers[r].id] = r
    BY <1>1 DEF ReachInv
  <2>1. r \in Peer /\ r - 1 \in Id /\ peers[r].id = r - 1
    BY MadePeer DEF Inv
  <2>2. Live(r)' => addr_to_queue[peers[r].addr] = r /\ id_to_queue[peers[r].id] = r
    BY <1>1 DEF Inv, ReachInv, Live
  <2>3. CASE r = p
    BY <1>5, <2>1, <2>2, <2>3
  <2>4. CASE r # p
    <3>1. server'[r] = server[r] /\ outgoing_queues'[peers[r].id] = outgoing_queues[peers[r].id]
      BY <1>1, <1>2, <1>5, <2>1, <2>4 DEF Inv, TypeOK, Peer
    <3> QED
      BY <2>2, <3>1 DEF Inv, ReachInv
  <2> QED
    BY <2>3, <2>4
<1> QED
  BY <1>1, <1>3, <1>4, <1>6, <1>7 DEF Inv, IdsInv, StreamsInv, NetInv, QueuesInv, queues, net

LEMMA ServerHalfForwardsStep ==
    ASSUME Inv, NEW p \in DOMAIN peers, ServerHalfForwards(p) PROVE Inv'
<1> DEFINE q == receive_queue[p]
<1>1. /\ q # <<>>
      /\ receive_queue' = [receive_queue EXCEPT ![p] = Tail(q)]
      /\ UNCHANGED <<up, tables, halves, client_receive_queue, server_receive_queue, accept, net>>
      /\ p \in Peer
  BY MadePeers DEF ServerHalfForwards, Inv
<1>2. Tail(q) \in Seq(Addr) /\ Len(Tail(q)) <= QueueSize /\ AllAre(Tail(q), peers[p].addr)
  <2>1. q \in Seq(Addr) /\ Len(q) <= QueueSize /\ AllAre(q, peers[p].addr)
    BY <1>1 DEF Inv, TypeOK, QueuesInv
  <2> QED
    BY <1>1, <2>1, TailFacts
<1>3. TypeOK'
  <2>1. /\ receive_queue' \in [Peer -> Seq(Addr)]
        /\ \A r \in Peer : Len(receive_queue'[r]) <= QueueSize
    BY <1>1, <1>2 DEF Inv, TypeOK
  <2> QED
    BY <1>1, <2>1 DEF Inv, TypeOK, up, tables, halves, accept, net
<1>4. \A r \in Peer : receive_queue'[r] = IF r = p THEN Tail(q) ELSE receive_queue[r]
  BY <1>1 DEF Inv, TypeOK
<1>5. UnmadeInv'
  BY <1>1, <1>4, MadePeers DEF Inv, UnmadeInv, tables, halves
<1>6. QueuesInv'
  BY <1>1, <1>2, <1>4, MadePeers DEF Inv, QueuesInv, tables
<1> QED
  BY <1>1, <1>3, <1>5, <1>6 DEF Inv, IdsInv, TablesInv, ReachInv, StreamsInv, NetInv, Live,
     tables, halves, accept, net

\* A packet goes out with the id of the peer on whose socket it came.
LEMMA ServerHalfSendsStep == ASSUME Inv, NEW p \in DOMAIN peers, ServerHalfSends(p) PROVE Inv'
<1> DEFINE d == [peer_id |-> peers[p].id, data |-> p]
<1>1. /\ to_client' \subseteq to_client \cup {d}
      /\ UNCHANGED <<up, tables, halves, queues, accept, to_server>>
  BY SendFacts DEF ServerHalfSends
<1>2. p \in Peer /\ p - 1 \in Id /\ peers[p].id = p - 1
  BY MadePeer DEF Inv
<1>3. d \in Datagram /\ d.peer_id + 1 = p /\ d.data = p
  BY <1>2 DEF Datagram, Id, Peer
<1> HIDE DEF d
<1>4. TypeOK'
  BY <1>1, <1>3 DEF Inv, TypeOK, up, tables, halves, queues, accept, net
<1>5. NetInv'
  BY <1>1, <1>3 DEF Inv, NetInv, tables
<1> QED
  BY <1>1, <1>4, <1>5 DEF Inv, IdsInv, UnmadeInv, TablesInv, ReachInv, StreamsInv, QueuesInv, Live,
     tables, halves, queues, accept

LEMMA ServerHalfGoneStep == ASSUME Inv, NEW p \in DOMAIN peers, ServerHalfGone(p) PROVE Inv'
<1>1. /\ server' = [server EXCEPT ![p] = "gone"]
      /\ receive_queue' = [receive_queue EXCEPT ![p] = <<>>]
      /\ UNCHANGED <<up, tables, client, transfer, client_receive_queue, server_receive_queue,
                     accept, net>>
      /\ p \in Peer
  BY MadePeers DEF ServerHalfGone, Inv
<1>2. <<>> \in Seq(Addr) /\ Len(<<>>) = 0 /\ \A x : AllAre(<<>>, x)
  BY DEF AllAre
<1>3. TypeOK'
  <2>1. /\ receive_queue' \in [Peer -> Seq(Addr)]
        /\ \A r \in Peer : Len(receive_queue'[r]) <= QueueSize
    BY <1>1, <1>2, RoutingAssumption DEF Inv, TypeOK
  <2> QED
    BY <1>1, <2>1 DEF Inv, TypeOK, up, tables, accept, net
<1>4. \A r \in Peer : receive_queue'[r] = IF r = p THEN <<>> ELSE receive_queue[r]
  BY <1>1 DEF Inv, TypeOK
<1>5. UnmadeInv'
  BY <1>1, <1>4, MadePeers DEF Inv, TypeOK, UnmadeInv, tables
<1>6. ReachInv'
  <2>1. \A r \in DOMAIN peers : server'[r] = "running" => server[r] = "running"
    BY <1>1, MadePeers DEF Inv, TypeOK
  <2> QED
    BY <1>1, <2>1 DEF Inv, ReachInv, Live, tables
<1>7. QueuesInv'
  BY <1>1, <1>2, <1>4, MadePeers DEF Inv, QueuesInv, tables
<1> QED
  BY <1>1, <1>3, <1>5, <1>6, <1>7 DEF Inv, IdsInv, TablesInv, StreamsInv, NetInv, tables, accept,
     net

\* A transfer task reads and writes streams of its own, which route nothing.
LEMMA TransferStep ==
    ASSUME Inv, NEW p \in DOMAIN peers, StartTransfer(p) \/ EndTransfer(p) PROVE Inv'
<1>1. /\ UNCHANGED <<up, tables, client, server, queues, accept, net>>
      /\ \/ transfer' = [transfer EXCEPT ![p] = "running"]
         \/ transfer' = [transfer EXCEPT ![p] = "ended"]
  BY DEF StartTransfer, EndTransfer
<1>2. transfer' \in [Peer -> {"none", "running", "ended"}]
  BY <1>1 DEF Inv, TypeOK
<1>3. TypeOK'
  BY <1>1, <1>2 DEF Inv, TypeOK, up, tables, queues, accept, net
<1> QED
  BY <1>1, <1>3 DEF Inv, IdsInv, UnmadeInv, TablesInv, ReachInv, StreamsInv, NetInv, QueuesInv,
     Live, tables, queues, accept, net

-----------------------------------------------------------------------------
\* Losing datagrams, the connection or a router leaves the rest as it is.
LEMMA LossStep ==
    ASSUME Inv,
           UNCHANGED <<client_up, tables, halves, queues, accept>>,
           conn' \in BOOLEAN, server_up' \in BOOLEAN,
           to_server' \subseteq to_server, to_client' \subseteq to_client
    PROVE  Inv'
<1>1. TypeOK'
  BY DEF Inv, TypeOK, tables, halves, queues, accept
<1>2. NetInv'
  BY DEF Inv, NetInv, tables
<1> QED
  BY <1>1, <1>2 DEF Inv, IdsInv, UnmadeInv, TablesInv, ReachInv, StreamsInv, QueuesInv, Live,
     tables, halves, queues, accept

LEMMA NextInv == Inv /\ [Next]_vars => Inv'
<1> SUFFICES ASSUME Inv, [Next]_vars PROVE Inv'
  OBVIOUS
<1>1. ASSUME NEW a \in Addr, ClientPacket(a) PROVE Inv'
  BY <1>1, ForwardStep, NewPeerStep, ClientGoneStep DEF ClientPacket, OutOfIds
<1>2. ASSUME NEW d \in to_client, ClientDatagram(d) PROVE Inv'
  BY <1>2, ClientDatagramStep
<1>3. ASSUME NEW p \in DOMAIN peers, ClientHalf(p) PROVE Inv'
  BY <1>3, OpenStreamStep, WriteIdStep, ClientHalfSendsStep, ClientHalfDeliversStep,
     ClientHalfEndsStep DEF ClientHalf
<1>4. ASSUME NEW p \in DOMAIN peers, ServerHalf(p) PROVE Inv'
  BY <1>4, ServerHalfForwardsStep, ServerHalfSendsStep, ServerHalfGoneStep, TransferStep
     DEF ServerHalf, ServerHalfEnds, ServerHalfCloses
<1>5. ASSUME NEW d \in to_server, ServerDatagram(d) PROVE Inv'
  BY <1>5, ServerDatagramStep
<1>6. CASE AcceptStream
  BY <1>6, AcceptStreamStep
<1>7. CASE StartPeer
  BY <1>7, StartPeerStep
<1>8. conn \in BOOLEAN /\ server_up \in BOOLEAN
  BY DEF Inv, TypeOK
<1>9. CASE BindFails
  BY <1>8, <1>9, LossStep DEF BindFails, net
<1>10. CASE Lose
  <2>1. to_server' \subseteq to_server /\ to_client' \subseteq to_client
    BY <1>10 DEF Lose
  <2> QED
    BY <1>8, <1>10, <2>1, LossStep DEF Lose, up
<1>11. CASE LoseConnection
  BY <1>8, <1>11, LossStep DEF LoseConnection, net
<1>12. CASE DropConnection
  BY <1>8, <1>12, LossStep DEF DropConnection, net
<1>13. CASE ClientRouterEnds
  BY <1>13, ClientGoneStep DEF ClientRouterEnds
<1>14. CASE ServerRouterEnds
  BY <1>8, <1>14, LossStep DEF ServerRouterEnds, net
<1>15. CASE UNCHANGED vars
  BY <1>8, <1>15, LossStep DEF vars, up, net
<1> QED
  BY <1>1, <1>2, <1>3, <1>4, <1>5, <1>6, <1>7, <1>9, <1>10, <1>11, <1>12, <1>13, <1>14, <1>15
     DEF Next

LEMMA RoutingInvariant == Spec => []Inv
<1> QED
  BY InitInv, NextInv, PTL DEF Spec

\* The state is what the code can hold, and no channel grows beyond
\* UDP_QUEUE_SIZE packets.
THEOREM RoutingTypes == Spec => []TypeOK
<1>1. Inv => TypeOK
  BY DEF Inv
<1> QED
  BY <1>1, RoutingInvariant, PTL

\* As long as a routing loop of run_client_proxy or run_server_proxy runs, its
\* tables lead to every half that runs: no peer replaces a live one.
THEOREM HalvesReachable == Spec => []LiveReachable
<1>1. Inv => LiveReachable
  BY DEF Inv, ReachInv, LiveReachable
<1> QED
  BY <1>1, RoutingInvariant, PTL

\* No packet of a player reaches the game of another one, in neither direction,
\* however late a datagram comes.
THEOREM PlayersKeptApart == Spec => []NoCrossTalk
<1>1. Inv => NoCrossTalk
  BY DEF Inv, QueuesInv, AllAre, NoCrossTalk
<1> QED
  BY <1>1, RoutingInvariant, PTL

=============================================================================
