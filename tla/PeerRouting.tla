---------------------------- MODULE PeerRouting ----------------------------
(***************************************************************************)
(* How packets find their peer (run_client_proxy, run_server_proxy and the *)
(* loops of proxy_client and proxy_server in src/src/proxy).  Every        *)
(* address that sends to the cacher client gets a peer: a half on each     *)
(* side, joined by one QUIC stream, which names the peer, and by           *)
(* datagrams, which carry its id.  A half ends when it is idle or fails;   *)
(* the next packet of its address then starts a new peer with a new id.    *)
(* What the halves do with a packet is in ClientProxy and ServerProxy.     *)
(*                                                                         *)
(* Peers are numbered in the order in which they are made, so that the     *)
(* packets of two peers differ even if their ids should not.               *)
(***************************************************************************)
EXTENDS Integers, Sequences, FiniteSets

CONSTANTS
    Addr,         \* addresses of Factorio clients
    MaxId,        \* u32::MAX, the id that is never given out
    QueueSize,    \* UDP_QUEUE_SIZE
    MaxInFlight,  \* datagrams under way in each direction (a bound)
    MayFail       \* whether halves, sockets and the connection may fail

ASSUME RoutingAssumption ==
    /\ MaxId \in Nat /\ QueueSize \in Nat \ {0} /\ MaxInFlight \in Nat \ {0}
    /\ MayFail \in BOOLEAN

VARIABLES
    conn,             \* whether the QUIC connection stands
    client_up,        \* whether the cacher client runs run_client_proxy
    server_up,        \* whether run_server_proxy runs for the connection
    next_peer_id,
    peers,            \* the peers made so far: their ids and addresses
    addr_to_queue,    \* the peer whose queue is filed under an address, or 0
    id_to_queue,      \* on the client: the peer under an id, or 0
    outgoing_queues,  \* on the server: the peer under an id, or 0
    client,           \* the client half of each peer
    server,           \* the server half of each peer
    transfer,         \* the transfer task that it spawned, which outlives it
    client_receive_queue, server_receive_queue,  \* of the client halves
    receive_queue,    \* of the server halves
    streams,          \* streams opened and not accepted, in that order
    written,          \* peers that have written their id to their stream
    accepting,        \* the peer whose id run_server_proxy waits for, or 0
    to_server, to_client  \* datagrams under way

up == <<conn, client_up, server_up>>
tables == <<next_peer_id, peers, addr_to_queue, id_to_queue, outgoing_queues>>
halves == <<client, server, transfer>>
queues == <<client_receive_queue, server_receive_queue, receive_queue>>
accept == <<streams, written, accepting>>
net == <<to_server, to_client>>
vars == <<up, tables, halves, queues, accept, net>>

Peer == 1 .. MaxId
Id == 0 .. MaxId
PeerInfo == [id : Id, addr : Addr]
Datagram == [peer_id : Id, data : Addr \cup Peer]

\* The values the state may take; no queue is longer than UDP_QUEUE_SIZE.
TypeOK ==
    /\ conn \in BOOLEAN /\ client_up \in BOOLEAN /\ server_up \in BOOLEAN
    /\ next_peer_id \in Id
    /\ peers \in Seq(PeerInfo) /\ Len(peers) <= MaxId
    /\ addr_to_queue \in [Addr -> Peer \cup {0}]
    /\ id_to_queue \in [Id -> Peer \cup {0}]
    /\ outgoing_queues \in [Id -> Peer \cup {0}]
    /\ client \in [Peer -> {"none", "opening", "opened", "running", "gone"}]
    /\ server \in [Peer -> {"none", "running", "gone"}]
    /\ transfer \in [Peer -> {"none", "running", "ended"}]
    /\ client_receive_queue \in [Peer -> Seq(Addr)]
    /\ server_receive_queue \in [Peer -> Seq(Peer)]
    /\ receive_queue \in [Peer -> Seq(Addr)]
    /\ \A p \in Peer : /\ Len(client_receive_queue[p]) <= QueueSize
                       /\ Len(server_receive_queue[p]) <= QueueSize
                       /\ Len(receive_queue[p]) <= QueueSize
    /\ streams \in Seq(Peer)
    /\ written \subseteq Peer
    /\ accepting \in Peer \cup {0}
    /\ to_server \subseteq Datagram /\ to_client \subseteq Datagram

Init ==
    /\ conn = TRUE /\ client_up = TRUE /\ server_up = TRUE
    /\ next_peer_id = 0
    /\ peers = <<>>
    /\ addr_to_queue = [a \in Addr |-> 0]
    /\ id_to_queue = [i \in Id |-> 0]
    /\ outgoing_queues = [i \in Id |-> 0]
    /\ client = [p \in Peer |-> "none"]
    /\ server = [p \in Peer |-> "none"]
    /\ transfer = [p \in Peer |-> "none"]
    /\ client_receive_queue = [p \in Peer |-> <<>>]
    /\ server_receive_queue = [p \in Peer |-> <<>>]
    /\ receive_queue = [p \in Peer |-> <<>>]
    /\ streams = <<>>
    /\ written = {}
    /\ accepting = 0
    /\ to_server = {} /\ to_client = {}

-----------------------------------------------------------------------------
\* Mutant: the sender waits for room instead of dropping the packet, and the
\* channel is not bounded.
TrySend_Unbounded(queue, open, packet) == IF open THEN Append(queue, packet) ELSE queue

\* try_send, whose error is ignored: the channel is full or its receiver gone.
TrySend(queue, open, packet) ==
    IF open /\ Len(queue) < QueueSize THEN Append(queue, packet) ELSE queue

\* send_datagram, unreliable: QUIC drops datagrams when too many wait.
SendDatagram(set, id, packet) ==
    IF Cardinality(set) < MaxInFlight
    THEN set \cup {[peer_id |-> id, data |-> packet]}
    ELSE set

\* The client half has its receivers, and the queue to it is not closed.
Live(p) == client[p] \in {"opening", "opened", "running"}

\* Mutant: a queue counts as open once its address is known.
HasQueue_Stale(a) == addr_to_queue[a] # 0

\* addr_to_queue.get(..).filter(|s| !s.is_closed()) finds a queue.
HasQueue(a) == addr_to_queue[a] # 0 /\ Live(addr_to_queue[a])

\* Mutant: an address that comes back gets the id it had.
NewId_Reused(a) ==
    IF addr_to_queue[a] = 0 THEN next_peer_id ELSE peers[addr_to_queue[a]].id

\* The id of the next peer; the address makes no difference.
NewId(a) == next_peer_id

\* A packet of a known address goes to the queue of its peer.
Forward(a) ==
    /\ client_up
    /\ HasQueue(a)
    /\ client_receive_queue' = [client_receive_queue EXCEPT ![addr_to_queue[a]] =
                                    TrySend(@, TRUE, a)]
    /\ UNCHANGED <<up, tables, halves, server_receive_queue, receive_queue, accept, net>>

\* Mutant: the queue is not filed under the id of the new peer.
FileId_Lost(p, id) == id_to_queue' = id_to_queue

\* The queue from the server is filed under the id.
FileId(p, id) == id_to_queue' = [id_to_queue EXCEPT ![id] = p]

\* A packet of an unknown address, or of one whose peer is gone, makes a peer.
NewPeer(a) ==
    LET p == Len(peers) + 1
        id == NewId(a)
    IN  /\ client_up
        /\ ~HasQueue(a)
        /\ next_peer_id < MaxId
        /\ next_peer_id' = next_peer_id + 1
        /\ peers' = Append(peers, [id |-> id, addr |-> a])
        /\ addr_to_queue' = [addr_to_queue EXCEPT ![a] = p]
        /\ FileId(p, id)
        /\ client' = [client EXCEPT ![p] = "opening"]
        /\ client_receive_queue' = [client_receive_queue EXCEPT ![p] = <<a>>]
        /\ UNCHANGED <<up, outgoing_queues, server, transfer, server_receive_queue, receive_queue,
                       accept, net>>

\* The cacher client panics: every client half ends with it.
ClientGone ==
    /\ client_up' = FALSE
    /\ conn' = FALSE
    /\ client' = [p \in Peer |-> IF client[p] = "none" THEN "none" ELSE "gone"]
    /\ client_receive_queue' = [p \in Peer |-> <<>>]
    /\ server_receive_queue' = [p \in Peer |-> <<>>]
    /\ UNCHANGED <<server_up, tables, server, transfer, receive_queue, accept, net>>

\* checked_add fails, and `?' ends run_client_proxy and the process.
OutOfIds(a) ==
    /\ client_up
    /\ ~HasQueue(a)
    /\ next_peer_id = MaxId
    /\ ClientGone

\* read_datagram on the client.
ClientDatagram(d) ==
    LET p == id_to_queue[d.peer_id]
    IN  /\ client_up
        /\ conn
        /\ d \in to_client
        /\ to_client' = to_client \ {d}
        /\ server_receive_queue' =
               IF p = 0 THEN server_receive_queue
               ELSE [server_receive_queue EXCEPT ![p] = TrySend(@, Live(p), d.data)]
        /\ UNCHANGED <<up, tables, halves, client_receive_queue, receive_queue, accept,
                       to_server>>

-----------------------------------------------------------------------------
\* open_bi of a new client half.
OpenStream(p) ==
    /\ client[p] = "opening"
    /\ conn
    /\ client' = [client EXCEPT ![p] = "opened"]
    /\ streams' = Append(streams, p)
    /\ UNCHANGED <<up, tables, server, transfer, queues, written, accepting, net>>

\* write_u32_le of its id; the transfer task is spawned and the loop begins.
WriteId(p) ==
    /\ client[p] = "opened"
    /\ conn
    /\ client' = [client EXCEPT ![p] = "running"]
    /\ written' = written \cup {p}
    /\ UNCHANGED <<up, tables, server, transfer, queues, streams, accepting, net>>

\* A packet of the Factorio client goes on as a datagram.  A block request is
\* answered here instead, which is to the server as if the datagram was lost.
ClientHalfSends(p) ==
    /\ client[p] = "running"
    /\ client_receive_queue[p] # <<>>
    /\ client_receive_queue' = [client_receive_queue EXCEPT ![p] = Tail(@)]
    /\ to_server' = SendDatagram(to_server, peers[p].id, Head(client_receive_queue[p]))
    /\ UNCHANGED <<up, tables, halves, server_receive_queue, receive_queue, accept,
                   to_client>>

\* A packet of the Factorio server goes to the address of the peer.
ClientHalfDelivers(p) ==
    /\ client[p] = "running"
    /\ server_receive_queue[p] # <<>>
    /\ server_receive_queue' = [server_receive_queue EXCEPT ![p] = Tail(@)]
    /\ UNCHANGED <<up, tables, halves, client_receive_queue, receive_queue, accept, net>>

\* UDP_PEER_IDLE_TIMEOUT passed with nothing to do, or a send failed, as one
\* does whose datagram is too large; or the stream could not be opened.
ClientHalfEnds(p) ==
    /\ \/ client[p] = "running" /\ client_receive_queue[p] = <<>> /\ server_receive_queue[p] = <<>>
       \/ client[p] = "running" /\ MayFail
       \/ client[p] \in {"opening", "opened"} /\ ~conn
    /\ client' = [client EXCEPT ![p] = "gone"]
    /\ client_receive_queue' = [client_receive_queue EXCEPT ![p] = <<>>]
    /\ server_receive_queue' = [server_receive_queue EXCEPT ![p] = <<>>]
    /\ UNCHANGED <<up, tables, server, transfer, receive_queue, accept, net>>

-----------------------------------------------------------------------------
\* read_datagram on the server, which does not go on while an id is awaited.
\* A datagram that came before the stream of its peer finds no queue.
ServerDatagram(d) ==
    LET p == outgoing_queues[d.peer_id]
    IN  /\ server_up
        /\ conn
        /\ accepting = 0
        /\ d \in to_server
        /\ to_server' = to_server \ {d}
        /\ receive_queue' =
               IF p = 0 THEN receive_queue
               ELSE [receive_queue EXCEPT ![p] = TrySend(@, server[p] = "running", d.data)]
        /\ UNCHANGED <<up, tables, halves, client_receive_queue, server_receive_queue,
                       accept, to_client>>

\* Mutant: the read of the id is an arm of the select, and the next stream
\* cancels it.
MayAccept_Cancels == streams # <<>>

\* The select is reached again only after the id of the last stream.
MayAccept == streams # <<>> /\ accepting = 0

\* accept_bi: streams are accepted in the order in which they were opened,
\* whether or not something was written to them.
AcceptStream ==
    /\ server_up
    /\ conn
    /\ MayAccept
    /\ accepting' = Head(streams)
    /\ streams' = Tail(streams)
    /\ UNCHANGED <<up, tables, halves, queues, written, net>>

\* read_u32_le returns the id; a socket is bound and proxy_server spawned.
StartPeer ==
    /\ server_up
    /\ accepting \in written
    /\ server' = [server EXCEPT ![accepting] = "running"]
    /\ outgoing_queues' = [outgoing_queues EXCEPT ![peers[accepting].id] = accepting]
    /\ accepting' = 0
    /\ UNCHANGED <<up, next_peer_id, peers, addr_to_queue, id_to_queue, client, transfer,
                   queues, streams, written, net>>

\* The socket cannot be bound, and `?' ends run_server_proxy.
BindFails ==
    /\ server_up
    /\ accepting \in written
    /\ MayFail
    /\ server_up' = FALSE
    /\ UNCHANGED <<conn, client_up, tables, halves, queues, accept, net>>

\* A packet of the queue goes to the Factorio server.
ServerHalfForwards(p) ==
    /\ server[p] = "running"
    /\ receive_queue[p] # <<>>
    /\ receive_queue' = [receive_queue EXCEPT ![p] = Tail(@)]
    /\ UNCHANGED <<up, tables, halves, client_receive_queue, server_receive_queue, accept,
                   net>>

\* A packet of the Factorio server, on the socket of the peer, goes on.
ServerHalfSends(p) ==
    /\ server[p] = "running"
    /\ conn
    /\ to_client' = SendDatagram(to_client, peers[p].id, p)
    /\ UNCHANGED <<up, tables, halves, queues, accept, to_server>>

\* Mutant: the half keeps a sender of its own queue, which so never closes.
QueueClosed_Never(p) == FALSE

\* recv returns None: the routing loop is gone and the queue is empty.
QueueClosed(p) == ~server_up /\ receive_queue[p] = <<>>

ServerHalfGone(p) ==
    /\ server' = [server EXCEPT ![p] = "gone"]
    /\ receive_queue' = [receive_queue EXCEPT ![p] = <<>>]
    /\ UNCHANGED <<up, tables, client, transfer, client_receive_queue, server_receive_queue,
                   accept, net>>

\* UDP_PEER_IDLE_TIMEOUT passed with nothing to do, or a socket or the
\* connection failed.
ServerHalfEnds(p) ==
    /\ server[p] = "running"
    /\ receive_queue[p] = <<>> \/ MayFail
    /\ ServerHalfGone(p)

ServerHalfCloses(p) ==
    /\ server[p] = "running"
    /\ QueueClosed(p)
    /\ ServerHalfGone(p)

\* finalize_world of a half that has downloaded the world: a task of its own
\* takes the stream of the peer.
StartTransfer(p) ==
    /\ server[p] = "running"
    /\ transfer[p] = "none"
    /\ transfer' = [transfer EXCEPT ![p] = "running"]
    /\ UNCHANGED <<up, tables, client, server, queues, accept, net>>

\* The task ends: its work is done, or reading or writing failed.
EndTransfer(p) ==
    /\ transfer[p] = "running"
    /\ transfer' = [transfer EXCEPT ![p] = "ended"]
    /\ UNCHANGED <<up, tables, client, server, queues, accept, net>>

-----------------------------------------------------------------------------
\* A datagram is lost (external).
Lose ==
    /\ \/ \E d \in to_server : to_server' = to_server \ {d} /\ UNCHANGED to_client
       \/ \E d \in to_client : to_client' = to_client \ {d} /\ UNCHANGED to_server
    /\ UNCHANGED <<up, tables, halves, queues, accept>>

\* The connection times out, or a process is stopped (external).
LoseConnection ==
    /\ conn
    /\ MayFail
    /\ conn' = FALSE
    /\ UNCHANGED <<client_up, server_up, tables, halves, queues, accept, net>>

\* A task of a peer holds the connection, a transfer by its streams.
Held == \E p \in Peer : server[p] = "running" \/ transfer[p] = "running"

\* The connection is closed once nothing on the server holds it.
DropConnection ==
    /\ conn
    /\ ~server_up
    /\ ~Held
    /\ conn' = FALSE
    /\ UNCHANGED <<client_up, server_up, tables, halves, queues, accept, net>>

\* read_datagram fails on the client, and run_client is unwrapped.
ClientRouterEnds == client_up /\ ~conn /\ ClientGone

\* read_datagram, accept_bi or read_u32_le fails on the server.
ServerRouterEnds ==
    /\ server_up
    /\ ~conn
    /\ server_up' = FALSE
    /\ UNCHANGED <<conn, client_up, tables, halves, queues, accept, net>>

ClientPacket(a) == Forward(a) \/ NewPeer(a) \/ OutOfIds(a)

ClientHalf(p) ==
    OpenStream(p) \/ WriteId(p) \/ ClientHalfSends(p) \/ ClientHalfDelivers(p) \/ ClientHalfEnds(p)

ServerHalf(p) ==
    \/ ServerHalfForwards(p) \/ ServerHalfSends(p) \/ ServerHalfEnds(p) \/ ServerHalfCloses(p)
    \/ StartTransfer(p) \/ EndTransfer(p)

Next ==
    \/ \E a \in Addr : ClientPacket(a)
    \/ \E d \in to_client : ClientDatagram(d)
    \/ \E p \in DOMAIN peers : ClientHalf(p) \/ ServerHalf(p)
    \/ \E d \in to_server : ServerDatagram(d)
    \/ AcceptStream
    \/ StartPeer
    \/ BindFails
    \/ Lose
    \/ LoseConnection
    \/ DropConnection
    \/ ClientRouterEnds
    \/ ServerRouterEnds

Spec == Init /\ [][Next]_vars

\* What the routing loop of the server does when it can go on.
ServerRouter == AcceptStream \/ StartPeer \/ BindFails \/ ServerRouterEnds

\* Tokio runs every task that can go on, and QUIC delivers streams; nothing is
\* assumed of datagrams, timeouts and failures.  A Factorio client without a peer
\* sends on.  A transfer ends with the connection, on which it reads and writes;
\* of one whose connection stands nothing is assumed.
FairSpec ==
    /\ Spec
    /\ \A a \in Addr : WF_vars(NewPeer(a) \/ OutOfIds(a))
    /\ \A p \in Peer :
           /\ WF_vars(OpenStream(p) \/ WriteId(p))
           /\ WF_vars(ServerHalfForwards(p) \/ ServerHalfCloses(p))
           /\ WF_vars(~conn /\ EndTransfer(p))
    /\ WF_vars(ServerRouter) /\ WF_vars(DropConnection) /\ WF_vars(ClientRouterEnds)

-----------------------------------------------------------------------------
\* A half that runs can be reached: both routing tables of the client lead to
\* it, so that no address has two live client halves, and the table of the
\* server leads to it.  A half never ends because its queue was replaced.
LiveReachable ==
    /\ client_up => \A p \in DOMAIN peers :
           Live(p) => addr_to_queue[peers[p].addr] = p /\ id_to_queue[peers[p].id] = p
    /\ server_up => \A p \in DOMAIN peers :
           server[p] = "running" => outgoing_queues[peers[p].id] = p

\* No packet reaches another player: a server half holds packets of its own
\* address only, and a client half packets from its own socket to the Factorio
\* server only, although datagrams of a peer that is gone may come late, when
\* its address has a new peer.
NoCrossTalk ==
    \A p \in DOMAIN peers :
        /\ \A i \in DOMAIN receive_queue[p] : receive_queue[p][i] = peers[p].addr
        /\ \A i \in DOMAIN server_receive_queue[p] : server_receive_queue[p][i] = p

\* Every peer that the client half announces gets its server half, however the
\* streams and ids of several new peers interleave, unless the routing ends.
PeerStarts ==
    \A p \in Peer : client[p] = "running" ~> server[p] # "none" \/ ~conn \/ ~server_up

\* An address whose client half ended gets a new peer as long as it sends, or
\* the cacher client ends.
Reconnects ==
    LET HasLive(a) == addr_to_queue[a] # 0 /\ Live(addr_to_queue[a])
    IN  \A a \in Addr : addr_to_queue[a] # 0 /\ ~HasLive(a) ~> HasLive(a) \/ ~client_up

\* Nothing is left of either side.
AllEnded ==
    /\ ~client_up /\ ~server_up
    /\ \A p \in Peer : ~Live(p) /\ server[p] # "running" /\ transfer[p] # "running"

\* When the cacher client is gone, all tasks of the server's side end.  When the
\* routing loop of the server is gone, the client's side ends too, unless a
\* transfer never ends: its streams keep the connection open, and the client
\* goes on with a connection that nobody serves.
HalvesEnd ==
    /\ ~client_up ~> AllEnded
    /\ (\A p \in Peer : []<>(transfer[p] # "running")) => (~server_up ~> AllEnded)

=============================================================================
