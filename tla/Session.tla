------------------------------ MODULE Session ------------------------------
(***************************************************************************)
(* A whole world download of one peer: the client half of ClientProxy, the *)
(* server half, and the two transfer tasks that talk over the stream of    *)
(* the peer (transfer_world_data in client_proxy.rs and server_proxy.rs).  *)
(* The server half tells the Factorio client of a replaced world as soon   *)
(* as it sees the announcement; only then it downloads the world, and the  *)
(* client half has to make up the blocks of the world that was announced.  *)
(*                                                                         *)
(* The download (see ServerProxy) is one step, and chunks come in batches  *)
(* (see ChunkCache): a batch is cached, is asked for over the stream, or   *)
(* is awaited because the transfers of other peers fetch it.               *)
(***************************************************************************)
EXTENDS ClientProxy

CONSTANTS
    Needs,         \* the number of batches that each piece needs to be rebuilt
    ClientPacket,  \* packets that the Factorio client may send
    Announcement   \* packets in which a Factorio server may announce a world

ASSUME NeedsAssumption ==
    /\ Needs \in Seq(Nat) /\ Len(Needs) = Len(Pieces)
    /\ \A i, j \in DOMAIN Needs : i < j => Needs[i] <= Needs[j]

\* The number of a block is a u32.
ASSUME RequestAssumption ==
    \A packet \in ClientPacket : IsBlockRequest(packet) => RequestedBlock(packet) \in Nat

VARIABLES
    proxy,     \* whether proxy_server runs
    phase,     \* of its ServerProxyState
    told,      \* the world that the Factorio client was told of
    transfer,  \* the transfer task of the server
    to_client, \* messages on the stream, from the server
    to_server, \* messages on the stream, from the client
    fetch,     \* what the transfer task of the client does, while `sending'
    have       \* batches in its local_cache

session == <<proxy, phase, told, transfer, to_client, to_server, fetch, have>>

\* The values the state may take; a message that nobody read yet is the only
\* one on its stream, because the two tasks take turns.
SessionTypeOK ==
    /\ TypeOK
    /\ proxy \in BOOLEAN
    /\ phase \in {"waiting", "downloading", "done"}
    /\ told \in {"nothing", "original", "replaced"}
    /\ transfer \in {"none", "preparing", "reading", "answering", "ended"}
    /\ to_client \in {<<>>, <<"WorldReady">>, <<"SendChunks">>}
    /\ to_server \in {<<>>, <<"RequestChunks">>}
    /\ fetch \in {"starting", "working", "asking", "waiting"}
    /\ have \in 0 .. Needs[Len(Needs)]

SessionInit ==
    /\ Init
    /\ proxy = TRUE
    /\ phase = "waiting"
    /\ told = "nothing"
    /\ transfer = "none"
    /\ to_client = <<>> /\ to_server = <<>>
    /\ fetch = "starting"
    /\ have = 0

\* on_packet_from_client.
FromClient(packet) ==
    /\ IF IsBlockRequest(packet) THEN RequestBlock(RequestedBlock(packet)) ELSE PassPacket
    /\ IsBlockRequest(packet) => told # "nothing"
    /\ UNCHANGED session

\* on_packet_from_server while WaitingForWorld, with a packet that announces a
\* world; a packet that is not recognised goes to the Factorio client as it is.
MapReady(packet) ==
    /\ proxy
    /\ phase = "waiting"
    /\ IF IsMapReady(packet)
       THEN told' = "replaced" /\ phase' = "downloading"
       ELSE told' = "original" /\ UNCHANGED phase
    /\ UNCHANGED <<vars, proxy, transfer, to_client, to_server, fetch, have>>

\* finalize_world after the last block: the task takes the stream.
FinalizeWorld ==
    /\ proxy
    /\ phase = "downloading"
    /\ phase' = "done"
    /\ transfer' = "preparing"
    /\ UNCHANGED <<vars, proxy, told, to_client, to_server, fetch, have>>

\* proxy_server returns; before finalize_world the stream goes with it.
StopServer ==
    /\ proxy
    /\ MayFail
    /\ proxy' = FALSE
    /\ UNCHANGED <<vars, phase, told, transfer, to_client, to_server, fetch, have>>

-----------------------------------------------------------------------------
\* The transfer task of the server: the world is deconstructed and described.
SendWorldReady ==
    /\ transfer = "preparing"
    /\ to_client' = Append(to_client, "WorldReady")
    /\ transfer' = "reading"
    /\ UNCHANGED <<vars, proxy, phase, told, to_server, fetch, have>>

ReadRequest ==
    /\ transfer = "reading"
    /\ to_server # <<>>
    /\ to_server' = Tail(to_server)
    /\ transfer' = "answering"
    /\ UNCHANGED <<vars, proxy, phase, told, to_client, fetch, have>>

SendChunks ==
    /\ transfer = "answering"
    /\ to_client' = Append(to_client, "SendChunks")
    /\ transfer' = "reading"
    /\ UNCHANGED <<vars, proxy, phase, told, to_server, fetch, have>>

\* Mutant: the loop does not end when the stream does.
ServerAtEnd_Never == FALSE

\* read_message fails: the client has ended the stream.
ServerAtEnd == transfer = "reading" /\ to_server = <<>> /\ ~sending

EndServerTransfer ==
    /\ ServerAtEnd
    /\ transfer' = "ended"
    /\ UNCHANGED <<vars, proxy, phase, told, to_client, to_server, fetch, have>>

\* The world has too few bytes or is no archive; a message cannot be encoded,
\* decoded or written; or the connection is lost.
FailServerTransfer ==
    /\ transfer \in {"preparing", "reading", "answering"}
    /\ MayFail
    /\ transfer' = "ended"
    /\ UNCHANGED <<vars, proxy, phase, told, to_client, to_server, fetch, have>>

-----------------------------------------------------------------------------
\* The transfer task of the client: the description of the world arrives.
ReadWorldReady ==
    /\ sending
    /\ fetch = "starting"
    /\ to_client # <<>>
    /\ to_client' = Tail(to_client)
    /\ fetch' = "working"
    /\ UNCHANGED <<vars, proxy, phase, told, transfer, to_server, have>>

\* Mutant: the last chunk that came is not looked up.
PieceReady_OffByOne == fetch = "working" /\ given < Len(Pieces) /\ Needs[given + 1] < have

\* reconstruct_world_file has all that the next piece needs.
PieceReady == fetch = "working" /\ given < Len(Pieces) /\ Needs[given + 1] <= have

\* ... or NeedsMoreData.
NeedsMoreData == sending /\ fetch = "working" /\ given < Len(Pieces) /\ Needs[given + 1] > have

GivePiece ==
    /\ PieceReady
    /\ SendPiece
    /\ UNCHANGED session

\* get_chunks_batched finds the next batch in the cache.
UseCached ==
    /\ NeedsMoreData
    /\ have' = have + 1
    /\ UNCHANGED <<vars, proxy, phase, told, transfer, to_client, to_server, fetch>>

\* ... or finds that the transfers of other peers fetch all of it, and waits.
WaitForOthers ==
    /\ NeedsMoreData
    /\ fetch' = "waiting"
    /\ UNCHANGED <<vars, proxy, phase, told, transfer, to_client, to_server, have>>

\* The last semaphore that it waits for is closed.  That takes the other
\* transfers, and a fetch that fails never closes its semaphore.
OthersFulfill ==
    /\ fetch = "waiting"
    /\ have' = have + 1
    /\ fetch' = "working"
    /\ UNCHANGED <<vars, proxy, phase, told, transfer, to_client, to_server>>

\* Mutant: the request is left in a buffer.
SendRequest_Buffered == to_server

\* write_message.
SendRequest == Append(to_server, "RequestChunks")

\* Mutant: the next batch is asked for before the answer was read.
AfterRequest_NoWait == "working"

\* Then read_message waits for the answer.
AfterRequest == "asking"

\* ... or has to ask for it.
RequestChunks ==
    /\ NeedsMoreData
    /\ to_server' = SendRequest
    /\ fetch' = AfterRequest
    /\ UNCHANGED <<vars, proxy, phase, told, transfer, to_client, have>>

ReadChunks ==
    /\ sending
    /\ fetch = "asking"
    /\ to_client # <<>>
    /\ to_client' = Tail(to_client)
    /\ have' = have + 1
    /\ fetch' = "working"
    /\ UNCHANGED <<vars, proxy, phase, told, transfer, to_server>>

\* read_message fails: the stream ended with the server's task, or with
\* proxy_server before there was one.
ClientAtEnd ==
    /\ fetch \in {"starting", "asking"}
    /\ to_client = <<>>
    /\ transfer = "ended" \/ (transfer = "none" /\ ~proxy)

\* The task returns: all is sent, the stream ended, or the proxy is gone.
FinishTransfer ==
    /\ \/ given = Len(Pieces)
       \/ ClientAtEnd
       \/ PieceReady /\ ~running
    /\ EndTransfer
    /\ UNCHANGED session

\* ... or there was an error: a chunk with a wrong hash, a world that does not
\* fit, a message that cannot be written, an awaited chunk that was evicted.  No
\* error reaches the task while it waits for semaphores.
FailTransfer ==
    /\ MayFail
    /\ fetch # "waiting"
    /\ EndTransfer
    /\ UNCHANGED session

-----------------------------------------------------------------------------
ClientHalf ==
    (TakePiece \/ TakeEnd \/ BecomeQuiet \/ Stop) /\ UNCHANGED session

ServerTransfer == SendWorldReady \/ ReadRequest \/ SendChunks \/ EndServerTransfer

ClientTransfer ==
    \/ ReadWorldReady \/ GivePiece \/ FinishTransfer
    \/ UseCached \/ WaitForOthers \/ RequestChunks \/ ReadChunks

SessionNext ==
    \/ \E packet \in ClientPacket : FromClient(packet)
    \/ \E packet \in Announcement : MapReady(packet)
    \/ FinalizeWorld
    \/ StopServer
    \/ ClientHalf
    \/ ServerTransfer
    \/ ClientTransfer
    \/ OthersFulfill
    \/ FailServerTransfer
    \/ FailTransfer

\* Tasks go on while they can, the Factorio server answers the download or the
\* server half gives it up, and streams deliver.  Nothing is assumed of the
\* Factorio client, of timeouts, of failures and of the transfers of other peers.
SessionSpec ==
    /\ SessionInit
    /\ [][SessionNext]_<<vars, session>>
    /\ WF_vars(TakePiece /\ UNCHANGED session)
    /\ WF_vars(TakeEnd /\ UNCHANGED session)
    /\ WF_<<vars, session>>(FinalizeWorld \/ (phase = "downloading" /\ StopServer))
    /\ WF_<<vars, session>>(ServerTransfer)
    /\ WF_<<vars, session>>(ClientTransfer)

-----------------------------------------------------------------------------
\* The two transfer tasks never wait for each other: when both read from the
\* stream, there is something for one of them to read.
NoCrossWait ==
    sending /\ fetch \in {"starting", "asking"} /\ transfer = "reading" =>
        to_client # <<>> \/ to_server # <<>>

\* The client half is gone, or the transfer ended before the world was complete.
Broken == ~running \/ (world_data_done /\ taken < Len(Pieces))

\* Every wait for the fetches of other transfers ends.  ChunkCache shows that they
\* do when no fetch fails (TransferEnds), and may not when one does (WaitEnds).
WaitsEnd == []<>(fetch # "waiting")

\* The Factorio client is told of the replaced world before anyone has it; all
\* of it arrives in the end, unless something fails or other transfers keep it
\* waiting for ever.
WorldComplete == WaitsEnd => (told = "replaced" ~> taken = Len(Pieces) \/ Broken)

\* A block of the replaced world that is asked for before the proxy saw the end
\* of the transfer is sent, unless something fails or other transfers keep this
\* one waiting for ever.
RequestAnswered ==
    WaitsEnd =>
        \A b \in Block :
            b \in unanswered /\ told = "replaced" /\ ~world_data_done ~> b \notin unanswered \/ Broken

\* When both halves of a peer are gone, so are its transfer tasks in the end,
\* wherever they stood: neither keeps the stream open for the other, and nothing
\* leaks but for a task that waits for ever for the fetch of another transfer.
TransfersEnd ==
    WaitsEnd => (~running /\ ~proxy ~> ~sending /\ transfer \in {"none", "ended"})

=============================================================================
