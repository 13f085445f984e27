---------------------------- MODULE ClientProxy ----------------------------
(***************************************************************************)
(* One peer of the cacher client (proxy_client and ClientProxyState,       *)
(* src/src/proxy/client_proxy.rs).  The transfer task rebuilds the world   *)
(* and sends it piece by piece over a bounded channel; the proxy appends   *)
(* the pieces and answers the block requests of the Factorio client from   *)
(* what it has, keeping those it cannot answer yet.  Some time after the   *)
(* last request it drops the world, and every other packet passes through. *)
(*                                                                         *)
(* A byte of the world is named by its place, so that a byte at a wrong    *)
(* place shows.                                                            *)
(***************************************************************************)
EXTENDS Integers, Sequences, FiniteSets, FactorioProtocol

CONSTANTS
    Blocks,     \* the number of blocks of the rebuilt world
    BlockSize,  \* TRANSFER_BLOCK_SIZE
    Pieces,     \* where the pieces that the transfer sends end, in bytes
    Capacity,   \* of the channel between the tasks, 32 in the code
    MayFail     \* whether the transfer may end early and the peer go away

\* finalize_world_file aligns the world to blocks; a piece may be empty.
ASSUME PiecesAssumption ==
    /\ Blocks \in Nat \ {0} /\ BlockSize \in Nat \ {0}
    /\ Pieces \in Seq(0 .. Blocks * BlockSize)
    /\ \A i, j \in DOMAIN Pieces : i < j => Pieces[i] <= Pieces[j]
    /\ Pieces # <<>> /\ Pieces[Len(Pieces)] = Blocks * BlockSize

ASSUME CapacityAssumption == Capacity \in Nat \ {0} /\ MayFail \in BOOLEAN

VARIABLES
    running,     \* whether proxy_client runs
    world_data,  \* the bytes the proxy has, by their place in the world
    world_data_done,
    pending_requests,
    quiet,       \* last_block_request.elapsed() > WORLD_DATA_TIMEOUT
    given,       \* pieces the transfer task has put into the channel
    taken,       \* pieces the proxy took out of it
    sending,     \* whether the transfer task holds the sender
    unanswered,  \* blocks the Factorio client asked for and was not sent
    answers      \* the packets that were sent to it as answers

vars == <<running, world_data, world_data_done, pending_requests, quiet, given,
          taken, sending, unanswered, answers>>

Block == 0 .. Blocks - 1

\* The bytes of the world from place i to place j.
Bytes(i, j) == [n \in 1 .. j - i + 1 |-> i + n - 1]

\* Where piece i begins.
PieceStart(i) == IF i = 1 THEN 1 ELSE Pieces[i - 1] + 1

Piece(i) == Bytes(PieceStart(i), Pieces[i])

\* The values the state may take: the channel never holds more than Capacity
\* pieces.
TypeOK ==
    /\ running \in BOOLEAN
    /\ world_data \in Seq(1 .. Blocks * BlockSize)
    /\ world_data_done \in BOOLEAN
    /\ pending_requests \subseteq Nat
    /\ quiet \in BOOLEAN
    /\ given \in 0 .. Len(Pieces)
    /\ taken \in 0 .. given /\ given - taken <= Capacity
    /\ sending \in BOOLEAN
    /\ unanswered \subseteq Nat
    /\ \A packet \in answers : HasType(packet, TransferBlock) /\ BlockId(packet) \in Block

Init ==
    /\ running = TRUE
    /\ world_data = <<>>
    /\ world_data_done = FALSE
    /\ pending_requests = {}
    /\ quiet = FALSE
    /\ given = 0
    /\ taken = 0
    /\ sending = TRUE
    /\ unanswered = {}
    /\ answers = {}

\* try_fulfill_block_request finds the whole block in `data'.
Fulfillable(b, data) == b * BlockSize + BlockSize <= Len(data)

\* The answer that it makes.
Answer(b, data) ==
    TransferBlockPacket(b, SubSeq(data, b * BlockSize + 1, b * BlockSize + BlockSize))

\* on_packet_from_client with a TransferBlockRequest.
RequestBlock(b) ==
    /\ running
    /\ IF Fulfillable(b, world_data)
       THEN /\ unanswered' = unanswered \ {b}
            /\ answers' = answers \cup {Answer(b, world_data)}
            /\ UNCHANGED pending_requests
       ELSE /\ unanswered' = unanswered \cup {b}
            /\ pending_requests' = pending_requests \cup {b}
            /\ UNCHANGED answers
    /\ quiet' = FALSE
    /\ UNCHANGED <<running, world_data, world_data_done, given, taken, sending>>

\* Mutant: the world is dropped while pieces of it are still to come.
Droppable_TooEarly == world_data # <<>> /\ quiet

\* When nobody asked for a block for a while after the transfer was over.
Droppable == world_data # <<>> /\ world_data_done /\ quiet

\* on_packet_from_client with any other packet, which goes to the server.
PassPacket ==
    /\ running
    /\ world_data' = IF Droppable THEN <<>> ELSE world_data
    /\ UNCHANGED <<running, world_data_done, pending_requests, quiet, given, taken,
                   sending, unanswered, answers>>

\* Mutant: pending_requests_swap is not swapped in.
StillPending_Lost(data) == {}

\* pending_requests_swap: the requests that new data leaves unanswered.
StillPending(data) == {b \in pending_requests : ~Fulfillable(b, data)}

\* on_new_world_data with a piece.
TakePiece ==
    /\ running
    /\ taken < given
    /\ taken' = taken + 1
    /\ world_data' = world_data \o Piece(taken + 1)
    /\ pending_requests' = StillPending(world_data')
    /\ LET fulfilled == {b \in pending_requests : Fulfillable(b, world_data')}
       IN  /\ unanswered' = unanswered \ fulfilled
           /\ answers' = answers \cup {Answer(b, world_data') : b \in fulfilled}
    /\ quiet' = FALSE
    /\ UNCHANGED <<running, world_data_done, given, sending>>

\* on_new_world_data with None: the channel is empty and the sender dropped.
TakeEnd ==
    /\ running
    /\ ~world_data_done
    /\ taken = given
    /\ ~sending
    /\ world_data_done' = TRUE
    /\ quiet' = FALSE
    /\ UNCHANGED <<running, world_data, pending_requests, given, taken, sending, unanswered, answers>>

\* WORLD_DATA_TIMEOUT passes.
BecomeQuiet ==
    /\ running
    /\ ~quiet
    /\ quiet' = TRUE
    /\ UNCHANGED <<running, world_data, world_data_done, pending_requests, given, taken,
                   sending, unanswered, answers>>

\* proxy_client returns: a queue is closed, a send fails, or nothing came for
\* UDP_PEER_IDLE_TIMEOUT.
Stop ==
    /\ running
    /\ MayFail
    /\ running' = FALSE
    /\ UNCHANGED <<world_data, world_data_done, pending_requests, quiet, given, taken,
                   sending, unanswered, answers>>

\* transfer_world_data sends the next piece, once the channel has room.
SendPiece ==
    /\ sending
    /\ running
    /\ given < Len(Pieces)
    /\ given - taken < Capacity
    /\ given' = given + 1
    /\ UNCHANGED <<running, world_data, world_data_done, pending_requests, quiet, taken,
                   sending, unanswered, answers>>

\* transfer_world_data returns: the world is complete, or there was an error,
\* as there is when it sends to a proxy that is gone.
EndTransfer ==
    /\ sending
    /\ given = Len(Pieces) \/ MayFail
    /\ sending' = FALSE
    /\ UNCHANGED <<running, world_data, world_data_done, pending_requests, quiet, given,
                   taken, unanswered, answers>>

\* A packet of the Factorio client, which may ask for any block, or a step of
\* one of the two tasks.
Next ==
    \/ \E b \in Nat : RequestBlock(b)
    \/ PassPacket
    \/ TakePiece
    \/ TakeEnd
    \/ BecomeQuiet
    \/ Stop
    \/ SendPiece
    \/ EndTransfer

Spec == Init /\ [][Next]_vars

-----------------------------------------------------------------------------
\* Every block that the Factorio client is sent has the bytes of that block of
\* the world: a world that was dropped is never continued with later pieces,
\* and the block is cut out at its place.
BlocksRight ==
    \A packet \in answers :
        BlockData(packet) = Bytes(BlockId(packet) * BlockSize + 1,
                                  BlockId(packet) * BlockSize + BlockSize)

\* No request is forgotten or left behind: what the client was not sent is
\* pending, and nothing pending could be answered by the data at hand.
RequestsKept ==
    /\ unanswered = pending_requests
    /\ \A b \in pending_requests : ~(b * BlockSize + BlockSize <= Len(world_data))

=============================================================================
