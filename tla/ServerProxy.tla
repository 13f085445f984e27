---------------------------- MODULE ServerProxy ----------------------------
(***************************************************************************)
(* One peer of the cacher server (proxy_server and ServerProxyState,       *)
(* src/src/proxy/server_proxy.rs) between the Factorio server, which it    *)
(* reaches over UDP, and the cacher client.  The proxy waits for the       *)
(* announcement of the world, downloads the world block by block with a    *)
(* window of requests, and hands the blocks to transfer_world_data.        *)
(* Meanwhile every packet that is not a block passes through to the        *)
(* client, with the description of the world replaced.                     *)
(*                                                                         *)
(* on_packet_from_server is one action per phase and kind of packet.  A    *)
(* timer is a flag that says whether it is past its limit.  The network    *)
(* may lose, duplicate and reorder; it is the set of block requests and    *)
(* the set of blocks under way.                                            *)
(***************************************************************************)
EXTENDS Integers, Sequences, FiniteSets, Functions

CONSTANTS
    WorldSize,  \* world_info.world_size, in bytes
    AuxSize,    \* world_info.aux_size, in bytes
    BlockSize,  \* TRANSFER_BLOCK_SIZE, 503 in the code
    U32,        \* 2^32
    Limit,      \* INFLIGHT_BLOCK_REQUEST_LIMIT, 16 in the code
    MayStop     \* whether the peer may go away

ASSUME SizesAssumption ==
    /\ WorldSize \in Nat \ {0} /\ AuxSize \in Nat /\ BlockSize \in Nat \ {0}
    /\ U32 \in Nat \ {0}

ASSUME LimitAssumption == Limit \in Nat \ {0}

ASSUME StopAssumption == MayStop \in BOOLEAN

VARIABLES
    phase,      \* the ServerProxyPhase; "gone" once proxy_server returned
    queue,      \* block_request_queue
    inflight,   \* inflight_block_requests
    received,   \* received_blocks: the ids in the order of arrival
    late,       \* last_block_time.elapsed() > 100 ms
    filter,     \* packet_filter: none, or whether last_replace is past 30 s
    told,       \* the client got replaced metadata in the last 30 s (history)
    assembled,  \* what transfer_world_data joins, <<>> before it is spawned
    to_client,  \* out_packets to the client of the last step
    asked,      \* block requests on the way to the Factorio server
    answers     \* blocks on the way back

vars == <<phase, queue, inflight, received, late, filter, told, assembled, to_client,
          asked, answers>>

network == <<asked, answers>>

filtering == <<filter, told>>

\* The blocks that hold n bytes, unless the sum wraps.
BlockCount(n) == ((n + BlockSize - 1) % U32) \div BlockSize

Count == BlockCount(WorldSize) + BlockCount(AuxSize)

Block == 0 .. Count - 1

\* 0..total_block_count, the first block_request_queue.
FirstQueue == Block

\* What passes through to the client: a packet with the metadata of the world
\* as the Factorio server sent it or replaced, another packet, or a block.
Packet == {"original", "replaced", "other", "block"}

\* The values the state may take: every id anywhere is the id of a block.
TypeOK ==
    /\ phase \in {"waiting", "downloading", "done", "gone"}
    /\ queue \subseteq Block
    /\ inflight \subseteq Block
    /\ received \in Seq(Block)
    /\ late \in BOOLEAN
    /\ filter \in {"none", "recent", "old"}
    /\ told \in BOOLEAN
    /\ assembled \in Seq(Block)
    /\ to_client \subseteq Packet
    /\ asked \subseteq Block
    /\ answers \subseteq Block

Init ==
    /\ phase = "waiting"
    /\ queue = {}
    /\ inflight = {}
    /\ received = <<>>
    /\ late = FALSE
    /\ filter = "none" /\ told = FALSE
    /\ assembled = <<>>
    /\ to_client = {}
    /\ asked = {}
    /\ answers = {}

-----------------------------------------------------------------------------
\* Mutant: request_next_blocks asks for something only when nothing is under way.
Wanted_WhenIdle(Q, F) == IF F = {} THEN {b \in Q : \A c \in Q : b <= c} ELSE {}

\* The blocks request_next_blocks takes from the queue Q when F is in flight:
\* the smallest ones, while there is room in the window.
Wanted(Q, F) ==
    {b \in Q : Cardinality(F) + Cardinality({c \in Q : c < b}) < Limit}

\* request_next_blocks on queue Q and window F.  `again' are the requests that
\* are repeated before.
RequestNext(Q, F, again) ==
    /\ queue' = Q \ Wanted(Q, F)
    /\ inflight' = F \cup Wanted(Q, F)
    /\ asked' = asked \cup again \cup Wanted(Q, F)

\* transition_to_downloading_world: a heartbeat is MapReadyForDownload.
StartDownload ==
    /\ phase = "waiting"
    /\ phase' = "downloading"
    /\ filter' = "recent" /\ told' = TRUE
    /\ to_client' = {"replaced"}
    /\ received' = <<>>
    /\ late' = FALSE
    /\ RequestNext(FirstQueue, {}, {})
    /\ UNCHANGED <<assembled, answers>>

\* Mutant: the blocks are joined in the order of their arrival.
Sorted_Arrival(s) == {s}

\* The orders of s that sort_by_key may leave.
Sorted(s) ==
    {[i \in DOMAIN s |-> s[p[i]]] : p \in
        {p \in [DOMAIN s -> DOMAIN s] :
            /\ \A i, j \in DOMAIN s : i < j => s[p[i]] <= s[p[j]]
            /\ IsInjective(p) /\ Range(p) = DOMAIN s}}

\* Mutant: a block is pushed whether or not it is still missing.
Fresh_Always(b) == TRUE

\* inflight_block_requests.remove(b) || block_request_queue.remove(b)
Fresh(b) == b \in inflight \/ b \in queue

\* Mutant: every block restarts the timer, a repeated one too.
LateAfter_AnyBlock(b) == FALSE

\* last_block_time is set only by a block that was still missing.
LateAfter(b) == late /\ ~Fresh(b)

\* What is left of the queue when b arrives, if it was not in flight.
QueueAfter(b) == IF b \in inflight THEN queue ELSE queue \ {b}

\* finalize_world: the phase is over, and transfer_world_data, spawned with the
\* stream to the client, joins the blocks.
Finalize ==
    /\ phase' = "done"
    /\ assembled' \in Sorted(received')
    /\ queue' = {} /\ inflight' = {}

\* A TransferBlock arrives while downloading, perhaps the last one.
TakeBlock(b) ==
    /\ phase = "downloading"
    /\ received' = IF Fresh(b) THEN Append(received, b) ELSE received
    /\ late' = LateAfter(b)
    /\ IF QueueAfter(b) = {} /\ inflight \ {b} = {}
       THEN /\ Finalize
            /\ UNCHANGED asked
       ELSE /\ RequestNext(QueueAfter(b), inflight \ {b}, {})
            /\ UNCHANGED <<phase, assembled>>
    /\ to_client' = {}
    /\ UNCHANGED filtering

\* A TransferBlock too short to hold an id is dropped while downloading.
DropBlock ==
    /\ phase = "downloading"
    /\ to_client' = {}
    /\ UNCHANGED <<phase, queue, inflight, received, late, filtering, assembled, network>>

\* filter_packet: the metadata of the world is replaced wherever it is found.
Filtered(x) == IF x = "original" /\ filter # "none" THEN "replaced" ELSE x

\* Mutant: a replacement does not set last_replace.
FilterAfter_NotRenewed(x) == IF filter = "recent" THEN "recent" ELSE "none"

\* packet_filter after packet x went through it: a replacement renews it, and
\* it is dropped when the last replacement is too old.
FilterAfter(x) ==
    CASE filter = "none" -> "none"
      [] filter # "none" /\ x = "original" -> "recent"
      [] filter = "recent" /\ x # "original" -> "recent"
      [] filter = "old" /\ x # "original" -> "none"

\* The last part of on_packet_from_server: packet x is filtered and passed on.
PassOn(x) ==
    /\ filter' = FilterAfter(x)
    /\ to_client' = {Filtered(x)}
    /\ told' = (told \/ Filtered(x) = "replaced")

\* A packet that is no block, and no announcement while waiting, passes
\* through; while downloading it also makes up for lost requests and blocks
\* once no block came for a while.
PassPacket(x) ==
    /\ phase # "gone"
    /\ PassOn(x)
    /\ IF phase = "downloading" /\ late
       THEN /\ RequestNext(queue, inflight, inflight)
            /\ late' = FALSE
       ELSE UNCHANGED <<queue, inflight, late, asked>>
    /\ UNCHANGED <<phase, received, assembled, answers>>

\* A block that arrives after the download passes through like any packet.
PassBlock ==
    /\ phase = "done"
    /\ PassOn("block")
    /\ UNCHANGED <<phase, queue, inflight, received, late, assembled, asked>>

\* proxy_server returns: a socket or queue is closed, or nothing came for
\* UDP_PEER_IDLE_TIMEOUT.
Stop ==
    /\ MayStop
    /\ phase # "gone"
    /\ phase' = "gone"
    /\ to_client' = {}
    /\ UNCHANGED <<queue, inflight, received, late, filtering, assembled, network>>

-----------------------------------------------------------------------------
\* The network delivers a block, and perhaps once more.
Deliver(b) ==
    /\ b \in answers
    /\ answers' \in {answers, answers \ {b}}
    /\ TakeBlock(b) \/ PassBlock

\* The Factorio server answers a request (external), perhaps once more.
Serve(b) ==
    /\ b \in asked
    /\ asked' \in {asked, asked \ {b}}
    /\ answers' = answers \cup {b}
    /\ UNCHANGED <<phase, queue, inflight, received, late, filtering, assembled, to_client>>

\* The network loses a request or a block (external).
Lose ==
    /\ \/ \E b \in asked : asked' = asked \ {b} /\ UNCHANGED answers
       \/ \E b \in answers : answers' = answers \ {b} /\ UNCHANGED asked
    /\ UNCHANGED <<phase, queue, inflight, received, late, filtering, assembled, to_client>>

\* 100 ms pass after the last block that was still missing.
BlockTimeout ==
    /\ phase = "downloading"
    /\ ~late
    /\ late' = TRUE
    /\ UNCHANGED <<phase, queue, inflight, received, filtering, assembled, to_client, network>>

\* 30 s pass after the last replacement.
FilterTimeout ==
    /\ told
    /\ told' = FALSE
    /\ filter' = IF filter = "recent" THEN "old" ELSE filter
    /\ UNCHANGED <<phase, queue, inflight, received, late, assembled, to_client, network>>

Next ==
    \/ StartDownload
    \/ DropBlock
    \/ \E x \in {"original", "other"} : PassPacket(x)
    \/ \E b \in Block : Deliver(b) \/ Serve(b)
    \/ Lose
    \/ BlockTimeout
    \/ FilterTimeout
    \/ Stop

Spec == Init /\ [][Next]_vars

\* Time passes, the Factorio server keeps sending heartbeats to a peer that is
\* joining, and a request that is repeated for ever is answered, and the answer
\* arrives, at some time.
FairSpec ==
    /\ Spec
    /\ WF_vars(BlockTimeout)
    /\ WF_vars(PassPacket("other"))
    /\ \A b \in Block : SF_vars(Serve(b)) /\ SF_vars(Deliver(b))

-----------------------------------------------------------------------------
\* Nothing is downloaded, and nothing handed on, before its phase.
Phases ==
    /\ phase = "waiting" => inflight = {}
    /\ phase \in {"waiting", "downloading"} => assembled = <<>>

\* Every block of the world is in exactly one place while the download runs:
\* none is lost between the queue, the window and the received blocks, and
\* none is received twice, whatever the network repeats.
BlocksAccounted ==
    phase = "downloading" =>
        /\ queue \cup inflight \cup Range(received) = Block
        /\ queue \cap inflight = {}
        /\ (queue \cup inflight) \cap Range(received) = {}
        /\ IsInjective(received)

\* The Factorio server is never asked for more than Limit blocks at a time.
WindowBounded == Cardinality(inflight) <= Limit

\* The window is never left with room while blocks wait in the queue: there is
\* always a request whose answer, or whose repetition, moves the download on.
WindowFull ==
    phase = "downloading" /\ queue # {} => Cardinality(inflight) >= Limit

\* request_next_blocks keeps the window of requests bounded and full, on every
\* path that calls it.
Window == WindowBounded /\ WindowFull

\* The inductive invariant of the download.
IInv == TypeOK /\ Phases /\ BlocksAccounted /\ WindowBounded /\ WindowFull

\* Within 30 s of being told of the replaced world the client never hears of the
\* original one, however announcements, other packets and blocks follow each
\* other: packet_filter outlives its last replacement by that time at least.
OriginalStaysHidden == told => to_client # {"original"}

\* A download that was started is finished.
DownloadEnds == phase = "downloading" ~> phase # "downloading"

\* What the cacher server promises about the download.
Download == INSTANCE WorldDownload WITH
    Count <- Count,
    status <- CASE phase = "waiting" -> "idle"
                [] phase = "downloading" -> "announced"
                [] phase = "done" -> "transferring"
                [] phase = "gone" -> "gone",
    world <- assembled

\* Over any network the peer does what WorldDownload promises: the transfer to
\* the cacher client starts once, with every block in order.
DownloadImplemented == Download!DSpec

\* "The Factorio client will then begin downloading the world ZIP from the
\* Cacher client's locally reconstructed copy": no block of the original world
\* reaches it.
BlocksStayHere == "block" \notin to_client

=============================================================================
