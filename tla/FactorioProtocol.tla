-------------------------- MODULE FactorioProtocol --------------------------
(***************************************************************************)
(* The packets of Factorio that the cacher reads and writes                *)
(* (src/src/factorio_protocol.rs).  A packet is a sequence of fields: the  *)
(* byte of flags first, then one element for every byte, u32 or varint.    *)
(***************************************************************************)
EXTENDS Integers, Sequences

ServerToClientHeartbeat == 7
TransferBlockRequest == 12
TransferBlock == 13

HasSynchronizerActions == 16
MAP_READY_FOR_DOWNLOAD_ACTION_ID == 5
WorldMetadataFields == 5

\* FactorioPacketHeader::decode, which fails on an empty packet.  The flags for
\* fragments are the bits above the type, and nobody looks at them.
HasType(packet, type) == packet # <<>> /\ packet[1] % 32 = type

\* FactorioPacket::encode_full_packet.
EncodeFullPacket(type, body) == <<type>> \o body

\* A packet that TransferBlockRequestPacket::decode accepts.
IsBlockRequest(packet) == HasType(packet, TransferBlockRequest) /\ Len(packet) >= 2

RequestedBlock(packet) == packet[2]

\* TransferBlockPacket: encode, and what decode reads.
TransferBlockPacket(b, data) == EncodeFullPacket(TransferBlock, <<b>> \o data)

BlockId(packet) == packet[2]

BlockData(packet) == SubSeq(packet, 3, Len(packet))

\* try_decode_map_ready finds the metadata of a world: the only flag is that
\* there are actions, and the first action is the one.  The fields are the
\* header, the flags, a sequence number, the count of actions and an action.
IsMapReady(packet) ==
    /\ HasType(packet, ServerToClientHeartbeat)
    /\ Len(packet) >= 5 + WorldMetadataFields
    /\ packet[2] = HasSynchronizerActions
    /\ packet[4] > 0
    /\ packet[5] = MAP_READY_FOR_DOWNLOAD_ACTION_ID

=============================================================================
