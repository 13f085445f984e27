---------------------------- MODULE WorldRebuild ----------------------------
(***************************************************************************)
(* How a world is taken apart on the server and rebuilt on the client      *)
(* (src/src/dedup.rs).  deconstruct_world decodes every file of the        *)
(* archive and cuts it into chunks; WorldReconstructor encodes the files   *)
(* again, into an archive that is not compressed, and finalize_world_file  *)
(* pads it to the size that was announced, forges its CRC, and aligns it   *)
(* to blocks.                                                              *)
(*                                                                         *)
(* A chunk stands for its key, as blake3 has no collisions.  A zlib stream *)
(* is the level it was made with, followed by what it holds (external).    *)
(***************************************************************************)
EXTENDS Chunker, RevCrc, ZipWriter

CONSTANTS
    Worlds,       \* the worlds to try: sequences of files, name and data
    LevelFiles,   \* the names of the files that decode_factorio_file inflates
    InflateLimit, \* the most bytes it inflates
    Size,         \* sizes of the original archive: it may be compressed well
    Aux,          \* auxiliary data to try
    Crc,          \* CRCs of the original world to try
    U16,          \* 2^16
    U32,          \* 2^32
    TRANSFER_BLOCK_SIZE

IsZlib(f) == f.name \in LevelFiles

\* A saved game has files, and a level is a zlib stream.
ASSUME WorldsAssumption ==
    \A w \in Worlds :
        /\ w # <<>> /\ w \in Seq([name : Byte, data : Seq(Byte)])
        /\ \A i \in DOMAIN w : IsZlib(w[i]) => w[i].data # <<>>

\* A byte is a number; the number and the size of entries are one byte in the
\* records of ZipWriter.
ASSUME WidthAssumption ==
    /\ U16 \in Nat /\ U32 \in Nat /\ U16 <= U32 /\ 0 .. U32 - 1 \subseteq Byte
    /\ Byte \subseteq Nat
    /\ TRANSFER_BLOCK_SIZE \in Nat \ {0} /\ TRANSFER_BLOCK_SIZE <= U32
    /\ InflateLimit \in Nat

\* The server cut the aux data out of what it received, at an offset that is a
\* block or more and with an end that is a u32.
ASSUME AnnouncedAssumption ==
    /\ Size \subseteq Nat
    /\ \A aux \in Aux : aux \in Seq(Byte) /\ Len(aux) + TRANSFER_BLOCK_SIZE <= U32
    /\ Crc \subseteq Register

VARIABLES
    world,         \* the files of the original archive
    phase,
    file,          \* the file at hand
    data,          \* of Chunker: what is left of it
    rolling_hash,  \* of Chunker
    chunks,        \* the chunks of the file at hand
    files,         \* the descriptions of files, FactorioFileDescription
    zip,           \* of WorldReconstructor: its zip_writer
    crc_hasher,    \* of WorldReconstructor
    output,        \* the pieces for the Factorio client, one after the other
    announced      \* the original size, the aux data and the CRC

vars == <<world, phase, file, data, rolling_hash, chunks, files, zip, crc_hasher,
          output, announced>>

NothingAnnounced == [size |-> 0, aux |-> <<>>, crc |-> InitialCrc]

\* The values the state may take.
TypeOK ==
    /\ phase \in {"opening", "chunking", "rebuilding", "done", "no_zlib", "entry_too_large",
                  "too_large", "panicked"}
    /\ file \in 1 .. Len(world) + 1
    /\ data \in Seq(Byte) /\ output \in Seq(Byte)
    /\ rolling_hash.hash \in 0 .. HashRange - 1
    /\ rolling_hash.window_pos \in 0 .. WindowSize - 1
    /\ \A i \in DOMAIN chunks : chunks[i] \in Seq(Byte)
    /\ Len(files) <= Len(world)
    /\ zip.current_offset \in Nat /\ Len(zip.entries) <= Len(files)
    /\ crc_hasher \in Register

Init ==
    /\ world \in Worlds
    /\ phase = "opening"
    /\ file = 1
    /\ data = <<>>
    /\ rolling_hash = NewHash
    /\ chunks = <<>>
    /\ files = <<>>
    /\ zip = NewZip
    /\ crc_hasher = InitialCrc
    /\ output = <<>>
    /\ announced = NothingAnnounced

-----------------------------------------------------------------------------
RECONSTRUCT_DEFLATE_LEVEL == 1

\* miniz_oxide (external).
Inflated(bytes) == Tail(bytes)
Deflated(bytes, level) == <<level>> \o bytes

\* decode_factorio_file.
Decoded(f) == IF IsZlib(f) THEN Inflated(f.data) ELSE f.data

\* encode_factorio_file.
Encoded(file_type, bytes) ==
    IF file_type = "Zlib" THEN Deflated(bytes, RECONSTRUCT_DEFLATE_LEVEL) ELSE bytes

\* deconstruct_world decodes the next file.
OpenFile ==
    /\ phase = "opening"
    /\ file <= Len(world)
    /\ IF IsZlib(world[file]) /\ Len(Decoded(world[file])) > InflateLimit
       THEN phase' = "no_zlib" /\ UNCHANGED <<data, rolling_hash, chunks>>
       ELSE /\ phase' = "chunking"
            /\ data' = Decoded(world[file])
            /\ rolling_hash' = NewHash
            /\ chunks' = <<>>
    /\ UNCHANGED <<world, file, files, zip, crc_hasher, output, announced>>

\* chunk_file takes the next chunk.
TakeChunk ==
    LET next == NextChunk(rolling_hash, data)
    IN  /\ phase = "chunking"
        /\ data # <<>>
        /\ chunks' = Append(chunks, SubSeq(data, 1, next.size))
        /\ data' = SubSeq(data, next.size + 1, Len(data))
        /\ rolling_hash' = Reset(next.hash)
        /\ UNCHANGED <<world, phase, file, files, zip, crc_hasher, output, announced>>

\* ... and returns the description of the file.
DescribeFile ==
    /\ phase = "chunking"
    /\ data = <<>>
    /\ phase' = "opening"
    /\ files' = Append(files, [file_type |-> IF IsZlib(world[file]) THEN "Zlib" ELSE "Normal",
                               file_name |-> world[file].name,
                               content_chunks |-> chunks])
    /\ file' = file + 1
    /\ UNCHANGED <<world, data, rolling_hash, chunks, zip, crc_hasher, output, announced>>

\* The description goes to the client, which makes a WorldReconstructor.
BeginRebuild ==
    /\ phase = "opening"
    /\ file > Len(world)
    /\ phase' = "rebuilding"
    /\ file' = 1
    /\ zip' = NewZip
    /\ crc_hasher' = InitialCrc
    /\ UNCHANGED <<world, data, rolling_hash, chunks, files, output, announced>>

-----------------------------------------------------------------------------
\* reconstruct_world_file, once every chunk is there (see Session).  The writer
\* panics when the size of the file is no u32.
RebuildFile ==
    LET desc == files[file]
        file_data == Encoded(desc.file_type, FlattenSeq(desc.content_chunks))
        header == FileHeader(desc.file_name, file_data)
    IN  /\ phase = "rebuilding"
        /\ file <= Len(files)
        /\ \/ /\ Len(file_data) >= U32
              /\ phase' = "entry_too_large"
              /\ UNCHANGED <<file, zip, crc_hasher, output>>
           \/ /\ Len(file_data) < U32
              /\ zip' = WithFile(zip, desc.file_name, file_data)
              /\ crc_hasher' = CrcUpdate(CrcUpdate(crc_hasher, header), file_data)
              /\ output' = output \o header \o file_data
              /\ file' = file + 1
              /\ UNCHANGED phase
        /\ UNCHANGED <<world, data, rolling_hash, chunks, files, announced>>

Zeroed(n) == [i \in 1 .. n |-> 0]

\* Mutant: there is always a block more than whole blocks.
BlockCount_Extra(n) == ((n % U32) \div TRANSFER_BLOCK_SIZE) + 1

\* The number of blocks that hold n bytes, in u32 arithmetic.
BlockCount(n) == ((n + TRANSFER_BLOCK_SIZE - 1) % U32) \div TRANSFER_BLOCK_SIZE

\* Mutant: the sizes are compared the wrong way at the limit.
Fits_Strict(total, target) == total < target

Fits(total, target) == total <= target

\* Mutant: the directory is written where the padding ends.
DirectoryShift_NoForge(padding) == Len(padding)

\* How far the directory moves: the padding, and 4 bytes to forge the CRC.
DirectoryShift(padding) == Len(padding) + 4

\* The bytes of the blocks for n bytes.
Aligned(n) == BlockCount(n) * TRANSFER_BLOCK_SIZE

\* What finalize_world_file returns for an archive that is to have `target'
\* bytes: padding, forged bytes, directory, and the aux data, each aligned.
LastData(target, aux, crc) ==
    LET padding == Zeroed(target - zip.current_offset - CentralDirectorySize(zip) - 4)
        footer == CentralDirectory(Advanced(zip, DirectoryShift(padding)))
        before == CrcUpdate(crc_hasher, padding)
        after == RevUpdate(RevUpdate(XorOut(crc), aux), footer)
    IN  padding \o Forge(before, after) \o footer \o Zeroed(Aligned(target) - target)
        \o aux \o Zeroed(Aligned(Len(aux)) - Len(aux))

\* The size that transition_to_downloading_world announces to the Factorio
\* client, in u32 arithmetic.
Estimated(size) == (2 * size) % U32

\* The directory has its number of entries in a u16.  When the blocks are
\* counted as too few, resize is asked for a length below zero: as there are
\* files, LastData is shorter than what is missing.
CanEncode(target) == Len(zip.entries) < U16 /\ Aligned(target) >= target

\* finalize_world_file has to fill the announced size.
FinalizeWorld(size, aux, crc) ==
    LET target == Estimated(size)
        total == zip.current_offset + CentralDirectorySize(zip) + 4
    IN  /\ phase = "rebuilding"
        /\ file > Len(files)
        /\ announced' = [size |-> size, aux |-> aux, crc |-> crc]
        /\ \/ /\ ~Fits(total, target)
              /\ phase' = "too_large"
              /\ UNCHANGED output
           \/ /\ Fits(total, target)
              /\ ~CanEncode(target)
              /\ phase' = "panicked"
              /\ UNCHANGED output
           \/ /\ Fits(total, target)
              /\ CanEncode(target)
              /\ phase' = "done"
              /\ output' = output \o LastData(target, aux, crc)
        /\ UNCHANGED <<world, file, data, rolling_hash, chunks, files, zip, crc_hasher>>

Next ==
    \/ OpenFile \/ TakeChunk \/ DescribeFile
    \/ BeginRebuild \/ RebuildFile
    \/ \E size \in Size, aux \in Aux, crc \in Crc : FinalizeWorld(size, aux, crc)

Spec == Init /\ [][Next]_vars

-----------------------------------------------------------------------------
\* Where a chunk ends depends on the bytes of that chunk alone: the chunks so
\* far are those of the data seen as a whole, none larger than MaxChunk and only
\* the last one MinChunk or less, and what is left would be cut in the same way
\* if it stood alone.  That is why a change in a world leaves the
\* chunks after it as they were, and the cache finds them.
ChunksFollowContent ==
    phase = "chunking" => ChunksOf(Decoded(world[file])) = chunks \o ChunksOf(data)

\* What the Factorio client takes for the archive and for the aux data: it was
\* told their sizes, and it looks for the aux data in the block after the
\* archive's last one.
Archive == SubSeq(output, 1, Estimated(announced.size))

BlocksFor(n) == (n + TRANSFER_BLOCK_SIZE - 1) \div TRANSFER_BLOCK_SIZE

\* The rebuilt archive can be read through its directory and holds the files of
\* the original: the same bytes, or for a level the same bytes inflated.
ArchiveReadsBack ==
    phase = "done" =>
        LET read == ReadZip(Archive)
        IN  /\ Len(read) = Len(world)
            /\ \A i \in DOMAIN world :
                   /\ read[i].valid
                   /\ read[i].name = world[i].name
                   /\ Decoded(read[i]) = Decoded(world[i])

\* The bytes between the files and the directory give the archive and the aux
\* data together the CRC that the Factorio server announced.
CrcAsAnnounced ==
    phase = "done" =>
        XorOut(CrcUpdate(InitialCrc, Archive \o announced.aux)) = announced.crc

\* The client half ends up with as many blocks as the Factorio client asks for,
\* and the aux data begins where it looks for it.
BlocksAsAnnounced ==
    phase = "done" =>
        LET blocks == BlocksFor(Estimated(announced.size))
        IN  /\ Len(output) = (blocks + BlocksFor(Len(announced.aux))) * TRANSFER_BLOCK_SIZE
            /\ SubSeq(output, blocks * TRANSFER_BLOCK_SIZE + 1,
                      blocks * TRANSFER_BLOCK_SIZE + Len(announced.aux)) = announced.aux

\* A world whose rebuilt archive takes no more than twice its size is served,
\* to the byte, as long as that size and a block more is below 2^32 and its
\* files are less than 2^16.
FitsIsServed ==
    phase \in {"too_large", "panicked"} =>
        \/ zip.current_offset + CentralDirectorySize(zip) + 4 > 2 * announced.size
        \/ 2 * announced.size + TRANSFER_BLOCK_SIZE - 1 >= U32
        \/ Len(world) >= U16

=============================================================================
