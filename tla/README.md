# A TLA+ model of Factorio Multiplayer Cacher

Factorio Multiplayer Cacher puts two processes between a Factorio client and a
Factorio server. The *cacher server* downloads the world from the Factorio
server, unpacks it and cuts it into content-defined chunks; the *cacher client*
fetches the chunks it has not got yet, rebuilds an equivalent ZIP, and serves it
to the Factorio client. All other packets pass through. These modules model
both processes, from the routing of packets to the bytes of the rebuilt world.
Paths are relative to the directory that holds `src/`; the Rust sources are under
`src/src/`.

## 1. Inventory

| Component | Source | State | Operations | What makes it correct |
|---|---|---|---|---|
| Raw chunk cache | `chunk_cache.rs` 257-288 | map in insertion order, running total | `insert` with eviction, `get` | the total is the sum, the loop ends, the oldest go first |
| Shared chunk cache | `chunk_cache.rs` 16-255 | raw cache, `pending_chunks`, `needs_saving`, mutex | `get_chunks_batched`, `fulfill`, `mark_dirty` | one fetch per chunk, no circular wait, nothing lost, every wait ends |
| World transfer of the client | `proxy/client_proxy.rs` 252-362 | `all_chunks`, `local_cache`, current file, batch | receive world, rebuild file, ask, fetch, finish | never out of chunks to ask for; ends |
| Cache file | `chunk_cache.rs` 34-107, 291-356, `main.rs` | file, temporary file, flag | periodic save, load, exit | the file is always whole; completed transfers get saved |
| Server peer: download | `proxy/server_proxy.rs` 130-345 | phase, queue, window, received blocks, timers, filter | packet from the server, by phase | each block once, window bounded and full, whole world in order, ends |
| Server peer: serving chunks | `proxy/server_proxy.rs` 347-428 | chunk table | answer chunk requests | every requested chunk is there |
| Client peer | `proxy/client_proxy.rs` 99-250 | `world_data`, pending requests, timer, channel | block request, other packet, piece, end | right bytes, no request lost, every request answered |
| Peer routing | `proxy/client_proxy.rs` 25-84, `proxy/server_proxy.rs` 22-80 | queues by address and by id | new peer, forward, drop | a packet reaches its own peer or is dropped |
| World layout | `dedup.rs`, `zip_writer.rs` | offsets, sizes | deconstruct, rebuild file, finalize | size and CRC announced = size and CRC produced |
| Chunker | `chunker.rs` | rolling hash | next chunk | chunks concatenate to the input, bounded sizes |
| Reverse CRC | `rev_crc.rs` | none | forge four bytes | CRC of the result is the target |
| Factorio protocol | `factorio_protocol.rs` | none | decode, encode | decode after encode; what is recognised |
| Cacher protocol | `protocol.rs` | read buffer | framed messages, datagrams | framing never loses sync |
| Start-up | `main.rs`, `quic.rs`, `utils.rs` | none | arguments, QUIC, logging | configuration only |

**How they interact.** A peer is one Factorio client address. The cacher client
spawns for it a proxy task (`proxy_client`) and a transfer task; the two share a
bounded channel of world pieces. All transfer tasks of the process share one
`ChunkCache` behind a mutex, and the save task reads the same cache. The cacher
server spawns one proxy task per peer, and a transfer task once the world is
complete. The two transfer tasks of a peer talk over one QUIC stream; game
packets travel as QUIC datagrams, and between the cacher server and the Factorio
server as UDP.

**What is hard.** Several transfers claim, wait for and evict the same chunks
(interleaving, deadlock, lost claims); a task looks at the cache again after an
await (stale state); a failing fetch leaves claims behind (partial failure); a
panic under the mutex poisons it for everybody; the file is replaced while the
cache changes and the process may be killed (crash recovery); blocks are lost,
repeated and reordered, and repetition is driven by other packets and a timer;
the Factorio client asks for blocks before they exist and after they are gone;
the two halves of a peer end independently, streams and datagrams overtake each
other, and late datagrams meet a new peer of the same address; the size and the
CRC of an archive are announced before it is built (numeric edges).
`PROJECT.json` lists each of these under `hazards`, at the line where it bites.

## 2. Modules

| Module | Models | Role |
|---|---|---|
| `CacheOrder` | order and eviction of `RawChunkCache`, in closed form | operators shared by the three cache modules |
| `RawChunkCache` | `insert` at the grain of its loop | shows that the loop computes `CacheOrder!InsertAll` |
| `ChunkCache` | `ChunkCache`, `BatchChunkRequest` and the transfer tasks that use them | the core |
| `CacheFile` | the save task, loading, exit and restart | crash recovery |
| `WorldDownload` | – | abstract: what the cacher server promises about a download |
| `ServerProxy` | `proxy_server`, `ServerProxyState` | implements `WorldDownload` over a faulty network |
| `FactorioProtocol` | packet headers, block packets, `MapReadyForDownload` | operators of `ClientProxy` and `Session` |
| `ClientProxy` | `proxy_client`, `ClientProxyState`, channel | serving the rebuilt world |
| `Session` | both halves of a peer and both `transfer_world_data` | composition, extends `ClientProxy` |
| `PeerRouting` | `run_client_proxy`, `run_server_proxy`, start and end of the halves | many peers over one connection |
| `Chunker` | `RabinKarpHash`, `Chunker` | pure algorithm with a reference |
| `RevCrc` | `RevCRC`, `RevDigest`, `forge_crc` | pure algorithm |
| `ZipWriter` | `ZipWriter` | pure algorithm with a reader as reference |
| `WorldRebuild` | `deconstruct_world`, `WorldReconstructor` | composition of the three above |
| `CacheOrderProofs` | – | induction over sequences, and lemmas about `CacheOrder` that the three cache proofs share |
| `RawChunkCacheProofs`, `ChunkCacheProofs`, `CacheFileProofs`, `ServerProxyProofs`, `SessionProofs`, `PeerRoutingProofs`, `WorldRebuildProofs` | – | theorems about the module they extend |
| `MC*` | – | instances for TLC |

Definitions named `X_Something` next to a definition `X` are mutated forms of it
(a dropped guard, an off-by-one, a missing reset). Each is a bug that one of the
properties has to notice; `PROJECT.json` says which.

### 2.1 ChunkCache

A step is a section of code between two points where another task can act: a
section under the mutex, or an await. `ClaimBatch`, `AwaitOthers` and
`TakeCached` are the three outcomes of the first critical section of
`get_chunks_batched`; `TakeAwaited` and `MissAwaited` the two of its second;
`Fulfill` is the critical section of `fulfill`, and `CloseEvent` the
`event.close()` after it. A step `...Poisoned` is a `lock().unwrap()` that
panics. `FetchFails` is every early return, or failed assertion, between the
claim and `fulfill`.

The vector `all_chunks` is the set of positions that are left in it, so that a
key which occurs twice in a world keeps both occurrences: of two positions with
one key only the first goes into a batch, and the other is found in the cache by
a later call. A semaphore is named by the task that created it. Chunk contents
are their keys, because a key is the hash of the content and every chunk is
checked against it before it is used.

### 2.2 RawChunkCache and CacheOrder

`InsertAll(s, new, max)` is the order after a list of inserts under the limit `max`: old entries of the new
keys go, the new ones are appended, and the longest suffix that fits is kept.
`Bytes` sums the sizes of a list and `Kept` selects from one; both are recursive
functions on sequences, so that the proofs can reason about them.
`RawChunkCache` runs `insert` with its `while` loop and its running total, and
`LoopsMeetInsertAll` says both agree.

### 2.3 CacheFile

The content of a file is its list of entries, `Torn` while it is incomplete, or
`Damaged` when it can no longer be read through.
`StartSave` is the critical section of `try_save` with `File::create`,
`FinishWriting` and `Rename` are the rest, `SaveFails` its error return. `Exit`
may come between any two of them, and files outlive it. `Poison` is the panic of
a transfer that holds the mutex (`MissAwaited` of `ChunkCache`), after which the
save task ends at its next lock (`SavePanics`).

Each process has a `--cache-limit` of its own (`max_size`, one of `Limits`):
`Start` loads the file under it, and `Loaded` evicts what does not fit any more, as
`read_chunk_cache` does by calling `insert`. `Rot` changes the bytes of an entry
on disk, whose hash is then wrong and which `Loaded` skips; `Damage` breaks the
compressed stream or a length, after which every start fails (`StartFails`) until
somebody removes the file. The byte format itself (zstd, lengths) is left out.

`finished`, `lost` and `written_under` are history variables: the chunks that have
been in the cache since some transfer was completed, which are those the save
task owes to the file; whether the last save failed; and the limit of the process
that wrote the file. Nothing in the code syncs the file, so all this is about the
end of the process, not of the machine.

### 2.4 ServerProxy

`on_packet_from_server` is one action per phase and kind of packet:
`StartDownload` (the heartbeat with `MapReadyForDownload`), `TakeBlock`,
`DropBlock`, `PassPacket`, `PassBlock`. `RequestNext` is `request_next_blocks`
and a part of every action that calls it. The network is a set of requests and a
set of blocks: `Serve` and `Deliver` may leave what they take in place
(repetition), take it in any order, and `Lose` removes. Timers are flags that a
step sets when their limit passes. `to_client` is what the last step sent to the
cacher client, and `told` is a history variable: whether a replaced announcement
was sent in the last 30 s. `OriginalStaysHidden` relates the two: within that
time the original announcement does not pass, whatever comes between. After 30 s
without an announcement, and one more packet, the code drops the filter, and an
original announcement would pass; nothing in the repository says otherwise.
`BlockCount` is u32 arithmetic.

### 2.5 ClientProxy

A byte of the world is named by its place, so that data at a wrong place is
visible. `Pieces` says where the pieces sent by the transfer task end;
`SendPiece` waits for room in the channel, `TakePiece` and `TakeEnd` are
`on_new_world_data`, `RequestBlock` and `PassPacket` are
`on_packet_from_client`. `unanswered` and `answers` are history variables, kept
from the Factorio client's point of view: what it asked for and was not sent,
and the packets it was sent. A request may be for any block, also for one beyond
the world, which stays pending. The module has no run of its own; `Session` extends
it.

### 2.6 FactorioProtocol

A packet is a sequence of fields: the byte of flags, then one element for each
byte, u32 or varint. `HasType` keeps the lower five bits of the flags, as
`FactorioPacketHeader::decode` does; `IsMapReady` is `try_decode_map_ready`, with
its comparison of *all* heartbeat flags and its look at the first action only.

### 2.7 Session

`Session` adds to `ClientProxy` the server half, reduced to its phase (the
download itself is `ServerProxy`), and the two tasks at the ends of the stream.
`Needs` says how many batches each piece of the world takes; a batch is found in
the cache (`UseCached`), asked for (`RequestChunks`, `ReadRequest`,
`SendChunks`, `ReadChunks`), or awaited because other transfers fetch it
(`WaitForOthers`, until `OthersFulfill`). What those other transfers do is
`ChunkCache`; here they may do nothing for ever. `told` is the world the Factorio client was told of: `replaced`, or
`original` when `try_decode_map_ready` did not recognise the announcement. The
stream ends with the task, or the half, that holds it.

The server passes the announcement on when its own download begins. The README
of the repository (`src/README.md:87`) puts it after the reconstruction; the code
relies on the client half to keep the requests that come early, and
`WorldComplete`, `RequestsKept` and `RequestAnswered` show that this works.

### 2.8 PeerRouting

A peer is made by `NewPeer` and numbered by a history (`peers`), so that the
packets of two peers differ whatever their ids. `Forward` and `ClientDatagram`
are the two arms of the client's select, `ServerDatagram` and `AcceptStream` with
`StartPeer` those of the server's. `accepting` is the peer whose id the server
awaits within the arm: no datagram is read meanwhile. Streams are accepted in
the order of their ids in QUIC, which is the order of `open_bi`; datagrams come
in any order or not at all. What the Factorio server sends to a socket is marked
with the peer of the socket, what a client sends with its address. `ClientHalf*`
and `ServerHalf*` are the loops of `proxy_client` and `proxy_server`, without
what they do with a packet. `StartTransfer` is the task that `finalize_world`
spawns. It owns the stream of its peer and outlives its half; quinn keeps a
connection open as long as a handle or a stream of it is left, so `DropConnection`
waits for the halves and for the transfers (`Held`). On the client everything is
gone with the process.

### 2.9 Chunker, RevCrc, ZipWriter and WorldRebuild

`WorldRebuild` takes a world through `deconstruct_world` (`OpenFile`,
`TakeChunk`, `DescribeFile`), `reconstruct_world_file` (`RebuildFile`) and
`finalize_world_file` (`FinalizeWorld`), byte by byte. The records of the archive
are cut down to the fields that say where things are, one byte each. `Chunker` is
compared with `ChunksOf`, which has no rolling state: a chunk ends where `FirstEnd`
says, from a sum over the last bytes (`WindowHash`). The archive is read back
with `ReadZip`, which starts at the end as a ZIP reader does; the CRC is computed
forward over the whole. The size is doubled, and blocks are counted, modulo
`U32`: a size that wraps ends in `too_large` or `panicked`, if the archive does not
fit into the rest. (In a debug build the multiplication itself panics.) A file of
`U32` bytes (`entry_too_large`) and `U16` files (`panicked`) are what the writer's
`expect`s refuse. `RevCrc` has a register of four bytes over an
abstract set of bytes with an exclusive or (`XorTable`, given as a table), and any
table whose highest bytes differ.

## 3. Runs

| Run | Shows | Instance |
|---|---|---|
| `raw_cache` | the loops keep the total exact, so never pop an empty map, and meet `InsertAll` | 4 keys of sizes 1, 1, 2, 5, limit 3, every list of up to 3 keys |
| `cache_faults` | single flight, no double insert, no starvation, no circular wait, with failures, evictions and poisoning | 3 tasks, 3 worlds, 3 keys, batches of 2, limit 3 of 4 bytes |
| `cache_live` | without failure or eviction every transfer, and every wait in it, ends | 3 tasks, 2 worlds, limit 4 |
| `cache_lost_fetch` | **violated**: a waiter of a failed fetch waits for ever | 2 tasks, 1 world |
| `cache_evicted_wait` | **violated**: an awaited chunk can be evicted before the waiter looks | 2 tasks, 1 world, limit 2 |
| `file_saves` | the file is never torn, a start restores its order, a lower limit costs the oldest entries only, no completed transfer is forgotten, and all get saved unless a save fails or the mutex is poisoned | 3 keys of sizes 1, 1, 2, each process with limit 2 or 3, failing writes, rotten entries, damaged files, poisoned mutex, fair |
| `file_failed_save` | **violated**: after a failed save the cache counts as saved | the same, unfair |
| `server_download` | blocks accounted, window bounded and full, the original announcement stays hidden, refinement of `WorldDownload`, every download ends | 3 blocks, window 2, fair |
| `server_late_block` | **violated**: a late block reaches the Factorio client | 3 blocks |
| `session` | blocks have the right bytes, no request is lost, the two tasks never wait for each other; provided that waits for other transfers end, the world arrives, requests are answered, and nothing outlives the peer | 3 blocks of 2 bytes in 5 pieces and 3 batches, channel of 2, a request beyond the world, four kinds of announcement, every failure, fair |
| `peer_routing` | live halves are reachable, no packet reaches another player, announced peers start, clients reconnect; when one side ends so does the other, unless a transfer never ends | 2 addresses, 2 peers, queues of 1, 1 datagram each way, every failure, fair |
| `world_rebuild` | chunks depend on content only; the archive reads back, has the announced CRC and blocks, and is refused only if it does not fit | 350 worlds with every file of up to 7 bytes over two values, window 2, chunks of 2 to 5 bytes, a CRC of 24 bits, sizes of 6 bits, a file of 2^6 bytes, as many files as `U16` |

`ServerProxy!TypeOK` is not checked by a run but proved, as a part of the
inductive invariant (section 4). The inductive invariants were checked by TLC on
these instances before they were proved.

**Why the bounds are enough.** Three tasks allow one that fetches, one that
waits and one that evicts in between, and a chain of waits. Worlds of four
positions with a batch size of two need two batches; they repeat a key within a
file and across files, overlap in opposite orders, and have an empty file. One
chunk is larger than the others so that an insert evicts more than one. Three
blocks are more than the window, so it is refilled, and the last block of the
world is not full. Pieces end inside a block, at its end, skip a block, and
one is empty; the channel is smaller than their number, and two pieces need
another batch. Two addresses and two ids let two clients connect at once, or one
connect, go idle and come back while datagrams of its first peer are under way,
and let ids run out; queues and datagrams reach their limits. With two
datagrams each way (295,677 states) the same properties hold, and with three ids
(7,490,923 states) the same invariants. Two cache limits, neither of which holds
all chunks, let a file be loaded under a lower, the same and a higher limit. The files of
`world_rebuild` are longer than the largest chunk and than the window behind the
smallest, so that every reason to end a chunk occurs; the sizes give a world that
does not fit, one that fits to the byte, sizes that are and are not a multiple of
a block, one within a block of the limit of the u32, and two over it, of which
one wraps to a size that fits. `BatchSize`, `Limit`,
`Capacity`, `MaxSize` and `Limits`, `BlockSize` and `QueueSize` stand for 512, 16, 32,
`--cache-limit`, 503 and 512; `MaxInFlight` is a bound of the model. Proofs cover all values where they exist.

**Deadlock checking** is off where the system may stop: transfers end, and
peers go away.

### Findings

1. *Lost fetch* (`cache_lost_fetch`). A dropped `BatchChunkRequest` releases
   neither its claims nor its semaphore. Another transfer that waits for one of
   its chunks waits for ever, as does every later one that wants them.
2. *Evicted while waiting* (`cache_evicted_wait`). Between the close of the
   semaphore and the waiter's lock another batch may evict the chunk; the
   `expect` panics with the mutex held, which poisons it for every transfer and
   for the save task. It takes a cache limit that does not hold two batches.
3. *Failed save* (`file_failed_save`). `needs_saving` is cleared before the
   write and not set again when it fails.
4. *Late block* (`server_late_block`). After the download a repeated
   `TransferBlock` of the original world is passed to the Factorio client, which
   is by then downloading another ZIP under the same block ids.

### Fairness

- `ChunkCache!FairSpec`: weak fairness of each task's steps. The executor polls a
  task that is ready, and a chunk request is answered or the stream breaks. That
  a server sends a world is not assumed.
- `CacheFile!FairSpec`: the save task is a loop around a sleep, and disk
  operations return.
- `ServerProxy!FairSpec`: time passes; the Factorio server sends heartbeats to a
  joining peer (the only event that repeats requests); strong fairness of
  `Serve` and `Deliver`, because a lossy network that loses every repetition of
  a request for ever lets nobody download anything.
- `Session!SessionSpec`: the two transfer tasks and the proxy's use of the channel
  go on while they can, and a download ends, or the server half gives it up
  (`DownloadEnds` of `server_download`). Nothing is assumed of the Factorio
  client, of timeouts, of failures and of the transfers of other peers. That a
  wait for those ends is a premise (`WaitsEnd`) of `WorldComplete`,
  `RequestAnswered` and `TransfersEnd`: `TransferEnds` of `cache_live` shows it
  where no fetch fails, and finding 1 refutes it where one does. Without the
  premise all three are false: the client's task waits for ever, and the open
  stream keeps the server's.
- `PeerRouting!FairSpec`: routing loops and halves go on while they can, streams
  are delivered while the connection stands, and a Factorio client without a peer
  keeps sending. A transfer ends once the connection is gone, because it reads
  and writes on it; while the connection stands nothing is assumed of it, nor of
  datagrams, timeouts and failures. So `HalvesEnd` has two parts: when the client
  is gone the server's side ends; when the routing loop of the server is gone
  the client's side ends if no transfer runs for ever. One that does keeps the
  connection open, and the client goes on with a connection that nobody serves.

## 4. Proofs

All theorems hold for every value of the constants under the named `ASSUME`s,
which every run evaluates: batch size, window, block size and chunk sizes are
positive, `NoTask` is no task, a world's chunks are a sequence of keys of its
files, the world is not empty, a list of inserts repeats no key (a batch and a
file do not), pieces of a world follow each other and end with it, and limits of
the cache are natural numbers.

**Order of the cache** (`CacheOrderProofs`). What `Bytes`, `Kept` and `Fit`
compute is proved by induction over sequences. The library's induction theorems
take a predicate as parameter, which the provers cannot instantiate, so the
module proves induction for *sets*: a set of sequences that has the empty one and
with a tail the whole has all of them (`SequenceInduction`, from the least
length that is missing), and that recursion over the tail defines a function
(`SequenceRecursion`). On these rest the lemmas that the cache proofs share: sums and
selections of a concatenation (`BytesConcat`, `KeptConcat`); an order within the
limit is left alone (`FitWithin`); evicting the oldest entry of an order over the
limit does not change what is left in the end (`FitDrops`); an insert after
`InsertAll` of a list is `InsertAll` of the longer list (`InsertOneMore`).

**RawChunkCache** (`RawChunkCacheProofs`). The invariant is `TypeOK`,
`TotalExact` and `LoopInv`: some first part of the list is inserted and the rest
is to come; between two inserts the order is `InsertAll` of that part, and inside
the `while` loop it is that once the loop is through (`Fit(chunks, MaxSize)`).

| Theorem | Statement |
|---|---|
| `RawCacheTypes` | `Spec => []TypeOK` |
| `CountIsExact` | `total_size` is the sum of the sizes in the map, at every step of the loop |
| `PopFindsEntry` | `pop_front().unwrap()` never meets an empty map |
| `LoopsComputeInsertAll` | the loops end in `InsertAll`, which the other cache modules use |

**ChunkCache** (`ChunkCacheProofs`). `IInv` is `TypeOK` and seven facts. A task
that fetches owns the claims on its whole batch (`ClaimsHeld`); a claim is on a
key in the batch of a task that fetches, or gave up while it did (`ClaimOwner`);
no key is both cached and claimed (`CachedOrClaimed`); a batch repeats no key
(`DistinctBatch`); every position of a running task's world is still requested,
in its batch, awaited or in `local_cache` (`Accounted`); batches and awaited keys
exist only in their phases (`Phases`); an open semaphore belongs to a task that
fetches, closes or gave up (`OpenOwner`). None of the properties is inductive
alone: single flight needs to know that claims are kept for as long as the fetch
lasts, and no double insert that nothing else inserts a claimed key.

| Theorem | Statement |
|---|---|
| `TypeCorrect` | `Spec => []TypeOK` |
| `SingleFlightHolds` | two tasks never fetch one chunk |
| `NoDoubleInsertHolds` | a chunk that is fetched is not cached |
| `NeverStarvedHolds` | the "Emptied chunk list" panic is unreachable |
| `NoWaitCycleHolds` | a task that waits is waited for by nobody |
| `NoneMeansNothingLeftHolds` | after a wait nothing is left to ask for |
| `NoMissHolds` | `RoomForAll => (Spec => []NoMiss)`: if the limit has room for every chunk, the `expect` after a wait holds |

`NoneMeansNothingLeftHolds` needs that every unclaimed key has a first position
and that the first of those fits into a batch (`NothingUnclaimed`, from `Least`).
`NoMissHolds` adds `WaitServed` to the invariant: an awaited chunk is cached, or
claimed by a task whose semaphore the waiter still holds. Its hypothesis is what
finding 2 shows to be needed: without it an awaited chunk may be evicted. It needs no hypothesis about
failures: the waiter of a failed fetch waits for ever (finding 1), but panics
never.

**CacheFile** (`CacheFileProofs`). The invariant has two parts besides `TypeOK`
and `CleanMeansSaved`. `ContentInv`: the cache and the copy repeat no key and are
within the limit of the process, and the file, unless it is absent or broke on
disk, is complete and within the limit of the process that wrote it. `SaveInv`: what is about to be renamed is the copy, and
unless the cache is dirty again the copy has all that was finished. A load under
the same or a higher limit evicts nothing, because what it reads was within the
limit under which it was saved; what a lower one evicts are the oldest entries,
and no more of them than needed (`EvictsOldest`).

| Theorem | Statement |
|---|---|
| `CacheFileTypes` | `Spec => []TypeOK` |
| `NeverTorn` | the file is absent or complete, wherever the process ends |
| `CleanCacheIsSaved` | clean, not saving and no failed save: everything finished is in the file |
| `LoadRestoresOrder` | a start restores the order without the rotten entries, less the oldest ones if the limit was lowered (an action property) |

**ServerProxy** (`ServerProxyProofs`). `IInv` is `TypeOK`, `Phases`,
`BlocksAccounted`, `WindowBounded` and `WindowFull`. `WantedFacts` shows that
`request_next_blocks` never overfills the window and fills it unless the queue
runs empty; `SortedIsWhole` that sorting all blocks, each once, gives `0, 1, 2,
...`, whatever order they came in.

| Theorem | Statement |
|---|---|
| `BlocksAccountedHolds` | no block is lost or taken twice |
| `WindowHolds` | the window is bounded, and full while blocks are queued |
| `DownloadRefines` | `Spec => WorldDownload!DSpec` under the mapping of `Download` |
| `OriginalHidden` | within 30 s of a replaced announcement the original one does not pass |

**Session and ClientProxy** (`SessionProofs`). Each step of a session is a step of
`ClientProxy` or leaves its variables alone, so the session implements it
(`SessionImplementsClient`) and inherits its invariants. `ClientInv` is `TypeOK`,
the two properties, and `DataInv`: `world_data` are the bytes up to the end of
the last piece that was taken, or nothing once all were taken and the client has
the last block. `TurnInv` says where the one message of the stream is, by what the two
tasks are doing.

| Theorem | Statement |
|---|---|
| `SessionImplementsClient` | `SessionSpec => Spec` |
| `SessionTypes` | `SessionSpec => []SessionTypeOK` |
| `AnswersAreRight` | a block sent to the Factorio client has the bytes of that block |
| `RequestsAreKept` | a request is answered or kept while it cannot be |
| `TasksTakeTurns` | the two transfer tasks never wait for each other |

**PeerRouting** (`PeerRoutingProofs`). Whether a datagram reaches the right player
depends on what is on its way and in the tables. `Inv` adds that ids are given
out once and in order (`IdsInv`); that a peer not made yet left no trace
(`UnmadeInv`); that tables, streams and datagrams name peers that exist, under
their own id and address (`TablesInv`, `StreamsInv`, `NetInv`); that queues hold
packets of their peer (`QueuesInv`); and reachability also after a router ended
(`ReachInv`).

| Theorem | Statement |
|---|---|
| `RoutingTypes` | `Spec => []TypeOK`, with the bound on every queue |
| `HalvesReachable` | the tables lead to every half that runs |
| `PlayersKeptApart` | no packet reaches another player |

**WorldRebuild** (`WorldRebuildProofs`). The operators of `Chunker`, `RevCrc` and
`ZipWriter` are recursive functions over the bytes of a world. What they compute is
proved by induction for sets of numbers (`UpTo`, from the least number that is
missing) and recursion over numbers (`NumberRecursion`):

- `ForgeCorrect`: from any register `before`, the four bytes that `forge_crc`
  computes lead the CRC to any register `after`, for every table whose highest
  bytes differ. `StepUndone` shows that a step of the CRC undoes a step back with
  the same byte; the four steps back are made with the bytes of `before` and end
  in a register whose bytes are the answer; `RegisterAndBytes` shows that the CRC
  of four bytes `q` from a register `p` is that of the bytes `p` from the register
  `q`, so the two may change places.
- `CrcConcat`, `RevUndone`, `CrcForged`: the CRC may be computed piece by piece,
  `RevUpdate` goes back over any bytes, and so padding, forged bytes, directory
  and aux data lead from any CRC to the announced one.
- `FlattenAppend`, `FlattenTriples`, `DirectoryFacts`: chunks are put together in
  order, and the fields of the directory are where a reader looks for them.
- `BlocksEnough`, `BlocksTooFew`: blocks counted in u32 arithmetic hold the bytes
  exactly when the sum did not wrap around.
- `RollsOn`: `update` keeps `Rolled`. After n bytes the circular window holds the
  last `WindowSize` of them, each at its number modulo `WindowSize`, and zeros where
  no byte has been; the hash is `WindowHash` of these bytes. A byte more multiplies
  the sum once more (`SumStep`), and what `WINDOW_MULT` takes out is the term of the
  oldest byte (`HashMoves`); remainders may be taken at every step (`ModStep`).
- `NextIsFirst`, `ChunksStep`: so `Chunker::next` ends a chunk at `FirstEnd`, and the
  chunks of the data are the first one and those of the rest as if it stood alone.

`IInv` is the properties themselves and four facts. `Progress`: what exists in
which phase. `Cut`: the chunks so far and what is left are the decoded file.
`Described`: the chunks of each description put together are the decoded file.
`Written`: the offset of the writer is the length of the output, the hasher has
the CRC of the output, and each entry says where header and data of its file are
(`InPlace`). The properties speak of the end only; these facts carry what they
need there from the first file on. `LastDataFacts` shows what `finalize_world_file` makes
of them, and `ReadsBack` what a reader finds. `CInv` adds what is known of the
chunks: `ChunksFollowContent`, `FilesFollowContent` (a description lists the chunks
of the content) and `ChunkSizes`. It is inductive given `IInv`, which knows that the
hash is reset after every chunk.

The assumptions are those of the types in the code: bytes are numbers, and hold
those below `U32`, since a field is one byte here; a level is not an empty stream; aux data and a
block are at most `U32` bytes, since the server cut the aux data out of what it
received, behind the first block.

| Theorem | Statement |
|---|---|
| `ForgeCorrect` | four forged bytes lead to the wanted register |
| `TypeCorrect` | `Spec => []TypeOK`: all that is written is bytes, the fields of the directory included |
| `ReadsBackHolds` | a reader of the rebuilt archive finds the files of the original |
| `CrcHolds` | archive and aux data have the announced CRC (`assert_eq!` at `dedup.rs:167`) |
| `BlocksHold` | the blocks are as many as announced, with the aux data where it is looked for |
| `ServedHolds` | a world that fits is served |
| `ChunksHold` | `Spec => []ChunksFollowContent`: where a chunk ends depends on its bytes alone |
| `FilesHold` | a description lists the chunks of the content of its file, in any world |
| `ChunkSizesHold` | chunks have 1 to `MaxChunk` bytes, all but the last of a file more than `MinChunk` |

**Only model-checked.** Every liveness property (`TransferEnds`, `DownloadEnds`,
`FinishedIsSaved`, `WorldComplete`, `RequestAnswered`, `TransfersEnd`, `PeerStarts`,
`Reconnects`, `HalvesEnd`): the prover has no
fairness reasoning. Every other property of a passing run is a theorem.

## 5. Not modelled

- Libraries: QUIC and its certificates, zstd, MessagePack, deflate, blake3 and
  the reading of ZIP archives. They appear as what the code relies on: streams
  are reliable and ordered, datagrams are not, a chunk is its hash.
- The length prefix of messages (`protocol.rs` 69-91) and the varint of
  `utils.rs`: they are read and written within one call and leave no state. A
  message over the limit is a panic, a failure of the task in `Session`.
- Of the ZIP records the CRC of an entry and the fields with fixed values.
- The accept loop of `run_server` (`main.rs` 193-211). It has no state, but one
  handshake that fails ends it and all peers of all clients; from the view of
  one connection that is `LoseConnection`.
- Argument parsing, address lookup and logging: configuration.
- Messages of Factorio that are split into several packets: the code does not
  look at the flags that say so.
