----------------------------- MODULE ChunkCache -----------------------------
(***************************************************************************)
(* The chunk cache that the transfer tasks of a cacher client share        *)
(* (ChunkCache, src/src/chunk_cache.rs), with the part of                  *)
(* transfer_world_data (src/src/proxy/client_proxy.rs) that drives it.     *)
(* There is one task per peer: it learns the chunk list of its world,      *)
(* rebuilds the files in order and, when a file lacks chunks, calls        *)
(* get_chunks_batched, which takes what is cached, claims a batch of       *)
(* chunks nobody is fetching, or waits for the tasks that fetch the rest.  *)
(*                                                                         *)
(* Every section under the mutex of the cache is one step.  A panic under  *)
(* the mutex poisons it, and every later lock().unwrap() panics.           *)
(*                                                                         *)
(* The Vec all_chunks is the set of its positions that were not removed    *)
(* yet; a position is an index into the chunk list of the world.  A batch  *)
(* is a set of positions too: the Vec lists it in ascending order.         *)
(*                                                                         *)
(* A batch owns one semaphore, created without permits and closed by       *)
(* fulfill.  A task has one batch at most, so a semaphore is named by the  *)
(* task that created it, and a waiter by the semaphores still open.        *)
(***************************************************************************)
EXTENDS CacheOrder

CONSTANTS
    Task,       \* the transfers of this process, one per peer
    NoTask,     \* the owner of a key that is not in pending_chunks
    World,      \* world descriptions a server may send
    MaxSize,    \* max_size, the --cache-limit option
    BatchSize,  \* 512 in the code
    MayFail     \* whether a fetch, a send or the final rebuild may fail

ASSUME TaskAssumption == NoTask \notin Task

ASSUME MaxSizeAssumption == MaxSize \in Nat

ASSUME BatchAssumption == BatchSize \in Nat \ {0}

\* A world has a number of files (a file may have no chunk) and the list of
\* all chunks, file after file.
ASSUME WorldAssumption ==
    \A w \in World :
        /\ w.files \in Nat
        /\ w.chunks \in Seq([file : 1 .. w.files, key : Key])

ASSUME FailAssumption == MayFail \in BOOLEAN

VARIABLES
    chunks,        \* the order of the raw cache, oldest key first
    pending,       \* pending_chunks: the task whose batch holds a key
    needs_saving,  \* set by mark_dirty
    poisoned,      \* whether a panic poisoned the mutex
    pc,            \* where each task stands
    world,         \* the world description each task received
    file,          \* the file each task rebuilds next
    requested,     \* all_chunks: positions still to be asked for
    local,         \* local_cache: keys whose chunk the task has
    batch,         \* positions in the batch the task is fetching
    awaited,       \* keys the task waits for
    open           \* semaphores of other tasks it still waits for

vars == <<chunks, pending, needs_saving, poisoned, pc, world, file, requested,
          local, batch, awaited, open>>

shared == <<chunks, pending, needs_saving, poisoned>>

Running == {"connecting", "rebuilding", "fetching", "closing", "waiting"}

\* missed:  "waited on chunk, but chunk was not put in cache";
\* panicked: the mutex was poisoned.
Stopped == {"done", "failed", "missed", "panicked"}

NoWorld == [files |-> 0, chunks |-> <<>>]

Position(t) == DOMAIN world[t].chunks

KeyAt(t, p) == world[t].chunks[p].key

KeysAt(t, P) == {KeyAt(t, p) : p \in P}

\* The keys reconstruct_world_file looks up for file f.
FileKeys(t, f) == KeysAt(t, {p \in Position(t) : world[t].chunks[p].file = f})

Cached == Range(chunks)

\* The values the state may take: a key has one place in the order of the cache,
\* and a batch and what is left of all_chunks are positions of the world.
TypeOK ==
    /\ chunks \in Seq(Key) /\ IsInjective(chunks)
    /\ pending \in [Key -> Task \cup {NoTask}]
    /\ needs_saving \in BOOLEAN
    /\ poisoned \in BOOLEAN
    /\ pc \in [Task -> Running \cup Stopped]
    /\ world \in [Task -> World \cup {NoWorld}]
    /\ file \in [Task -> Nat \ {0}]
    /\ local \in [Task -> SUBSET Key]
    /\ awaited \in [Task -> SUBSET Key]
    /\ open \in [Task -> SUBSET Task]
    /\ batch \in [Task -> SUBSET Nat]
    /\ requested \in [Task -> SUBSET Nat]
    /\ \A t \in Task : batch[t] \cup requested[t] \subseteq Position(t)

-----------------------------------------------------------------------------
\* ChunkCache::new: nothing cached.
Init ==
    /\ chunks = <<>>
    /\ pending = [k \in Key |-> NoTask]
    /\ needs_saving = FALSE
    /\ poisoned = FALSE
    /\ pc = [t \in Task |-> "connecting"]
    /\ world = [t \in Task |-> NoWorld]
    /\ file = [t \in Task |-> 1]
    /\ requested = [t \in Task |-> {}]
    /\ local = [t \in Task |-> {}]
    /\ batch = [t \in Task |-> {}]
    /\ awaited = [t \in Task |-> {}]
    /\ open = [t \in Task |-> {}]

\* The WorldReadyMessage arrives: all_chunks is the whole chunk list.
ReceiveWorld(t) ==
    /\ pc[t] = "connecting"
    /\ \E w \in World :
        /\ world' = [world EXCEPT ![t] = w]
        /\ requested' = [requested EXCEPT ![t] = DOMAIN w.chunks]
    /\ pc' = [pc EXCEPT ![t] = "rebuilding"]
    /\ UNCHANGED <<shared, file, local, batch, awaited, open>>

\* The stream ends before a world was sent, or the message is unreadable.
ReceiveNothing(t) ==
    /\ pc[t] = "connecting"
    /\ MayFail
    /\ pc' = [pc EXCEPT ![t] = "failed"]
    /\ UNCHANGED <<shared, world, file, requested, local, batch, awaited, open>>

\* More files to rebuild.
HasFile(t) == pc[t] = "rebuilding" /\ file[t] <= world[t].files

\* reconstruct_world_file finds every chunk, or returns NeedsMoreData.
CanRebuild(t) == FileKeys(t, file[t]) \subseteq local[t]

\* The file is rebuilt and sent to the proxy task; the send fails when that
\* task is gone.
RebuildFile(t) ==
    /\ HasFile(t)
    /\ CanRebuild(t)
    /\ \/ /\ file' = [file EXCEPT ![t] = @ + 1]
          /\ UNCHANGED pc
       \/ /\ MayFail
          /\ pc' = [pc EXCEPT ![t] = "failed"]
          /\ UNCHANGED file
    /\ UNCHANGED <<shared, world, requested, local, batch, awaited, open>>

-----------------------------------------------------------------------------
\* The reconstructor wants more data: get_chunks_batched is called, unless the
\* chunk list is empty (a panic, which NeverStarved rules out).
Wanting(t) == HasFile(t) /\ ~CanRebuild(t)

Asking(t) == Wanting(t) /\ requested[t] # {}

\* Positions whose chunk is cached: they leave all_chunks for local_cache.
Hits(t) == {p \in requested[t] : KeyAt(t, p) \in Cached}

\* Mutant: pending_chunks is not consulted.
Unclaimed_IgnoresPending(t) == {p \in requested[t] : KeyAt(t, p) \notin Cached}

\* Neither cached nor being fetched.
Unclaimed(t) ==
    {p \in requested[t] : KeyAt(t, p) \notin Cached /\ pending[KeyAt(t, p)] = NoTask}

\* Mutant: batch_set is not consulted.
Missing_Repeats(t) == Unclaimed(t)

\* Mutant: a repeated key is skipped at every position.
Missing_SkipsRepeated(t) ==
    {p \in Unclaimed(t) : \A q \in requested[t] : q # p => KeyAt(t, q) # KeyAt(t, p)}

\* Of several positions with one key the first goes into the batch; the others
\* stay in all_chunks.
Missing(t) ==
    {p \in Unclaimed(t) : \A q \in requested[t] : q < p => KeyAt(t, q) # KeyAt(t, p)}

\* The first BatchSize missing positions.
NextBatch(t) ==
    {p \in Missing(t) : Cardinality({q \in Missing(t) : q < p}) < BatchSize}

\* Mutant: retain also drops what did not fit into the batch.
Left_DropsUnclaimed(t) == requested[t] \ (Hits(t) \cup Unclaimed(t))

\* What retain leaves in all_chunks.
Left(t) == requested[t] \ (Hits(t) \cup NextBatch(t))

\* Positions a task has to wait for: other tasks are fetching them.
Pending(t) == {p \in Left(t) : pending[KeyAt(t, p)] # NoTask}

\* The mutex is poisoned: lock().unwrap() panics.
AskPoisoned(t) ==
    /\ Asking(t)
    /\ poisoned
    /\ pc' = [pc EXCEPT ![t] = "panicked"]
    /\ UNCHANGED <<shared, world, file, requested, local, batch, awaited, open>>

\* Some chunks are unclaimed: claim a batch of them.
ClaimBatch(t) ==
    /\ Asking(t)
    /\ ~poisoned
    /\ NextBatch(t) # {}
    /\ local' = [local EXCEPT ![t] = @ \cup KeysAt(t, Hits(t))]
    /\ requested' = [requested EXCEPT ![t] = Left(t)]
    /\ batch' = [batch EXCEPT ![t] = NextBatch(t)]
    /\ pending' = [k \in Key |-> IF k \in KeysAt(t, NextBatch(t)) THEN t ELSE pending[k]]
    /\ pc' = [pc EXCEPT ![t] = "fetching"]
    /\ UNCHANGED <<chunks, needs_saving, poisoned, world, file, awaited, open>>

\* Everything that is left is being fetched: wait for those tasks.
AwaitOthers(t) ==
    /\ Asking(t)
    /\ ~poisoned
    /\ NextBatch(t) = {}
    /\ Pending(t) # {}
    /\ local' = [local EXCEPT ![t] = @ \cup KeysAt(t, Hits(t))]
    /\ requested' = [requested EXCEPT ![t] = Left(t) \ Pending(t)]
    /\ awaited' = [awaited EXCEPT ![t] = KeysAt(t, Pending(t))]
    /\ open' = [open EXCEPT ![t] = {pending[k] : k \in KeysAt(t, Pending(t))}]
    /\ pc' = [pc EXCEPT ![t] = "waiting"]
    /\ UNCHANGED <<shared, world, file, batch>>

\* Everything that is left is cached.
TakeCached(t) ==
    /\ Asking(t)
    /\ ~poisoned
    /\ NextBatch(t) = {}
    /\ Pending(t) = {}
    /\ local' = [local EXCEPT ![t] = @ \cup KeysAt(t, Hits(t))]
    /\ requested' = [requested EXCEPT ![t] = Left(t)]
    /\ UNCHANGED <<shared, pc, world, file, batch, awaited, open>>

-----------------------------------------------------------------------------
\* The sequences that list the positions of P in ascending order (one).
Ascending(P) ==
    {s \in [1 .. Cardinality(P) -> P] :
        Range(s) = P /\ \A i, j \in DOMAIN s : i < j => s[i] < s[j]}

\* Mutant: the whole map is cleared.
ReleaseClaims_All(t) == [k \in Key |-> NoTask]

\* The pending chunks once the batch of t is in the cache.
ReleaseClaims(t) == [k \in Key |-> IF k \in KeysAt(t, batch[t]) THEN NoTask ELSE pending[k]]

\* The response arrives with every hash right, and fulfill inserts the batch.
Fulfill(t) ==
    /\ pc[t] = "fetching"
    /\ ~poisoned
    /\ \E order \in Ascending(batch[t]) :
        chunks' = InsertAll(chunks, [i \in DOMAIN order |-> KeyAt(t, order[i])], MaxSize)
    /\ pending' = ReleaseClaims(t)
    /\ local' = [local EXCEPT ![t] = @ \cup KeysAt(t, batch[t])]
    /\ pc' = [pc EXCEPT ![t] = "closing"]
    /\ UNCHANGED <<needs_saving, poisoned, world, file, requested, batch, awaited, open>>

\* The response arrives, and fulfill meets the poisoned mutex.
FulfillPoisoned(t) ==
    /\ pc[t] = "fetching"
    /\ poisoned
    /\ pc' = [pc EXCEPT ![t] = "panicked"]
    /\ UNCHANGED <<shared, world, file, requested, local, batch, awaited, open>>

\* The request or the response fails, a hash is wrong, or the number of chunks
\* is (an assertion that fails before the lock): the task ends and drops the
\* batch.  Nothing takes its keys out of pending_chunks, and nothing closes its
\* semaphore.
FetchFails(t) ==
    /\ pc[t] = "fetching"
    /\ MayFail
    /\ pc' = [pc EXCEPT ![t] = "failed"]
    /\ UNCHANGED <<shared, world, file, requested, local, batch, awaited, open>>

\* Mutant: the semaphore is never closed.
ReleaseWaiters_Forgets(t) == open

\* The waiters that hold the semaphore of t get past it.
ReleaseWaiters(t) == [u \in Task |-> open[u] \ {t}]

\* event.close(), after the mutex was released.
CloseEvent(t) ==
    /\ pc[t] = "closing"
    /\ open' = ReleaseWaiters(t)
    /\ batch' = [batch EXCEPT ![t] = {}]
    /\ pc' = [pc EXCEPT ![t] = "rebuilding"]
    /\ UNCHANGED <<shared, world, file, requested, local, awaited>>

-----------------------------------------------------------------------------
\* Mutant: only one of the semaphores is waited for.
Awake_Early(t) == pc[t] = "waiting" /\ \E k \in awaited[t] : pending[k] \notin open[t]

\* Every semaphore acquired so far was closed: the waiter locks the cache.
Awake(t) == pc[t] = "waiting" /\ open[t] = {}

WakePoisoned(t) ==
    /\ Awake(t)
    /\ poisoned
    /\ pc' = [pc EXCEPT ![t] = "panicked"]
    /\ UNCHANGED <<shared, world, file, requested, local, batch, awaited, open>>

TakeAwaited(t) ==
    /\ Awake(t)
    /\ ~poisoned
    /\ awaited[t] \subseteq Cached
    /\ local' = [local EXCEPT ![t] = @ \cup awaited[t]]
    /\ awaited' = [awaited EXCEPT ![t] = {}]
    /\ pc' = [pc EXCEPT ![t] = "rebuilding"]
    /\ UNCHANGED <<shared, world, file, requested, batch, open>>

\* An awaited chunk is not in the cache: expect() panics under the mutex.
MissAwaited(t) ==
    /\ Awake(t)
    /\ ~poisoned
    /\ ~(awaited[t] \subseteq Cached)
    /\ poisoned' = TRUE
    /\ pc' = [pc EXCEPT ![t] = "missed"]
    /\ UNCHANGED <<chunks, pending, needs_saving, world, file, requested, local,
                   batch, awaited, open>>

\* All files are rebuilt: mark_dirty, then the final data is built and sent.
Finish(t) ==
    /\ pc[t] = "rebuilding"
    /\ file[t] > world[t].files
    /\ ~poisoned
    /\ needs_saving' = TRUE
    /\ \/ pc' = [pc EXCEPT ![t] = "done"]
       \/ MayFail /\ pc' = [pc EXCEPT ![t] = "failed"]
    /\ UNCHANGED <<chunks, pending, poisoned, world, file, requested, local, batch,
                   awaited, open>>

FinishPoisoned(t) ==
    /\ pc[t] = "rebuilding"
    /\ file[t] > world[t].files
    /\ poisoned
    /\ pc' = [pc EXCEPT ![t] = "panicked"]
    /\ UNCHANGED <<shared, world, file, requested, local, batch, awaited, open>>

-----------------------------------------------------------------------------
Step(t) ==
    \/ RebuildFile(t)
    \/ AskPoisoned(t)
    \/ ClaimBatch(t)
    \/ AwaitOthers(t)
    \/ TakeCached(t)
    \/ Fulfill(t)
    \/ FulfillPoisoned(t)
    \/ FetchFails(t)
    \/ CloseEvent(t)
    \/ WakePoisoned(t)
    \/ TakeAwaited(t)
    \/ MissAwaited(t)
    \/ Finish(t)
    \/ FinishPoisoned(t)

Next == \E t \in Task : ReceiveWorld(t) \/ ReceiveNothing(t) \/ Step(t)

Spec == Init /\ [][Next]_vars

\* The executor keeps polling a task that is ready, and the cacher server
\* answers a request on the stream or the stream breaks.  Nobody promises that
\* a server sends a world.
FairSpec == Spec /\ \A t \in Task : WF_vars(Step(t))

-----------------------------------------------------------------------------
\* get_chunks_batched hands a chunk to one task at a time: no two tasks fetch
\* the same chunk from the server at the same moment.
SingleFlight ==
    \A t, u \in Task :
        pc[t] = "fetching" /\ pc[u] = "fetching" /\ t # u =>
            KeysAt(t, batch[t]) \cap KeysAt(u, batch[u]) = {}

\* The warning "Inserting chunk twice" of RawChunkCache::insert never fires: a
\* chunk somebody is fetching is never in the cache, however tasks interleave
\* and whatever is evicted meanwhile.
NoDoubleInsert ==
    \A t \in Task : pc[t] = "fetching" => KeysAt(t, batch[t]) \cap Cached = {}

\* The panic "Emptied chunk list but reconstructor wants more data" never
\* happens: whatever leaves all_chunks reaches local_cache before the task
\* tries the file again.
NeverStarved == \A t \in Task : Wanting(t) => requested[t] # {}

\* Tasks never wait for each other in a circle: a task that waits holds no
\* semaphore another task waits for.
NoWaitCycle ==
    \A t, u \in Task : pc[t] = "waiting" /\ u \in open[t] => pc[u] # "waiting"

\* "Returns None when all requests have been fulfilled": once a task waits for
\* others there is nothing left in all_chunks, so that None ends the asking.
NoneMeansNothingLeft == \A t \in Task : pc[t] = "waiting" => requested[t] = {}

\* The expect "waited on chunk, but chunk was not put in cache" holds: what a
\* task waited for is in the cache when it takes the lock.
NoMiss == \A t \in Task : pc[t] # "missed"

\* A task that waits for other tasks gets past them.
WaitEnds == \A t \in Task : pc[t] = "waiting" ~> pc[t] # "waiting"

\* A task that knows its world ends its transfer.
TransferEnds == \A t \in Task : pc[t] = "rebuilding" ~> pc[t] \in Stopped

-----------------------------------------------------------------------------
(***************************************************************************)
(* The parts of the inductive invariant behind the safety properties.      *)
(***************************************************************************)

\* A task that fetches owns the claims on its whole batch.
ClaimsHeld ==
    \A t \in Task : pc[t] = "fetching" => \A k \in KeysAt(t, batch[t]) : pending[k] = t

\* A claim is on a key in the batch of a task that fetches, or that gave up
\* while fetching.
ClaimOwner ==
    \A k \in Key : pending[k] # NoTask =>
        /\ pc[pending[k]] \in {"fetching", "failed", "panicked"}
        /\ k \in KeysAt(pending[k], batch[pending[k]])

\* No chunk is both cached and claimed.
CachedOrClaimed == \A k \in Cached : pending[k] = NoTask

\* A batch does not repeat a key.
DistinctBatch ==
    \A t \in Task : \A p, q \in batch[t] : KeyAt(t, p) = KeyAt(t, q) => p = q

\* Every chunk of its world is somewhere in the hands of a running task.
Accounted ==
    \A t \in Task : pc[t] \in Running =>
        \A p \in Position(t) :
            p \in requested[t] \cup batch[t] \/ KeyAt(t, p) \in local[t] \cup awaited[t]

\* Batches and awaited keys are there only while they are worked on.
Phases ==
    \A t \in Task :
        /\ pc[t] \in {"connecting", "rebuilding", "waiting"} => batch[t] = {}
        /\ pc[t] \in {"connecting", "rebuilding", "fetching", "closing"} => awaited[t] = {}
        /\ pc[t] = "closing" => KeysAt(t, batch[t]) \subseteq local[t]

\* An open semaphore belongs to a task that will close it, or gave up.
OpenOwner ==
    \A t \in Task : \A u \in open[t] : pc[u] \in {"fetching", "closing", "failed", "panicked"}

IInv ==
    /\ TypeOK
    /\ ClaimsHeld
    /\ ClaimOwner
    /\ CachedOrClaimed
    /\ DistinctBatch
    /\ Accounted
    /\ Phases
    /\ OpenOwner

=============================================================================
