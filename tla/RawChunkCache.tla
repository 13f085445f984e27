--------------------------- MODULE RawChunkCache ----------------------------
(***************************************************************************)
(* RawChunkCache of src/src/chunk_cache.rs, run at the grain of its loops: *)
(* fulfill and read_chunk_cache insert a list of keys one after the other, *)
(* and insert drops entries from the front until total_size is within the  *)
(* limit.  total_size is the running count the code keeps, not a sum.      *)
(***************************************************************************)
EXTENDS CacheOrder

CONSTANTS
    MaxSize,    \* max_size, the --cache-limit option
    InsertList  \* the lists of keys that may be inserted in one go

ASSUME MaxSizeAssumption == MaxSize \in Nat

\* A batch repeats no key (ChunkCache, DistinctBatch), and a file lists the
\* entries of a map.
ASSUME InsertListAssumption == \A l \in InsertList : l \in Seq(Key) /\ IsInjective(l)

VARIABLES
    chunks,      \* the keys of the LinkedHashMap, oldest first
    total_size,  \* the bytes the code believes it holds
    todo,        \* keys of the list not inserted yet
    evicting,    \* inside the while loop of insert
    before,      \* the order when the list was started (history)
    list         \* the list being inserted (history)

vars == <<chunks, total_size, todo, evicting, before, list>>

\* The values the state may take: a key has one place in the order.
TypeOK ==
    /\ chunks \in Seq(Key) /\ IsInjective(chunks)
    /\ total_size \in Nat
    /\ todo \in Seq(Key)
    /\ evicting \in BOOLEAN

\* RawChunkCache::new
Init ==
    /\ chunks = <<>>
    /\ total_size = 0
    /\ todo = <<>>
    /\ evicting = FALSE
    /\ before = <<>>
    /\ list = <<>>

Idle == todo = <<>> /\ ~evicting

Start(l) ==
    /\ Idle
    /\ todo' = l
    /\ before' = chunks
    /\ list' = l
    /\ UNCHANGED <<chunks, total_size, evicting>>

\* Mutant: the size of a replaced chunk is not taken off.
SizeReplaced_Forgets(k) == 0

\* The size of the chunk that the inserted one replaces.
SizeReplaced(k) == IF k \in Range(chunks) THEN Size[k] ELSE 0

\* insert up to its while loop.
PushBack ==
    /\ ~evicting
    /\ todo # <<>>
    /\ LET k == Head(todo) IN
        /\ chunks' = Append(Without(chunks, <<k>>), k)
        /\ total_size' = total_size + Size[k] - SizeReplaced(k)
    /\ todo' = Tail(todo)
    /\ evicting' = TRUE
    /\ UNCHANGED <<before, list>>

\* Mutant: the limit itself is over the limit.
OverLimit_AtLimit == total_size >= MaxSize

OverLimit == total_size > MaxSize

\* The size of the chunk that leaves.
SizePopped == Size[Head(chunks)]

\* One turn of the while loop; pop_front().unwrap() needs an entry.
PopFront ==
    /\ evicting
    /\ OverLimit
    /\ chunks # <<>>
    /\ chunks' = Tail(chunks)
    /\ total_size' = total_size - SizePopped
    /\ UNCHANGED <<todo, evicting, before, list>>

\* insert returns.
Return ==
    /\ evicting
    /\ ~OverLimit
    /\ evicting' = FALSE
    /\ UNCHANGED <<chunks, total_size, todo, before, list>>

Next == PushBack \/ PopFront \/ Return \/ \E l \in InsertList : Start(l)

Spec == Init /\ [][Next]_vars

-----------------------------------------------------------------------------
\* The running count of RawChunkCache is the sum of the sizes it holds, also
\* half way through an eviction and when a chunk is inserted twice.  So
\* pop_front().unwrap() never meets an empty map: without an entry the count is
\* zero, and the loop is over.
TotalExact == total_size = Bytes[chunks]

\* The loops of insert end where InsertAll says, also for lists that hold keys
\* which are cached already.
LoopsMeetInsertAll == Idle => chunks = InsertAll(before, list, MaxSize)

=============================================================================
