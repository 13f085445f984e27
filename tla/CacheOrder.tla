----------------------------- MODULE CacheOrder -----------------------------
(***************************************************************************)
(* The order of a RawChunkCache (src/src/chunk_cache.rs): the keys of a    *)
(* LinkedHashMap from the oldest to the newest.  `get' never moves a key,  *)
(* so the order is first in, first out.                                    *)
(*                                                                         *)
(* A chunk is its key: the key is the blake3 hash of the bytes, so a key   *)
(* fixes the content and the size of its chunk.                            *)
(*                                                                         *)
(* The operators give what a series of inserts leaves in the cache in one  *)
(* step; module RawChunkCache runs the insert and eviction loop of the     *)
(* code and shows that it ends in exactly this order.                      *)
(***************************************************************************)
EXTENDS Integers, Sequences, FiniteSetsExt

CONSTANTS
    Key,   \* ChunkKey
    Size   \* the number of bytes of the chunk of a key

\* The chunker never yields an empty chunk.
ASSUME SizeAssumption == Size \in [Key -> Nat \ {0}]

\* The bytes that the chunks of the keys of s hold together.
Bytes[s \in Seq(Key)] == IF s = <<>> THEN 0 ELSE Size[Head(s)] + Bytes[Tail(s)]

\* The positions that eviction empties under the limit max (max_size): what they
\* and everything newer than them hold is over it.
Evicted(s, max) == {i \in 1 .. Len(s) : Bytes[SubSeq(s, i, Len(s))] > max}

\* The order after eviction: the longest run of newest entries that fits.
Fit(s, max) == SubSeq(s, Cardinality(Evicted(s, max)) + 1, Len(s))

\* The keys of s that are in K, in their order.  (SelectSeq is opaque to the
\* proof system.)
Kept(s, K) ==
    LET kept[t \in Seq(Key)] ==
            IF t = <<>> THEN <<>>
            ELSE (IF Head(t) \in K THEN <<Head(t)>> ELSE <<>>) \o kept[Tail(t)]
    IN  kept[s]

\* Mutant: an old entry of the key stays in the order.
Without_Keeps(s, new) == s

\* LinkedHashMap::insert takes a key that is already present out of its place.
Without(s, new) == Kept(s, Key \ Range(new))

\* The order after the keys of `new' were inserted, one after the other.
InsertAll(s, new, max) == Fit(Without(s, new) \o new, max)

=============================================================================
