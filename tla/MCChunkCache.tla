---------------------------- MODULE MCChunkCache ----------------------------
(***************************************************************************)
(* Instances of ChunkCache.  Three keys, one of them twice as large; worlds *)
(* that share chunks in different orders, repeat one within a file and     *)
(* across files, and have an empty file.                                   *)
(***************************************************************************)
EXTENDS ChunkCache, TLC

CONSTANTS a, b, c, t1, t2, t3

MCKey == {a, b, c}

MCSize == a :> 1 @@ b :> 1 @@ c :> 2

Entry(f, k) == [file |-> f, key |-> k]

\* Two files that share chunk a.
Shared == [files |-> 2, chunks |-> <<Entry(1, a), Entry(1, b), Entry(2, a), Entry(2, c)>>]

\* The same chunks from the other end, with a repetition inside one file.
Reversed == [files |-> 2, chunks |-> <<Entry(1, c), Entry(1, c), Entry(2, b), Entry(2, a)>>]

\* An empty file before the only one with content.
Sparse == [files |-> 2, chunks |-> <<Entry(2, b), Entry(2, c)>>]

AllWorlds == {Shared, Reversed, Sparse}

TwoWorlds == {Shared, Reversed}

OneWorld == {Shared}

MCTask == {t1, t2, t3}

\* Tasks differ only in the world they are sent.
Symmetry == Permutations(MCTask)

=============================================================================
