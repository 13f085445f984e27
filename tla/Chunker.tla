------------------------------ MODULE Chunker ------------------------------
(***************************************************************************)
(* The content-defined chunker (src/src/chunker.rs): a rolling hash over   *)
(* the last WindowSize bytes says where a chunk ends.                      *)
(***************************************************************************)
EXTENDS Integers, Sequences, FiniteSetsExt

CONSTANTS
    WindowSize,  \* RabinKarpHash::WINDOW_SIZE
    Mult,        \* RabinKarpHash::MULT
    Offset,      \* RabinKarpHash::OFFSET
    HashRange,   \* the hashes are numbers below it, 2^32 in the code
    MinChunk,    \* MIN_CHUNK_SIZE
    MaxChunk,    \* MAX_CHUNK_SIZE
    MaskRange    \* CHUNK_MASK + 1

ASSUME ChunkerAssumption ==
    /\ \A n \in {WindowSize, HashRange, MinChunk, MaskRange} : n \in Nat \ {0}
    /\ Mult \in Nat /\ Offset \in Nat
    /\ MaxChunk \in Nat /\ MinChunk < MaxChunk

\* RabinKarpHash::new, and what reset leaves.
NewHash == [hash |-> 0, window |-> [i \in 0 .. WindowSize - 1 |-> 0], window_pos |-> 0]

\* u32::wrapping_pow of Mult (external), as far as it is used.
Power[n \in 0 .. WindowSize + 1] == IF n = 0 THEN 1 ELSE Mult * Power[n - 1]

\* Mutant: a byte is taken out as if it had been in for one step less.
WindowMult_Short == Power[WindowSize]

\* WINDOW_MULT: the update that takes a byte out multiplies once more.
WindowMult == Power[WindowSize + 1]

\* RabinKarpHash::update, in wrapping arithmetic.
Update(h, byte) ==
    LET added == byte + Offset
        removed == h.window[h.window_pos] * WindowMult
    IN  [hash |-> ((h.hash + added) * Mult - removed) % HashRange,
         window |-> [h.window EXCEPT ![h.window_pos] = added],
         window_pos |-> (h.window_pos + 1) % WindowSize]

\* RabinKarpHash::reset.
Reset(h) == NewHash

\* The condition that ends a chunk.
Ends(hash, size) == hash % MaskRange = 0 \/ size >= MaxChunk

\* Chunker::next on data that is not empty: the size of the next chunk and the
\* hash at its end.  The first MinChunk bytes are not hashed.
NextChunk(h, data) ==
    LET start == Min({MinChunk, Len(data)})
        hashes[n \in start .. Len(data)] ==
            IF n = start THEN h ELSE Update(hashes[n - 1], data[n])
        ends == {n \in start + 1 .. Len(data) : Ends(hashes[n].hash, n)}
        size == Min(ends \cup {Len(data)})
    IN  [size |-> size, hash |-> hashes[size]]

-----------------------------------------------------------------------------
\* For reference: the hash after `bytes' depends on the last WindowSize of them
\* only; byte i from the end counts Mult^i times.
WindowHash(bytes) ==
    LET k == Min({WindowSize, Len(bytes)})
        sum[i \in 0 .. k] ==
            IF i = 0 THEN 0 ELSE sum[i - 1] + (bytes[Len(bytes) + 1 - i] + Offset) * Power[i]
    IN  sum[k] % HashRange

\* For reference: where the first chunk of `data' ends, from the data alone.
FirstEnd(data) ==
    Min({m \in 1 .. Len(data) :
            \/ m = Len(data)
            \/ /\ m > MinChunk
               /\ \/ m = MaxChunk
                  \/ WindowHash(SubSeq(data, MinChunk + 1, m)) % MaskRange = 0})

\* For reference: the chunks of `data'.
ChunksOf(data) ==
    LET from[i \in 0 .. Len(data)] ==
            IF i = Len(data) THEN <<>>
            ELSE LET rest == SubSeq(data, i + 1, Len(data))
                 IN  <<SubSeq(rest, 1, FirstEnd(rest))>> \o from[i + FirstEnd(rest)]
    IN  from[0]

=============================================================================
