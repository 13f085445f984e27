-------------------------- MODULE MCRawChunkCache ---------------------------
(***************************************************************************)
(* Four keys, one of them larger than the whole limit; every list of at    *)
(* most three different keys.                                              *)
(***************************************************************************)
EXTENDS RawChunkCache, SequencesExt

CONSTANTS a, b, c, d

MCKey == {a, b, c, d}

MCSize == a :> 1 @@ b :> 1 @@ c :> 2 @@ d :> 5

MCInsertList == {l \in BoundedSeq(MCKey, 3) : IsInjective(l)}

=============================================================================
