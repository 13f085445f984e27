---------------------------- MODULE MCCacheFile ----------------------------
(***************************************************************************)
(* Three keys, one of them twice as large, and limits that do not hold all *)
(* of them; what was saved under the higher one may be too much for the    *)
(* lower one.                                                              *)
(***************************************************************************)
EXTENDS CacheFile, TLC

CONSTANTS a, b, c

MCKey == {a, b, c}

MCSize == a :> 1 @@ b :> 1 @@ c :> 2

=============================================================================
