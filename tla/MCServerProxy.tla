--------------------------- MODULE MCServerProxy ---------------------------
(***************************************************************************)
(* Small downloads for TLC.  A world of 3 bytes in blocks of 2 has a block *)
(* that is not full; with the auxiliary data there are three blocks, one   *)
(* more than the window.                                                   *)
(***************************************************************************)
EXTENDS ServerProxy

=============================================================================
