--------------------------- MODULE MCPeerRouting ---------------------------
(***************************************************************************)
(* Two Factorio clients and ids for two peers: both clients connect, or    *)
(* one of them connects, goes idle and comes back.                         *)
(***************************************************************************)
EXTENDS PeerRouting

CONSTANTS a1, a2

=============================================================================
