----------------------------- MODULE MCSession -----------------------------
(***************************************************************************)
(* A world of three blocks that arrives in pieces which end inside a       *)
(* block, at its end, and two blocks later; one piece is empty, and the    *)
(* third and the fourth need further batches of chunks.                    *)
(* Fields 6 to 10 of an announcement are the metadata of the world.        *)
(***************************************************************************)
EXTENDS Session

MCPieces == <<1, 1, 2, 5, 6>>

MCNeeds == <<1, 1, 2, 3, 3>>

\* Requests, one of them with the flags of a fragment and one for a block that
\* the world does not have; a request without a block, which is passed on; a
\* heartbeat; an empty packet.
MCClientPacket == {<<12, 0>>, <<12, 1>>, <<76, 2>>, <<12, 3>>, <<12>>, <<6, 0>>, <<>>}

\* An announcement; one with the flags of a fragment; one that comes with tick
\* closures and one that comes after another action, which are not recognised.
MCAnnouncement ==
    {<<7, 16, 0, 1, 5>> \o <<16, 0, 2, 0, 9>>,
     <<71, 16, 0, 1, 5>> \o <<16, 0, 2, 0, 9>>,
     <<7, 18, 0, 1, 5>> \o <<16, 0, 2, 0, 9>>,
     <<7, 16, 0, 2, 3>> \o <<5, 16, 0, 2, 0, 9>>}

=============================================================================
