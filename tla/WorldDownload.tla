--------------------------- MODULE WorldDownload ---------------------------
(***************************************************************************)
(* What the cacher server promises about the world it downloads for a      *)
(* peer: after the Factorio server announced a world, the transfer to the  *)
(* cacher client is started at most once, and what it is given is every    *)
(* block of that world, in order.  The peer may go away at any time.       *)
(***************************************************************************)
EXTENDS Integers

CONSTANTS
    Count  \* the number of blocks of the world and its auxiliary data

VARIABLES
    status,  \* "idle", "announced", "transferring" or "gone"
    world    \* the blocks given to the transfer

dvars == <<status, world>>

\* Block i - 1 at place i, for every block.
Whole == [i \in 1 .. Count |-> i - 1]

DInit ==
    /\ status = "idle"
    /\ world = <<>>

Announce ==
    /\ status = "idle"
    /\ status' = "announced"
    /\ UNCHANGED world

Transfer ==
    /\ status = "announced"
    /\ status' = "transferring"
    /\ world' = Whole

GoAway ==
    /\ status # "gone"
    /\ status' = "gone"
    /\ UNCHANGED world

DNext == Announce \/ Transfer \/ GoAway

DSpec == DInit /\ [][DNext]_dvars

=============================================================================
