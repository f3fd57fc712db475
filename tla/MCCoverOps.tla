----------------------------- MODULE MCCoverOps -----------------------------
(* Model values for CoverOps: two metadata saves write the same two fixed   *)
(* paths, an uploaded cover has a path of its own, and a request deletes    *)
(* the game.                                                                *)
EXTENDS CoverOps, TLC

CONSTANTS igdb, again, manual, del, large, small, up

MCNew == igdb :> {large, small} @@ again :> {large, small} @@ manual :> {up}
=============================================================================
