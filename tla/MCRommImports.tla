--------------------------- MODULE MCRommImports ---------------------------
(* Model values for RommImports: two imports of the same remote game, one   *)
(* of two files and one of a single file, the two upload permits of the     *)
(* default configuration, and a registry with room for one terminal record. *)
EXTENDS RommImports

CONSTANTS import1, import2, game

MCFiles == import1 :> 2 @@ import2 :> 1
MCGame == [j \in Jobs |-> game]
=============================================================================
