--------------------------- MODULE MCConversions ---------------------------
(* Model values for Conversions: imports to three formats (one CHD of two   *)
(* discs) compete for two places, one upload permit and one terminal record. *)
EXTENDS Conversions

CONSTANTS import1, import2, import3

MCFormat == [j \in Jobs |-> CASE j = import1 -> "chd" [] j = import2 -> "wua" [] OTHER -> "rvz"]
=============================================================================
