---------------------------- MODULE MCGogImports ----------------------------
(* Two imports, one permit, one retained terminal record; one job is        *)
(* watched and prints a line of output; one or two removals may fail.       *)
EXTENDS GogImports

CONSTANTS j1, j2

MCMaxOutput == [j \in Jobs |-> IF j \in Watched THEN 1 ELSE 0]
MCMaxStuck == [j \in Jobs |-> IF j \in Watched THEN 2 ELSE 1]
=============================================================================
