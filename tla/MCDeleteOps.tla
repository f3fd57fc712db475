---------------------------- MODULE MCDeleteOps ----------------------------
(* Model values for DeleteOps.  Game a has two files in a folder of its    *)
(* own, game b a file of its own and a cover in the asset root; game c is a  *)
(* file in the folder of a that a later scan may index, and game n is what   *)
(* a scan finds at the path of a once a is deleted and a user has copied a   *)
(* file there.  One request deletes the whole library, one deletes a alone,  *)
(* and one cleans up the sidecar c1.                                         *)
EXTENDS DeleteOps, TLC

CONSTANTS all, one, side, a, b, c, n, a1, a2, b1, c1, cb, folder

MCWants == all :> {a, b} @@ one :> {a} @@ side :> {}
MCSidecars == all :> {} @@ one :> {} @@ side :> {c1}
MCFilesOf == a :> {a1, a2} @@ b :> {b1, cb} @@ c :> {c1} @@ n :> {a1}
MCRootOf == a1 :> 1 @@ a2 :> 1 @@ c1 :> 1 @@ b1 :> 1 @@ cb :> 2
MCFolderOf == a1 :> folder @@ a2 :> folder @@ c1 :> folder @@ b1 :> Nobody @@ cb :> Nobody

-----------------------------------------------------------------------------
(* DeletesShared.cfg: all three games are indexed, and one request deletes   *)
(* the whole library while nothing else happens.  TLC finds the deletion     *)
(* rolled back: the folder of a goes first, and c1 is not found.             *)
SharedWants == all :> {a, b, c}
SharedSidecars == all :> {}

(* A deletion that nothing disturbs - no other request, no error, no crash,  *)
(* nobody who copies files - is carried out and not rolled back.             *)
UndisturbedDeletesSucceed ==
    faults = 0 /\ crashes = 0 /\ Copyable = {} =>
        \A d \in Deletes : (\A e \in Deletes \ {d} : pc[e] = "idle") => journal[d] # "failed"

-----------------------------------------------------------------------------
(* DeletesStale.cfg: two requests delete game a; a later scan may index the  *)
(* file that then lies at its path as game c.  TLC finds that file lost.     *)
StaleWants == all :> {a} @@ one :> {a}
StaleSidecars == all :> {} @@ one :> {}
StaleFilesOf == a :> {a1} @@ c :> {a1}
StaleRootOf == a1 :> 2
StaleFolderOf == a1 :> Nobody

(* A file of a game in the database is somewhere: in its place, or in the    *)
(* trash of some delete.                                                     *)
FilesOfGamesExist ==
    \A g \in games : \A p \in FilesOf[g] :
        disk[p] = rows[p] \/ \E d \in Deletes, unit \in Units : trash[d][unit][p] = rows[p]
=============================================================================
