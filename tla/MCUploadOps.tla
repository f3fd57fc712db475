---------------------------- MODULE MCUploadOps ----------------------------
(* Model values for UploadOps: one single-file upload, and one batch of a   *)
(* received file and a playlist that Teatro writes.                         *)
EXTENDS UploadOps, TLC

CONSTANTS u1, u2

MCSize == u1 :> 1 @@ u2 :> 2
MCGenerated == {<<u2, 2>>}
=============================================================================
