----------------------- MODULE MCBackgroundTransfers -----------------------
(* Model values for BackgroundTransfers: three requests on two keys, with   *)
(* room for one terminal entry.                                             *)
EXTENDS BackgroundTransfers

CONSTANTS upload, gog, first, second, third
=============================================================================
