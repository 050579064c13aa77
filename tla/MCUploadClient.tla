--------------------------- MODULE MCUploadClient ---------------------------
(***************************************************************************)
(* Instance of UploadClient for TLC.                                       *)
(***************************************************************************)
EXTENDS UploadClient

CONSTANTS
  r1, r2,  \* runs
  x, y     \* contents
=============================================================================
