----------------------------- MODULE MCProcessing -----------------------------
(***************************************************************************)
(* Instances of Processing for TLC.                                        *)
(***************************************************************************)
EXTENDS Processing, TLC

CONSTANTS a, b, c    \* jobs

ABC == (a :> 1) @@ (b :> 2) @@ (c :> 3)
AB  == (a :> 1) @@ (b :> 2)
=============================================================================
