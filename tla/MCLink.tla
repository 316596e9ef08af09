-------------------------------- MODULE MCLink --------------------------------
(* A small instance of Link for TLC.                                       *)
EXTENDS Link

CONSTANTS k1, k2
MCCallers == {k1, k2}
=============================================================================
