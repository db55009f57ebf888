--------------------------- MODULE MCAsyncEvents ----------------------------
(***************************************************************************)
(* Instances of AsyncEvents for TLC.                                       *)
(***************************************************************************)
EXTENDS AsyncEvents

CONSTANTS j1, j2
=============================================================================
