----------------------------- MODULE MCSqlLab -------------------------------
(***************************************************************************)
(* Instances of SqlLab for TLC.                                            *)
(***************************************************************************)
EXTENDS SqlLab
=============================================================================
