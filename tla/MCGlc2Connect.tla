--------------------------- MODULE MCGlc2Connect ---------------------------
(***************************************************************************)
(* Small instances of Glc2Connect.                                         *)
(***************************************************************************)
EXTENDS Glc2Connect

CONSTANTS app1, app2, app3
=============================================================================
