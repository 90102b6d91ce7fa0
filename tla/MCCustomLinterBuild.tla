------------------------ MODULE MCCustomLinterBuild ------------------------
(* A small instance of CustomLinterBuild for TLC. *)
EXTENDS CustomLinterBuild, TLC
=============================================================================
