---------------------------- MODULE MCStructure ----------------------------
(* Instances of Structure for TLC.                                         *)
EXTENDS Structure
=============================================================================
