------------------------------ MODULE MCPortao ------------------------------
(* Small instances of Portao for TLC. *)
EXTENDS Portao
=============================================================================
