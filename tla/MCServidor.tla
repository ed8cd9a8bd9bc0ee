----------------------------- MODULE MCServidor -----------------------------
(* Small instances of Servidor for TLC. *)
EXTENDS Servidor, TLC

Simetria == Permutations(Conexoes)
=============================================================================
