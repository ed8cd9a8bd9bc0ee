---------------------------- MODULE MCFilaSaida ----------------------------
(* Small instances of FilaSaida for TLC. *)
EXTENDS FilaSaida, TLC

Simetria == Permutations(Remetente)
=============================================================================
