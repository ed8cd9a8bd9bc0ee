---------------------------- MODULE MCNegociacao ----------------------------
(* Small instances of Negociacao for TLC. *)
EXTENDS Negociacao, TLC

Simetria == Permutations(Faixa)
=============================================================================
