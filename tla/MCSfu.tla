------------------------------- MODULE MCSfu -------------------------------
(* Small instances of Sfu for TLC. *)
EXTENDS Sfu, TLC

Simetria == Permutations(Peer)
=============================================================================
