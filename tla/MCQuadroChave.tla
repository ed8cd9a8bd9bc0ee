--------------------------- MODULE MCQuadroChave ---------------------------
(* Small instances of QuadroChave for TLC.  A tick is 250 ms in Ritmo; in  *)
(* RitmoLargo it is 500 ms.                                                *)
EXTENDS QuadroChave, TLC

Ritmo == <<0, 2, 6>>
RitmoLargo == <<0, 1, 3>>
Simetria == Permutations(Espectador)
=============================================================================
