----------------------------- MODULE MCCaminho -----------------------------
(* Small instances of Caminho for TLC. *)
EXTENDS Caminho, TLC

CONSTANTS c1, c2, i, j

Quadro(op, fim, tam) == [op |-> op, fim |-> fim, rsv |-> FALSE, mascarado |-> TRUE, tam |-> tam]

\* With a limit of 126: fragments that fill it exactly or pass it by one, lengths that
\* take each of the three widths of the header, control frames, and broken frames.
Corretos == {Quadro("texto", TRUE, 126), Quadro("texto", FALSE, 125),
             Quadro("continuacao", TRUE, 1), Quadro("continuacao", TRUE, 2),
             Quadro("ping", TRUE, 125)}
Quebrados == {Quadro("texto", TRUE, 65536), Quadro("ping", FALSE, 0),
              [Quadro("continuacao", TRUE, 0) EXCEPT !.mascarado = FALSE]}
\* The observed connection comes from i; the limits are met by the others.
MCDe == (c1 :> {i}) @@ (c2 :> {i, j})
Todos == Corretos \cup Quebrados
=============================================================================
