------------------------------ MODULE Conexao ------------------------------
(***************************************************************************)
(* What the server counts on a WebSocket connection (src/src/websocket.go) *)
(* to do with the messages it is given: write them in the order they were  *)
(* accepted, and end after being told to close, with everything accepted   *)
(* written unless a write failed.  How the send queue and the writer       *)
(* goroutine do it is module FilaSaida, which implements this one.         *)
(***************************************************************************)
EXTENDS Naturals, Sequences

CONSTANT Mensagem     \* what senders may hand over

VARIABLES
  estado,     \* "aberta", "fechando" (told to close), "encerrada" (ended with
              \* nothing pending) or "quebrada" (ended by a failed write)
  pendente,   \* accepted and not yet written
  fluxo       \* written to the socket so far

vars == <<estado, pendente, fluxo>>

Init ==
  /\ estado = "aberta"
  /\ pendente = <<>>
  /\ fluxo = <<>>

Ativa == estado \in {"aberta", "fechando"}

\* A sender that found the connection open may still be served while it closes.
Aceitar(m) ==
  /\ Ativa
  /\ pendente' = Append(pendente, m)
  /\ UNCHANGED <<estado, fluxo>>

Entregar ==
  /\ Ativa
  /\ pendente # <<>>
  /\ fluxo' = Append(fluxo, Head(pendente))
  /\ pendente' = Tail(pendente)
  /\ UNCHANGED estado

Fechar ==
  /\ estado = "aberta"
  /\ estado' = "fechando"
  /\ UNCHANGED <<pendente, fluxo>>

\* A write fails: what was pending is lost with the connection.
Quebrar ==
  /\ Ativa
  /\ pendente # <<>>
  /\ estado' = "quebrada"
  /\ pendente' = <<>>
  /\ UNCHANGED fluxo

\* Told to close, it ends once everything accepted was written.
Encerrar ==
  /\ estado = "fechando"
  /\ pendente = <<>>
  /\ estado' = "encerrada"
  /\ UNCHANGED <<pendente, fluxo>>

Next ==
  \/ \E m \in Mensagem : Aceitar(m)
  \/ Entregar \/ Fechar \/ Quebrar \/ Encerrar

Spec == Init /\ [][Next]_vars /\ WF_vars(Entregar \/ Quebrar) /\ SF_vars(Encerrar)
=============================================================================
