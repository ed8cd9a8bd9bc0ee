----------------------------- MODULE Mensagens -----------------------------
(***************************************************************************)
(* What the handlers count on the receive side of a connection to do       *)
(* (src/src/websocket.go, Ler), whether the client reaches the server      *)
(* directly or through the bridge: the messages that the client completed  *)
(* are handed over whole, once, in order and without a gap, until the      *)
(* connection ends; a message cut short is never handed over.  How frames, *)
(* fragments, the bridge and its two sockets bring that about is module    *)
(* Caminho, which implements this one.                                     *)
(***************************************************************************)
EXTENDS Sequences, Naturals, SequencesExt

VARIABLES
  emTransito,  \* completed by the client, not yet handed over
  entregue,    \* the message handed over, while the handler has it; <<>> if none
  encerrada    \* nothing is handed over any more

vars == <<emTransito, entregue, encerrada>>

Init == emTransito = <<>> /\ entregue = <<>> /\ encerrada = FALSE

\* The client completes a message.
Completar ==
  /\ emTransito' # <<>>
  /\ emTransito = Front(emTransito')
  /\ UNCHANGED <<entregue, encerrada>>

Entregar ==
  /\ ~encerrada
  /\ emTransito # <<>>
  /\ entregue' = Head(emTransito)
  /\ emTransito' = Tail(emTransito)
  /\ UNCHANGED encerrada

Tratada ==
  /\ entregue' = <<>>
  /\ UNCHANGED <<emTransito, encerrada>>

\* What is in transit is lost with the connection.
Encerrar ==
  /\ encerrada' = TRUE
  /\ entregue' = <<>>
  /\ UNCHANGED emTransito

Next == Completar \/ Entregar \/ Tratada \/ Encerrar

Spec == Init /\ [][Next]_vars
=============================================================================
