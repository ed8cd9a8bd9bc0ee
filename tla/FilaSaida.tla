----------------------------- MODULE FilaSaida -----------------------------
(***************************************************************************)
(* The send side of one connection (src/src/websocket.go): any number of   *)
(* goroutines call enfileirar concurrently, one writer goroutine           *)
(* (Escritor, then drenar) empties the queue onto the socket.  Neither     *)
(* takes a lock; they share a channel, a byte counter and the channel      *)
(* `fechado` that Fechar closes.  Each shared access is a step:            *)
(*                                                                         *)
(*   passo[r]   "fora"       not in enfileirar                             *)
(*              "conferiu"   found fechado open                            *)
(*              "reservou"   bytesNaFila.Add done, within the limit        *)
(*              "devolver"   must give its bytes back and close (queue     *)
(*                           full by count, or over the byte limit)        *)
(*              "recusado"   must give its bytes back (found it closed)    *)
(*              "fechando"   about to call Fechar                          *)
(*   escritor   "pega"       at the select of the loop, or of drenar       *)
(*              "debita"     frame received, bytesNaFila not yet reduced   *)
(*              "escreve"    in escreverQuadro                             *)
(*              "falhou"     the write failed, about to call Fechar        *)
(*              "fim"        drenar found the queue empty; socket closed   *)
(*              "quebrado"   returned after a failed write; socket closed  *)
(*                                                                         *)
(* A frame is <<sender, number of the call>>; its size is `tamanho`.  A    *)
(* failed write includes the 10 s write deadline of a client that stopped  *)
(* reading.                                                                *)
(***************************************************************************)
EXTENDS Naturals, Sequences, FiniteSets, SequencesExt

CONSTANTS Remetente,       \* goroutines that send to this connection
          MaxEnvios,       \* bound: calls of enfileirar per goroutine
          Tamanhos,        \* payload sizes; 0 is a ping
          tamanhoFilaSaida,
          bytesMaximosFilaSaida

ASSUME FilaAssumption ==
  /\ MaxEnvios \in Nat
  /\ Tamanhos \subseteq Nat
  /\ tamanhoFilaSaida \in Nat \ {0}
  /\ bytesMaximosFilaSaida \in Nat

VARIABLES
  saida,         \* the buffered channel c.saida
  fechado,       \* c.fechado is closed
  bytesNaFila,
  passo,         \* where each sender is
  n,             \* calls of enfileirar made by each sender
  tamanho,       \* size of the frame each sender is handing over
  rejeita,       \* the call is that of Rejeitar, which closes whatever happens
  escritor,
  mao,           \* the frame the writer holds: a sequence of one, or empty
  drenando,      \* the writer is in drenar
  fluxo          \* frames written to the socket

vars == <<saida, fechado, bytesNaFila, passo, n, tamanho, rejeita,
          escritor, mao, drenando, fluxo>>

remetentes == <<passo, n, tamanho, rejeita>>

Quadro == [de : Remetente, n : 1..MaxEnvios, bytes : Tamanhos]

Init ==
  /\ saida = <<>>
  /\ fechado = FALSE
  /\ bytesNaFila = 0
  /\ passo = [r \in Remetente |-> "fora"]
  /\ n = [r \in Remetente |-> 0]
  /\ tamanho = [r \in Remetente |-> 0]
  /\ rejeita = [r \in Remetente |-> FALSE]
  /\ escritor = "pega"
  /\ mao = <<>>
  /\ drenando = FALSE
  /\ fluxo = <<>>

(***************************************************************************)
(* enfileirar                                                              *)
(***************************************************************************)
MeuQuadro(r) == [de |-> r, n |-> n[r], bytes |-> tamanho[r]]

\* Where a failed call leaves the sender: only Rejeitar goes on to close.
Recusado(r) == IF rejeita[r] THEN "fechando" ELSE "fora"

\* The first select: a closed connection is refused at once.
Conferir(r, t, rej) ==
  /\ passo[r] = "fora"
  /\ n[r] < MaxEnvios
  /\ n' = [n EXCEPT ![r] = @ + 1]
  /\ tamanho' = [tamanho EXCEPT ![r] = t]
  /\ rejeita' = [rejeita EXCEPT ![r] = rej]
  /\ passo' = [passo EXCEPT ![r] = IF ~fechado THEN "conferiu"
                                   ELSE IF rej THEN "fechando" ELSE "fora"]
  /\ UNCHANGED <<saida, fechado, bytesNaFila, escritor, mao, drenando, fluxo>>

\* The variants named ..ComDefeito are mistakes that would be easy to make; each is
\* what some property is there to notice.
PassouDoLimiteComDefeito(r) == bytesNaFila > bytesMaximosFilaSaida  \* compares the old value
PassouDoLimite(r) == bytesNaFila + tamanho[r] > bytesMaximosFilaSaida

\* bytesNaFila.Add, and the comparison of what it returned.
Reservar(r) ==
  /\ passo[r] = "conferiu"
  /\ bytesNaFila' = bytesNaFila + tamanho[r]
  /\ passo' = [passo EXCEPT ![r] = IF PassouDoLimite(r) THEN "devolver" ELSE "reservou"]
  /\ UNCHANGED <<saida, fechado, n, tamanho, rejeita, escritor, mao, drenando, fluxo>>

TemVaga == Len(saida) < tamanhoFilaSaida

\* The second select.  With room in the channel and the connection closed, either
\* case may be taken.
Depositar(r) ==
  /\ passo[r] = "reservou"
  /\ TemVaga
  /\ saida' = Append(saida, MeuQuadro(r))
  /\ passo' = [passo EXCEPT ![r] = Recusado(r)]
  /\ UNCHANGED <<fechado, bytesNaFila, n, tamanho, rejeita, escritor, mao, drenando, fluxo>>

DesistirComDefeito(r) ==                       \* closed meanwhile: forgets the reservation
  /\ passo[r] = "reservou"
  /\ fechado \/ ~TemVaga
  /\ passo' = [passo EXCEPT ![r] = IF fechado THEN Recusado(r) ELSE "devolver"]
  /\ UNCHANGED <<saida, fechado, bytesNaFila, n, tamanho, rejeita,
                 escritor, mao, drenando, fluxo>>

Desistir(r) ==
  /\ passo[r] = "reservou"
  /\ fechado \/ ~TemVaga
  /\ passo' = [passo EXCEPT ![r] = IF fechado THEN "recusado" ELSE "devolver"]
  /\ UNCHANGED <<saida, fechado, bytesNaFila, n, tamanho, rejeita,
                 escritor, mao, drenando, fluxo>>

DevolverComDefeito(r) ==                       \* the frame is dropped, the connection kept
  /\ passo[r] \in {"devolver", "recusado"}
  /\ bytesNaFila' = bytesNaFila - tamanho[r]
  /\ passo' = [passo EXCEPT ![r] = Recusado(r)]
  /\ UNCHANGED <<saida, fechado, n, tamanho, rejeita, escritor, mao, drenando, fluxo>>

Devolver(r) ==
  /\ passo[r] \in {"devolver", "recusado"}
  /\ bytesNaFila' = bytesNaFila - tamanho[r]
  /\ passo' = [passo EXCEPT ![r] = IF @ = "devolver" THEN "fechando" ELSE Recusado(r)]
  /\ UNCHANGED <<saida, fechado, n, tamanho, rejeita, escritor, mao, drenando, fluxo>>

\* The Fechar of a failed call, or of Rejeitar.
FecharPorEnvio(r) ==
  /\ passo[r] = "fechando"
  /\ fechado' = TRUE
  /\ passo' = [passo EXCEPT ![r] = "fora"]
  /\ UNCHANGED <<saida, bytesNaFila, n, tamanho, rejeita, escritor, mao, drenando, fluxo>>

\* Fechar called from outside of enfileirar: the reader's deferred one, or shutdown.
Fechar ==
  /\ ~fechado
  /\ fechado' = TRUE
  /\ UNCHANGED <<saida, bytesNaFila, remetentes, escritor, mao, drenando, fluxo>>

(***************************************************************************)
(* Escritor and drenar                                                     *)
(***************************************************************************)
\* With a frame waiting and the connection closed, the select may take either case;
\* drenar only ever receives.
Pegar ==
  /\ escritor = "pega"
  /\ saida # <<>>
  /\ mao' = <<Head(saida)>>
  /\ saida' = Tail(saida)
  /\ escritor' = "debita"
  /\ UNCHANGED <<fechado, bytesNaFila, remetentes, drenando, fluxo>>

Debitar ==
  /\ escritor = "debita"
  /\ bytesNaFila' = bytesNaFila - mao[1].bytes
  /\ escritor' = "escreve"
  /\ UNCHANGED <<saida, fechado, remetentes, mao, drenando, fluxo>>

Escrever ==
  /\ escritor = "escreve"
  /\ fluxo' = fluxo \o mao
  /\ mao' = <<>>
  /\ escritor' = "pega"
  /\ UNCHANGED <<saida, fechado, bytesNaFila, remetentes, drenando>>

\* The loop closes the connection before it returns; drenar just returns.
FalharEscrita ==
  /\ escritor = "escreve"
  /\ mao' = <<>>
  /\ escritor' = IF drenando THEN "quebrado" ELSE "falhou"
  /\ UNCHANGED <<saida, fechado, bytesNaFila, remetentes, drenando, fluxo>>

FecharPorFalha ==
  /\ escritor = "falhou"
  /\ fechado' = TRUE
  /\ escritor' = "quebrado"
  /\ UNCHANGED <<saida, bytesNaFila, remetentes, mao, drenando, fluxo>>

ComecarDrenoComDefeito ==                      \* no drenar: what was queued is lost
  /\ escritor = "pega"
  /\ fechado
  /\ escritor' = "fim"
  /\ UNCHANGED <<saida, fechado, bytesNaFila, remetentes, mao, drenando, fluxo>>

ComecarDreno ==
  /\ escritor = "pega"
  /\ fechado
  /\ ~drenando
  /\ drenando' = TRUE
  /\ UNCHANGED <<saida, fechado, bytesNaFila, remetentes, escritor, mao, fluxo>>

TerminarDrenoComDefeito == FALSE               \* a receive without the default case
TerminarDreno ==
  /\ escritor = "pega"
  /\ drenando
  /\ saida = <<>>
  /\ escritor' = "fim"
  /\ UNCHANGED <<saida, fechado, bytesNaFila, remetentes, mao, drenando, fluxo>>

Continuar(r) ==
  Reservar(r) \/ Depositar(r) \/ Desistir(r) \/ Devolver(r) \/ FecharPorEnvio(r)

Escritor ==
  \/ Pegar \/ Debitar \/ Escrever \/ FalharEscrita \/ FecharPorFalha
  \/ ComecarDreno \/ TerminarDreno

Next ==
  \/ \E r \in Remetente :
       \/ \E t \in Tamanhos, rej \in BOOLEAN : Conferir(r, t, rej)
       \/ Continuar(r)
  \/ Escritor
  \/ Fechar

\* Goroutines are scheduled, no write lasts longer than its deadline, and a closed
\* connection is not passed over for ever by the select of the loop.
Fairness ==
  /\ WF_vars(Escritor)
  /\ SF_vars(ComecarDreno)
  /\ \A r \in Remetente : WF_vars(Continuar(r))

Spec == Init /\ [][Next]_vars
FairSpec == Spec /\ Fairness
-----------------------------------------------------------------------------
(***************************************************************************)
(* Properties                                                              *)
(***************************************************************************)
TypeOK ==
  /\ saida \in Seq(Quadro) /\ Len(saida) <= tamanhoFilaSaida
  /\ fechado \in BOOLEAN
  /\ bytesNaFila \in Nat
  /\ passo \in [Remetente -> {"fora", "conferiu", "reservou", "devolver", "recusado", "fechando"}]
  /\ n \in [Remetente -> 0..MaxEnvios]
  /\ tamanho \in [Remetente -> Tamanhos \cup {0}]
  /\ rejeita \in [Remetente -> BOOLEAN]
  /\ escritor \in {"pega", "debita", "escreve", "falhou", "fim", "quebrado"}
  /\ mao \in {<<>>} \cup {<<q>> : q \in Quadro}
  /\ drenando \in BOOLEAN
  /\ fluxo \in Seq(Quadro)

\* The bytes of a set of frames, each named by its frame and its position in it.
Octetos(Q) == UNION {{q} \X (1..q.bytes) : q \in Q}

\* The frames whose bytes a sender has added to the counter and nobody has taken off:
\* in the channel, reserved by a sender, or just received by the writer.  No two of
\* them have the same sender and number.
Contados ==
  Range(saida)
  \cup {MeuQuadro(r) : r \in {s \in Remetente : passo[s] \in {"reservou", "devolver", "recusado"}}}
  \cup (IF escritor = "debita" THEN {mao[1]} ELSE {})

\* The counter is the number of those bytes: no path through enfileirar or the writer,
\* and no overlap of them, loses or doubles any, so a long-lived connection neither
\* closes for bytes that were sent long ago nor grows without limit.
BytesConservados == bytesNaFila = Cardinality(Octetos(Contados))

\* Memory held for a client that does not keep up: never more than
\* bytesMaximosFilaSaida in the channel, however many senders overlap.
FilaLimitada == Cardinality(Octetos(Range(saida))) <= bytesMaximosFilaSaida

\* The frames of each sender come in the order of its calls, from the first one and
\* with none left out.
EmOrdem(s) ==
  \A i \in DOMAIN s :
    /\ s[i].n > 1 => \E j \in 1..(i - 1) : s[j].de = s[i].de /\ s[j].n = s[i].n - 1
    /\ \A j \in 1..(i - 1) : s[j].de = s[i].de => s[j].n < s[i].n

\* What the client reads from one sender is a prefix of what that sender sent: a
\* frame that is not delivered is the last one, since the connection closes.
SemLacuna == EmOrdem(fluxo)

Encerrado == escritor \in {"fim", "quebrado"}

\* A connection told to close ends: the writer leaves its loop even if frames keep
\* coming, and drenar does not wait for more.
EncerraSozinha == fechado ~> Encerrado

Abstrata == INSTANCE Conexao WITH
  Mensagem <- Quadro,
  estado <- IF escritor \in {"falhou", "quebrado"} THEN "quebrada"
            ELSE IF escritor = "fim" THEN "encerrada"
            ELSE IF fechado THEN "fechando" ELSE "aberta",
  pendente <- IF Encerrado \/ escritor = "falhou" THEN <<>> ELSE mao \o saida

\* The queue, the counter and the writer together are the connection that Conexao
\* describes: first in, first out, and unless a write fails it does not end before
\* everything it had accepted is written (the purpose of drenar).
ImplementaConexao == Abstrata!Spec
=============================================================================
