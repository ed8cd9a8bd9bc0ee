------------------------------ MODULE Caminho ------------------------------
(***************************************************************************)
(* A message on its way from a client, through the bridge, to the handler: *)
(* the composition of Ponte, which carries the bytes of the observed       *)
(* connection in pieces of any size, and Leitor, which reads them at the   *)
(* server.  The client is external: it sends frames, correct or not.  What *)
(* it says is judged here by RFC 6455 and the server's limits, apart from  *)
(* how the reader does it; module Mensagens is what must come out.         *)
(***************************************************************************)
EXTENDS Naturals, FiniteSets, Sequences, SequencesExt

CONSTANTS Ligacao, Observada, Endereco, Nenhum, De, totalMaximo, porLimite,  \* of Ponte
          tamanhoMaximoMensagem,   \* of Leitor
          Quadros,      \* frames the client may send
          MaxQuadros    \* how many of them it sends

ASSUME CaminhoAssumption ==
  /\ IsFiniteSet(Ligacao)
  /\ Observada \in Ligacao
  /\ Nenhum \notin Endereco
  /\ De \in [Ligacao -> SUBSET Endereco]
  /\ totalMaximo \in Nat
  /\ porLimite \in Nat
  /\ tamanhoMaximoMensagem \in Nat
  /\ MaxQuadros \in Nat
  /\ \A q \in Quadros : q.tam \in Nat

VARIABLES
  etapa, origem, porIP, total, aqui, la, cliente, servidor, copia,
  enviado, mao,
  recebido,     \* what the bridge wrote and the server has not read
  leitura, quadro, montando, montagem, entregue,
  conversa,     \* the client: frames sent, the message it is in the middle of (<<>> if
                \*   none), and whether it has kept to the protocol
  emTransito    \* the messages it completed that were not handed over

P == INSTANCE Ponte
L == INSTANCE Leitor WITH entrada <- recebido,
                          acabou <- la[Observada] = "fechado"

ponte == <<etapa, origem, porIP, total, aqui, la, cliente, servidor, copia>>
leitor == <<leitura, quadro, montando, montagem, entregue>>
externo == <<conversa, emTransito>>
vars == <<ponte, enviado, mao, recebido, leitor, externo>>

Init ==
  /\ P!Init
  /\ leitura = "cabecalho" /\ quadro = L!SemQuadro
  /\ montando = FALSE /\ montagem = <<>> /\ entregue = <<>>
  /\ conversa = [quadros |-> 0, parcial |-> <<>>, correta |-> TRUE]
  /\ emTransito = <<>>

(***************************************************************************)
(* The client                                                              *)
(***************************************************************************)
\* What a frame may not be after the message `parcial` was begun.
Incorreto(q, parcial) ==
  \/ q.rsv \/ ~q.mascarado
  \/ q.op \notin L!Controle \cup L!Dados
  \/ q.op \in L!Controle /\ (~q.fim \/ q.tam > 125)
  \/ q.op = "texto" /\ parcial # <<>>
  \/ q.op = "continuacao" /\ parcial = <<>>
  \/ q.op \in L!Dados /\ L!Soma(parcial) + q.tam > tamanhoMaximoMensagem

\* After an incorrect frame or a close, what it sends is no message any more.  Nothing
\* reads what it sends before the bridge is ready until then, so it is taken as sent at
\* that moment, and what it sends when the bridge has stopped reading is lost.  Bound: no
\* other connection comes once the observed client has sent, nor does it send once
\* another has come; what a connection carries touches no variable of the others.
Enviar(q) ==
  LET todo == Append(conversa.parcial, q.tam)
      valido == conversa.correta /\ ~Incorreto(q, conversa.parcial)
      completo == valido /\ q.op \in L!Dados /\ q.fim
  IN /\ cliente[Observada]
     /\ etapa[Observada] \in {"esvaziar", "copiar"}
     /\ copia[Observada]["ida"] # "fim"
     /\ conversa.quadros < MaxQuadros
     /\ \A c \in Ligacao \ {Observada} : etapa[c] = "nova"
     /\ enviado' = enviado \o L!Unidades(q)
     /\ conversa' = [quadros |-> conversa.quadros + 1,
                     correta |-> valido /\ q.op # "fechar",
                     parcial |-> IF ~valido \/ completo THEN <<>>
                                 ELSE IF q.op \in L!Dados THEN todo ELSE conversa.parcial]
     /\ emTransito' = IF completo THEN Append(emTransito, todo) ELSE emTransito
     /\ UNCHANGED <<ponte, mao, recebido, leitor>>

(***************************************************************************)
(* The server                                                              *)
(***************************************************************************)
\* The request arrived, and AceitarWebSocket made a Conn whose reader is that of Hijack.
Aceita == la[Observada] # "nenhum" /\ etapa[Observada] \notin {"sequestrar", "pedir"}

Ler ==
  /\ Aceita
  /\ UNCHANGED <<ponte, enviado, mao, conversa>>
  /\ \/ L!LerSemEntregar /\ UNCHANGED emTransito
     \/ L!LerMensagem /\ emTransito' = SubSeq(emTransito, 2, Len(emTransito))

InterromperLeitura ==
  /\ Aceita
  /\ UNCHANGED <<ponte, enviado, mao, externo>>
  /\ L!Interromper

-----------------------------------------------------------------------------
PassoDaPonte(c) == P!Atender(c) /\ UNCHANGED <<leitor, externo>>
PassoDaCopia(c) == P!Copiar(c) /\ UNCHANGED <<leitor, externo>>

\* The reader returned, the deferred Fechar ran, and the writer closes the socket.
ServidorDesiste ==
  /\ leitura = "fim"
  /\ P!ServidorFecha(Observada)
  /\ UNCHANGED <<leitor, externo>>

Ambiente(c) ==
  /\ etapa[c] = "nova" => c = Observada \/ conversa.quadros = 0
  /\ \/ P!Recusar(c) \/ \E i \in Endereco : P!Reservar(c, i) \/ P!RecusarExcesso(c, i)
     \/ P!ClienteFecha(c)
     \/ c # Observada /\ P!ServidorFecha(c)
     \/ \E l \in P!Lado : P!InterromperCopia(c, l)
  /\ UNCHANGED <<leitor, externo>>

Next ==
  \/ \E c \in Ligacao : PassoDaPonte(c) \/ PassoDaCopia(c) \/ Ambiente(c)
  \/ \E q \in Quadros : Enviar(q)
  \/ Ler \/ InterromperLeitura \/ ServidorDesiste

\* While a goroutine of the bridge or the reader has something to do, one of them does
\* it; nobody has to connect, to send or to close, and no deadline has to pass.
Fairness == WF_vars((\E c \in Ligacao : PassoDaPonte(c) \/ PassoDaCopia(c)) \/ Ler \/ ServidorDesiste)

Spec == Init /\ [][Next]_vars
FairSpec == Spec /\ Fairness

-----------------------------------------------------------------------------
(***************************************************************************)
(* Properties                                                              *)
(***************************************************************************)
\* Whatever pieces the bridge cuts the bytes into, and wherever either of them is cut
\* off, the handler gets the messages that the client completed: whole, in order and
\* without a gap, whatever control frames came between the fragments, and none after
\* the first frame that breaks the protocol.
M == INSTANCE Mensagens WITH encerrada <- leitura = "fim"
ImplementaMensagens == M!Spec

\* What the client completed does not wait for ever: it is handed over, or the reader has
\* noticed that the connection ended, in the middle of a frame as between two.
MensagemChega == []<>(emTransito = <<>> \/ leitura = "fim")

\* The properties of the components.
ContasCertas == P!ContasCertas
SocketsContados == P!SocketsContados
TudoDevolvido == P!TudoDevolvido
MontagemLimitada == L!MontagemLimitada
=============================================================================
