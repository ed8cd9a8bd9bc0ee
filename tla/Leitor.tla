------------------------------- MODULE Leitor -------------------------------
(***************************************************************************)
(* The receive side of a WebSocket connection of the server                *)
(* (src/src/websocket.go): lerQuadro, which reads one frame with three     *)
(* blocking reads, and Ler, which answers or drops the control frames,     *)
(* assembles the fragments and hands a complete message to the handler.    *)
(*                                                                         *)
(* A frame arrives as two or three units, the parts that lerQuadro reads   *)
(* at once (io.ReadFull): two bytes of header, the extended length if the  *)
(* header announces one, the mask with the payload.  What carries them may *)
(* stop between any two.  Lengths are those of the wire, with their widths *)
(* of 7, 16 and 64 bits; the payload of a message is abstracted to the     *)
(* lengths of the fragments it came in.                                    *)
(***************************************************************************)
EXTENDS Naturals, Sequences

CONSTANT tamanhoMaximoMensagem   \* the limit of a message, 1 MB in the code

VARIABLES
  entrada,   \* units that reached the server and were not read
  acabou,    \* the other side closed: after `entrada` comes the end of file
  leitura,   \* what the reader waits for; "fim" when Ler returned an error
  quadro,    \* the frame being read: its header and then its length
  montando,  \* c.montando
  montagem,  \* c.montagem
  entregue   \* the message that Tratar has; <<>> while Ler runs

fragmentos == <<montando, montagem>>
vars == <<entrada, acabou, leitura, quadro, fragmentos, entregue>>

Controle == {"fechar", "ping", "pong"}
Dados == {"texto", "continuacao"}        \* binary frames are treated as text
SemQuadro == [op |-> "nenhum"]

(***************************************************************************)
(* The length on the wire: the client chooses the field and fills it (RFC  *)
(* 6455), lerQuadro reads it back                                          *)
(***************************************************************************)
Campo(n) == IF n <= 125 THEN n ELSE IF n <= 65535 THEN 126 ELSE 127
Extensao(n) == IF Campo(n) = 126 THEN n % 65536 ELSE n

\* What lerQuadro makes of the extended length: 16 bits, or 64, which hold any length.
TamanhoEstendido(campo, valor) == IF campo = 126 THEN valor % 65536 ELSE valor

Estendido(campo) == campo \in {126, 127}

\* The units of a frame q = [op, fim, rsv, mascarado, tam].
Unidades(q) ==
  LET campo == Campo(q.tam)
  IN <<[parte |-> "cabecalho", op |-> q.op, fim |-> q.fim, rsv |-> q.rsv,
        mascarado |-> q.mascarado, campo |-> campo]>>
     \o (IF Estendido(campo) THEN <<[parte |-> "extensao", valor |-> Extensao(q.tam)]>> ELSE <<>>)
     \o <<[parte |-> "corpo"]>>

Soma(s) ==
  LET ate[k \in 0..Len(s)] == IF k = 0 THEN 0 ELSE ate[k - 1] + s[k]
  IN ate[Len(s)]

Init ==
  /\ entrada = <<>>
  /\ acabou = FALSE
  /\ leitura = "cabecalho"
  /\ quadro = SemQuadro
  /\ montando = FALSE
  /\ montagem = <<>>
  /\ entregue = <<>>

Falhar ==
  /\ leitura' = "fim"
  /\ quadro' = SemQuadro
  /\ entregue' = <<>>
  /\ UNCHANGED fragmentos

(***************************************************************************)
(* lerQuadro                                                               *)
(***************************************************************************)
\* The header is refused for its own bits ...
CabecalhoInvalido(u) ==
  \/ u.rsv
  \/ u.op \in Controle /\ (~u.fim \/ u.campo > 125)

\* ... and the frame once its length is known.
QuadroInvalido(u, tam) == ~u.mascarado \/ tam > tamanhoMaximoMensagem

AceitarTamanho(u, tam) ==
  IF QuadroInvalido(u, tam)
  THEN Falhar
  ELSE /\ leitura' = "corpo"
       /\ quadro' = [op |-> u.op, fim |-> u.fim, tam |-> tam]
       /\ entregue' = <<>>
       /\ UNCHANGED fragmentos

Chegou(parte) == leitura = parte /\ entrada # <<>>
Consumir == entrada' = Tail(entrada) /\ UNCHANGED acabou

LerCabecalho ==
  /\ Chegou("cabecalho")
  /\ LET u == Head(entrada) IN
       \/ CabecalhoInvalido(u) /\ Falhar
       \/ /\ ~CabecalhoInvalido(u)
          /\ ~Estendido(u.campo)
          /\ AceitarTamanho(u, u.campo)
       \/ /\ ~CabecalhoInvalido(u)
          /\ Estendido(u.campo)
          /\ leitura' = "extensao"
          /\ quadro' = u
          /\ entregue' = <<>>
          /\ UNCHANGED fragmentos
  /\ Consumir

LerExtensao ==
  /\ Chegou("extensao")
  /\ AceitarTamanho(quadro, TamanhoEstendido(quadro.campo, Head(entrada).valor))
  /\ Consumir

(***************************************************************************)
(* Ler, with the frame complete                                            *)
(***************************************************************************)
Proximo == leitura' = "cabecalho" /\ quadro' = SemQuadro

\* A pong is reported; a ping is answered, and if the answer finds the queue closed or
\* full the reader fails; a close frame ends the reading.
LerControleComDefeito ==                       \* a control frame ends the assembly
  /\ Chegou("corpo")
  /\ quadro.op \in Controle
  /\ Proximo
  /\ montagem' = <<>> /\ UNCHANGED <<montando, entregue>>
  /\ Consumir
LerControle ==
  /\ Chegou("corpo")
  /\ quadro.op \in Controle
  /\ \/ quadro.op # "fechar" /\ Proximo /\ UNCHANGED <<fragmentos, entregue>>
     \/ quadro.op # "pong" /\ Falhar
  /\ Consumir

PassaDoLimiteComDefeito == Soma(montagem) > tamanhoMaximoMensagem
PassaDoLimite == Soma(montagem) + quadro.tam > tamanhoMaximoMensagem

\* A data frame that cannot come here: a start inside a message, a continuation outside
\* of one or that makes the message too large, or an unknown opcode.
ForaDeOrdem ==
  \/ quadro.op = "texto" /\ montando
  \/ quadro.op = "continuacao" /\ (~montando \/ PassaDoLimite)
  \/ quadro.op \notin Dados

LerForaDeOrdem ==
  /\ Chegou("corpo")
  /\ quadro.op \notin Controle
  /\ ForaDeOrdem
  /\ Falhar
  /\ Consumir

Montada == IF quadro.op = "texto" THEN <<quadro.tam>> ELSE Append(montagem, quadro.tam)

LerFragmento ==
  /\ Chegou("corpo")
  /\ quadro.op \notin Controle /\ ~ForaDeOrdem
  /\ ~quadro.fim
  /\ montagem' = Montada
  /\ montando' = TRUE
  /\ Proximo
  /\ UNCHANGED entregue
  /\ Consumir

\* The last fragment: the message goes to the handler.
LerMensagem ==
  /\ Chegou("corpo")
  /\ quadro.op \notin Controle /\ ~ForaDeOrdem
  /\ quadro.fim
  /\ entregue' = Montada
  /\ montagem' = <<>>
  /\ montando' = FALSE
  /\ Proximo
  /\ Consumir

LerErroNoMeio ==                               \* waits for the rest of a frame
  /\ leitura = "cabecalho"
  /\ acabou /\ entrada = <<>>
  /\ Falhar
  /\ UNCHANGED <<entrada, acabou>>

\* A read fails because the stream ended, in the middle of a frame or not.
LerErro ==
  /\ leitura # "fim"
  /\ acabou /\ entrada = <<>>
  /\ Falhar
  /\ UNCHANGED <<entrada, acabou>>

\* A read fails for a reason of the server's: nothing came for tempoLimiteLeitura, or
\* the connection was told to close and the writer has closed the socket.
Interromper ==
  /\ leitura # "fim"
  /\ Falhar
  /\ UNCHANGED <<entrada, acabou>>

\* The steps that hand no message over.
LerSemEntregar ==
  \/ LerCabecalho \/ LerExtensao \/ LerControle \/ LerForaDeOrdem \/ LerFragmento \/ LerErro

\* No message takes more memory than one may, while it is assembled or when it is handed
\* over (websocket.go:37-38), and a message is being assembled only from something.
MontagemLimitada ==
  /\ Soma(montagem) <= tamanhoMaximoMensagem
  /\ Soma(entregue) <= tamanhoMaximoMensagem
  /\ montando <=> montagem # <<>>
=============================================================================
