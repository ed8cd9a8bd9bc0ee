------------------------------- MODULE Ponte -------------------------------
(***************************************************************************)
(* The bridge (src/cmd/ponte/main.go), a program that stands between       *)
(* clients and the servers they name: it admits a limited number of        *)
(* connections, and copies bytes both ways without looking at them.        *)
(*                                                                         *)
(* A connection is a handler goroutine, `etapa` from atender to its        *)
(* deferred calls, and the two goroutines of copiar.  Its two sockets are  *)
(* seen from the bridge: `aqui` with the client, `la` with the server;     *)
(* `cliente` and `servidor` are the other ends of them.  What is copied is *)
(* followed for one connection, the observed one, from the client to the   *)
(* server, in units that a Read may cut between (module Leitor says which);*)
(* what a server says to a client, and what the other connections carry,   *)
(* is not.                                                                 *)
(***************************************************************************)
EXTENDS Naturals, FiniteSets, Sequences

CONSTANTS Ligacao,     \* connections to the bridge
          Observada,   \* the one whose bytes are followed
          Endereco,    \* addresses; the limit per address counts by them
          Nenhum,      \* no address
          De,          \* De[c]: the addresses that c may come from
          totalMaximo, \* the flag -total
          porLimite    \* the flag -por-ip

VARIABLES
  etapa,      \* where the handler of each connection is
  origem,     \* the address it holds a place under
  porIP,      \* p.porIP; an address that is no key has none open
  total,      \* p.total
  aqui, la,   \* sockets of the bridge: "nenhum", "aberto" or "fechado"
  cliente,    \* the client has not closed its end
  servidor,   \* the server accepted the connection and has not closed its end
  copia,      \* the two goroutines of copiar: "nada", "lendo", "escrevendo", "fim"
  enviado,    \* bytes of the observed client that the bridge may still read
  mao,        \* bytes that its copying goroutine holds
  recebido    \* bytes the bridge wrote to the server, which has not read them

contas == <<origem, porIP, total>>
sockets == <<aqui, la, cliente, servidor>>
bytes == <<enviado, mao, recebido>>
vars == <<etapa, contas, sockets, copia, bytes>>

Lado == {"ida", "volta"}     \* umLado(deLa, daqui) and umLado(daqui, deLa)

Init ==
  /\ etapa = [c \in Ligacao |-> "nova"]
  /\ origem = [c \in Ligacao |-> Nenhum]
  /\ porIP = [i \in {} |-> 0]
  /\ total = 0
  /\ aqui = [c \in Ligacao |-> "nenhum"]
  /\ la = [c \in Ligacao |-> "nenhum"]
  /\ cliente = [c \in Ligacao |-> TRUE]
  /\ servidor = [c \in Ligacao |-> FALSE]
  /\ copia = [c \in Ligacao |-> [l \in Lado |-> "nada"]]
  /\ enviado = <<>>
  /\ mao = <<>>
  /\ recebido = <<>>

Ir(c, de, para) == etapa[c] = de /\ etapa' = [etapa EXCEPT ![c] = para]

(***************************************************************************)
(* Places                                                                  *)
(***************************************************************************)
Abertas(i) == IF i \in DOMAIN porIP THEN porIP[i] ELSE 0

Cabe(i) == total < totalMaximo /\ Abertas(i) < porLimite

\* A request without ?alvo, or for a target that validar refuses, takes no place.
Recusar(c) ==
  /\ Ir(c, "nova", "fim")
  /\ UNCHANGED <<contas, sockets, copia, bytes>>

\* reservar, under p.mu.
Reservar(c, i) ==
  /\ Ir(c, "nova", "discar")
  /\ i \in De[c]
  /\ Cabe(i)
  /\ origem' = [origem EXCEPT ![c] = i]
  /\ porIP' = [j \in DOMAIN porIP \cup {i} |-> IF j = i THEN Abertas(i) + 1 ELSE porIP[j]]
  /\ total' = total + 1
  /\ UNCHANGED <<sockets, copia, bytes>>

\* muitas conexoes (429)
RecusarExcesso(c, i) ==
  /\ Ir(c, "nova", "fim")
  /\ i \in De[c]
  /\ ~Cabe(i)
  /\ UNCHANGED <<contas, sockets, copia, bytes>>

\* devolver, the last of the deferred calls.
Devolver(c) ==
  /\ Ir(c, "devolver", "fim")
  /\ porIP' = IF Abertas(origem[c]) <= 1
              THEN [i \in DOMAIN porIP \ {origem[c]} |-> porIP[i]]
              ELSE [porIP EXCEPT ![origem[c]] = @ - 1]
  /\ total' = total - 1
  /\ origem' = [origem EXCEPT ![c] = Nenhum]
  /\ UNCHANGED <<sockets, copia, bytes>>

(***************************************************************************)
(* atender, from the place on                                              *)
(***************************************************************************)
Discar(c) ==
  /\ Ir(c, "discar", "sequestrar")
  /\ la' = [la EXCEPT ![c] = "aberto"]
  /\ servidor' = [servidor EXCEPT ![c] = TRUE]
  /\ UNCHANGED <<contas, aqui, cliente, copia, bytes>>

\* No Hijacker, or no answer from the target within 10 s.
FalharDiscagemComDefeito(c) ==                 \* returns before the defer is set
  /\ Ir(c, "discar", "fim")
  /\ UNCHANGED <<contas, sockets, copia, bytes>>
FalharDiscagem(c) ==
  /\ Ir(c, "discar", "devolver")
  /\ UNCHANGED <<contas, sockets, copia, bytes>>

Sequestrar(c) ==
  /\ Ir(c, "sequestrar", "pedir")
  /\ aqui' = [aqui EXCEPT ![c] = "aberto"]
  /\ UNCHANGED <<contas, la, cliente, servidor, copia, bytes>>

FalharSequestroComDefeito(c) ==                \* the socket with the target has no owner
  /\ Ir(c, "sequestrar", "devolver")
  /\ UNCHANGED <<contas, sockets, copia, bytes>>
FalharSequestro(c) ==
  /\ Ir(c, "sequestrar", "fecharLa")
  /\ UNCHANGED <<contas, sockets, copia, bytes>>

\* The handshake goes to the server with its host rewritten.
EscreverPedido(c) ==
  /\ \/ Ir(c, "pedir", "esvaziar")
     \/ Ir(c, "pedir", "fecharAqui") /\ ~servidor[c]
  /\ UNCHANGED <<contas, sockets, copia, bytes>>

Escrever(c, b) == recebido' = IF c = Observada /\ servidor[c] THEN recebido \o b ELSE recebido

\* Bytes that came along with the handshake sit in the reader that Hijack returned:
\* they go first, and then the two goroutines start.
PassarBuffer(c) ==
  /\ \/ /\ Ir(c, "esvaziar", "copiar")
        /\ copia' = [copia EXCEPT ![c] = [l \in Lado |-> "lendo"]]
        /\ IF c = Observada
           THEN \E n \in 0..Len(enviado) :
                  /\ Escrever(c, SubSeq(enviado, 1, n))
                  /\ enviado' = SubSeq(enviado, n + 1, Len(enviado))
           ELSE UNCHANGED <<enviado, recebido>>
     \/ /\ Ir(c, "esvaziar", "fecharAqui")
        /\ ~servidor[c]
        /\ UNCHANGED <<copia, enviado, recebido>>
  /\ UNCHANGED <<contas, sockets, mao>>

(***************************************************************************)
(* copiar                                                                  *)
(***************************************************************************)
\* One Read.  One unit at a time: a Read that returns more is several in a row.
LerOrigem(c) ==
  /\ c = Observada
  /\ copia[c]["ida"] = "lendo"
  /\ aqui[c] = "aberto"
  /\ enviado # <<>>
  /\ mao' = <<Head(enviado)>>
  /\ enviado' = Tail(enviado)
  /\ copia' = [copia EXCEPT ![c]["ida"] = "escrevendo"]
  /\ UNCHANGED <<etapa, contas, sockets, recebido>>

\* One Write: all of them, or an error: the socket is closed on this side or on the
\* other, or its deadline of 30 s passes, with the bytes written or not (a unit that went
\* in part is one that the server never has whole).
EscreverDestino(c) ==
  /\ copia[c]["ida"] = "escrevendo"
  /\ mao' = <<>>
  /\ \/ /\ la[c] = "aberto"
        /\ Escrever(c, mao)
        /\ copia' = [copia EXCEPT ![c]["ida"] = "lendo"]
        /\ UNCHANGED enviado
     \/ /\ copia' = [copia EXCEPT ![c]["ida"] = "fim"]
        /\ enviado' = <<>>
        /\ \/ UNCHANGED recebido
           \/ la[c] = "aberto" /\ Escrever(c, mao)
  /\ UNCHANGED <<etapa, contas, sockets>>

\* A Read fails because the socket was closed: by the bridge, or by the other end, of
\* which the bytes that are on the way may be lost.
AcabarCopia(c, l) ==
  /\ copia[c][l] = "lendo"
  /\ IF l = "ida" THEN aqui[c] = "fechado" \/ ~cliente[c]
                  ELSE la[c] = "fechado" \/ ~servidor[c]
  /\ copia' = [copia EXCEPT ![c][l] = "fim"]
  /\ enviado' = IF c = Observada /\ l = "ida" THEN <<>> ELSE enviado
  /\ UNCHANGED <<etapa, contas, sockets, mao, recebido>>

\* The idle deadline of one direction passes, or what the server says cannot be written
\* to a client that left.
InterromperCopia(c, l) ==
  /\ copia[c][l] = "lendo"
  /\ l = "ida" /\ c = Observada => enviado = <<>>
  /\ copia' = [copia EXCEPT ![c][l] = "fim"]
  /\ UNCHANGED <<etapa, contas, sockets, bytes>>

\* copiar returns with the first of the two (pronto holds two, so the other one never
\* waits to report), and the deferred calls run in reverse order.
TerminarCopiaComDefeito(c) ==                  \* waits for both
  /\ Ir(c, "copiar", "fecharAqui")
  /\ \A l \in Lado : copia[c][l] = "fim"
  /\ UNCHANGED <<contas, sockets, copia, bytes>>
TerminarCopia(c) ==
  /\ Ir(c, "copiar", "fecharAqui")
  /\ \E l \in Lado : copia[c][l] = "fim"
  /\ UNCHANGED <<contas, sockets, copia, bytes>>

FecharAqui(c) ==
  /\ Ir(c, "fecharAqui", "fecharLa")
  /\ aqui' = [aqui EXCEPT ![c] = "fechado"]
  /\ UNCHANGED <<contas, la, cliente, servidor, copia, bytes>>

FecharLa(c) ==
  /\ Ir(c, "fecharLa", "devolver")
  /\ la' = [la EXCEPT ![c] = "fechado"]
  /\ UNCHANGED <<contas, aqui, cliente, servidor, copia, bytes>>

(***************************************************************************)
(* The two ends                                                            *)
(***************************************************************************)
ClienteFecha(c) ==
  /\ etapa[c] # "nova" /\ cliente[c]
  /\ cliente' = [cliente EXCEPT ![c] = FALSE]
  /\ UNCHANGED <<etapa, contas, aqui, la, servidor, copia, bytes>>

ServidorFecha(c) ==
  /\ servidor[c]
  /\ servidor' = [servidor EXCEPT ![c] = FALSE]
  /\ recebido' = IF c = Observada THEN <<>> ELSE recebido
  /\ UNCHANGED <<etapa, contas, aqui, la, cliente, copia, enviado, mao>>

-----------------------------------------------------------------------------
\* What a handler does by itself once it has a place ...
Atender(c) ==
  \/ Discar(c) \/ FalharDiscagem(c) \/ Sequestrar(c) \/ FalharSequestro(c)
  \/ EscreverPedido(c) \/ PassarBuffer(c)
  \/ TerminarCopia(c) \/ FecharAqui(c) \/ FecharLa(c) \/ Devolver(c)

\* ... and what its copying goroutines do when there is something to do.
Copiar(c) == LerOrigem(c) \/ EscreverDestino(c) \/ \E l \in Lado : AcabarCopia(c, l)

(***************************************************************************)
(* Properties                                                              *)
(***************************************************************************)
ComLugar == {c \in Ligacao : etapa[c] \notin {"nova", "fim"}}

\* The counters are the handlers that hold a place, on whatever way each of them goes
\* out: no limit is passed, no place is lost, and an address that has nothing open is no
\* longer a key (the map would grow with every address that ever came).
ContasCertas ==
  /\ total = Cardinality(ComLugar)
  /\ DOMAIN porIP = {origem[c] : c \in ComLugar}
  /\ \A i \in DOMAIN porIP : porIP[i] = Cardinality({c \in ComLugar : origem[c] = i})
  /\ total <= totalMaximo
  /\ \A i \in DOMAIN porIP : porIP[i] <= porLimite

\* The limits bound what the bridge has open and not only what it counts: a socket is
\* open under a place, on either side, and a goroutine of copiar outlasts the place of
\* its connection only with both sockets closed, where no Read or Write of it can wait.
SocketsContados == \A c \in Ligacao :
  /\ aqui[c] = "aberto" \/ la[c] = "aberto" => etapa[c] \notin {"nova", "devolver", "fim"}
  /\ (\E l \in Lado : copia[c][l] \in {"lendo", "escrevendo"}) =>
       \/ etapa[c] \in {"copiar", "fecharAqui", "fecharLa"}
       \/ aqui[c] = "fechado" /\ la[c] = "fechado"

\* What a connection has of the bridge: its place, and goroutines.
Ocupa(c) == etapa[c] \notin {"nova", "fim"} \/ \E l \in Lado : copia[c][l] \in {"lendo", "escrevendo"}

\* In the end only a connection with both its ends open has anything of the bridge left:
\* on every other way its place comes back, and no goroutine of it is left behind, since
\* closing both sockets wakes the direction that was still reading.
TudoDevolvido ==
  []<>(\A c \in Ligacao : Ocupa(c) => etapa[c] = "copiar" /\ cliente[c] /\ servidor[c])
=============================================================================
