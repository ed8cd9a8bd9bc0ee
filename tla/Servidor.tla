------------------------------ MODULE Servidor ------------------------------
(***************************************************************************)
(* The life of a connection in the server and the shutdown                 *)
(* (src/src/sinalizacao.go and the end of src/src/main.go): the places for *)
(* connections (vagas), the set of open connections, the three goroutines  *)
(* of each one and the order in which Fechar and main take things down.    *)
(*                                                                         *)
(*   etapa[c]   "fora"       not connected                                 *)
(*              "aperto"     has a place, in AceitarWebSocket              *)
(*              "aceita"     handshake done, not in s.conexoes             *)
(*              "atende"     in s.conexoes, the reader loop runs           *)
(*              "saindo"     deferred: hub.Sair and conexao.Fechar         *)
(*              "baixa"      deferred: to be deleted from s.conexoes       *)
(*              "devolve"    deferred: to give the place back              *)
(*              "fim"        handler returned                              *)
(* An upgraded socket is out of http.Server's hands; what goes over it is  *)
(* in Hub and FilaSaida.                                                   *)
(***************************************************************************)
EXTENDS Naturals, FiniteSets

CONSTANTS Conexoes,           \* clients that may connect, once each
          maximoConexoes      \* GREENLABS_MAX_CONEXOES

ASSUME ServidorAssumption ==
  /\ IsFiniteSet(Conexoes)
  /\ maximoConexoes \in Nat \ {0}

VARIABLES
  etapa,
  vagas,        \* len(s.vagas)
  conexoes,     \* s.conexoes
  encerrando,   \* s.encerrando
  fechado,      \* connections whose c.fechado is closed
  rede,         \* connections whose socket is open
  escritor, coracao,   \* connections whose Escritor, baterCoracao run
  midia,        \* connections with a session in the media relay
  escutando,    \* the listener accepts
  passo,        \* main: "espera" a signal, "fecha" (the loop of Fechar), "desliga"
                \*   (Shutdown returned), "fim" (its defers have run)
  aFechar,      \* the copy of s.conexoes the loop walks
  midiaFechada  \* FecharMidia was called

vars == <<etapa, vagas, conexoes, encerrando, fechado, rede, escritor, coracao, midia,
          escutando, passo, aFechar, midiaFechada>>

goroutines == <<escritor, coracao>>
encerramento == <<encerrando, escutando, passo, aFechar, midiaFechada>>

Init ==
  /\ etapa = [c \in Conexoes |-> "fora"]
  /\ vagas = 0
  /\ conexoes = {}
  /\ encerrando = FALSE
  /\ fechado = {} /\ rede = {} /\ escritor = {} /\ coracao = {} /\ midia = {}
  /\ escutando = TRUE
  /\ passo = "espera"
  /\ aFechar = {}
  /\ midiaFechada = FALSE

Ir(c, onde) == etapa' = [etapa EXCEPT ![c] = onde]

(***************************************************************************)
(* atenderWebSocket                                                        *)
(***************************************************************************)
\* The variants named ..ComDefeito, here and below, are mistakes that would be easy
\* to make; each is what some property is there to notice.
TemVaga == vagas < maximoConexoes

\* The select on s.vagas; without a place the answer is 503 and the handler returns.
TomarVaga(c) ==
  /\ etapa[c] = "fora"
  /\ escutando
  /\ IF TemVaga THEN vagas' = vagas + 1 /\ Ir(c, "aperto")
                ELSE Ir(c, "fim") /\ UNCHANGED vagas
  /\ UNCHANGED <<conexoes, fechado, rede, goroutines, midia, encerramento>>

\* AceitarWebSocket: the socket is taken over, or the request is refused and only the
\* place has to be given back.
Apertar(c) ==
  /\ etapa[c] = "aperto"
  /\ \/ rede' = rede \cup {c} /\ Ir(c, "aceita")
     \/ Ir(c, "devolve") /\ UNCHANGED rede
  /\ UNCHANGED <<vagas, conexoes, fechado, goroutines, midia, encerramento>>

RegistrarComDefeito(c) ==                      \* does not look at s.encerrando
  /\ etapa[c] = "aceita"
  /\ conexoes' = conexoes \cup {c}
  /\ escritor' = escritor \cup {c}
  /\ coracao' = coracao \cup {c}
  /\ Ir(c, "atende")
  /\ UNCHANGED <<vagas, fechado, rede, midia, encerramento>>

\* Under conexoesMu: into s.conexoes, or out again when the server is closing.
Registrar(c) ==
  /\ etapa[c] = "aceita"
  /\ IF encerrando
     THEN /\ fechado' = fechado \cup {c}
          /\ rede' = rede \ {c}
          /\ Ir(c, "devolve")
          /\ UNCHANGED <<conexoes, goroutines>>
     ELSE /\ conexoes' = conexoes \cup {c}
          /\ escritor' = escritor \cup {c}
          /\ coracao' = coracao \cup {c}
          /\ Ir(c, "atende")
          /\ UNCHANGED <<fechado, rede>>
  /\ UNCHANGED <<vagas, midia, encerramento>>

\* A `join`: the hub opens a session with the media relay.
AbrirMidia(c) ==
  /\ etapa[c] = "atende"
  /\ midia' = midia \cup {c}
  /\ UNCHANGED <<etapa, vagas, conexoes, fechado, rede, goroutines, encerramento>>

\* Ler returns an error: the client's doing, or the socket was closed.
LerErro(c) ==
  /\ etapa[c] = "atende"
  /\ Ir(c, "saindo")
  /\ UNCHANGED <<vagas, conexoes, fechado, rede, goroutines, midia, encerramento>>

SairComDefeito(c) ==                           \* leaves the socket to the writer, untold
  /\ etapa[c] = "saindo"
  /\ midia' = midia \ {c}
  /\ Ir(c, "baixa")
  /\ UNCHANGED <<vagas, conexoes, fechado, rede, goroutines, encerramento>>

\* The defers, last registered first: hub.Sair, which closes the media session, and
\* conexao.Fechar ...
Sair(c) ==
  /\ etapa[c] = "saindo"
  /\ midia' = midia \ {c}
  /\ fechado' = fechado \cup {c}
  /\ Ir(c, "baixa")
  /\ UNCHANGED <<vagas, conexoes, rede, goroutines, encerramento>>

\* ... out of s.conexoes ...
DarBaixa(c) ==
  /\ etapa[c] = "baixa"
  /\ conexoes' = conexoes \ {c}
  /\ Ir(c, "devolve")
  /\ UNCHANGED <<vagas, fechado, rede, goroutines, midia, encerramento>>

DevolverVagaComDefeito(c) ==                   \* only where the reader loop was reached
  /\ etapa[c] = "devolve"
  /\ vagas' = IF c \in fechado THEN vagas - 1 ELSE vagas
  /\ Ir(c, "fim")
  /\ UNCHANGED <<conexoes, fechado, rede, goroutines, midia, encerramento>>

\* ... and the place is free.
DevolverVaga(c) ==
  /\ etapa[c] = "devolve"
  /\ vagas' = vagas - 1
  /\ Ir(c, "fim")
  /\ UNCHANGED <<conexoes, fechado, rede, goroutines, midia, encerramento>>

\* A full queue or a failed write closes the connection from outside of its reader.
FecharPorFora(c) ==
  /\ c \in escritor
  /\ fechado' = fechado \cup {c}
  /\ UNCHANGED <<etapa, vagas, conexoes, rede, goroutines, midia, encerramento>>

\* Escritor sees fechado, drains and closes the socket; baterCoracao returns.
PararEscritor(c) ==
  /\ c \in escritor \cap fechado
  /\ escritor' = escritor \ {c}
  /\ rede' = rede \ {c}
  /\ UNCHANGED <<etapa, vagas, conexoes, fechado, coracao, midia, encerramento>>

PararCoracao(c) ==
  /\ c \in coracao \cap fechado
  /\ coracao' = coracao \ {c}
  /\ UNCHANGED <<etapa, vagas, conexoes, fechado, rede, escritor, midia, encerramento>>

(***************************************************************************)
(* Servidor.Fechar, called by main, and the end of main                    *)
(***************************************************************************)
\* Under conexoesMu: the flag and the copy.
ComecarFechar ==
  /\ passo = "espera"
  /\ passo' = "fecha"
  /\ encerrando' = TRUE
  /\ aFechar' = conexoes
  /\ UNCHANGED <<etapa, vagas, conexoes, fechado, rede, goroutines, midia, escutando,
                 midiaFechada>>

FecharUma ==
  /\ passo = "fecha"
  /\ \E c \in aFechar :
       /\ aFechar' = aFechar \ {c}
       /\ fechado' = fechado \cup {c}
       /\ rede' = rede \ {c}
  /\ UNCHANGED <<etapa, vagas, conexoes, goroutines, midia, encerrando, escutando, passo,
                 midiaFechada>>

\* hub.Parar and http.Shutdown, which stops listening and waits at most 3 s for the
\* requests that were not taken over.
Desligar ==
  /\ passo = "fecha"
  /\ aFechar = {}
  /\ escutando' = FALSE
  /\ passo' = "desliga"
  /\ UNCHANGED <<etapa, vagas, conexoes, fechado, rede, goroutines, midia, encerrando,
                 aFechar, midiaFechada>>

FecharMidiaComDefeito ==                       \* before Fechar instead of after it
  /\ passo = "espera"
  /\ ~midiaFechada
  /\ midiaFechada' = TRUE
  /\ UNCHANGED <<etapa, vagas, conexoes, fechado, rede, goroutines, midia, encerrando,
                 escutando, passo, aFechar>>

\* Fechar returns and main runs its defers, FecharMidia among them.
FecharMidia ==
  /\ passo = "desliga"
  /\ passo' = "fim"
  /\ midiaFechada' = TRUE
  /\ UNCHANGED <<etapa, vagas, conexoes, fechado, rede, goroutines, midia, encerrando,
                 escutando, aFechar>>

SocketFechado(c) == c \notin rede

Passo(c) ==
  \/ Apertar(c) \/ Registrar(c) \/ Sair(c) \/ DarBaixa(c) \/ DevolverVaga(c)
  \/ PararEscritor(c) \/ PararCoracao(c)
  \/ SocketFechado(c) /\ LerErro(c)

Encerramento == FecharUma \/ Desligar \/ FecharMidia

Next ==
  \/ \E c \in Conexoes : Passo(c) \/ TomarVaga(c) \/ AbrirMidia(c) \/ LerErro(c) \/ FecharPorFora(c)
  \/ ComecarFechar
  \/ Encerramento

\* Goroutines are scheduled, and a read of a closed socket fails.  No client has to
\* connect or leave, and no signal has to come.  (A bufio.Reader may still hold a few
\* messages when its socket closes; each ends in a finite time.)
Fairness ==
  /\ \A c \in Conexoes :
       /\ WF_vars(Apertar(c) \/ Registrar(c) \/ Sair(c) \/ DarBaixa(c) \/ DevolverVaga(c))
       /\ WF_vars(SocketFechado(c) /\ LerErro(c))
       /\ WF_vars(PararEscritor(c)) /\ WF_vars(PararCoracao(c))
  /\ WF_vars(Encerramento)

Spec == Init /\ [][Next]_vars
FairSpec == Spec /\ Fairness
-----------------------------------------------------------------------------
(***************************************************************************)
(* Properties                                                              *)
(***************************************************************************)
Etapa == {"fora", "aperto", "aceita", "atende", "saindo", "baixa", "devolve", "fim"}

TypeOK ==
  /\ etapa \in [Conexoes -> Etapa]
  /\ vagas \in 0..maximoConexoes
  /\ conexoes \in SUBSET Conexoes
  /\ encerrando \in BOOLEAN
  /\ fechado \in SUBSET Conexoes
  /\ rede \in SUBSET Conexoes
  /\ escritor \in SUBSET Conexoes
  /\ coracao \in SUBSET Conexoes
  /\ midia \in SUBSET Conexoes
  /\ escutando \in BOOLEAN
  /\ passo \in {"espera", "fecha", "desliga", "fim"}
  /\ aFechar \in SUBSET Conexoes
  /\ midiaFechada \in BOOLEAN

ComVaga == {c \in Conexoes : etapa[c] \notin {"fora", "fim"}}

\* Every path out of the handler, the refused handshake and the one that lost the race
\* with the shutdown included, gives back the place it took, and no other.
VagasConservadas == vagas = Cardinality(ComVaga)

\* Once Fechar has walked its copy, no connection is left open that it did not see: one
\* that finished its handshake meanwhile finds s.encerrando (Shutdown does not close
\* sockets that were taken over, sinalizacao.go:76).
NenhumaEscapa ==
  passo \in {"desliga", "fim"} => \A c \in conexoes : c \in fechado /\ SocketFechado(c)

\* What makes it inductive: the flag is up before the copy is taken, only a handler past
\* its handshake is in s.conexoes, and what the loop has yet to close is in the copy.
FechadaDeVez(c) == c \in fechado /\ SocketFechado(c)

EscapeCoberto ==
  /\ passo # "espera" => encerrando
  /\ \A c \in conexoes : etapa[c] \in {"atende", "saindo", "baixa"}
  /\ passo = "fecha" => \A c \in conexoes : c \in aFechar \/ FechadaDeVez(c)
  /\ passo \in {"desliga", "fim"} => \A c \in conexoes : FechadaDeVez(c)

\* The relay's port is released last: a session that is still open by then belongs to
\* a connection that was closed, and whose handler is about to leave it.  (That none is
\* open, as sfu.go:244 has it, is more than main waits for.)
MidiaPorUltimo ==
  midiaFechada => \A c \in midia : FechadaDeVez(c) /\ etapa[c] \in {"atende", "saindo"}

\* What makes it inductive: a session is opened and left by the handler of a registered
\* connection, and the port is released at the very end.
MidiaRegistrada ==
  /\ \A c \in Conexoes : etapa[c] \in {"atende", "saindo"} => c \in conexoes
  /\ \A c \in midia : etapa[c] \in {"atende", "saindo"}
  /\ midiaFechada => passo = "fim"

\* Every open socket has somebody who will close it, the handler that has just taken it
\* over or its writer; and the writer and the heartbeat of a connection have been told
\* to stop, or its handler has still to come to the defer that tells them.  No order of
\* the handler, the two goroutines, a full queue and the shutdown leaves one behind
\* (sinalizacao.go:130-160, websocket.go:208-209).
FechoAssegurado ==
  \A c \in Conexoes :
    /\ c \in rede => etapa[c] = "aceita" \/ c \in escritor
    /\ c \in escritor \cup coracao => c \in fechado \/ etapa[c] \in {"atende", "saindo"}

\* No connection keeps its writer or its heartbeat after its handler returned.
SemGoroutinePerdida ==
  \A c \in Conexoes : etapa[c] = "fim" ~> c \notin escritor /\ c \notin coracao /\ c \notin rede

\* After a shutdown every place is free again (escala_test.go:53-60) and no session is
\* left open.
TudoLiberado == passo = "fim" ~> vagas = 0 /\ midia = {}
=============================================================================
