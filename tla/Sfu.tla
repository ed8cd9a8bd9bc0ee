-------------------------------- MODULE Sfu --------------------------------
(***************************************************************************)
(* The media relay (src/src/sfu.go) in one room: whose session is          *)
(* registered, which tracks are on the air, and which session carries      *)
(* which track.  Rooms share nothing but the lock, so one room is enough.  *)
(*                                                                         *)
(* Three kinds of goroutine meet here:                                     *)
(*   - the reader of each participant (module Hub), which calls Entrar and *)
(*     Sair, one after the other: `fase`;                                  *)
(*   - one goroutine per published track, from OnTrack to removerFaixa:    *)
(*     `publicacao`;                                                       *)
(*   - one goroutine per connection state that pion reports, which calls   *)
(*     Sair with the name of the participant: `avisos`.                    *)
(* s.mu protects the registry and the list of tracks and is released       *)
(* before any session is touched.  What offers and answers do with the     *)
(* tracks of a session is module Negociacao.                               *)
(*                                                                         *)
(* A session is <<participant, how many times it has entered>>.  A session *)
(* publishes at most one track, and the track is named by its session.     *)
(***************************************************************************)
EXTENDS Naturals, FiniteSets

CONSTANTS Peer,
          Publica,      \* participants that publish a track
          Volta,        \* participants that come back after they leave ...
          MaxSessoes,   \* ... up to this number of times in the room (a bound)
          IdEstavel     \* a participant publishes under the same track id each time

ASSUME SfuAssumption ==
  /\ Publica \subseteq Peer
  /\ Volta \subseteq Peer
  /\ MaxSessoes \in Nat \ {0}
  /\ IdEstavel \in BOOLEAN

Visitas(p) == IF p \in Volta THEN MaxSessoes ELSE 1

Dono(x) == x[1]
Sessao == {x \in Peer \X (1..MaxSessoes) : x[2] <= Visitas(Dono(x))}
Faixa == {x \in Sessao : Dono(x) \in Publica}

\* A reader is not the goroutine of a track.
ASSUME GoroutinesAssumption == Peer \cap Faixa = {}

VARIABLES
  registro,    \* s.salas[sala]: the session of each participant, 0 for none
  faixas,      \* s.faixas[sala]
  atual,       \* sessions each participant has had
  fase,        \* the reader: "fora", "assinando", "ligando" (in Entrar), "dentro", "saindo"
  porAssinar,  \* faixasExistentes still to be subscribed by Entrar
  emCurso,     \* the one Entrar or the goroutine of a track is at, if any
  estado,      \* a session: "nenhuma", "viva", "retirada" from the registry,
               \*   "marcada" (fechada = true), "encerrada" (conexao.Close called)
  falhou,      \* sessions whose transport pion reported as failed
  avisos,      \* state callbacks of a session that have not run yet
  saidas,      \* the keys of sessao.saidas
  remetentes,  \* tracks the connection of a session has a sender for
  publicacao,  \* the goroutine of a track: "nada", "chegou", "assinando", "ligando",
               \*   "bombeando", "removendo", "soltando", "fim"
  destinos     \* sessions that goroutine still has to visit

mesa == <<registro, faixas>>
leitura == <<atual, fase, porAssinar>>
ligacao == <<estado, falhou, avisos>>
midia == <<saidas, remetentes>>
trabalho == <<publicacao, destinos>>
vars == <<mesa, leitura, emCurso, ligacao, midia, trabalho>>

Init ==
  /\ registro = [p \in Peer |-> 0]
  /\ faixas = {}
  /\ atual = [p \in Peer |-> 0]
  /\ fase = [p \in Peer |-> "fora"]
  /\ porAssinar = [p \in Peer |-> {}]
  /\ emCurso = [t \in Peer \cup Faixa |-> {}]
  /\ estado = [x \in Sessao |-> "nenhuma"]
  /\ falhou = {}
  /\ avisos = [x \in Sessao |-> 0]
  /\ saidas = [x \in Sessao |-> {}]
  /\ remetentes = [x \in Sessao |-> {}]
  /\ publicacao = [f \in Faixa |-> "nada"]
  /\ destinos = [f \in Faixa |-> {}]

SessaoDe(p) == <<p, atual[p]>>

\* The key under which a session holds a track: the owner and the id of the track.
Id(f) == IF IdEstavel THEN Dono(f) ELSE f

\* The variants named ..ComDefeito are mistakes that would be easy to make; each is
\* what some property is there to notice.
RegistradasComDefeito(exceto) == {}            \* only newcomers are subscribed
Registradas(exceto) == {x \in Sessao : Dono(x) # exceto /\ registro[Dono(x)] = x[2]}

(***************************************************************************)
(* assinar, by thread t for session x and track f: the check and the key   *)
(* under destino.mu, then the transceiver.                                 *)
(***************************************************************************)
Fechada(x) == estado[x] \in {"marcada", "encerrada"}

PodeAssinar(x, f) == ~Fechada(x) /\ Id(f) \notin saidas[x]

AnotarSaida(t, x, f, aoTratar) ==
  IF PodeAssinar(x, f)
  THEN /\ saidas' = [saidas EXCEPT ![x] = @ \cup {Id(f)}]
       /\ emCurso' = [emCurso EXCEPT ![t] = {aoTratar}]
  ELSE UNCHANGED <<saidas, emCurso>>

\* AddTransceiverFromTrack fails once the connection is closed.
LigarTransceptor(t, x, f) ==
  /\ IF estado[x] = "encerrada"
     THEN saidas' = [saidas EXCEPT ![x] = @ \ {Id(f)}] /\ UNCHANGED remetentes
     ELSE remetentes' = [remetentes EXCEPT ![x] = @ \cup {f}] /\ UNCHANGED saidas
  /\ emCurso' = [emCurso EXCEPT ![t] = {}]

(***************************************************************************)
(* Entrar                                                                  *)
(***************************************************************************)
DeOutros(p) == {f \in faixas : Dono(f) # p}

\* The connection is made, and under s.mu the session registered and the list of
\* tracks copied.  An entry that fails before that (NewPeerConnection, the two
\* transceivers) leaves nothing behind, and the Sair that ends such a visit finds no
\* session: here it is a stutter.
Entrar(p) ==
  /\ fase[p] = "fora"
  /\ atual[p] < Visitas(p)
  /\ atual' = [atual EXCEPT ![p] = @ + 1]
  /\ registro' = [registro EXCEPT ![p] = atual[p] + 1]
  /\ estado' = [estado EXCEPT ![<<p, atual[p] + 1>>] = "viva"]
  /\ porAssinar' = [porAssinar EXCEPT ![p] = DeOutros(p)]
  /\ fase' = [fase EXCEPT ![p] = "assinando"]
  /\ UNCHANGED <<midia, trabalho, faixas, emCurso, falhou, avisos>>

AssinarExistente(p) ==
  /\ fase[p] = "assinando"
  /\ \E f \in porAssinar[p] :
       /\ porAssinar' = [porAssinar EXCEPT ![p] = @ \ {f}]
       /\ AnotarSaida(p, SessaoDe(p), f, f)
       /\ fase' = IF PodeAssinar(SessaoDe(p), f)
                  THEN [fase EXCEPT ![p] = "ligando"] ELSE fase
  /\ UNCHANGED <<mesa, ligacao, trabalho, atual, remetentes>>

LigarExistente(p) ==
  /\ fase[p] = "ligando"
  /\ \E f \in emCurso[p] : LigarTransceptor(p, SessaoDe(p), f)
  /\ fase' = [fase EXCEPT ![p] = "assinando"]
  /\ UNCHANGED <<mesa, ligacao, trabalho, atual, porAssinar>>

\* One offer with everything in it, and Entrar returns.
TerminarEntrada(p) ==
  /\ fase[p] = "assinando"
  /\ porAssinar[p] = {}
  /\ fase' = [fase EXCEPT ![p] = "dentro"]
  /\ UNCHANGED <<mesa, ligacao, midia, trabalho, atual, porAssinar, emCurso>>

(***************************************************************************)
(* Sair                                                                    *)
(***************************************************************************)
RetirarSemFechar(p) ==                         \* out of the registry, and never closed
  /\ registro' = [registro EXCEPT ![p] = 0]
  /\ faixas' = IF \A q \in Peer \ {p} : registro[q] = 0 THEN {} ELSE faixas
  /\ UNCHANGED estado
RetirarApagando(p) ==                          \* the list goes with any session
  IF registro[p] = 0 THEN UNCHANGED <<mesa, estado>>
  ELSE /\ registro' = [registro EXCEPT ![p] = 0]
       /\ estado' = [estado EXCEPT ![<<p, registro[p]>>] = "retirada"]
       /\ faixas' = {}

\* The section under s.mu, whoever calls: the session of that NAME goes, if there is
\* one, and the track list of a room that has no session (left).
Retirar(p) ==
  /\ registro' = [registro EXCEPT ![p] = 0]
  /\ estado' = IF registro[p] = 0 THEN estado
               ELSE [estado EXCEPT ![<<p, registro[p]>>] = "retirada"]
  /\ faixas' = IF \A q \in Peer \ {p} : registro[q] = 0 THEN {} ELSE faixas

\* Called by the reader of p, which waits for the rest of it.
Sair(p) ==
  /\ fase[p] = "dentro"
  /\ Retirar(p)
  /\ fase' = [fase EXCEPT ![p] = IF registro[p] = 0 THEN "fora" ELSE "saindo"]
  /\ UNCHANGED <<midia, trabalho, atual, porAssinar, emCurso, falhou, avisos>>

MarcarFechada(x) ==
  /\ estado[x] = "retirada"
  /\ estado' = [estado EXCEPT ![x] = "marcada"]
  /\ UNCHANGED <<mesa, leitura, midia, trabalho, emCurso, falhou, avisos>>

FecharConexaoEsperando(x) ==                   \* waits for the track that waits for it
  /\ estado[x] = "marcada"
  /\ x \in Faixa => publicacao[x] \in {"nada", "fim"}
  /\ estado' = [estado EXCEPT ![x] = "encerrada"]
  /\ avisos' = [avisos EXCEPT ![x] = @ + 1]
  /\ UNCHANGED <<mesa, leitura, midia, trabalho, emCurso, falhou>>

\* conexao.Close, which makes pion report the state "closed" in a goroutine of its own.
FecharConexao(x) ==
  /\ estado[x] = "marcada"
  /\ estado' = [estado EXCEPT ![x] = "encerrada"]
  /\ avisos' = [avisos EXCEPT ![x] = @ + 1]
  /\ UNCHANGED <<mesa, leitura, midia, trabalho, emCurso, falhou>>

TerminarSaida(p) ==
  /\ fase[p] = "saindo"
  /\ estado[SessaoDe(p)] = "encerrada"
  /\ fase' = [fase EXCEPT ![p] = "fora"]
  /\ UNCHANGED <<mesa, ligacao, midia, trabalho, atual, porAssinar, emCurso>>

\* The transport of a session that has been offered fails.
Falhar(x) ==
  /\ estado[x] = "viva"
  /\ x \notin falhou
  /\ x # SessaoDe(Dono(x)) \/ fase[Dono(x)] \notin {"assinando", "ligando"}
  /\ falhou' = falhou \cup {x}
  /\ avisos' = [avisos EXCEPT ![x] = @ + 1]
  /\ UNCHANGED <<mesa, leitura, midia, trabalho, emCurso, estado>>

\* OnConnectionStateChange, for "failed" or "closed".
AoMudarEstado(x) ==
  /\ avisos[x] > 0
  /\ avisos' = [avisos EXCEPT ![x] = @ - 1]
  /\ Retirar(Dono(x))
  /\ UNCHANGED <<leitura, midia, trabalho, emCurso, falhou>>

(***************************************************************************)
(* aoReceberFaixa                                                          *)
(***************************************************************************)
\* OnTrack, once the participant has answered the offer.
FaixaChega(f) ==
  /\ publicacao[f] = "nada"
  /\ estado[f] \in {"viva", "retirada", "marcada"}
  /\ f # SessaoDe(Dono(f)) \/ fase[Dono(f)] \notin {"assinando", "ligando"}
  /\ publicacao' = [publicacao EXCEPT ![f] = "chegou"]
  /\ UNCHANGED <<mesa, leitura, ligacao, midia, emCurso, destinos>>

\* Under s.mu: on the air, and the list of who was already in the room.  Where
\* NewTrackLocalStaticRTP refuses the codec the goroutine returns before this with
\* nothing done: a track that never arrives, which no property tells apart.
Publicar(f) ==
  /\ publicacao[f] = "chegou"
  /\ faixas' = faixas \cup {f}
  /\ destinos' = [destinos EXCEPT ![f] = Registradas(Dono(f))]
  /\ publicacao' = [publicacao EXCEPT ![f] = "assinando"]
  /\ UNCHANGED <<leitura, ligacao, midia, registro, emCurso>>

AssinarDestino(f) ==
  /\ publicacao[f] = "assinando"
  /\ \E x \in destinos[f] :
       /\ destinos' = [destinos EXCEPT ![f] = @ \ {x}]
       /\ AnotarSaida(f, x, f, x)
       /\ publicacao' = IF PodeAssinar(x, f)
                        THEN [publicacao EXCEPT ![f] = "ligando"] ELSE publicacao
  /\ UNCHANGED <<mesa, leitura, ligacao, remetentes>>

LigarDestino(f) ==
  /\ publicacao[f] = "ligando"
  /\ \E x \in emCurso[f] : LigarTransceptor(f, x, f)
  /\ publicacao' = [publicacao EXCEPT ![f] = "assinando"]
  /\ UNCHANGED <<mesa, leitura, ligacao, destinos>>

Bombear(f) ==
  /\ publicacao[f] = "assinando"
  /\ destinos[f] = {}
  /\ publicacao' = [publicacao EXCEPT ![f] = "bombeando"]
  /\ UNCHANGED <<mesa, leitura, ligacao, midia, emCurso, destinos>>

RemoverFaixaComDefeito(f) ==                   \* the senders go, the list keeps it
  /\ publicacao[f] = "bombeando"
  /\ destinos' = [destinos EXCEPT ![f] = Registradas(Dono(f))]
  /\ publicacao' = [publicacao EXCEPT ![f] = "removendo"]
  /\ UNCHANGED <<mesa, leitura, ligacao, midia, emCurso>>

\* The read of the origin fails: its connection is closed, or its owner stopped it.
\* removerFaixa, under s.mu: off the air, and the list of who is in the room now.
RemoverFaixa(f) ==
  /\ publicacao[f] = "bombeando"
  /\ faixas' = faixas \ {f}
  /\ destinos' = [destinos EXCEPT ![f] = Registradas(Dono(f))]
  /\ publicacao' = [publicacao EXCEPT ![f] = "removendo"]
  /\ UNCHANGED <<leitura, ligacao, midia, registro, emCurso>>

\* The key is deleted by its id, under destino.mu ...
EsquecerSaida(f) ==
  /\ publicacao[f] = "removendo"
  /\ \E x \in destinos[f] :
       /\ destinos' = [destinos EXCEPT ![f] = @ \ {x}]
       /\ emCurso' = [emCurso EXCEPT ![f] = {x}]
       /\ saidas' = [saidas EXCEPT ![x] = @ \ {Id(f)}]
  /\ publicacao' = [publicacao EXCEPT ![f] = "soltando"]
  /\ UNCHANGED <<mesa, leitura, ligacao, remetentes>>

\* ... and the sender found by the track itself.
SoltarRemetente(f) ==
  /\ publicacao[f] = "soltando"
  /\ \E x \in emCurso[f] : remetentes' = [remetentes EXCEPT ![x] = @ \ {f}]
  /\ emCurso' = [emCurso EXCEPT ![f] = {}]
  /\ publicacao' = [publicacao EXCEPT ![f] = "removendo"]
  /\ UNCHANGED <<mesa, leitura, ligacao, saidas, destinos>>

TerminarFaixa(f) ==
  /\ publicacao[f] = "removendo"
  /\ destinos[f] = {}
  /\ publicacao' = [publicacao EXCEPT ![f] = "fim"]
  /\ UNCHANGED <<mesa, leitura, ligacao, midia, emCurso, destinos>>

\* Steps of a goroutine that is in the middle of its work.
PassoPeer(p) == AssinarExistente(p) \/ LigarExistente(p) \/ TerminarEntrada(p) \/ TerminarSaida(p)
PassoSessao(x) == MarcarFechada(x) \/ FecharConexao(x) \/ AoMudarEstado(x)
PassoFaixa(f) ==
  \/ Publicar(f) \/ AssinarDestino(f) \/ LigarDestino(f) \/ Bombear(f)
  \/ EsquecerSaida(f) \/ SoltarRemetente(f) \/ TerminarFaixa(f)
  \/ estado[f] = "encerrada" /\ RemoverFaixa(f)

Next ==
  \/ \E p \in Peer : Entrar(p) \/ Sair(p) \/ PassoPeer(p)
  \/ \E x \in Sessao : Falhar(x) \/ PassoSessao(x)
  \/ \E f \in Faixa : FaixaChega(f) \/ RemoverFaixa(f) \/ PassoFaixa(f)

Spec == Init /\ [][Next]_vars
-----------------------------------------------------------------------------
(***************************************************************************)
(* Properties                                                              *)
(***************************************************************************)
TypeOK ==
  /\ registro \in [Peer -> 0..MaxSessoes]
  /\ faixas \in SUBSET Faixa
  /\ atual \in [Peer -> 0..MaxSessoes]
  /\ fase \in [Peer -> {"fora", "assinando", "ligando", "dentro", "saindo"}]
  /\ porAssinar \in [Peer -> SUBSET Faixa]
  /\ emCurso \in [Peer \cup Faixa -> SUBSET Sessao]
  /\ \A p \in Peer : emCurso[p] \subseteq Faixa
  /\ estado \in [Sessao -> {"nenhuma", "viva", "retirada", "marcada", "encerrada"}]
  /\ falhou \in SUBSET Sessao
  /\ avisos \in [Sessao -> 0..2]
  /\ saidas \in [Sessao -> SUBSET (Peer \cup Faixa)]
  /\ remetentes \in [Sessao -> SUBSET Faixa]
  /\ publicacao \in [Faixa -> {"nada", "chegou", "assinando", "ligando", "bombeando",
                               "removendo", "soltando", "fim"}]
  /\ destinos \in [Faixa -> SUBSET Sessao]

\* Every connection that is open and not on its way to be closed can be found in the
\* registry under its owner, so somebody will close it: none is leaked, whichever of
\* the reader and the state callbacks gets to Sair first, and however often.
SemConexaoOrfa ==
  \A x \in Sessao : estado[x] = "viva" <=> registro[Dono(x)] = x[2]

\* What makes it inductive: a reader enters again only when its last session is out of
\* the registry, and a session that has not been opened yet is in no state.
LeitorCoerente(p) ==
  /\ registro[p] \in {0, atual[p]}
  /\ atual[p] <= Visitas(p)
  /\ fase[p] \in {"fora", "saindo"} => registro[p] = 0
  /\ fase[p] # "fora" => atual[p] # 0

Vezes(condicao) == IF condicao THEN 1 ELSE 0

RegistroCoerente ==
  /\ \A p \in Peer : LeitorCoerente(p)
  /\ \A x \in Sessao : x[2] > atual[Dono(x)] => estado[x] = "nenhuma"
  /\ \A x \in Sessao : avisos[x] <= Vezes(x \in falhou) + Vezes(estado[x] = "encerrada")

\* A track being pumped whose publisher is in the room is in the list that newcomers
\* copy: emptying the list with the room never takes a live track with it.
PublicadaNoAr ==
  \A f \in Faixa : publicacao[f] = "bombeando" /\ estado[f] = "viva" => f \in faixas

\* No goroutine is in the middle of its work.
Quieto ==
  /\ \A p \in Peer : fase[p] \in {"fora", "dentro"}
  /\ \A x \in Sessao : estado[x] \notin {"retirada", "marcada"} /\ avisos[x] = 0
  /\ \A f \in Faixa : publicacao[f] \in {"nada", "bombeando", "fim"}
                      /\ ~(publicacao[f] = "bombeando" /\ estado[f] = "encerrada")

\* Everybody in the room receives every track on the air, whether it entered before
\* or after the track was published, or at the same time (sfu.go:393-395, 483-484).
Assinados ==
  Quieto => \A x \in Sessao, f \in faixas :
              estado[x] = "viva" /\ Dono(f) # Dono(x) => f \in remetentes[x]

\* Who is in the room, and whose transport did not fail, keeps its one connection to
\* the server (sfu.go:15).
MantemConexao ==
  \A p \in Peer : fase[p] = "dentro" /\ SessaoDe(p) \notin falhou => registro[p] = atual[p]

\* When nothing is in the middle of its work, what a closed session published is off
\* the air: removerFaixa took it from the list newcomers copy (sfu.go:718-731).
FaixasDeVivas == Quieto => \A f \in faixas : estado[f] # "encerrada"

\* A session is opened once, taken out of the registry by one of the callers of Sair, the
\* reader and its state callbacks, and closed once, by that caller; it never comes back.
Avanca == {<<"nenhuma", "viva">>, <<"viva", "retirada">>, <<"retirada", "marcada">>,
           <<"marcada", "encerrada">>}
VidaDeSessao ==
  [][\A x \in Sessao : estado'[x] # estado[x] => <<estado[x], estado'[x]>> \in Avanca]_vars

\* Whoever waits has what it waits for: a reader in Sair, a session that somebody took out
\* and is closing, though it may be a state callback that did; and who is about to add a
\* sender or to take one away has the track or the session in hand.
EsperaFundada ==
  /\ \A p \in Peer :
       /\ fase[p] = "saindo" => estado[SessaoDe(p)] \in {"retirada", "marcada", "encerrada"}
       /\ fase[p] = "ligando" => emCurso[p] # {}
  /\ \A f \in Faixa : publicacao[f] \in {"ligando", "soltando"} => emCurso[f] # {}

\* A goroutine that is in the middle of its work can always take a step or has one
\* running that it waits for: Close runs the callbacks of the connection, one of which
\* calls Sair again, and nobody ends up waiting for himself.
Trabalho ==
  \/ \E p \in Peer : PassoPeer(p)
  \/ \E x \in Sessao : PassoSessao(x)
  \/ \E f \in Faixa : PassoFaixa(f)

SemBloqueio == ENABLED Trabalho \/ \A p \in Peer : fase[p] \in {"fora", "dentro"}
=============================================================================
