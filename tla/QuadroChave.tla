---------------------------- MODULE QuadroChave ----------------------------
(***************************************************************************)
(* Key-frame requests for one video track (src/src/sfu.go): who receives a *)
(* track sees nothing until its publisher produces a key frame, and        *)
(* produces one when the relay sends it a PLI.  Three kinds of goroutine   *)
(* ask for it:                                                             *)
(*   - the one that publishes the track, after it subscribed somebody      *)
(*     (assinarComChave);                                                  *)
(*   - the state callback of a spectator whose transport came up           *)
(*     (pedirChaveDeTudo);                                                 *)
(*   - the reader of the feedback of a spectator that lost a frame         *)
(*     (lerRTCPDaSaida).                                                   *)
(* The first two start a series of requests, unless one is running         *)
(* (repetindoChave); the third makes a single request.  No two requests    *)
(* are closer than Intervalo (permitirChave).                              *)
(*                                                                         *)
(* Time is counted from the events that matter, so there is no clock to    *)
(* bound: how long ago the last request was granted, up to Intervalo, and  *)
(* how long a series still sleeps.  A tick may fall between any two steps. *)
(***************************************************************************)
EXTENDS Naturals, Sequences, FiniteSets, Functions

CONSTANTS Espectador,    \* who may receive the track
          publicacao,    \* the goroutine that published it
          Intervalo,     \* permitirChave: 500 ms, in ticks
          Esperas,       \* insistirNaChave: 0, 500 and 1500 ms, in ticks
          MaxAvisos      \* bound: state callbacks of spectators that run at a time

ASSUME QuadroChaveAssumption ==
  /\ publicacao \notin Espectador
  /\ Intervalo \in Nat \ {0}
  /\ Esperas \in Seq(Nat) /\ Len(Esperas) >= 2
  /\ Esperas[2] >= Intervalo
  /\ MaxAvisos \in Nat

VARIABLES
  noAr,         \* f is in s.faixas
  publicador,   \* its publisher has a session
  transporte,   \* of each spectator: "fora", "conectando", "conectado"
  inscritos,    \* spectators with f in saidas
  destinos,     \* those that the publishing goroutine still has to subscribe
  avisados,     \* state callbacks "connected" of each spectator that have just begun
  insistindo,   \* goroutines of each caller that are about to call insistirNaChave
  repetindo,    \* f.repetindoChave
  idade,        \* time since f.ultimaChave
  passo,        \* of each goroutine that asks
  vez, espera,  \* of a series: which request it is at, how long it still sleeps
  servidos,     \* spectators for whom a PLI was sent since their transport came up
  iniciou       \* spectators whose callback started a series since then

faixa == <<noAr, publicador>>
plateia == <<transporte, inscritos>>
serie == <<vez, espera>>
historia == <<servidos, iniciou>>
pedidos == <<avisados, insistindo>>
vars == <<faixa, plateia, destinos, pedidos, repetindo, idade, passo, serie, historia>>

Chamador == Espectador \cup {publicacao}
Serie(q) == <<"serie", q>>
Leitor(v) == <<"rtcp", v>>
Goroutine == {Serie(q) : q \in Chamador} \cup {Leitor(v) : v \in Espectador}

\* The track was just published: some spectators were in the room, others come later.
Init ==
  /\ noAr = TRUE /\ publicador = TRUE
  /\ transporte \in [Espectador -> {"fora", "conectando", "conectado"}]
  /\ inscritos = {}
  /\ destinos = {v \in Espectador : transporte[v] # "fora"}
  /\ avisados = [v \in Espectador |-> 0]
  /\ insistindo = [q \in Chamador |-> 0]
  /\ repetindo = FALSE
  /\ idade = Intervalo
  /\ passo = [g \in Goroutine |-> "parada"]
  /\ vez = [q \in Chamador |-> 1]
  /\ espera = [q \in Chamador |-> 0]
  /\ servidos = {} /\ iniciou = {}

Ir(g, onde) == passo' = [passo EXCEPT ![g] = onde]

(***************************************************************************)
(* Who asks                                                                *)
(***************************************************************************)
\* assinarComChave, up to its last call.
AssinarComChave ==
  /\ insistindo[publicacao] = 0
  /\ \E v \in destinos :
       /\ destinos' = destinos \ {v}
       /\ inscritos' = IF transporte[v] # "fora" /\ noAr THEN inscritos \cup {v} ELSE inscritos
  /\ insistindo' = [insistindo EXCEPT ![publicacao] = 1]
  /\ UNCHANGED <<faixa, transporte, avisados, repetindo, idade, passo, serie, historia>>

\* SFU.Entrar subscribes a newcomer to the tracks on the air.
Entrar(v) ==
  /\ transporte[v] = "fora"
  /\ transporte' = [transporte EXCEPT ![v] = "conectando"]
  /\ inscritos' = IF noAr THEN inscritos \cup {v} ELSE inscritos
  /\ UNCHANGED <<faixa, destinos, pedidos, repetindo, idade, passo, serie, historia>>

\* The transport comes up, for the first time or again.  pion starts a goroutine for the
\* callback at each change, so that an earlier one may not be done yet.
Conectar(v) ==
  /\ transporte[v] = "conectando"
  /\ SumFunction(avisados) + SumFunctionOnSet(insistindo, Espectador) < MaxAvisos
  /\ transporte' = [transporte EXCEPT ![v] = "conectado"]
  /\ avisados' = [avisados EXCEPT ![v] = @ + 1]
  /\ UNCHANGED <<faixa, inscritos, destinos, insistindo, repetindo, idade, passo, serie, historia>>

Cair(v) ==
  /\ transporte[v] = "conectado"
  /\ transporte' = [transporte EXCEPT ![v] = "conectando"]
  /\ servidos' = servidos \ {v}
  /\ iniciou' = iniciou \ {v}
  /\ UNCHANGED <<faixa, inscritos, destinos, pedidos, repetindo, idade, passo, serie>>

\* SFU.Sair.  The list of tracks goes with the last session of the room.
Sair(v) ==
  /\ transporte[v] # "fora"
  /\ transporte' = [transporte EXCEPT ![v] = "fora"]
  /\ noAr' = (noAr /\ (publicador \/ \E u \in Espectador \ {v} : transporte[u] # "fora"))
  /\ inscritos' = inscritos \ {v}
  /\ servidos' = servidos \ {v}
  /\ iniciou' = iniciou \ {v}
  /\ UNCHANGED <<publicador, destinos, pedidos, repetindo, idade, passo, serie>>

PublicadorSai ==
  /\ publicador
  /\ publicador' = FALSE
  /\ noAr' = (noAr /\ \E u \in Espectador : transporte[u] # "fora")
  /\ UNCHANGED <<plateia, destinos, pedidos, repetindo, idade, passo, serie, historia>>

\* removerFaixa, in the goroutine that published the track.
SairDoAr ==
  /\ noAr
  /\ destinos = {} /\ insistindo[publicacao] = 0
  /\ noAr' = FALSE
  /\ inscritos' = {}
  /\ UNCHANGED <<publicador, transporte, destinos, pedidos, repetindo, idade, passo, serie, historia>>

\* pedirChaveDeTudo: only for a track on the air that the spectator receives.
PedirChaveDeTudo(v) ==
  /\ avisados[v] > 0
  /\ avisados' = [avisados EXCEPT ![v] = @ - 1]
  /\ insistindo' = [insistindo EXCEPT ![v] = IF noAr /\ v \in inscritos THEN @ + 1 ELSE @]
  /\ UNCHANGED <<faixa, plateia, destinos, repetindo, idade, passo, serie, historia>>

\* A spectator lost the reference and its decoder sends a PLI.
PerderQuadro(v) ==
  /\ transporte[v] = "conectado" /\ v \in inscritos
  /\ passo[Leitor(v)] = "parada"
  /\ Ir(Leitor(v), "pedir")
  /\ UNCHANGED <<faixa, plateia, destinos, pedidos, repetindo, idade, serie, historia>>

(***************************************************************************)
(* insistirNaChave and the goroutine it starts                             *)
(***************************************************************************)
ComecarSerie(q) ==
  /\ repetindo' = TRUE
  /\ Ir(Serie(q), "dormir")
  /\ vez' = [vez EXCEPT ![q] = 1]
  /\ espera' = [espera EXCEPT ![q] = Esperas[1]]
  /\ iniciou' = IF q \in Espectador /\ transporte[q] = "conectado" THEN iniciou \cup {q} ELSE iniciou

\* Under chaveMu: one series at a time.
InsistirNaChave(q) ==
  /\ insistindo[q] > 0
  /\ insistindo' = [insistindo EXCEPT ![q] = @ - 1]
  /\ IF repetindo THEN UNCHANGED <<repetindo, passo, serie, iniciou>> ELSE ComecarSerie(q)
  /\ UNCHANGED <<faixa, plateia, destinos, avisados, idade, servidos>>

AcordarComDefeito(q) ==                        \* returns and the marker stays
  /\ passo[Serie(q)] = "dormir"
  /\ espera[q] = 0
  /\ Ir(Serie(q), IF noAr THEN "pedir" ELSE "parada")
  /\ UNCHANGED <<faixa, plateia, destinos, pedidos, repetindo, idade, serie, historia>>

\* The sleep is over; a track that left the air meanwhile ends the series.
Acordar(q) ==
  /\ passo[Serie(q)] = "dormir"
  /\ espera[q] = 0
  /\ Ir(Serie(q), IF noAr THEN "pedir" ELSE "soltar")
  /\ UNCHANGED <<faixa, plateia, destinos, pedidos, repetindo, idade, serie, historia>>

\* After a request, granted or not: the reader is done, a series goes on to the next.
Seguir(g) ==
  IF g[1] = "rtcp"
  THEN Ir(g, "parada") /\ UNCHANGED serie
  ELSE LET q == g[2]
       IN IF vez[q] = Len(Esperas)
          THEN Ir(g, "soltar") /\ UNCHANGED serie
          ELSE /\ Ir(g, "dormir")
               /\ vez' = [vez EXCEPT ![q] = @ + 1]
               /\ espera' = [espera EXCEPT ![q] = Esperas[vez[q] + 1]]

PedirChaveComDefeito(g) ==                     \* a refused request ends the series
  /\ passo[g] = "pedir"
  /\ IF publicador /\ idade = Intervalo
     THEN idade' = 0 /\ Ir(g, "escrever") /\ UNCHANGED serie
     ELSE /\ Ir(g, IF g[1] = "rtcp" THEN "parada" ELSE "soltar")
          /\ UNCHANGED <<idade, serie>>
  /\ UNCHANGED <<faixa, plateia, destinos, pedidos, repetindo, historia>>

\* pedirChave: the session of the publisher is looked up and the limit consulted, under
\* chaveMu (a session that closes between the two only makes the write fail) ...
PedirChave(g) ==
  /\ passo[g] = "pedir"
  /\ IF publicador /\ idade = Intervalo
     THEN idade' = 0 /\ Ir(g, "escrever") /\ UNCHANGED serie
     ELSE Seguir(g) /\ UNCHANGED idade
  /\ UNCHANGED <<faixa, plateia, destinos, pedidos, repetindo, historia>>

\* ... and the PLI written: the key frame reaches whoever is connected.
EscreverPLI(g) ==
  /\ passo[g] = "escrever"
  /\ servidos' = servidos \cup {v \in inscritos : transporte[v] = "conectado"}
  /\ Seguir(g)
  /\ UNCHANGED <<faixa, plateia, destinos, pedidos, repetindo, idade, iniciou>>

\* The defer of the series.
Soltar(q) ==
  /\ passo[Serie(q)] = "soltar"
  /\ repetindo' = FALSE
  /\ Ir(Serie(q), "parada")
  /\ vez' = [vez EXCEPT ![q] = 1]
  /\ UNCHANGED <<faixa, plateia, destinos, pedidos, idade, espera, historia>>

Tique ==
  /\ idade' = IF idade < Intervalo THEN idade + 1 ELSE idade
  /\ espera' = [q \in Chamador |-> IF espera[q] > 0 THEN espera[q] - 1 ELSE 0]
  /\ UNCHANGED <<faixa, plateia, destinos, pedidos, repetindo, passo, vez, historia>>

PassoPedido(g) == PedirChave(g) \/ EscreverPLI(g)
PassoSerie(q) == Acordar(q) \/ Soltar(q) \/ PassoPedido(Serie(q))

Next ==
  \/ AssinarComChave \/ PublicadorSai \/ SairDoAr \/ Tique
  \/ \E v \in Espectador :
       Entrar(v) \/ Conectar(v) \/ Cair(v) \/ Sair(v) \/ PedirChaveDeTudo(v) \/ PerderQuadro(v)
  \/ \E q \in Chamador : InsistirNaChave(q) \/ Acordar(q) \/ Soltar(q)
  \/ \E g \in Goroutine : PassoPedido(g)

\* Goroutines run and time passes.  No spectator has to come, to stay or to lose a frame.
Fairness ==
  /\ WF_vars(Tique)
  /\ WF_vars(AssinarComChave)
  /\ \A v \in Espectador : WF_vars(PedirChaveDeTudo(v)) /\ WF_vars(PassoPedido(Leitor(v)))
  /\ \A q \in Chamador : WF_vars(InsistirNaChave(q)) /\ WF_vars(PassoSerie(q))

Spec == Init /\ [][Next]_vars
FairSpec == Spec /\ Fairness
-----------------------------------------------------------------------------
(***************************************************************************)
(* Properties                                                              *)
(***************************************************************************)
Etapa == {"parada", "dormir", "pedir", "escrever", "soltar"}

TypeOK ==
  /\ noAr \in BOOLEAN /\ publicador \in BOOLEAN /\ repetindo \in BOOLEAN
  /\ transporte \in [Espectador -> {"fora", "conectando", "conectado"}]
  /\ inscritos \in SUBSET Espectador
  /\ destinos \in SUBSET Espectador
  /\ avisados \in [Espectador -> Nat]
  /\ insistindo \in [Chamador -> Nat]
  /\ idade \in 0..Intervalo
  /\ passo \in [Goroutine -> Etapa]
  /\ vez \in [Chamador -> 1..Len(Esperas)]
  /\ espera \in [Chamador -> Nat]
  /\ servidos \in SUBSET Espectador
  /\ iniciou \in SUBSET Espectador

\* However many spectators connect at the same time, one series of requests runs, and
\* the marker is up exactly while it does: neither are series multiplied nor is the
\* marker left up with nobody to take it down.
EmSerie == {q \in Chamador : passo[Serie(q)] # "parada"}
UmaSerie == /\ \A q, r \in EmSerie : q = r
            /\ repetindo <=> EmSerie # {}

\* A spectator whose callback started the series has had a PLI since it connected, at
\* the latest when the second request was made, although either may be refused because
\* of a request that another spectator made before it connected (sfu.go:415-417).
IniciadorAtendido ==
  noAr /\ publicador =>
    \A v \in iniciou :
      \/ v \in servidos
      \/ v \in EmSerie /\ passo[Serie(v)] # "soltar" /\ vez[v] <= 2
      \/ \E g \in Goroutine : passo[g] = "escrever"

\* The publisher is asked for a key frame after the transport of a spectator came up:
\* one that came before is lost, and nobody would ask for another (sfu.go:368-372).
TodosComChave ==
  \A v \in Espectador :
    transporte[v] = "conectado" /\ v \in inscritos
      ~> v \in servidos \/ v \notin inscritos \/ transporte[v] # "conectado" \/ ~publicador
=============================================================================
