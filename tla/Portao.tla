------------------------------- MODULE Portao -------------------------------
(***************************************************************************)
(* What one participant is sent as it moves through rooms when the server  *)
(* runs with the media relay: the gate of Hub.entrar that holds what its   *)
(* SFU session says until `joined` is in the queue (hub.go:241-299), and   *)
(* the pings of its room, which handlers mark and a ticker broadcasts      *)
(* (hub.go:370-465).                                                       *)
(*                                                                         *)
(* The reader of the participant goes through entrar, its messages and     *)
(* Sair, as `fase` says; visit k is its k-th passage through a room, with  *)
(* the session and the gate (the closure enviarDoSFU) of its own.  Beside  *)
(* the reader, goroutines of a session call the closure: that of a track   *)
(* of somebody else, which makes an offer, and the ICE callback of pion.   *)
(* Either may be anywhere in its call when the participant leaves, and     *)
(* still be there when it has entered again.  A session is abstracted to   *)
(* the offers it makes, one at a time until the client answers (module     *)
(* Negociacao, which also has the note of an offer that was put off), and  *)
(* one candidate per visit; the connection stays open and takes every      *)
(* message (module FilaSaida).                                             *)
(***************************************************************************)
EXTENDS Naturals, Sequences, FiniteSets, SequencesExt

CONSTANTS Sala,        \* rooms
          MaxVisitas,  \* how often the participant enters a room
          MaxOfertas,  \* offers a session makes
          MaxJuntas,   \* offers that two sessions make together
          MaxPings     \* round-trip times the client reports

ASSUME PortaoAssumption ==
  /\ Sala # {}
  /\ MaxVisitas \in Nat \ {0}
  /\ MaxOfertas \in Nat \ {0}
  /\ MaxJuntas \in Nat
  /\ MaxPings \in Nat

VARIABLES
  fase,      \* where the reader of the participant is
  visita,    \* the visit it is in, or was in last
  sala,      \* the room of each visit so far
  sessao,    \* per visit: "nenhuma", "viva" (registered), "fechada"
  oferecendo,\* per visit: the goroutine of a track is making an offer
  esperando, \* per visit: an offer is out and not answered (have-local-offer)
  feitas,    \* per visit: offers made
  liberado,  \* per visit: sfuLiberado
  retidas,   \* per visit: mensagensSFU
  pendentes, \* the retained messages the reader has taken and is queueing
  emissor,   \* what the goroutines beside the reader are doing
  fila,      \* what was queued to the participant, but for room-pings
  pingMs,    \* p.pingMs, as the number of the report it came from
  sujas,     \* h.pingSujas
  difusao,   \* esvaziarPings: rooms taken in this tick, and the room being sent to
  divulgado  \* the newest ping of the participant that its room was sent

sessoes == <<sessao, oferecendo, esperando, feitas>>
portao == <<liberado, retidas>>
pings == <<pingMs, sujas, difusao, divulgado>>
vars == <<fase, visita, sala, sessoes, portao, pendentes, emissor, fila, pings>>

Visita == 1..MaxVisitas
Faixa(k) == <<"faixa", k>>
Ice(k) == <<"ice", k>>
Emissor == {Faixa(k) : k \in Visita} \cup {Ice(k) : k \in Visita}
Fase == {"fora", "abrir", "oferecer", "enviar", "apresentarSemSfu", "apresentar", "liberar",
         "despejar", "anunciar", "dentro", "renegociar", "reenviar", "marcar", "fechar", "despedir"}

Oferta(k, n) == [tipo |-> "oferta", visita |-> k, n |-> n]
Candidato(k) == [tipo |-> "candidato", visita |-> k, n |-> 1]
Joined(k, sfu) == [tipo |-> "joined", visita |-> k, n |-> IF sfu THEN 1 ELSE 0]

\* The messages of the relay, as opposed to those of the hub.
DoSFU == [tipo : {"oferta", "candidato"}, visita : Visita, n : 1..MaxOfertas]
DoHub == [tipo : {"joined"}, visita : Visita, n : {0, 1}]

Parado == [passo |-> "parado"]
Init ==
  /\ fase = "fora"
  /\ visita = 0
  /\ sala = <<>>
  /\ sessao = [k \in Visita |-> "nenhuma"]
  /\ oferecendo = [k \in Visita |-> FALSE]
  /\ esperando = [k \in Visita |-> FALSE]
  /\ feitas = [k \in Visita |-> 0]
  /\ liberado = [k \in Visita |-> FALSE]
  /\ retidas = [k \in Visita |-> <<>>]
  /\ pendentes = <<>>
  /\ emissor = [g \in Emissor |-> Parado]
  /\ fila = <<>>
  /\ pingMs = 0
  /\ sujas = {}
  /\ difusao = [salas |-> {}, sala |-> {}]
  /\ divulgado = 0

\* p is a member of the room of its visit from the inclusion in entrar to the removal
\* in Sair.
NaSala == fase \notin {"fora", "fechar", "despedir"}
Enfileirar(m) == fila' = Append(fila, m)

(***************************************************************************)
(* entrar, from its call of SFU.Entrar on                                  *)
(***************************************************************************)
\* The participant becomes a member (module Hub has the joins in detail).
Entrar ==
  /\ fase = "fora"
  /\ visita < MaxVisitas
  /\ visita' = visita + 1
  /\ \E s \in Sala : sala' = Append(sala, s)
  /\ fase' = "abrir"
  /\ UNCHANGED <<sessoes, portao, pendentes, emissor, fila, pings>>

\* SFU.Entrar registers the session, from where the goroutines of other participants
\* find it before it has made an offer ...
Registrar ==
  /\ fase = "abrir"
  /\ sessao' = [sessao EXCEPT ![visita] = "viva"]
  /\ fase' = "oferecer"
  /\ UNCHANGED <<visita, sala, oferecendo, esperando, feitas, portao, pendentes, emissor, fila, pings>>

\* ... or fails before it (NewPeerConnection, AddTransceiverFromKind).
NaoAbrir ==
  /\ fase = "abrir"
  /\ fase' = "apresentarSemSfu"
  /\ UNCHANGED <<visita, sala, sessoes, portao, pendentes, emissor, fila, pings>>

\* oferecer of session k, up to SetLocalDescription.
CabeOferta(k) ==
  /\ feitas[k] < MaxOfertas
  /\ \A outra \in Visita \ {k} : feitas[outra] + feitas[k] < MaxJuntas

PodeOferecerComDefeito(k) == sessao[k] = "viva" /\ CabeOferta(k)
PodeOferecer(k) == sessao[k] = "viva" /\ ~esperando[k] /\ CabeOferta(k)

FazerOferta(k) ==
  /\ PodeOferecer(k)
  /\ esperando' = [esperando EXCEPT ![k] = TRUE]
  /\ feitas' = [feitas EXCEPT ![k] = @ + 1]
  /\ UNCHANGED sessao

\* oferecer called by the reader: the first offer, and the one put off that an answer
\* brings about.  The reader will send it; or it is put off again, because another
\* goroutine is at one or made one, or not made because the session was closed meanwhile
\* (Entrar returns nil); or pion refuses it (Entrar returns the error, and the session
\* stays registered).
Oferecer ==
  /\ fase \in {"oferecer", "renegociar"}
  /\ ~oferecendo[visita]
  /\ FazerOferta(visita)
  /\ fase' = IF fase = "oferecer" THEN "enviar" ELSE "reenviar"
  /\ UNCHANGED <<visita, sala, oferecendo, portao, pendentes, emissor, fila, pings>>

Adiar ==
  /\ fase \in {"oferecer", "renegociar"}
  /\ oferecendo[visita] \/ esperando[visita] \/ sessao[visita] = "fechada"
  /\ fase' = IF fase = "oferecer" THEN "apresentar" ELSE "dentro"
  /\ UNCHANGED <<visita, sala, sessoes, portao, pendentes, emissor, fila, pings>>

FalharOferta ==
  /\ fase \in {"oferecer", "renegociar"}
  /\ ~oferecendo[visita] /\ ~esperando[visita]
  /\ fase' = IF fase = "oferecer" THEN "apresentarSemSfu" ELSE "dentro"
  /\ UNCHANGED <<visita, sala, sessoes, portao, pendentes, emissor, fila, pings>>

\* enviarDoSFU, the section under sfuMu: retained until the gate is open.
Reter(k, m) ==
  /\ ~liberado[k]
  /\ retidas' = [retidas EXCEPT ![k] = Append(@, m)]

\* enviarDoSFU in the reader: its first offer finds the gate closed, for it opens it
\* itself, later; the others follow an answer and find it open.
EnviarOferta ==
  /\ fase \in {"enviar", "reenviar"}
  /\ LET m == Oferta(visita, feitas[visita])
     IN IF liberado[visita] THEN Enfileirar(m) /\ UNCHANGED retidas
                            ELSE Reter(visita, m) /\ UNCHANGED fila
  /\ fase' = IF fase = "enviar" THEN "apresentar" ELSE "dentro"
  /\ UNCHANGED <<visita, sala, sessoes, liberado, pendentes, emissor, pings>>

\* `joined`, which says whether the media goes through the server (sfuAtivo).
Apresentar ==
  /\ \/ fase = "apresentar" /\ Enfileirar(Joined(visita, TRUE)) /\ fase' = "liberar"
     \/ fase = "apresentarSemSfu" /\ Enfileirar(Joined(visita, FALSE)) /\ fase' = "anunciar"
  /\ UNCHANGED <<visita, sala, sessoes, portao, pendentes, emissor, pings>>

\* The section under sfuMu that opens the gate and takes what was retained ...
Liberar ==
  /\ fase = "liberar"
  /\ liberado' = [liberado EXCEPT ![visita] = TRUE]
  /\ pendentes' = retidas[visita]
  /\ retidas' = [retidas EXCEPT ![visita] = <<>>]
  /\ fase' = "despejar"
  /\ UNCHANGED <<visita, sala, sessoes, emissor, fila, pings>>

\* ... which is queued with the lock released.
Despejar ==
  /\ fase = "despejar"
  /\ IF pendentes = <<>>
     THEN fase' = "anunciar" /\ UNCHANGED <<pendentes, fila>>
     ELSE /\ Enfileirar(Head(pendentes))
          /\ pendentes' = Tail(pendentes)
          /\ UNCHANGED fase
  /\ UNCHANGED <<visita, sala, sessoes, portao, emissor, pings>>

\* The end of entrar: the room is marked for the next broadcast of pings.
Anunciar ==
  /\ fase = "anunciar"
  /\ sujas' = sujas \cup {sala[visita]}
  /\ fase' = "dentro"
  /\ UNCHANGED <<visita, sala, sessoes, portao, pendentes, emissor, fila, pingMs, difusao, divulgado>>

(***************************************************************************)
(* The goroutines beside the reader                                        *)
(***************************************************************************)
\* The goroutine of a track takes the marker of the session ...
MarcarOferta(k) ==
  /\ emissor[Faixa(k)] = Parado
  /\ ~oferecendo[k]
  /\ PodeOferecer(k)
  /\ oferecendo' = [oferecendo EXCEPT ![k] = TRUE]
  /\ UNCHANGED <<fase, visita, sala, sessao, esperando, feitas, portao, pendentes, emissor, fila, pings>>

\* ... and makes the offer, which is in its hands and not sent yet ...
OferecerFaixa(k) ==
  /\ oferecendo[k]
  /\ FazerOferta(k)
  /\ oferecendo' = [oferecendo EXCEPT ![k] = FALSE]
  /\ emissor' = [emissor EXCEPT ![Faixa(k)] = [passo |-> "enviar", msg |-> Oferta(k, feitas[k] + 1)]]
  /\ UNCHANGED <<fase, visita, sala, portao, pendentes, fila, pings>>

\* ... or fails (the session was closed, or the client's own offer came before): who was
\* put off meanwhile is not told.
FalharFaixa(k) ==
  /\ oferecendo[k]
  /\ oferecendo' = [oferecendo EXCEPT ![k] = FALSE]
  /\ UNCHANGED <<fase, visita, sala, sessao, esperando, feitas, portao, pendentes, emissor, fila, pings>>

\* pion finds a candidate: from SetLocalDescription on, even before the offer is sent.
AcharCandidato(k) ==
  /\ emissor[Ice(k)] = Parado
  /\ sessao[k] = "viva" /\ feitas[k] > 0
  /\ Candidato(k) \notin Range(fila \o pendentes \o retidas[k])
  /\ emissor' = [emissor EXCEPT ![Ice(k)] = [passo |-> "enviar", msg |-> Candidato(k)]]
  /\ UNCHANGED <<fase, visita, sala, sessoes, portao, pendentes, fila, pings>>

PassarSemPortao(g) ==                          \* as before the gate was put in
  /\ emissor[g].passo = "enviar"
  /\ emissor' = [emissor EXCEPT ![g].passo = "entregar"]
  /\ UNCHANGED <<fase, visita, sala, sessoes, portao, pendentes, fila, pings>>

PassarComDefeito(g) ==                         \* decides under the lock, retains after it
  /\ emissor[g].passo \in {"enviar", "reter"}
  /\ LET m == emissor[g].msg IN
       \/ /\ emissor[g].passo = "enviar"
          /\ emissor' = [emissor EXCEPT ![g].passo = IF liberado[m.visita] THEN "entregar" ELSE "reter"]
          /\ UNCHANGED retidas
       \/ /\ emissor[g].passo = "reter"
          /\ retidas' = [retidas EXCEPT ![m.visita] = Append(@, m)]
          /\ emissor' = [emissor EXCEPT ![g] = Parado]
  /\ UNCHANGED <<fase, visita, sala, sessoes, liberado, pendentes, fila, pings>>

\* enviarDoSFU: one section under sfuMu decides between retaining the message and
\* handing it over, and p.enviar runs outside of it.
Passar(g) ==
  /\ emissor[g].passo = "enviar"
  /\ LET m == emissor[g].msg IN
       \/ /\ Reter(m.visita, m)
          /\ emissor' = [emissor EXCEPT ![g] = Parado]
       \/ /\ liberado[m.visita]
          /\ emissor' = [emissor EXCEPT ![g].passo = "entregar"]
          /\ UNCHANGED retidas
  /\ UNCHANGED <<fase, visita, sala, sessoes, liberado, pendentes, fila, pings>>

Entregar(g) ==
  /\ emissor[g].passo = "entregar"
  /\ Enfileirar(emissor[g].msg)
  /\ emissor' = [emissor EXCEPT ![g] = Parado]
  /\ UNCHANGED <<fase, visita, sala, sessoes, portao, pendentes, pings>>

(***************************************************************************)
(* The messages of the participant, and Sair                               *)
(***************************************************************************)
\* The client answers the offer it was sent last: the reader makes the one that was put
\* off meanwhile, if there is one.
Responder ==
  /\ fase = "dentro"
  /\ sessao[visita] = "viva" /\ esperando[visita]
  /\ Oferta(visita, feitas[visita]) \in Range(fila)
  /\ esperando' = [esperando EXCEPT ![visita] = FALSE]
  /\ fase' \in {"dentro", "renegociar"}
  /\ UNCHANGED <<visita, sala, sessao, oferecendo, feitas, portao, pendentes, emissor, fila, pings>>

\* responderPing stores the time the client reports, and has a room to mark only if the
\* participant is in one ...
ResponderPing ==
  /\ fase \in {"dentro", "fora"}
  /\ pingMs < MaxPings
  /\ pingMs' = pingMs + 1
  /\ fase' = IF fase = "dentro" THEN "marcar" ELSE "fora"
  /\ UNCHANGED <<visita, sala, sessoes, portao, pendentes, emissor, fila, sujas, difusao, divulgado>>

\* ... and then marks the room (marcarPings).
MarcarPings ==
  /\ fase = "marcar"
  /\ sujas' = sujas \cup {sala[visita]}
  /\ fase' = "dentro"
  /\ UNCHANGED <<visita, sala, sessoes, portao, pendentes, emissor, fila, pingMs, difusao, divulgado>>

\* Sair: out of the table ...
Sair ==
  /\ fase = "dentro"
  /\ fase' = "fechar"
  /\ UNCHANGED <<visita, sala, sessoes, portao, pendentes, emissor, fila, pings>>

\* ... the session closed, if the callback of its state did not do it before ...
FecharSessao(k) ==
  sessao' = [sessao EXCEPT ![k] = IF @ = "viva" THEN "fechada" ELSE @]

SairDoSFU ==
  /\ fase = "fechar"
  /\ FecharSessao(visita)
  /\ fase' = "despedir"
  /\ UNCHANGED <<visita, sala, oferecendo, esperando, feitas, portao, pendentes, emissor, fila, pings>>

\* ... and the room marked, unless nobody is left in it.
Despedir ==
  /\ fase = "despedir"
  /\ sujas' \in {sujas, sujas \cup {sala[visita]}}
  /\ fase' = "fora"
  /\ UNCHANGED <<visita, sala, sessoes, portao, pendentes, emissor, fila, pingMs, difusao, divulgado>>

\* The state callback of a session takes it out of the relay: its transport failed,
\* which needs an answer of the client, or it is the callback of the session of an
\* earlier visit to the same room, which comes late (finding of module Sfu).
AoMudarEstado ==
  /\ visita > 0 /\ sessao[visita] = "viva"
  /\ \/ feitas[visita] > (IF esperando[visita] THEN 1 ELSE 0)
     \/ \E k \in 1..(visita - 1) : sessao[k] = "fechada" /\ sala[k] = sala[visita]
  /\ FecharSessao(visita)
  /\ UNCHANGED <<fase, visita, sala, oferecendo, esperando, feitas, portao, pendentes, emissor, fila, pings>>

(***************************************************************************)
(* The ticker (esvaziarPings, transmitirPings)                             *)
(***************************************************************************)
TiqueComDefeito ==                             \* copied and emptied in two sections, in either order
  /\ difusao = [salas |-> {}, sala |-> {}]
  /\ sujas # {}
  /\ \/ difusao' = [salas |-> sujas, sala |-> {}] /\ UNCHANGED sujas
     \/ sujas' = {} /\ UNCHANGED difusao
  /\ UNCHANGED <<fase, visita, sala, sessoes, portao, pendentes, emissor, fila, pingMs, divulgado>>

\* A tick: the set is swapped for an empty one under pingMu.
Tique ==
  /\ difusao = [salas |-> {}, sala |-> {}]
  /\ sujas # {}
  /\ difusao' = [salas |-> sujas, sala |-> {}]
  /\ sujas' = {}
  /\ UNCHANGED <<fase, visita, sala, sessoes, portao, pendentes, emissor, fila, pingMs, divulgado>>

\* transmitirPings of one of the rooms: the members are listed under h.mu ...
ListarMembros ==
  /\ difusao.sala = {}
  /\ \E s \in difusao.salas :
       difusao' = [salas |-> difusao.salas \ {s},
                   sala |-> IF NaSala /\ sala[visita] = s THEN {s} ELSE {}]
  /\ UNCHANGED <<fase, visita, sala, sessoes, portao, pendentes, emissor, fila, pingMs, sujas, divulgado>>

\* ... and their pings read, and sent to each, with the lock released.
Transmitir ==
  /\ difusao.sala # {}
  /\ divulgado' = pingMs
  /\ difusao' = [difusao EXCEPT !.sala = {}]
  /\ UNCHANGED <<fase, visita, sala, sessoes, portao, pendentes, emissor, fila, pingMs, sujas>>

-----------------------------------------------------------------------------
Leitor ==
  \/ Registrar \/ NaoAbrir \/ Oferecer \/ Adiar \/ FalharOferta \/ EnviarOferta
  \/ Apresentar \/ Liberar \/ Despejar \/ Anunciar \/ MarcarPings \/ SairDoSFU \/ Despedir

Next ==
  \/ Leitor
  \/ Entrar \/ Responder \/ ResponderPing \/ Sair \/ AoMudarEstado
  \/ \E k \in Visita : MarcarOferta(k) \/ OferecerFaixa(k) \/ FalharFaixa(k) \/ AcharCandidato(k)
  \/ \E g \in Emissor : Passar(g) \/ Entregar(g)
  \/ Tique \/ ListarMembros \/ Transmitir

\* The reader is scheduled and the ticker ticks, until Hub.Parar ends it with the server;
\* nothing obliges the participant to come, to answer or to leave, and the pings do not
\* wait for the goroutines of the session.
Fairness ==
  /\ WF_vars(Leitor)
  /\ WF_vars(Tique \/ ListarMembros \/ Transmitir)

Spec == Init /\ [][Next]_vars
FairSpec == Spec /\ Fairness

-----------------------------------------------------------------------------
(***************************************************************************)
(* Properties                                                              *)
(***************************************************************************)
\* Types; an emitting goroutine holds a message of the relay while it sends.
TypeOK ==
  /\ fase \in Fase
  /\ visita \in 0..MaxVisitas
  /\ fase # "fora" => visita > 0
  /\ sala \in Seq(Sala) /\ Len(sala) = visita
  /\ sessao \in [Visita -> {"nenhuma", "viva", "fechada"}]
  /\ oferecendo \in [Visita -> BOOLEAN] /\ esperando \in [Visita -> BOOLEAN]
  /\ feitas \in [Visita -> 0..MaxOfertas]
  /\ liberado \in [Visita -> BOOLEAN]
  /\ retidas \in [Visita -> Seq(DoSFU)]
  /\ pendentes \in Seq(DoSFU)
  /\ emissor \in [Emissor -> {Parado} \cup [passo : {"enviar", "entregar"}, msg : DoSFU]]
  /\ fila \in Seq(DoSFU \cup DoHub)
  /\ pingMs \in Nat /\ divulgado \in Nat
  /\ sujas \subseteq Sala
  /\ difusao \in [salas : SUBSET Sala, sala : SUBSET Sala]

\* The client knows that it is in SFU mode before the relay says anything: no message of
\* the session of a visit precedes the `joined` of that visit, and none comes at all if
\* that `joined` did not announce the relay (hub.go:234-240, 281-283).
JoinedPrimeiro ==
  \A i \in DOMAIN fila : fila[i].tipo # "joined" =>
    \E j \in 1..(i - 1) : fila[j] = Joined(fila[i].visita, TRUE)

\* Where a message of the relay is: in the hands of a goroutine, or in one of the lists.
Posicoes(lista, m) == {i \in DOMAIN lista : lista[i] = m}
Lugares(m) ==
  {<<"mao", g>> : g \in {e \in Emissor : emissor[e] # Parado /\ emissor[e].msg = m}}
  \cup {<<"leitor", k>> : k \in {v \in Visita : fase \in {"enviar", "reenviar"} /\ v = visita
                                               /\ m = Oferta(v, feitas[v])}}
  \cup {<<"retida", i>> : i \in Posicoes(retidas[m.visita], m)}
  \cup {<<"pendente", i>> : i \in Posicoes(pendentes, m)}
  \cup {<<"fila", i>> : i \in Posicoes(fila, m)}

\* Whatever goroutine is in the gate while it opens, no message is lost, sent twice or
\* left behind it: every offer is in one place, and nothing stays retained once the
\* gate of its visit is open.
NadaRetidoParaTras ==
  /\ \A k \in Visita : \A n \in 1..feitas[k] : \E l \in Lugares(Oferta(k, n)) : Lugares(Oferta(k, n)) = {l}
  /\ \A k \in Visita : \A l, o \in Lugares(Candidato(k)) : l = o
  /\ \A k \in Visita : liberado[k] => retidas[k] = <<>>

\* The offers of a session reach the client in the order they were made, although those
\* retained are queued outside the lock and others may go directly: one offer is out at
\* a time, and the answer to it is read only after the reader emptied its list.
OfertasEmOrdem ==
  \A i, j \in DOMAIN fila :
    /\ fila[i].tipo = "oferta" /\ fila[j].tipo = "oferta"
    /\ fila[i].visita = fila[j].visita
    /\ i < j
    => fila[i].n < fila[j].n

\* A time stored and not yet broadcast is on its way: the reader has still to mark the
\* room, or the room is marked, taken by the ticker, or listed with the participant in it.
\* The store, the mark, the swap of the set and the reading of the members are four
\* sections under three locks, and between none of them is a report dropped
\* (hub.go:370-465).
PorMarcar == fase \notin {"dentro", "renegociar", "reenviar", "fora", "fechar", "despedir"}

PingACaminho ==
  NaSala /\ pingMs > divulgado =>
    \/ PorMarcar
    \/ sala[visita] \in sujas \cup difusao.salas \cup difusao.sala

\* A time the client reported is broadcast to its room, that value or a later one, unless
\* the participant leaves: no report falls between the swap of the set and its mark.
PingDivulgado ==
  \A v \in 1..MaxPings : pingMs = v ~> (divulgado >= v \/ fase = "fora")
=============================================================================
