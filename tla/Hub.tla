-------------------------------- MODULE Hub --------------------------------
(***************************************************************************)
(* The room table of the signalling server (src/src/hub.go): who is in     *)
(* which room, and what the members of a room are told about each other.   *)
(*                                                                         *)
(* Every connection has one reader goroutine, which decodes a message and  *)
(* runs the whole handler (Tratar) before it reads the next one; all these *)
(* goroutines run concurrently.  A handler takes h.mu for one section at a *)
(* time and sends its messages with the lock released, and the room that   *)
(* the connection records for itself is written in sections of p.mu, apart *)
(* from those of h.mu.  A join is a sequence of steps that the joins and   *)
(* departures of others interleave with:                                   *)
(*                                                                         *)
(*   "lendo"      in Ler, no handler running                               *)
(*   "retirar"    Sair: p.sala cleared, p still in the table               *)
(*   "despedir"   Sair: removed from the table, sending peer-left          *)
(*   "entrar"     entrar: Sair done, p.sala not yet written                *)
(*   "inscrever"  entrar: p.sala written, p not yet in the table           *)
(*   "recusar"    entrar: the room was full, p.sala not yet cleared        *)
(*   "rejeitar"   entrar: p.sala cleared, connection not yet told to close *)
(*   "apresentar" entrar: in the table, `joined` not yet sent              *)
(*   "anunciar"   entrar: sending peer-joined to those listed in `joined`  *)
(*   "repassar"   Tratar: recipient looked up, message not yet handed over *)
(*   "encerrar"   deferred Sair done, connection about to be closed        *)
(*   "fim"        goroutine returned                                       *)
(*                                                                         *)
(* The contents of the messages are abstracted to what they say about      *)
(* presence.  A connection is abstracted to its three stages (module       *)
(* Conexao); the values that pings carry are left out; the server runs     *)
(* without the media relay (h.sfu = nil).                                  *)
(***************************************************************************)
EXTENDS Naturals, FiniteSets

CONSTANTS Peer,           \* connections, each with the UUID it was given
          Sala,           \* room names a client may ask for
          Nenhuma,        \* the empty room name
          Limites         \* values that GREENLABS_MAX_POR_SALA may have

ASSUME HubAssumption ==
  /\ IsFiniteSet(Peer)
  /\ Nenhuma \notin Sala
  /\ Limites \subseteq Nat \ {0}     \* limiteDoAmbiente never returns less than 1

VARIABLES
  salas,     \* h.salas[s]: the members of s
  vivas,     \* the keys present in the map h.salas
  sala,      \* p.sala
  fase,      \* where the reader goroutine of p is
  destino,   \* room named by the join being handled; Nenhuma in the deferred Sair
  deixada,   \* `sala` of the Sair in progress: the room it leaves and will mark
             \*   dirty; Nenhuma once that room emptied
  avisar,    \* jaEstavam, sobreviventes or alvo: recipients still to be sent to
  conexao,   \* "aberta", "fechada" (c.fechado closed) or "desligada" (socket closed)
  visao,     \* visao[p]: whom the messages queued to p since it was put in its
             \*   room present as being there, the latest word winning
  sujas,     \* h.pingSujas
  limitePorSala \* h.limitePorSala, read from the environment once, by NovoHub

tabela == <<salas, vivas>>
rede == <<conexao, visao>>
vars == <<tabela, sala, fase, destino, deixada, avisar, rede, sujas, limitePorSala>>

Fase == {"lendo", "retirar", "despedir", "entrar", "inscrever", "recusar", "rejeitar",
         "apresentar", "anunciar", "repassar", "encerrar", "fim"}
Talvez == Sala \cup {Nenhuma}

Init ==
  /\ salas = [s \in Sala |-> {}]
  /\ vivas = {}
  /\ sala = [p \in Peer |-> Nenhuma]
  /\ fase = [p \in Peer |-> "lendo"]
  /\ destino = [p \in Peer |-> Nenhuma]
  /\ deixada = [p \in Peer |-> Nenhuma]
  /\ avisar = [p \in Peer |-> {}]
  /\ conexao = [p \in Peer |-> "aberta"]
  /\ visao = [p \in Peer |-> {}]
  /\ sujas = {}
  /\ limitePorSala \in Limites

Aberta(p) == conexao[p] = "aberta"

\* p.enviar: a message that says which peers are there (esta) or gone (saiu)
\* reaches the queue of p only while its connection is open.
Enviar(p, esta, saiu) ==
  visao' = [visao EXCEPT ![p] = IF Aberta(p) THEN (@ \cup esta) \ saiu ELSE @]

Fechar(p) == conexao' = [conexao EXCEPT ![p] = IF @ = "aberta" THEN "fechada" ELSE @]

(***************************************************************************)
(* Sair                                                                    *)
(***************************************************************************)
\* The variants named ..ComDefeito, here and below, are mistakes that would be easy
\* to make; each is what some property is there to notice.
DepoisDeSair(d) == IF d = Nenhuma THEN "encerrar" ELSE "entrar"

\* Sair as the first call of entrar (d is the room asked for) or as the deferred
\* call of atenderWebSocket (d = Nenhuma): the section under p.mu, which takes the
\* recorded room into a local and clears it.
Sair(p, d) ==
  /\ destino' = [destino EXCEPT ![p] = d]
  /\ deixada' = [deixada EXCEPT ![p] = sala[p]]
  /\ sala' = [sala EXCEPT ![p] = Nenhuma]
  /\ fase' = [fase EXCEPT ![p] = IF sala[p] = Nenhuma THEN DepoisDeSair(d) ELSE "retirar"]
  /\ UNCHANGED <<tabela, avisar, rede, sujas, limitePorSala>>

Restantes(p) == salas[deixada[p]] \ {p}

VivasSem(p) == IF Restantes(p) = {} THEN vivas \ {deixada[p]} ELSE vivas

\* The section under h.mu: out of the room, the room deleted when it emptied.  Where
\* the map has no such room there is nobody to remove and nobody to tell.
Remover(p) ==
  /\ fase[p] = "retirar"
  /\ salas' = [salas EXCEPT ![deixada[p]] = Restantes(p)]
  /\ vivas' = VivasSem(p)
  /\ deixada' = [deixada EXCEPT ![p] = IF Restantes(p) = {} THEN Nenhuma ELSE @]
  /\ avisar' = [avisar EXCEPT ![p] = Restantes(p)]
  /\ fase' = [fase EXCEPT ![p] = "despedir"]
  /\ UNCHANGED <<rede, sala, destino, sujas, limitePorSala>>

\* The reader takes a `join`: it may do so after the connection was told to close,
\* and even after the socket is gone, from what its bufio.Reader still holds.
Entrar(p, s) ==
  /\ fase[p] = "lendo"
  /\ Sair(p, s)

LerErroComDefeito(p) ==                        \* returns without the deferred Sair
  /\ fase[p] = "lendo"
  /\ fase' = [fase EXCEPT ![p] = "encerrar"]
  /\ UNCHANGED <<tabela, rede, sala, destino, deixada, avisar, sujas, limitePorSala>>

\* Ler fails: the client left, timed out, broke the protocol, or the socket is gone.
LerErro(p) ==
  /\ fase[p] = "lendo"
  /\ Sair(p, Nenhuma)

\* peer-left to one of the survivors, in the order of a map iteration.
Despedir(p) ==
  /\ fase[p] = "despedir"
  /\ \E o \in avisar[p] :
       /\ Enviar(o, {}, {p})
       /\ avisar' = [avisar EXCEPT ![p] = @ \ {o}]
  /\ UNCHANGED <<tabela, sala, fase, destino, deixada, conexao, sujas, limitePorSala>>

\* All told: mark the room for the next ping broadcast and return.
TerminarSaida(p) ==
  /\ fase[p] = "despedir"
  /\ avisar[p] = {}
  /\ sujas' = sujas \cup ({deixada[p]} \ {Nenhuma})
  /\ deixada' = [deixada EXCEPT ![p] = Nenhuma]
  /\ fase' = [fase EXCEPT ![p] = DepoisDeSair(destino[p])]
  /\ UNCHANGED <<tabela, rede, sala, destino, avisar, limitePorSala>>

\* The deferred conexao.Fechar(), and the goroutine returns.
Encerrar(p) ==
  /\ fase[p] = "encerrar"
  /\ Fechar(p)
  /\ fase' = [fase EXCEPT ![p] = "fim"]
  /\ UNCHANGED <<tabela, sala, destino, deixada, avisar, visao, sujas, limitePorSala>>

(***************************************************************************)
(* entrar, after its call of Sair                                          *)
(***************************************************************************)
CheiaComDefeito(s) == Cardinality(salas[s]) > limitePorSala
Cheia(s) == Cardinality(salas[s]) >= limitePorSala

JaEstavamComDefeito(p) == {}                   \* what hub.go:216 says an older version sent
JaEstavam(p) == salas[destino[p]]

\* The section under p.mu: the room asked for is recorded.
Escolher(p) ==
  /\ fase[p] = "entrar"
  /\ sala' = [sala EXCEPT ![p] = destino[p]]
  /\ fase' = [fase EXCEPT ![p] = "inscrever"]
  /\ UNCHANGED <<tabela, rede, destino, deixada, avisar, sujas, limitePorSala>>

\* The section under h.mu: the list for `joined` is taken before the inclusion.
Inscrever(p) ==
  /\ fase[p] = "inscrever"
  /\ ~Cheia(destino[p])
  /\ avisar' = [avisar EXCEPT ![p] = JaEstavam(p)]
  /\ salas' = [salas EXCEPT ![destino[p]] = @ \cup {p}]
  /\ vivas' = vivas \cup {destino[p]}
  /\ visao' = [visao EXCEPT ![p] = {}]
  /\ fase' = [fase EXCEPT ![p] = "apresentar"]
  /\ UNCHANGED <<sala, conexao, destino, deixada, sujas, limitePorSala>>

\* The same section finds the room full ...
RecusarSalaCheia(p) ==
  /\ fase[p] = "inscrever"
  /\ Cheia(destino[p])
  /\ fase' = [fase EXCEPT ![p] = "recusar"]
  /\ UNCHANGED <<tabela, rede, sala, destino, deixada, avisar, sujas, limitePorSala>>

EsquecerComDefeito(p) ==                       \* the refused goes on with the room recorded
  /\ fase[p] = "recusar"
  /\ fase' = [fase EXCEPT ![p] = "rejeitar"]
  /\ UNCHANGED <<tabela, rede, sala, destino, deixada, avisar, sujas, limitePorSala>>

\* ... then p.mu again, back in no room ...
Esquecer(p) ==
  /\ fase[p] = "recusar"
  /\ sala' = [sala EXCEPT ![p] = Nenhuma]
  /\ fase' = [fase EXCEPT ![p] = "rejeitar"]
  /\ UNCHANGED <<tabela, rede, destino, deixada, avisar, sujas, limitePorSala>>

RejeitarComDefeito(p) ==                       \* says why and leaves the connection open
  /\ fase[p] = "rejeitar"
  /\ fase' = [fase EXCEPT ![p] = "lendo"]
  /\ destino' = [destino EXCEPT ![p] = Nenhuma]
  /\ UNCHANGED <<tabela, rede, sala, deixada, avisar, sujas, limitePorSala>>

\* ... and the connection is told to close.  The reader goes on reading until the
\* socket is gone.
Rejeitar(p) ==
  /\ fase[p] = "rejeitar"
  /\ Fechar(p)
  /\ fase' = [fase EXCEPT ![p] = "lendo"]
  /\ destino' = [destino EXCEPT ![p] = Nenhuma]
  /\ UNCHANGED <<tabela, sala, deixada, avisar, visao, sujas, limitePorSala>>

\* `joined`, with the list taken under the lock.
Apresentar(p) ==
  /\ fase[p] = "apresentar"
  /\ Enviar(p, avisar[p], {})
  /\ fase' = [fase EXCEPT ![p] = "anunciar"]
  /\ UNCHANGED <<tabela, sala, destino, deixada, avisar, conexao, sujas, limitePorSala>>

\* peer-joined to one of those that were listed.
Anunciar(p) ==
  /\ fase[p] = "anunciar"
  /\ \E o \in avisar[p] :
       /\ Enviar(o, {p}, {})
       /\ avisar' = [avisar EXCEPT ![p] = @ \ {o}]
  /\ UNCHANGED <<tabela, sala, fase, destino, deixada, conexao, sujas, limitePorSala>>

TerminarEntradaComDefeito(p) ==                \* returns before everybody was told
  /\ fase[p] = "anunciar"
  /\ destino' = [destino EXCEPT ![p] = Nenhuma]
  /\ avisar' = [avisar EXCEPT ![p] = {}]
  /\ fase' = [fase EXCEPT ![p] = "lendo"]
  /\ UNCHANGED <<tabela, rede, sala, deixada, sujas, limitePorSala>>

TerminarEntrada(p) ==
  /\ fase[p] = "anunciar"
  /\ avisar[p] = {}
  /\ sujas' = sujas \cup {destino[p]}
  /\ destino' = [destino EXCEPT ![p] = Nenhuma]
  /\ fase' = [fase EXCEPT ![p] = "lendo"]
  /\ UNCHANGED <<tabela, rede, sala, deixada, avisar, limitePorSala>>

(***************************************************************************)
(* The other messages                                                      *)
(***************************************************************************)
\* A `ping` marks the room of the sender (responderPing).
ResponderPing(p) ==
  /\ fase[p] = "lendo"
  /\ sala[p] # Nenhuma
  /\ sujas' = sujas \cup {sala[p]}
  /\ UNCHANGED <<tabela, rede, sala, fase, destino, deixada, avisar, limitePorSala>>

\* A relayed message: the recipient is looked up under h.mu ...
Repassar(p, alvo) ==
  /\ fase[p] = "lendo"
  /\ sala[p] # Nenhuma
  /\ alvo \in salas[sala[p]]
  /\ avisar' = [avisar EXCEPT ![p] = {alvo}]
  /\ fase' = [fase EXCEPT ![p] = "repassar"]
  /\ UNCHANGED <<tabela, rede, sala, destino, deixada, sujas, limitePorSala>>

\* ... and the message handed to its queue with the lock released.
EntregarRepasse(p) ==
  /\ fase[p] = "repassar"
  /\ avisar' = [avisar EXCEPT ![p] = {}]
  /\ fase' = [fase EXCEPT ![p] = "lendo"]
  /\ UNCHANGED <<tabela, rede, sala, destino, deixada, sujas, limitePorSala>>

(***************************************************************************)
(* The goroutines beside the readers                                       *)
(***************************************************************************)
\* esvaziarPings takes all the dirty rooms of a tick (the `ping` messages it broadcasts
\* say nothing about presence).
EsvaziarPings ==
  /\ sujas # {}
  /\ sujas' = {}
  /\ UNCHANGED <<tabela, rede, sala, fase, destino, deixada, avisar, limitePorSala>>

\* Some enfileirar (the heartbeat's, or that of any sender) finds the queue of p
\* full, or the server shuts down: the connection is told to close.
FilaEncheu(p) ==
  /\ Aberta(p)
  /\ conexao' = [conexao EXCEPT ![p] = "fechada"]
  /\ UNCHANGED <<tabela, sala, fase, destino, deixada, avisar, visao, sujas, limitePorSala>>

\* The writer goroutine has drained the queue and closes the socket.
Desligar(p) ==
  /\ conexao[p] = "fechada"
  /\ conexao' = [conexao EXCEPT ![p] = "desligada"]
  /\ UNCHANGED <<tabela, sala, fase, destino, deixada, avisar, visao, sujas, limitePorSala>>

\* The steps a handler that has started takes without waiting for anything.
Continuar(p) ==
  \/ Remover(p) \/ Despedir(p) \/ TerminarSaida(p) \/ Encerrar(p)
  \/ Escolher(p) \/ Inscrever(p)
  \/ RecusarSalaCheia(p) \/ Esquecer(p) \/ Rejeitar(p)
  \/ Apresentar(p) \/ Anunciar(p) \/ TerminarEntrada(p)
  \/ EntregarRepasse(p)

Receber(p) ==
  \/ \E s \in Sala : Entrar(p, s)
  \/ LerErro(p)
  \/ ResponderPing(p)
  \/ \E alvo \in Peer : Repassar(p, alvo)

Next ==
  \/ \E p \in Peer : Continuar(p) \/ Receber(p) \/ FilaEncheu(p) \/ Desligar(p)
  \/ EsvaziarPings

\* Goroutines are scheduled; a reader whose socket is gone exhausts its buffer and
\* gets an error (strong fairness: until then it may go on handling messages); nothing
\* obliges a client to send, nor a queue to fill.
Fairness ==
  \A p \in Peer :
    /\ WF_vars(Continuar(p))
    /\ WF_vars(Desligar(p))
    /\ SF_vars(conexao[p] = "desligada" /\ LerErro(p))

Spec == Init /\ [][Next]_vars
FairSpec == Spec /\ Fairness

-----------------------------------------------------------------------------
(***************************************************************************)
(* Properties                                                              *)
(***************************************************************************)
\* Types, and which of a goroutine's locals are set in which phase.
TypeOK ==
  /\ salas \in [Sala -> SUBSET Peer]
  /\ vivas \in SUBSET Sala
  /\ sala \in [Peer -> Talvez]
  /\ fase \in [Peer -> Fase]
  /\ destino \in [Peer -> Talvez]
  /\ deixada \in [Peer -> Talvez]
  /\ avisar \in [Peer -> SUBSET Peer]
  /\ conexao \in [Peer -> {"aberta", "fechada", "desligada"}]
  /\ visao \in [Peer -> SUBSET Peer]
  /\ sujas \in SUBSET Sala
  /\ limitePorSala \in Limites
  /\ \A p \in Peer :
       /\ fase[p] \in {"entrar", "inscrever", "recusar", "rejeitar", "apresentar", "anunciar"}
            => destino[p] \in Sala
       /\ fase[p] = "retirar" => deixada[p] \in Sala

\* Where the table should have p: in the room it recorded, except between a section
\* of p.mu and the section of h.mu that goes with it.  In Sair it is still in the
\* room that it no longer records, in entrar not yet in the one that it already does.
Lugar(p) ==
  CASE fase[p] = "retirar" -> deixada[p]
    [] fase[p] \in {"inscrever", "recusar"} -> Nenhuma
    [] OTHER -> sala[p]

\* The table agrees with what each connection believes of itself, outside those
\* windows and, as Lugar says, inside: p is in one room at most, a goroutine that
\* goes on to another handler or returns has p.sala and the table in agreement, and
\* the map holds no room without members (Sair removes it; TotalSalas counts keys).
TabelaCoerente ==
  /\ \A p \in Peer, s \in Sala : p \in salas[s] <=> Lugar(p) = s
  /\ \A s \in Sala : s \in vivas <=> salas[s] # {}

\* No interleaving of joins takes a room over the limit (GREENLABS_MAX_POR_SALA).
LimiteRespeitado == \A s \in Sala : Cardinality(salas[s]) <= limitePorSala

\* Nobody whose goroutine has returned is left in a room: an abandoned entry would
\* hold a place of the room for ever.
SemAbandonado == \A p \in Peer : fase[p] = "fim" => \A s \in Sala : p \notin salas[s]

Assentado(p) == fase[p] \in {"lendo", "repassar"}

\* Two members of a room whose joins are over have been told of each other, whatever
\* order the two joins took the lock in: one found the other in its `joined`, the
\* other got a peer-joined, and no peer-left has undone it since.
Apresentados ==
  \A s \in Sala : \A p, q \in salas[s] :
    p # q /\ Assentado(p) /\ Assentado(q) /\ Aberta(p) => q \in visao[p]

\* A relayed message comes from somebody its recipient has heard of, or will find in
\* the `joined` that it has yet to be sent, if the recipient is still in the sender's
\* room: the relay looks up the recipient under the lock, but hands it the message
\* without it, and a newcomer is in the table before it knows of anybody.
RemetenteConhecido ==
  \A q \in Peer : fase[q] = "repassar" =>
    \A p \in avisar[q] \ {q} :
      p \in salas[sala[q]] /\ Aberta(p)
        => q \in visao[p] \/ (fase[p] = "apresentar" /\ q \in avisar[p])

\* What makes the two invariants above inductive: what a goroutine has recorded as
\* its room in each phase, and that whoever has not heard of a fellow member is
\* about to, from its own `joined` or from the other's peer-joined.
FaseCoerente ==
  \A p \in Peer :
    /\ fase[p] \in {"inscrever", "recusar", "apresentar", "anunciar"} => sala[p] = destino[p]
    /\ fase[p] = "repassar" => sala[p] # Nenhuma
    /\ fase[p] \in {"retirar", "despedir", "entrar", "rejeitar", "encerrar", "fim"}
         => sala[p] = Nenhuma

SabeOuSabera(p, q) ==
  \/ q \in visao[p]
  \/ fase[p] = "apresentar" /\ q \in avisar[p]
  \/ fase[q] \in {"apresentar", "anunciar"} /\ p \in avisar[q]

Noticiados ==
  \A p, q \in Peer : \A s \in Sala :
    p # q /\ p \in salas[s] /\ q \in salas[s] /\ Aberta(p) => SabeOuSabera(p, q)

IndInv == TypeOK /\ TabelaCoerente /\ FaseCoerente /\ Noticiados

\* Nobody is at work in the table or has notices left to send.
EmRepouso == \A p \in Peer : fase[p] \in {"lendo", "fim"}

\* When nothing is in progress, nobody is shown a participant that is not in its
\* room: whoever left was announced by a peer-left (README.md:472-473), which the
\* single-threaded signaling.js sent after the `joined` it corrects.
SemFantasma ==
  EmRepouso => \A p \in Peer : sala[p] # Nenhuma => visao[p] \subseteq salas[sala[p]]

\* A connection that was told to close is gone from every room in the end: its
\* writer closes the socket, the reader gets an error, and the deferred Sair runs.
Recolhida ==
  \A p \in Peer : ~Aberta(p) ~> (fase[p] = "fim" /\ \A s \in Sala : p \notin salas[s])

\* Every join that has left the old room comes to an end with the reader back in Ler
\* and p in the room it asked for, or told to close: nobody stays connected in no room
\* after a refusal ("Sala cheia").
JuncaoTermina ==
  \A p \in Peer, s \in Sala :
    fase[p] = "entrar" /\ destino[p] = s
      ~> fase[p] = "lendo" /\ (p \in salas[s] \/ ~Aberta(p))
=============================================================================
