---------------------------- MODULE Negociacao ----------------------------
(***************************************************************************)
(* The negotiation of one session of the relay with its client             *)
(* (src/src/sfu.go: oferecer, Descricao, Candidato, assinarComChave and    *)
(* removerFaixa).  Two kinds of goroutine drive the same PeerConnection:   *)
(*   - the reader of the participant (`leitor`), which makes the first     *)
(*     offer in Entrar and then handles the client's answers, offers and   *)
(*     candidates one at a time;                                           *)
(*   - one goroutine per track that somebody else publishes, which adds a  *)
(*     transceiver and calls oferecer when the track arrives, and drops    *)
(*     its sender and calls oferecer again when the track ends.            *)
(* sessao.mu protects the two flags of the session but not the signalling  *)
(* state, which pion keeps and changes under a lock of its own.            *)
(*                                                                         *)
(* pion is modelled by what the code relies on: an operation that the      *)
(* signalling state does not allow fails and changes nothing.  The client  *)
(* is modelled as WebRTC asks of the polite side: it answers every offer,  *)
(* giving up an offer of its own that is outstanding.                      *)
(***************************************************************************)
EXTENDS Naturals, Sequences, FiniteSets

CONSTANTS Faixa,                 \* tracks of others
          leitor,                \* the reader goroutine
          MaxOfertasCliente,     \* bound: offers the client makes
          MaxCandidatos,         \* bound: candidates the client sends
          MaxIniciativas,        \* bound: both together, once it has made an offer
          limiteCandidatos       \* candidates kept while there is no remote description

ASSUME NegociacaoAssumption ==
  /\ IsFiniteSet(Faixa) /\ leitor \notin Faixa
  /\ MaxOfertasCliente \in Nat
  /\ MaxCandidatos \in Nat /\ MaxIniciativas \in Nat
  /\ limiteCandidatos \in Nat \ {0}

VARIABLES
  sinal,              \* pion: "stable", "have-local-offer", "have-remote-offer", "closed"
  remota,             \* pion: there is a remote description
  transceptores,      \* pion: tracks that a transceiver sends
  ofertadas,          \* pion: tracks in the local offer that is outstanding
  negociadas,         \* pion: tracks the last accepted answer covered
  registrada,         \* the session is in s.salas, where Descricao and Candidato find it
  fechada, oferecendo, renegociarDepois,       \* sessaoSFU
  candidatosPendentes,                         \* sessaoSFU, how many
  aplicados,          \* candidates given to pion
  passo,              \* where each goroutine is
  oferta,             \* what its CreateOffer saw
  descida, subida,    \* messages to the client, and from it
  clienteOfertou,     \* the client has an offer of its own outstanding
  ofertasCliente, candidatosCliente            \* how many it has sent

vars == <<sinal, remota, transceptores, ofertadas, negociadas, registrada, fechada, oferecendo,
          renegociarDepois, candidatosPendentes, aplicados, passo, oferta, descida,
          subida, clienteOfertou, ofertasCliente, candidatosCliente>>

pion == <<sinal, remota, transceptores, ofertadas, negociadas>>
sessao == <<registrada, fechada>>
cliente == <<clienteOfertou, ofertasCliente, candidatosCliente>>
candidatos == <<candidatosPendentes, aplicados>>

Goroutine == Faixa \cup {leitor}

Init ==
  /\ sinal = "stable"
  /\ remota = FALSE
  /\ transceptores = {} /\ ofertadas = {} /\ negociadas = {}
  /\ registrada = TRUE
  /\ fechada = FALSE /\ oferecendo = FALSE /\ renegociarDepois = FALSE
  /\ candidatosPendentes = 0 /\ aplicados = 0
  /\ passo = [g \in Goroutine |-> IF g = leitor THEN "oferecer" ELSE "inicio"]
  /\ oferta = [g \in Goroutine |-> {}]
  /\ descida = <<>> /\ subida = <<>>
  /\ clienteOfertou = FALSE /\ ofertasCliente = 0 /\ candidatosCliente = 0

Ir(g, onde) == passo' = [passo EXCEPT ![g] = onde]

\* Where a goroutine goes when oferecer returns.
Depois(g) == IF g = leitor THEN "lendo" ELSE "fim"

(***************************************************************************)
(* oferecer, called by goroutine g                                         *)
(***************************************************************************)
\* The section under sessao.mu.
\* The variants named ..ComDefeito are mistakes that would be easy to make; each is
\* what some property is there to notice.
OcupadaComDefeito == sinal # "stable"          \* before the marker was introduced
Ocupada == oferecendo \/ sinal # "stable"

OferecerComDefeito(g) ==                       \* the note is made for an offer sent only
  /\ passo[g] = "oferecer"
  /\ IF fechada \/ oferecendo
     THEN Ir(g, Depois(g)) /\ UNCHANGED <<oferecendo, renegociarDepois>>
     ELSE IF Ocupada
     THEN Ir(g, Depois(g)) /\ renegociarDepois' = TRUE /\ UNCHANGED oferecendo
     ELSE Ir(g, "criar") /\ oferecendo' = TRUE /\ UNCHANGED renegociarDepois
  /\ UNCHANGED <<pion, sessao, candidatos, oferta, descida, subida, cliente>>

Oferecer(g) ==
  /\ passo[g] = "oferecer"
  /\ IF fechada
     THEN Ir(g, Depois(g)) /\ UNCHANGED <<oferecendo, renegociarDepois>>
     ELSE IF Ocupada
     THEN Ir(g, Depois(g)) /\ renegociarDepois' = TRUE /\ UNCHANGED oferecendo
     ELSE Ir(g, "criar") /\ oferecendo' = TRUE /\ UNCHANGED renegociarDepois
  /\ UNCHANGED <<pion, sessao, candidatos, oferta, descida, subida, cliente>>

\* CreateOffer, which fails on a closed connection.
CriarOferta(g) ==
  /\ passo[g] = "criar"
  /\ IF sinal = "closed" THEN Ir(g, "desistir") /\ UNCHANGED oferta
     ELSE Ir(g, "definir") /\ oferta' = [oferta EXCEPT ![g] = transceptores]
  /\ UNCHANGED <<pion, sessao, oferecendo, renegociarDepois, candidatos, descida,
                 subida, cliente>>

\* SetLocalDescription(offer), which only a stable connection accepts.
DefinirOferta(g) ==
  /\ passo[g] = "definir"
  /\ IF sinal = "stable"
     THEN sinal' = "have-local-offer" /\ ofertadas' = oferta[g] /\ Ir(g, "liberar")
     ELSE Ir(g, "desistir") /\ UNCHANGED <<sinal, ofertadas>>
  /\ oferta' = [oferta EXCEPT ![g] = {}]
  /\ UNCHANGED <<remota, transceptores, negociadas, sessao, oferecendo,
                 renegociarDepois, candidatos, descida, subida, cliente>>

LiberarComDefeito(g) ==                        \* the error is not looked at
  /\ passo[g] \in {"liberar", "desistir"}
  /\ oferecendo' = FALSE
  /\ Ir(g, "enviar")
  /\ UNCHANGED <<pion, sessao, renegociarDepois, candidatos, oferta, descida, subida, cliente>>

\* The deferred section that clears the marker, on both paths.
Liberar(g) ==
  /\ passo[g] \in {"liberar", "desistir"}
  /\ oferecendo' = FALSE
  /\ Ir(g, IF passo[g] = "liberar" THEN "enviar" ELSE Depois(g))
  /\ UNCHANGED <<pion, sessao, renegociarDepois, candidatos, oferta, descida, subida, cliente>>

EnviarOferta(g) ==
  /\ passo[g] = "enviar"
  /\ descida' = Append(descida, "offer")
  /\ Ir(g, Depois(g))
  /\ UNCHANGED <<pion, sessao, oferecendo, renegociarDepois, candidatos, oferta,
                 subida, cliente>>

(***************************************************************************)
(* assinarComChave and removerFaixa, in the goroutine of track f           *)
(***************************************************************************)
Assinar(f) ==
  /\ passo[f] = "inicio"
  /\ IF fechada \/ sinal = "closed" THEN UNCHANGED transceptores
     ELSE transceptores' = transceptores \cup {f}
  /\ Ir(f, "oferecer")
  /\ UNCHANGED <<sinal, remota, ofertadas, negociadas, sessao, oferecendo,
                 renegociarDepois, candidatos, oferta, descida, subida, cliente>>

\* The track ended: RemoveTrack, and a call of oferecer of its own.  On a closed
\* connection the one fails and the other returns at its first test.
Remover(f) ==
  /\ passo[f] = "fim"
  /\ f \in transceptores
  /\ sinal # "closed"
  /\ transceptores' = transceptores \ {f}
  /\ Ir(f, "oferecer")
  /\ UNCHANGED <<sinal, remota, ofertadas, negociadas, sessao, oferecendo,
                 renegociarDepois, candidatos, oferta, descida, subida, cliente>>

(***************************************************************************)
(* Descricao and Candidato, in the reader goroutine                        *)
(***************************************************************************)
Chega(tipo) ==
  /\ passo[leitor] = "lendo"
  /\ subida # <<>>
  /\ Head(subida) = tipo
  /\ subida' = Tail(subida)

\* SetRemoteDescription(answer): refused unless an offer of ours is outstanding.
ReceberResposta ==
  /\ Chega("answer")
  /\ IF sinal = "have-local-offer"
     THEN /\ sinal' = "stable"
          /\ remota' = TRUE
          /\ negociadas' = ofertadas
          /\ ofertadas' = {}
          /\ Ir(leitor, "aplicarResposta")
     ELSE UNCHANGED <<sinal, remota, negociadas, ofertadas, passo>>
  /\ UNCHANGED <<transceptores, sessao, oferecendo, renegociarDepois, candidatos,
                 oferta, descida, cliente>>

\* SetRemoteDescription(offer): refused while an offer of ours is outstanding.
ReceberOferta ==
  /\ Chega("offer")
  /\ IF sinal = "stable"
     THEN /\ sinal' = "have-remote-offer"
          /\ remota' = TRUE
          /\ Ir(leitor, "aplicarOferta")
     ELSE UNCHANGED <<sinal, remota, passo>>
  /\ UNCHANGED <<transceptores, ofertadas, negociadas, sessao, oferecendo,
                 renegociarDepois, candidatos, oferta, descida, cliente>>

AplicarPendentesComDefeito ==                  \* cleared before they are copied
  /\ passo[leitor] \in {"aplicarResposta", "aplicarOferta"}
  /\ candidatosPendentes' = 0
  /\ Ir(leitor, IF passo[leitor] = "aplicarOferta" THEN "responder" ELSE "consultar")
  /\ UNCHANGED <<pion, aplicados, sessao, oferecendo, renegociarDepois, oferta, descida,
                 subida, cliente>>

\* The candidates that were waiting, then the branch on the type.
AplicarPendentes ==
  /\ passo[leitor] \in {"aplicarResposta", "aplicarOferta"}
  /\ aplicados' = aplicados + candidatosPendentes
  /\ candidatosPendentes' = 0
  /\ Ir(leitor, IF passo[leitor] = "aplicarOferta" THEN "responder" ELSE "consultar")
  /\ UNCHANGED <<pion, sessao, oferecendo, renegociarDepois, oferta, descida, subida, cliente>>

ConsultarAdiadaComDefeito ==                   \* the note is cleared and not acted upon
  /\ passo[leitor] = "consultar"
  /\ renegociarDepois' = FALSE
  /\ Ir(leitor, "lendo")
  /\ UNCHANGED <<pion, sessao, oferecendo, candidatos, oferta, descida, subida, cliente>>

\* After an answer: the renegotiation noted meanwhile, if any.
ConsultarAdiada ==
  /\ passo[leitor] = "consultar"
  /\ renegociarDepois' = FALSE
  /\ Ir(leitor, IF renegociarDepois THEN "oferecer" ELSE "lendo")
  /\ UNCHANGED <<pion, sessao, oferecendo, candidatos, oferta, descida, subida, cliente>>

\* After an offer: CreateAnswer and SetLocalDescription(answer) ...  The answer has the
\* m-lines of what the client publishes, and so negotiates no track of others.
Responder ==
  /\ passo[leitor] = "responder"
  /\ IF sinal = "have-remote-offer"
     THEN sinal' = "stable" /\ Ir(leitor, "enviarResposta")
     ELSE Ir(leitor, "lendo") /\ UNCHANGED sinal
  /\ UNCHANGED <<remota, transceptores, ofertadas, negociadas, sessao, oferecendo,
                 renegociarDepois, candidatos, oferta, descida, subida, cliente>>

\* ... and the answer is sent.
EnviarResposta ==
  /\ passo[leitor] = "enviarResposta"
  /\ descida' = Append(descida, "answer")
  /\ Ir(leitor, "lendo")
  /\ UNCHANGED <<pion, sessao, oferecendo, renegociarDepois, candidatos, oferta,
                 subida, cliente>>

CabeMais == candidatosPendentes < limiteCandidatos

Candidato ==
  /\ Chega("ice")
  /\ IF fechada THEN UNCHANGED candidatos
     ELSE IF remota THEN aplicados' = aplicados + 1 /\ UNCHANGED candidatosPendentes
     ELSE /\ candidatosPendentes' = IF CabeMais THEN candidatosPendentes + 1
                                    ELSE candidatosPendentes
          /\ UNCHANGED aplicados
  /\ UNCHANGED <<pion, sessao, oferecendo, renegociarDepois, passo, oferta, descida, cliente>>

\* A message looked up after Sair took the session out of the registry finds none.
SemSessao ==
  /\ \E tipo \in {"offer", "answer", "ice"} : Chega(tipo)
  /\ ~registrada
  /\ UNCHANGED <<pion, sessao, oferecendo, renegociarDepois, candidatos, passo, oferta,
                 descida, cliente>>

(***************************************************************************)
(* Sair, from a callback or from the reader: the registry, the flag, Close *)
(***************************************************************************)
Retirar ==
  /\ registrada
  /\ registrada' = FALSE
  /\ UNCHANGED <<pion, fechada, oferecendo, renegociarDepois, candidatos, passo, oferta,
                 descida, subida, cliente>>

MarcarFechada ==
  /\ ~registrada
  /\ ~fechada
  /\ fechada' = TRUE
  /\ UNCHANGED <<pion, registrada, oferecendo, renegociarDepois, candidatos, passo, oferta,
                 descida, subida, cliente>>

FecharConexao ==
  /\ fechada
  /\ sinal # "closed"
  /\ sinal' = "closed"
  /\ UNCHANGED <<remota, transceptores, ofertadas, negociadas, sessao, oferecendo,
                 renegociarDepois, candidatos, passo, oferta, descida, subida, cliente>>

(***************************************************************************)
(* The client                                                              *)
(***************************************************************************)
ClienteRecebe ==
  /\ descida # <<>>
  /\ descida' = Tail(descida)
  /\ clienteOfertou' = FALSE
  /\ subida' = IF Head(descida) = "offer" THEN Append(subida, "answer") ELSE subida
  /\ UNCHANGED <<pion, sessao, oferecendo, renegociarDepois, candidatos, passo, oferta,
                 ofertasCliente, candidatosCliente>>

ClienteOferta ==
  /\ ~clienteOfertou
  /\ ofertasCliente < MaxOfertasCliente
  /\ ofertasCliente + candidatosCliente < MaxIniciativas
  /\ clienteOfertou' = TRUE
  /\ ofertasCliente' = ofertasCliente + 1
  /\ subida' = Append(subida, "offer")
  /\ UNCHANGED <<pion, sessao, oferecendo, renegociarDepois, candidatos, passo, oferta,
                 descida, candidatosCliente>>

ClienteCandidato ==
  /\ candidatosCliente < MaxCandidatos
  /\ ofertasCliente > 0 => ofertasCliente + candidatosCliente < MaxIniciativas
  /\ candidatosCliente' = candidatosCliente + 1
  /\ subida' = Append(subida, "ice")
  /\ UNCHANGED <<pion, sessao, oferecendo, renegociarDepois, candidatos, passo, oferta,
                 descida, clienteOfertou, ofertasCliente>>

PassoOferta(g) ==
  Oferecer(g) \/ CriarOferta(g) \/ DefinirOferta(g) \/ Liberar(g) \/ EnviarOferta(g)

PassoLeitor ==
  \/ ReceberResposta \/ ReceberOferta \/ Candidato \/ SemSessao
  \/ AplicarPendentes \/ ConsultarAdiada \/ Responder \/ EnviarResposta

Next ==
  \/ \E g \in Goroutine : PassoOferta(g)
  \/ \E f \in Faixa : Assinar(f) \/ Remover(f)
  \/ PassoLeitor
  \/ Retirar \/ MarcarFechada \/ FecharConexao
  \/ ClienteRecebe \/ ClienteOferta \/ ClienteCandidato

\* Goroutines are scheduled and the client goes on handling what it is sent.  No track
\* has to be published or to end, the session need not close, and the client need not
\* speak first.
Fairness ==
  /\ \A g \in Goroutine : WF_vars(PassoOferta(g))
  /\ WF_vars(PassoLeitor)
  /\ WF_vars(ClienteRecebe)

Spec == Init /\ [][Next]_vars
FairSpec == Spec /\ Fairness
-----------------------------------------------------------------------------
(***************************************************************************)
(* Properties                                                              *)
(***************************************************************************)
Passo == {"inicio", "oferecer", "criar", "definir", "liberar", "desistir", "enviar", "fim",
          "lendo", "aplicarResposta", "aplicarOferta", "consultar", "responder",
          "enviarResposta"}

TypeOK ==
  /\ sinal \in {"stable", "have-local-offer", "have-remote-offer", "closed"}
  /\ remota \in BOOLEAN
  /\ transceptores \in SUBSET Faixa
  /\ ofertadas \in SUBSET Faixa
  /\ negociadas \in SUBSET Faixa
  /\ registrada \in BOOLEAN
  /\ fechada \in BOOLEAN /\ oferecendo \in BOOLEAN /\ renegociarDepois \in BOOLEAN
  /\ candidatosPendentes \in 0..limiteCandidatos
  /\ aplicados \in 0..MaxCandidatos
  /\ passo \in [Goroutine -> Passo]
  /\ oferta \in [Goroutine -> SUBSET Faixa]
  /\ descida \in Seq({"offer", "answer"})
  /\ subida \in Seq({"offer", "answer", "ice"})
  /\ clienteOfertou \in BOOLEAN
  /\ ofertasCliente \in 0..MaxOfertasCliente
  /\ candidatosCliente \in 0..MaxCandidatos

\* No goroutine sets a local offer while another of ours waits for its answer: the
\* two flags keep it from happening although the check of the signalling state and
\* its change are not one section (sfu.go:73-76).
SemOfertaSobreOferta ==
  \A g \in Goroutine : passo[g] = "definir" => sinal # "have-local-offer"

\* What makes it inductive: the marker `oferecendo` admits one goroutine at a time to the
\* part of oferecer that makes an offer, and while that one has not set its offer
\* nothing else can make the state have-local-offer.
NaOferta(g) == passo[g] \in {"criar", "definir", "liberar", "desistir"}

UmaPorVez ==
  /\ \A g \in Goroutine : NaOferta(g) => oferecendo
  /\ \A g, h \in Goroutine : NaOferta(g) /\ NaOferta(h) => g = h
  /\ \A g \in Goroutine : passo[g] \in {"criar", "definir"} => sinal # "have-local-offer"

Quantas(fila, tipo) == Cardinality({i \in DOMAIN fila : fila[i] = tipo})

\* While an offer of ours is outstanding it is in exactly one place: about to be sent,
\* on its way, or answered with the answer on its way back.  When none is, there is
\* none anywhere: no answer can be taken for that of another offer.
OfertaEmUmLugar ==
  registrada =>
    Cardinality({g \in Goroutine : passo[g] \in {"liberar", "enviar"}})
      + Quantas(descida, "offer") + Quantas(subida, "answer")
    = (IF sinal = "have-local-offer" THEN 1 ELSE 0)

\* No candidate is left waiting once there is a remote description and the reader is
\* back at its socket, and none is lost unless the limit was reached (sfu.go:824-825).
CandidatosAplicados ==
  passo[leitor] = "lendo" /\ registrada =>
    LET guardados == aplicados + candidatosPendentes
    IN /\ remota => candidatosPendentes = 0
       /\ \/ guardados + Quantas(subida, "ice") = candidatosCliente
          \/ guardados >= limiteCandidatos

\* Until the client makes an offer of its own, what a registered session sends is what
\* its client knows of or will know once it has answered the offer in hand; or somebody
\* has still to offer it: a goroutine before its call of oferecer or CreateOffer, or the
\* note, and then the answer that makes Descricao read the note is still to come or has
\* just been handled (sfu.go:73-76, 447-448).
AConsultar ==
  \/ sinal = "have-local-offer"
  \/ passo[leitor] \in {"aplicarResposta", "consultar"}
  \/ \E g \in Goroutine : passo[g] \in {"criar", "definir"}

PorOferecer ==
  \/ \E g \in Goroutine : passo[g] \in {"oferecer", "criar"}
  \/ renegociarDepois /\ AConsultar

Definindo == {g \in Goroutine : passo[g] = "definir"}

EmDia ==
  /\ sinal = "have-local-offer" => ofertadas = transceptores
  /\ \A g \in Definindo : oferta[g] = transceptores
  /\ sinal # "have-local-offer" /\ Definindo = {} => negociadas = transceptores

NenhumaEsquecida == registrada /\ ofertasCliente = 0 => EmDia \/ PorOferecer

\* An answer never takes back a track that an earlier one covered and that is still
\* sent: no offer is older than the one answered before it, whatever the goroutines
\* that make them do.
NegociadaPermanece == [][negociadas \cap transceptores' \subseteq negociadas']_vars

\* A renegotiation that is put off is no more than put off: what an open session sends
\* and what its client has agreed to are the same in the end.  sfu.go:447-448 notes a call
\* that cannot be made now, since to insist "seria recusado, e o participante ficaria sem
\* receber a faixa nova".
Acordado == negociadas = transceptores

TodasNegociadas == ~Acordado ~> Acordado \/ ~registrada

\* It does hold up to the first offer that the client makes of its own.
NegociadasSemOferta == ~Acordado ~> Acordado \/ ~registrada \/ ofertasCliente > 0
=============================================================================
