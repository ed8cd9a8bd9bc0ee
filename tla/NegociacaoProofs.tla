-------------------------- MODULE NegociacaoProofs --------------------------
(***************************************************************************)
(* Proofs about Negociacao, for any number of tracks, of offers of the     *)
(* client and of candidates.                                               *)
(***************************************************************************)
EXTENDS Negociacao, FiniteSetTheorems, TLAPS

PassoTipado == passo \in [Goroutine -> Passo]

UmaInv == PassoTipado /\ UmaPorVez

LEMMA UmaInit == Init => UmaInv
  BY DEF Init, UmaInv, PassoTipado, Passo, UmaPorVez, NaOferta

\* A goroutine that moves between places outside of the offer, and leaves marker and
\* signalling state alone or takes the latter out of have-local-offer, disturbs nothing.
LEMMA ForaDaOferta ==
  ASSUME UmaInv,
         NEW g \in Goroutine, NEW onde \in Passo,
         onde \notin {"criar", "definir", "liberar", "desistir"},
         Ir(g, onde) \/ UNCHANGED passo,
         UNCHANGED oferecendo,
         sinal' = sinal \/ sinal' # "have-local-offer"
  PROVE  UmaInv'
  BY DEF UmaInv, PassoTipado, UmaPorVez, NaOferta, Ir

LEMMA UmaStep == UmaInv /\ [Next]_vars => UmaInv'
<1> SUFFICES ASSUME UmaInv, [Next]_vars PROVE UmaInv'
  OBVIOUS
<1> leitor \in Goroutine
  BY DEF Goroutine
<1> USE DEF Passo
<1>1. ASSUME NEW g \in Goroutine, Oferecer(g) PROVE UmaInv'
  BY <1>1 DEF Oferecer, Ocupada, Depois, Ir, pion, UmaInv, PassoTipado, UmaPorVez, NaOferta
<1>2. ASSUME NEW g \in Goroutine, CriarOferta(g) PROVE UmaInv'
  BY <1>2 DEF CriarOferta, Ir, pion, UmaInv, PassoTipado, UmaPorVez, NaOferta
<1>3. ASSUME NEW g \in Goroutine, DefinirOferta(g) PROVE UmaInv'
  BY <1>3 DEF DefinirOferta, Ir, UmaInv, PassoTipado, UmaPorVez, NaOferta
<1>4. ASSUME NEW g \in Goroutine, Liberar(g) PROVE UmaInv'
  BY <1>4 DEF Liberar, Depois, Ir, pion, UmaInv, PassoTipado, UmaPorVez, NaOferta
<1>5. ASSUME NEW g \in Goroutine, EnviarOferta(g) PROVE UmaInv'
  <2>1. Depois(g) \in Passo \ {"criar", "definir", "liberar", "desistir"}
    BY DEF Depois
  <2> QED BY <1>5, <2>1, ForaDaOferta DEF EnviarOferta, pion
<1>6. ASSUME NEW f \in Faixa, Assinar(f) \/ Remover(f) PROVE UmaInv'
  <2>1. f \in Goroutine
    BY DEF Goroutine
  <2> QED BY <1>6, <2>1, ForaDaOferta DEF Assinar, Remover
<1>7. CASE ReceberResposta
  BY <1>7, ForaDaOferta DEF ReceberResposta
<1>8. CASE ReceberOferta
  BY <1>8, ForaDaOferta DEF ReceberOferta
<1>9. CASE AplicarPendentes
  <2>1. \E onde \in {"responder", "consultar"} : Ir(leitor, onde)
    BY <1>9 DEF AplicarPendentes
  <2> QED BY <1>9, <2>1, ForaDaOferta DEF AplicarPendentes, pion
<1>10. CASE ConsultarAdiada
  <2>1. \E onde \in {"oferecer", "lendo"} : Ir(leitor, onde)
    BY <1>10 DEF ConsultarAdiada
  <2> QED BY <1>10, <2>1, ForaDaOferta DEF ConsultarAdiada, pion
<1>11. CASE Responder
  BY <1>11, ForaDaOferta DEF Responder
<1>12. CASE EnviarResposta
  BY <1>12, ForaDaOferta DEF EnviarResposta, pion
<1>13. CASE FecharConexao
  BY <1>13 DEF FecharConexao, UmaInv, PassoTipado, UmaPorVez, NaOferta
<1>14. CASE Candidato \/ SemSessao \/ Retirar \/ MarcarFechada
            \/ ClienteRecebe \/ ClienteOferta \/ ClienteCandidato \/ UNCHANGED vars
  <2>1. UNCHANGED <<sinal, oferecendo, passo>>
    BY <1>14 DEF Candidato, SemSessao, Retirar, MarcarFechada, ClienteRecebe, ClienteOferta,
                 ClienteCandidato, pion, vars
  <2> QED BY <2>1 DEF UmaInv, PassoTipado, UmaPorVez, NaOferta
<1> QED
  BY <1>1, <1>2, <1>3, <1>4, <1>5, <1>6, <1>7, <1>8, <1>9, <1>10, <1>11, <1>12, <1>13, <1>14
  DEF Next, PassoOferta, PassoLeitor

\* At any moment at most one goroutine is between the two sections of oferecer that set
\* and clear the marker, for any number of tracks.
THEOREM UmaOfertaPorVez == Spec => []UmaPorVez
<1>1. UmaInv => UmaPorVez
  BY DEF UmaInv
<1> QED BY <1>1, UmaInit, UmaStep, PTL DEF Spec

\* No goroutine sets a local offer while one waits for its answer: the two critical
\* sections of oferecer are enough, although pion's state is read in the first and
\* changed between them.
THEOREM NuncaOfertaSobreOferta == Spec => []SemOfertaSobreOferta
<1>1. UmaPorVez => SemOfertaSobreOferta
  BY DEF UmaPorVez, SemOfertaSobreOferta
<1> QED BY <1>1, UmaOfertaPorVez, PTL

-----------------------------------------------------------------------------
(***************************************************************************)
(* Where the outstanding offer is.                                         *)
(***************************************************************************)
Tipo == {"offer", "answer", "ice"}
Onde(fila, tipo) == {i \in DOMAIN fila : fila[i] = tipo}
Saindo == {g \in Goroutine : passo[g] \in {"liberar", "enviar"}}

OfertaInv ==
  /\ PassoTipado
  /\ descida \in Seq(Tipo) /\ subida \in Seq(Tipo)
  /\ registrada => ~fechada
  /\ sinal = "closed" => fechada
  /\ OfertaEmUmLugar

LEMMA OndeFinito ==
  ASSUME NEW s \in Seq(Tipo), NEW t
  PROVE IsFiniteSet(Onde(s, t)) /\ Quantas(s, t) = Cardinality(Onde(s, t)) /\ Quantas(s, t) \in Nat
<1>1. Onde(s, t) \subseteq 1..Len(s) /\ IsFiniteSet(1..Len(s))
  BY FS_Interval DEF Onde
<1>2. IsFiniteSet(Onde(s, t))
  BY <1>1, FS_Subset
<1> QED BY <1>2, FS_CardinalityType DEF Quantas, Onde

\* A message queued counts for its own kind only ...
LEMMA QuantasFim ==
  ASSUME NEW s \in Seq(Tipo), NEW x \in Tipo, NEW t
  PROVE /\ Append(s, x) \in Seq(Tipo)
        /\ Quantas(Append(s, x), t) = Quantas(s, t) + (IF x = t THEN 1 ELSE 0)
<1>1. Append(s, x) \in Seq(Tipo)
  OBVIOUS
<1>0. /\ IsFiniteSet(Onde(s, t))
      /\ Quantas(s, t) = Cardinality(Onde(s, t)) /\ Quantas(s, t) \in Nat
      /\ Quantas(Append(s, x), t) = Cardinality(Onde(Append(s, x), t))
  BY <1>1, OndeFinito
<1>2. CASE x = t
  <2>1. Onde(Append(s, x), t) = Onde(s, t) \cup {Len(s) + 1} /\ Len(s) + 1 \notin Onde(s, t)
    BY <1>2 DEF Onde
  <2>2. Cardinality(Onde(s, t) \cup {Len(s) + 1}) = Cardinality(Onde(s, t)) + 1
    BY <1>0, <2>1, FS_AddElement
  <2> QED BY <1>0, <1>2, <2>1, <2>2
<1>3. CASE x # t
  <2>1. Onde(Append(s, x), t) = Onde(s, t)
    BY <1>3 DEF Onde
  <2> QED BY <1>0, <1>3, <2>1
<1> QED BY <1>1, <1>2, <1>3

\* ... and so does one taken from the queue.
LEMMA QuantasInicio ==
  ASSUME NEW s \in Seq(Tipo), s # <<>>, NEW t
  PROVE /\ Tail(s) \in Seq(Tipo) /\ Head(s) \in Tipo
        /\ Quantas(s, t) = Quantas(Tail(s), t) + (IF Head(s) = t THEN 1 ELSE 0)
<1> DEFINE A == Onde(Tail(s), t)
           B == Onde(s, t) \ {1}
<1>1. /\ Tail(s) \in Seq(Tipo) /\ Head(s) \in Tipo
      /\ Len(s) \in Nat /\ Len(s) >= 1 /\ DOMAIN s = 1..Len(s) /\ s[1] = Head(s)
      /\ DOMAIN Tail(s) = 1..(Len(s) - 1)
      /\ \A i \in 1..(Len(s) - 1) : Tail(s)[i] = s[i + 1]
  OBVIOUS
<1>2. ExistsBijection(A, B)
  <2> DEFINE f == [i \in A |-> i + 1]
  <2>1. \A i \in A : i + 1 \in B
    BY <1>1 DEF Onde
  <2>2. \A j \in B : j - 1 \in A /\ f[j - 1] = j
    BY <1>1 DEF Onde
  <2>3. \A i, j \in A : f[i] = f[j] => i = j
    BY <1>1 DEF Onde
  <2>4. f \in Bijection(A, B)
    BY <2>1, <2>2, <2>3 DEF Bijection, Injection, Surjection, IsInjective
  <2> QED BY <2>4 DEF ExistsBijection
<1>3. IsFiniteSet(A) /\ Quantas(Tail(s), t) = Cardinality(A)
  BY <1>1, OndeFinito
<1>4. IsFiniteSet(B) /\ Cardinality(B) = Cardinality(A)
  BY <1>2, <1>3, FS_Bijection
<1>0. Quantas(s, t) = Cardinality(Onde(s, t)) /\ Quantas(Tail(s), t) \in Nat
  BY <1>1, OndeFinito
<1>5. CASE Head(s) = t
  <2>1. Onde(s, t) = B \cup {1} /\ 1 \notin B
    BY <1>1, <1>5 DEF Onde
  <2>2. Cardinality(B \cup {1}) = Cardinality(B) + 1
    BY <1>4, <2>1, FS_AddElement
  <2> HIDE DEF A, B
  <2> QED BY <1>3, <1>4, <1>5, <1>0, <2>1, <2>2
<1>6. CASE Head(s) # t
  <2>1. Onde(s, t) = B
    BY <1>1, <1>6 DEF Onde
  <2> HIDE DEF A, B
  <2> QED BY <1>3, <1>4, <1>6, <1>0, <2>1
<1> QED BY <1>1, <1>5, <1>6

LEMMA SaindoFinito == IsFiniteSet(Goroutine) /\ IsFiniteSet(Saindo)
<1>1. IsFiniteSet(Goroutine)
  BY NegociacaoAssumption, FS_AddElement DEF Goroutine
<1> QED BY <1>1, FS_Subset DEF Saindo

Lugares == Cardinality(Saindo) + Quantas(descida, "offer") + Quantas(subida, "answer")

LEMMA LugaresNat ==
  ASSUME OfertaInv
  PROVE /\ Cardinality(Saindo) \in Nat
        /\ Quantas(descida, "offer") \in Nat /\ Quantas(subida, "answer") \in Nat
BY SaindoFinito, FS_CardinalityType, OndeFinito DEF OfertaInv

LEMMA EmUmLugar ==
  OfertaEmUmLugar <=> (registrada => Lugares = IF sinal = "have-local-offer" THEN 1 ELSE 0)
BY DEF OfertaEmUmLugar, Lugares, Saindo

\* A goroutine that begins to send an offer, or has sent it.
LEMMA SaindoEntra ==
  ASSUME PassoTipado, NEW g \in Goroutine, g \notin Saindo, Ir(g, "liberar")
  PROVE Cardinality(Saindo)' = Cardinality(Saindo) + 1
<1>1. Saindo' = Saindo \cup {g}
  BY DEF Saindo, Ir, PassoTipado
<1> QED BY <1>1, SaindoFinito, FS_AddElement

LEMMA SaindoSai ==
  ASSUME PassoTipado, NEW g \in Saindo, NEW onde, onde \notin {"liberar", "enviar"}, Ir(g, onde)
  PROVE Cardinality(Saindo)' = Cardinality(Saindo) - 1
<1>1. Saindo' = Saindo \ {g}
  BY DEF Saindo, Ir, PassoTipado
<1> QED BY <1>1, SaindoFinito, FS_RemoveElement

\* Steps that move no offer and no answer, and take a registered session neither into
\* have-local-offer nor out of it.
LEMMA OfertaParada ==
  ASSUME OfertaInv, PassoTipado',
         descida' \in Seq(Tipo), subida' \in Seq(Tipo),
         registrada' => registrada /\ ~fechada', sinal' = "closed" => fechada',
         Saindo' = Saindo,
         Quantas(descida, "offer")' = Quantas(descida, "offer"),
         Quantas(subida, "answer")' = Quantas(subida, "answer"),
         registrada' => (sinal' = "have-local-offer" <=> sinal = "have-local-offer")
  PROVE OfertaInv'
BY EmUmLugar DEF OfertaInv, OfertaEmUmLugar, Saindo

LEMMA OfertaInit == Init => OfertaInv
<1> SUFFICES ASSUME Init PROVE OfertaInv
  OBVIOUS
<1>1. PassoTipado /\ descida = <<>> /\ subida = <<>> /\ Saindo = {}
  BY DEF Init, PassoTipado, Passo, Saindo
<1>2. Onde(descida, "offer") = {} /\ Onde(subida, "answer") = {}
  BY <1>1 DEF Onde
<1>3. Lugares = 0
  BY <1>1, <1>2, FS_EmptySet DEF Lugares, Quantas, Onde
<1> QED BY <1>1, <1>3, EmUmLugar DEF OfertaInv, Init

LEMMA OfertaStep == OfertaInv /\ [Next]_vars => OfertaInv'
<1> SUFFICES ASSUME OfertaInv, [Next]_vars PROVE OfertaInv'
  OBVIOUS
<1>0. leitor \in Goroutine /\ \A g \in Goroutine : Depois(g) \in {"lendo", "fim"}
  BY DEF Goroutine, Depois
<1>1. ASSUME NEW g \in Goroutine, Oferecer(g) \/ CriarOferta(g) PROVE OfertaInv'
  <2>1. \E onde \in Passo \ {"liberar", "enviar"} : Ir(g, onde)
    BY <1>0, <1>1 DEF Oferecer, CriarOferta, Passo
  <2>2. g \notin Saindo
    BY <1>1 DEF Oferecer, CriarOferta, Saindo
  <2>3. PassoTipado' /\ Saindo' = Saindo
    BY <2>1, <2>2 DEF Ir, PassoTipado, OfertaInv, Saindo
  <2>4. UNCHANGED <<sinal, registrada, fechada, descida, subida>>
    BY <1>1 DEF Oferecer, CriarOferta, pion, sessao
  <2> QED BY <2>3, <2>4, OfertaParada DEF OfertaInv
<1>2. ASSUME NEW g \in Goroutine, DefinirOferta(g) PROVE OfertaInv'
  <2>1. UNCHANGED <<registrada, fechada, descida, subida>> /\ g \notin Saindo
    BY <1>2 DEF DefinirOferta, sessao, Saindo
  <2>2. CASE sinal = "stable"
    <3>1. sinal' = "have-local-offer" /\ Ir(g, "liberar")
      BY <1>2, <2>2 DEF DefinirOferta
    <3>2. Cardinality(Saindo)' = Cardinality(Saindo) + 1
      BY <2>1, <3>1, SaindoEntra DEF OfertaInv
    <3>3. PassoTipado'
      BY <3>1 DEF Ir, PassoTipado, OfertaInv, Passo
    <3>4. registrada => Lugares = 0
      BY <2>2, EmUmLugar DEF OfertaInv
    <3>5. registrada' => Lugares' = 1
      BY <2>1, <3>2, <3>4, LugaresNat DEF Lugares
    <3>6. OfertaEmUmLugar'
      BY <3>1, <3>5 DEF OfertaEmUmLugar, Lugares, Saindo
    <3> QED BY <2>1, <3>1, <3>3, <3>6 DEF OfertaInv
  <2>3. CASE sinal # "stable"
    <3>1. UNCHANGED sinal /\ Ir(g, "desistir")
      BY <1>2, <2>3 DEF DefinirOferta
    <3>2. PassoTipado' /\ Saindo' = Saindo
      BY <2>1, <3>1 DEF Ir, PassoTipado, OfertaInv, Passo, Saindo
    <3> QED BY <2>1, <3>1, <3>2, OfertaParada DEF OfertaInv
  <2> QED BY <2>2, <2>3
<1>3. ASSUME NEW g \in Goroutine, Liberar(g) PROVE OfertaInv'
  <2>1. Ir(g, IF passo[g] = "liberar" THEN "enviar" ELSE Depois(g)) /\ passo[g] \in {"liberar", "desistir"}
    BY <1>3 DEF Liberar
  <2>2. PassoTipado' /\ Saindo' = Saindo
    BY <1>0, <2>1 DEF Ir, PassoTipado, OfertaInv, Passo, Saindo
  <2>3. UNCHANGED <<sinal, registrada, fechada, descida, subida>>
    BY <1>3 DEF Liberar, pion, sessao
  <2> QED BY <2>2, <2>3, OfertaParada DEF OfertaInv
<1>4. ASSUME NEW g \in Goroutine, EnviarOferta(g) PROVE OfertaInv'
  <2>1. /\ g \in Saindo /\ Ir(g, Depois(g)) /\ descida' = Append(descida, "offer")
        /\ UNCHANGED <<sinal, registrada, fechada, subida>>
    BY <1>4 DEF EnviarOferta, pion, sessao, Saindo
  <2>2. Cardinality(Saindo)' = Cardinality(Saindo) - 1
    BY <1>0, <2>1, SaindoSai DEF OfertaInv
  <2>3. descida' \in Seq(Tipo) /\ Quantas(descida', "offer") = Quantas(descida, "offer") + 1
    BY <2>1, QuantasFim DEF OfertaInv, Tipo
  <2>4. PassoTipado'
    BY <1>0, <2>1 DEF Ir, PassoTipado, OfertaInv, Passo
  <2>5. Lugares' = Lugares
    BY <2>1, <2>2, <2>3, LugaresNat DEF Lugares
  <2>6. OfertaEmUmLugar'
    BY <2>1, <2>5, EmUmLugar DEF OfertaInv, OfertaEmUmLugar, Lugares, Saindo
  <2> QED BY <2>1, <2>3, <2>4, <2>6 DEF OfertaInv
<1>5. ASSUME NEW f \in Faixa, Assinar(f) \/ Remover(f) PROVE OfertaInv'
  <2>1. f \in Goroutine /\ passo[f] \in {"inicio", "fim"} /\ Ir(f, "oferecer")
    BY <1>5 DEF Assinar, Remover, Goroutine
  <2>2. PassoTipado' /\ Saindo' = Saindo
    BY <2>1 DEF Ir, PassoTipado, OfertaInv, Passo, Saindo
  <2>3. UNCHANGED <<sinal, registrada, fechada, descida, subida>>
    BY <1>5 DEF Assinar, Remover, sessao
  <2> QED BY <2>2, <2>3, OfertaParada DEF OfertaInv
<1>6. CASE ReceberResposta
  <2>1. /\ subida # <<>> /\ Head(subida) = "answer" /\ subida' = Tail(subida)
        /\ UNCHANGED <<registrada, fechada, descida>>
    BY <1>6 DEF ReceberResposta, Chega, sessao
  <2>2. subida' \in Seq(Tipo) /\ Quantas(subida, "answer") = Quantas(subida', "answer") + 1
    BY <2>1, QuantasInicio DEF OfertaInv
  <2>3. Quantas(subida', "answer") \in Nat
    BY <2>2, OndeFinito
  <2>4. CASE sinal = "have-local-offer"
    <3>1. sinal' = "stable" /\ Ir(leitor, "aplicarResposta") /\ passo[leitor] = "lendo"
      BY <1>6, <2>4 DEF ReceberResposta, Chega
    <3>2. PassoTipado' /\ Saindo' = Saindo
      BY <1>0, <3>1 DEF Ir, PassoTipado, OfertaInv, Passo, Saindo
    <3>3. registrada => Lugares = 1
      BY <2>4, EmUmLugar DEF OfertaInv
    <3>4. registrada' => Lugares' = 0
      BY <2>1, <2>2, <2>3, <3>2, <3>3, LugaresNat DEF Lugares
    <3>5. OfertaEmUmLugar'
      BY <3>1, <3>4 DEF OfertaEmUmLugar, Lugares, Saindo
    <3> QED BY <2>1, <2>2, <3>1, <3>2, <3>5 DEF OfertaInv
  <2>5. CASE sinal # "have-local-offer"
    <3>1. UNCHANGED <<sinal, passo>>
      BY <1>6, <2>5 DEF ReceberResposta
    <3>2. ~registrada                          \* there is no answer to nothing
      BY <2>2, <2>3, <2>5, EmUmLugar, LugaresNat DEF OfertaInv, Lugares
    <3> QED BY <2>1, <2>2, <3>1, <3>2 DEF OfertaInv, PassoTipado, OfertaEmUmLugar
  <2> QED BY <2>4, <2>5
<1>7. CASE ReceberOferta \/ Candidato \/ SemSessao
  <2>1. /\ subida # <<>> /\ subida' = Tail(subida)
        /\ UNCHANGED <<registrada, fechada, descida>>
        /\ sinal' = "closed" => sinal = "closed"
    BY <1>7 DEF ReceberOferta, Candidato, SemSessao, Chega, sessao, pion
  <2>2. subida' \in Seq(Tipo)
    BY <2>1, QuantasInicio DEF OfertaInv
  <2>3. PassoTipado' /\ Saindo' = Saindo
    BY <1>0, <1>7 DEF ReceberOferta, Candidato, SemSessao, Chega, Ir, PassoTipado, OfertaInv, Passo, Saindo
  <2>4. CASE SemSessao
    <3>1. ~registrada'
      BY <2>1, <2>4 DEF SemSessao
    <3> QED BY <2>1, <2>2, <2>3, <3>1 DEF OfertaInv, OfertaEmUmLugar
  <2>5. CASE ReceberOferta \/ Candidato
    <3>1. Head(subida) # "answer" /\ (sinal' = "have-local-offer" <=> sinal = "have-local-offer")
      BY <2>5 DEF ReceberOferta, Candidato, Chega, pion
    <3>2. Quantas(subida', "answer") = Quantas(subida, "answer")
      <4>1. subida \in Seq(Tipo) /\ Quantas(subida', "answer") \in Nat
        BY <2>2, OndeFinito DEF OfertaInv
      <4>2. Quantas(subida, "answer")
              = Quantas(Tail(subida), "answer") + (IF Head(subida) = "answer" THEN 1 ELSE 0)
        BY <2>1, <4>1, QuantasInicio
      <4> QED BY <2>1, <3>1, <4>1, <4>2
    <3>3. Quantas(subida, "answer")' = Quantas(subida, "answer") /\ Quantas(descida, "offer")' = Quantas(descida, "offer")
      BY <2>1, <3>2 DEF Quantas
    <3> QED BY <2>1, <2>2, <2>3, <3>1, <3>3, OfertaParada DEF OfertaInv
  <2> QED BY <1>7, <2>4, <2>5
<1>8. CASE AplicarPendentes \/ ConsultarAdiada \/ Responder
  <2>1. /\ UNCHANGED <<registrada, fechada, descida, subida>>
        /\ sinal' = sinal \/ (sinal = "have-remote-offer" /\ sinal' = "stable")
    BY <1>8 DEF AplicarPendentes, ConsultarAdiada, Responder, sessao, pion
  <2>2. leitor \notin Saindo /\ \E onde \in Passo \ {"liberar", "enviar"} : Ir(leitor, onde)
    BY <1>8 DEF AplicarPendentes, ConsultarAdiada, Responder, Saindo, Passo
  <2>3. PassoTipado' /\ Saindo' = Saindo
    BY <1>0, <2>2 DEF Ir, PassoTipado, OfertaInv, Saindo
  <2> QED BY <2>1, <2>3, OfertaParada DEF OfertaInv
<1>9. CASE EnviarResposta
  <2>1. /\ descida' = Append(descida, "answer") /\ passo[leitor] = "enviarResposta" /\ Ir(leitor, "lendo")
        /\ UNCHANGED <<sinal, registrada, fechada, subida>>
    BY <1>9 DEF EnviarResposta, sessao, pion
  <2>2. PassoTipado' /\ Saindo' = Saindo
    BY <1>0, <2>1 DEF Ir, PassoTipado, OfertaInv, Passo, Saindo
  <2>3. descida' \in Seq(Tipo) /\ Quantas(descida', "offer") = Quantas(descida, "offer")
    BY <2>1, QuantasFim, OndeFinito DEF OfertaInv, Tipo
  <2>4. Quantas(descida, "offer")' = Quantas(descida, "offer") /\ Quantas(subida, "answer")' = Quantas(subida, "answer")
    BY <2>1, <2>3 DEF Quantas
  <2> QED BY <2>1, <2>2, <2>3, <2>4, OfertaParada DEF OfertaInv
<1>10. CASE Retirar \/ MarcarFechada \/ FecharConexao \/ UNCHANGED vars
  <2>1. /\ UNCHANGED <<passo, descida, subida>>
        /\ registrada' => registrada /\ ~fechada' /\ sinal' = sinal
        /\ sinal' = "closed" => fechada'
    BY <1>10 DEF Retirar, MarcarFechada, FecharConexao, vars, sessao, pion, OfertaInv
  <2> QED BY <2>1 DEF OfertaInv, PassoTipado, OfertaEmUmLugar
<1>11. CASE ClienteRecebe
  <2>1. /\ descida # <<>> /\ descida' = Tail(descida)
        /\ subida' = IF Head(descida) = "offer" THEN Append(subida, "answer") ELSE subida
        /\ UNCHANGED <<sinal, registrada, fechada, passo>>
    BY <1>11 DEF ClienteRecebe, sessao, pion
  <2>2. /\ descida' \in Seq(Tipo)
        /\ Quantas(descida, "offer") = Quantas(descida', "offer") + (IF Head(descida) = "offer" THEN 1 ELSE 0)
    BY <2>1, QuantasInicio DEF OfertaInv
  <2>3. /\ subida' \in Seq(Tipo)
        /\ Quantas(subida', "answer") = Quantas(subida, "answer") + (IF Head(descida) = "offer" THEN 1 ELSE 0)
    <3>1. CASE Head(descida) = "offer"
      BY <2>1, <3>1, QuantasFim DEF OfertaInv, Tipo
    <3>2. CASE Head(descida) # "offer"
      BY <2>1, <3>2, LugaresNat DEF OfertaInv
    <3> QED BY <3>1, <3>2
  <2>4. Quantas(descida', "offer") \in Nat
    BY <2>2, OndeFinito
  <2>5. Saindo' = Saindo /\ PassoTipado'
    BY <2>1 DEF Saindo, PassoTipado, OfertaInv
  <2>6. Lugares' = Lugares
    BY <2>2, <2>3, <2>4, <2>5, LugaresNat DEF Lugares, Quantas
  <2>7. OfertaEmUmLugar'
    BY <2>1, <2>6, EmUmLugar DEF OfertaInv, OfertaEmUmLugar, Lugares, Saindo
  <2> QED BY <2>1, <2>2, <2>3, <2>5, <2>7 DEF OfertaInv
<1>12. CASE ClienteOferta \/ ClienteCandidato
  <2>1. /\ \E t \in {"offer", "ice"} : subida' = Append(subida, t)
        /\ UNCHANGED <<sinal, registrada, fechada, passo, descida>>
    BY <1>12 DEF ClienteOferta, ClienteCandidato, sessao, pion
  <2>2. subida' \in Seq(Tipo) /\ Quantas(subida', "answer") = Quantas(subida, "answer")
    BY <2>1, QuantasFim, LugaresNat DEF OfertaInv, Tipo
  <2>3. Quantas(descida, "offer")' = Quantas(descida, "offer") /\ Quantas(subida, "answer")' = Quantas(subida, "answer")
    BY <2>1, <2>2 DEF Quantas
  <2>4. Saindo' = Saindo /\ PassoTipado'
    BY <2>1 DEF Saindo, PassoTipado, OfertaInv
  <2> QED BY <2>1, <2>2, <2>3, <2>4, OfertaParada DEF OfertaInv
<1> QED
  BY <1>1, <1>2, <1>3, <1>4, <1>5, <1>6, <1>7, <1>8, <1>9, <1>10, <1>11, <1>12
  DEF Next, PassoOferta, PassoLeitor

\* An offer that is outstanding is about to be sent, on its way, or answered, and in one
\* of these places only; without one there is none anywhere (oferecer, Descricao).
THEOREM OfertaSempreEmUmLugar == Spec => []OfertaEmUmLugar
<1>1. OfertaInv => OfertaEmUmLugar
  BY DEF OfertaInv
<1> QED BY <1>1, OfertaInit, OfertaStep, PTL DEF Spec
-----------------------------------------------------------------------------
(***************************************************************************)
(* The candidates of the client.  A candidate that was sent is in the      *)
(* queue, waiting in the session, given to pion, or lost; and one is lost  *)
(* only when limiteCandidatos others waited or when the session is gone.   *)
(***************************************************************************)
Aplicando == passo[leitor] \in {"aplicarResposta", "aplicarOferta"}
Guardados == aplicados + candidatosPendentes

Contados ==
  /\ Guardados + Quantas(subida, "ice") <= candidatosCliente
  /\ registrada => \/ Guardados + Quantas(subida, "ice") = candidatosCliente
                   \/ Guardados >= limiteCandidatos
  /\ remota /\ ~Aplicando => candidatosPendentes = 0

CandidatosInv == OfertaInv /\ TypeOK /\ Contados

\* One message more or less in the queue from the client.
LEMMA SubidaInicio ==
  ASSUME subida \in Seq(Tipo), NEW tipo, Chega(tipo)
  PROVE  /\ Quantas(subida, "ice") \in Nat /\ Quantas(subida', "ice") \in Nat
         /\ Quantas(subida, "ice") = Quantas(subida', "ice") + (IF tipo = "ice" THEN 1 ELSE 0)
<1>1. /\ subida # <<>> /\ subida' = Tail(subida) /\ Head(subida) = tipo
      /\ Tail(subida) \in Seq(Tipo)
  BY QuantasInicio DEF Chega
<1>2. Quantas(subida, "ice")
        = Quantas(Tail(subida), "ice") + (IF Head(subida) = "ice" THEN 1 ELSE 0)
  BY <1>1, QuantasInicio
<1> QED BY <1>1, <1>2, OndeFinito

LEMMA SubidaFim ==
  ASSUME subida \in Seq(Tipo), NEW tipo \in Tipo, subida' = Append(subida, tipo)
  PROVE  /\ Quantas(subida, "ice") \in Nat /\ Quantas(subida', "ice") \in Nat
         /\ Quantas(subida', "ice") = Quantas(subida, "ice") + (IF tipo = "ice" THEN 1 ELSE 0)
<1>1. Append(subida, tipo) \in Seq(Tipo)
  OBVIOUS
<1> QED BY <1>1, QuantasFim, OndeFinito

LEMMA ContadosStep ==
  ASSUME CandidatosInv, [Next]_vars
  PROVE  Contados'
<1>1. /\ OfertaInv /\ TypeOK /\ Contados /\ subida \in Seq(Tipo)
      /\ registrada => ~fechada
      /\ aplicados \in Nat /\ candidatosPendentes \in 0..limiteCandidatos
      /\ limiteCandidatos \in Nat /\ candidatosCliente \in Nat
      /\ Quantas(subida, "ice") \in Nat
  <2>1. OfertaInv /\ TypeOK /\ Contados
    BY DEF CandidatosInv
  <2>2. subida \in Seq(Tipo) /\ (registrada => ~fechada)
    BY <2>1 DEF OfertaInv
  <2> QED BY <2>1, <2>2, OndeFinito, NegociacaoAssumption DEF TypeOK
<1>2. leitor \in Goroutine /\ \A g \in Goroutine : Depois(g) \in {"lendo", "fim"}
  BY DEF Goroutine, Depois
\* Steps that touch neither the candidates nor what counts them.
<1>3. ASSUME UNCHANGED <<candidatos, candidatosCliente>>,
             Quantas(subida', "ice") = Quantas(subida, "ice"),
             registrada' => registrada,
             remota' /\ ~Aplicando' => remota /\ ~Aplicando
      PROVE  Contados'
  <2>1. Quantas(subida, "ice")' = Quantas(subida, "ice")
    BY <1>3 DEF Quantas
  <2> QED BY <1>1, <1>3, <2>1 DEF Contados, Guardados, candidatos
<1>4. ASSUME NEW g \in Goroutine, PassoOferta(g) PROVE Contados'
  <2>1. UNCHANGED <<candidatos, candidatosCliente, subida, registrada, remota>>
    BY <1>4 DEF PassoOferta, Oferecer, CriarOferta, DefinirOferta, Liberar, EnviarOferta, pion,
                sessao, cliente
  <2>2. \E onde : onde \notin {"aplicarResposta", "aplicarOferta"} /\ Ir(g, onde)
    BY <1>2, <1>4 DEF PassoOferta, Oferecer, CriarOferta, DefinirOferta, Liberar, EnviarOferta
  <2>3. ~Aplicando' => ~Aplicando
    <3>1. passo[g] \notin {"aplicarResposta", "aplicarOferta"}
      BY <1>4 DEF PassoOferta, Oferecer, CriarOferta, DefinirOferta, Liberar, EnviarOferta
    <3> QED BY <1>1, <1>2, <2>2, <3>1 DEF Ir, TypeOK, Aplicando
  <2> QED BY <1>3, <2>1, <2>3
<1>5. ASSUME NEW f \in Faixa, Assinar(f) \/ Remover(f) PROVE Contados'
  <2>1. UNCHANGED <<candidatos, candidatosCliente, subida, registrada, remota>> /\ Ir(f, "oferecer")
    BY <1>5 DEF Assinar, Remover, sessao, cliente
  <2>2. Aplicando' = Aplicando
    BY <1>1, <1>2, <2>1, NegociacaoAssumption DEF Ir, TypeOK, Aplicando
  <2> QED BY <1>3, <2>1, <2>2
<1>6. CASE ReceberResposta
  <2>1. Chega("answer") /\ UNCHANGED <<candidatos, candidatosCliente, registrada>>
    BY <1>6 DEF ReceberResposta, sessao, cliente
  <2>2. Quantas(subida', "ice") = Quantas(subida, "ice")
    BY <1>1, <2>1, SubidaInicio
  <2>3. remota' /\ ~Aplicando' => remota /\ ~Aplicando
    <3>1. CASE sinal = "have-local-offer"
      BY <1>1, <1>2, <1>6, <3>1 DEF ReceberResposta, Ir, TypeOK, Aplicando
    <3>2. CASE sinal # "have-local-offer"
      BY <1>6, <3>2 DEF ReceberResposta, Aplicando
    <3> QED BY <3>1, <3>2
  <2> QED BY <1>3, <2>1, <2>2, <2>3
<1>7. CASE ReceberOferta
  <2>1. Chega("offer") /\ UNCHANGED <<candidatos, candidatosCliente, registrada>>
    BY <1>7 DEF ReceberOferta, sessao, cliente
  <2>2. Quantas(subida', "ice") = Quantas(subida, "ice")
    BY <1>1, <2>1, SubidaInicio
  <2>3. remota' /\ ~Aplicando' => remota /\ ~Aplicando
    <3>1. CASE sinal = "stable"
      BY <1>1, <1>2, <1>7, <3>1 DEF ReceberOferta, Ir, TypeOK, Aplicando
    <3>2. CASE sinal # "stable"
      BY <1>7, <3>2 DEF ReceberOferta, Aplicando
    <3> QED BY <3>1, <3>2
  <2> QED BY <1>3, <2>1, <2>2, <2>3
<1>8. CASE AplicarPendentes
  <2>1. /\ aplicados' = Guardados /\ candidatosPendentes' = 0
        /\ UNCHANGED <<subida, registrada, candidatosCliente>>
    BY <1>8 DEF AplicarPendentes, Guardados, sessao, cliente
  <2>2. Guardados' = Guardados /\ Quantas(subida, "ice")' = Quantas(subida, "ice")
    BY <1>1, <2>1 DEF Guardados, Quantas
  <2> QED BY <1>1, <2>1, <2>2 DEF Contados
<1>9. CASE Responder \/ ConsultarAdiada \/ EnviarResposta
  <2>1. /\ UNCHANGED <<candidatos, candidatosCliente, subida, registrada, remota>>
        /\ passo[leitor] \notin {"aplicarResposta", "aplicarOferta"}
    BY <1>9 DEF Responder, ConsultarAdiada, EnviarResposta, pion, sessao, cliente
  <2> QED BY <1>3, <2>1 DEF Aplicando
<1>10. CASE Candidato
  <2>1. Chega("ice") /\ UNCHANGED <<candidatosCliente, registrada, remota, passo>>
    BY <1>10 DEF Candidato, pion, sessao, cliente
  <2>2. /\ Quantas(subida, "ice") = Quantas(subida', "ice") + 1
        /\ Quantas(subida', "ice") \in Nat
        /\ Quantas(subida, "ice")' = Quantas(subida', "ice")
    BY <1>1, <2>1, SubidaInicio DEF Quantas
  <2>3. remota => candidatosPendentes = 0
    BY <1>1, <2>1 DEF Contados, Chega, Aplicando
  <2>4. CASE fechada
    <3>1. Guardados' = Guardados /\ ~registrada' /\ candidatosPendentes' = candidatosPendentes
      BY <1>1, <1>10, <2>1, <2>4 DEF Candidato, Guardados, candidatos
    <3> QED BY <1>1, <2>1, <2>2, <2>3, <3>1 DEF Contados, Guardados
  <2>5. CASE ~fechada /\ remota
    <3>1. aplicados' = aplicados + 1 /\ candidatosPendentes' = candidatosPendentes
      BY <1>10, <2>5 DEF Candidato
    <3> QED BY <1>1, <2>1, <2>2, <2>3, <2>5, <3>1 DEF Contados, Guardados
  <2>6. CASE ~fechada /\ ~remota
    <3>1. /\ aplicados' = aplicados
          /\ candidatosPendentes' = IF CabeMais THEN candidatosPendentes + 1 ELSE candidatosPendentes
      BY <1>10, <2>6 DEF Candidato
    <3> QED BY <1>1, <2>1, <2>2, <2>6, <3>1 DEF Contados, Guardados, CabeMais
  <2> QED BY <2>4, <2>5, <2>6
<1>11. CASE SemSessao
  <2>1. PICK tipo \in {"offer", "answer", "ice"} : Chega(tipo)
    BY <1>11 DEF SemSessao
  <2>2. ~registrada' /\ UNCHANGED <<candidatos, candidatosCliente, remota, passo>>
    BY <1>11 DEF SemSessao, pion, sessao, cliente
  <2>3. Quantas(subida', "ice") \in Nat /\ Quantas(subida', "ice") <= Quantas(subida, "ice")
    BY <1>1, <2>1, SubidaInicio
  <2>4. Quantas(subida, "ice")' = Quantas(subida', "ice")
    BY DEF Quantas
  <2> QED BY <1>1, <2>2, <2>3, <2>4 DEF Contados, Guardados, candidatos, Aplicando
<1>12. CASE Retirar \/ MarcarFechada \/ FecharConexao \/ UNCHANGED vars
  <2>1. /\ UNCHANGED <<candidatos, candidatosCliente, subida, remota, passo>>
        /\ registrada' => registrada
    BY <1>12 DEF Retirar, MarcarFechada, FecharConexao, vars, pion, sessao, cliente, candidatos
  <2> QED BY <1>3, <2>1 DEF Aplicando
<1>13. CASE ClienteRecebe
  <2>1. /\ subida' = subida \/ subida' = Append(subida, "answer")
        /\ UNCHANGED <<candidatos, candidatosCliente, registrada, remota, passo>>
    BY <1>13 DEF ClienteRecebe, pion, sessao
  <2>2. Quantas(subida', "ice") = Quantas(subida, "ice")
    BY <1>1, <2>1, SubidaFim DEF Tipo
  <2> QED BY <1>3, <2>1, <2>2 DEF Aplicando
<1>14. CASE ClienteOferta
  <2>1. /\ subida' = Append(subida, "offer")
        /\ UNCHANGED <<candidatos, candidatosCliente, registrada, remota, passo>>
    BY <1>14 DEF ClienteOferta, pion, sessao
  <2>2. Quantas(subida', "ice") = Quantas(subida, "ice")
    BY <1>1, <2>1, SubidaFim DEF Tipo
  <2> QED BY <1>3, <2>1, <2>2 DEF Aplicando
<1>15. CASE ClienteCandidato
  <2>1. /\ subida' = Append(subida, "ice") /\ candidatosCliente' = candidatosCliente + 1
        /\ UNCHANGED <<candidatos, registrada, remota, passo>>
    BY <1>15 DEF ClienteCandidato, pion, sessao
  <2>2. Quantas(subida', "ice") = Quantas(subida, "ice") + 1
    BY <1>1, <2>1, SubidaFim DEF Tipo
  <2>3. Quantas(subida, "ice")' = Quantas(subida', "ice")
    BY DEF Quantas
  <2>4. Guardados' = Guardados /\ Guardados \in Nat
    BY <1>1, <2>1 DEF Guardados, candidatos
  <2>5. remota' /\ ~Aplicando' => candidatosPendentes' = 0
    BY <1>1, <2>1 DEF Contados, Aplicando, candidatos
  <2> QED BY <1>1, <2>1, <2>2, <2>3, <2>4, <2>5 DEF Contados
<1> QED
  BY <1>4, <1>5, <1>6, <1>7, <1>8, <1>9, <1>10, <1>11, <1>12, <1>13, <1>14, <1>15
  DEF Next, PassoLeitor

LEMMA TipoStep ==
  ASSUME CandidatosInv, [Next]_vars
  PROVE  TypeOK'
<1> USE DEF pion, sessao, candidatos, cliente
<1>1. TypeOK
  BY DEF CandidatosInv
<1>2. leitor \in Goroutine /\ \A g \in Goroutine : Depois(g) \in Passo
  BY DEF Goroutine, Depois, Passo
\* The two counters.
<1>3. aplicados' \in 0..MaxCandidatos
  <2>1. aplicados' \in Nat /\ candidatosPendentes' \in Nat
    BY <1>1, NegociacaoAssumption
    DEF TypeOK, Next, PassoOferta, Oferecer, CriarOferta, DefinirOferta, Liberar, EnviarOferta,
        Assinar, Remover, PassoLeitor, ReceberResposta, ReceberOferta, Candidato, SemSessao,
        AplicarPendentes, ConsultarAdiada, Responder, EnviarResposta, Retirar, MarcarFechada,
        FecharConexao, ClienteRecebe, ClienteOferta, ClienteCandidato, vars
  <2>2. candidatosCliente' \in 0..MaxCandidatos
    BY <1>1, NegociacaoAssumption
    DEF TypeOK, Next, PassoOferta, Oferecer, CriarOferta, DefinirOferta, Liberar, EnviarOferta,
        Assinar, Remover, PassoLeitor, ReceberResposta, ReceberOferta, Candidato, SemSessao,
        AplicarPendentes, ConsultarAdiada, Responder, EnviarResposta, Retirar, MarcarFechada,
        FecharConexao, ClienteRecebe, ClienteOferta, ClienteCandidato, vars
  <2>3. Guardados' + Quantas(subida, "ice")' <= candidatosCliente' /\ Quantas(subida, "ice")' \in Nat
    <3>1. subida' \in Seq(Tipo)
      BY OfertaStep DEF CandidatosInv, OfertaInv
    <3>2. Quantas(subida', "ice") \in Nat
      BY <3>1, OndeFinito
    <3> QED BY <3>2, ContadosStep DEF Contados, Quantas
  <2> QED BY <2>1, <2>2, <2>3, NegociacaoAssumption DEF Guardados
<1>4. candidatosPendentes' \in 0..limiteCandidatos
  BY <1>1, NegociacaoAssumption
  DEF TypeOK, Next, PassoOferta, Oferecer, CriarOferta, DefinirOferta, Liberar, EnviarOferta,
      Assinar, Remover, PassoLeitor, ReceberResposta, ReceberOferta, Candidato, SemSessao, CabeMais,
      AplicarPendentes, ConsultarAdiada, Responder, EnviarResposta, Retirar, MarcarFechada,
      FecharConexao, ClienteRecebe, ClienteOferta, ClienteCandidato, vars
<1>16. subida' \in Seq({"offer", "answer", "ice"})
  BY OfertaStep DEF CandidatosInv, OfertaInv, Tipo
<1>17. descida' \in Seq({"offer", "answer"})
  <2>1. descida \in Seq({"offer", "answer"})
    BY <1>1 DEF TypeOK
  <2>2. \/ UNCHANGED descida
        \/ descida' = Append(descida, "offer") \/ descida' = Append(descida, "answer")
        \/ descida # <<>> /\ descida' = Tail(descida)
    BY DEF Next, PassoOferta, Oferecer, CriarOferta, DefinirOferta, Liberar, EnviarOferta,
           Assinar, Remover, PassoLeitor, ReceberResposta, ReceberOferta, Candidato, SemSessao,
           AplicarPendentes, ConsultarAdiada, Responder, EnviarResposta, Retirar, MarcarFechada,
           FecharConexao, ClienteRecebe, ClienteOferta, ClienteCandidato, vars
  <2> QED BY <2>1, <2>2
<1> DEFINE Meta == TypeOK'
<1> USE <1>1, <1>3, <1>4, <1>16, <1>17 DEF TypeOK
<1>5. ASSUME NEW g \in Goroutine, PassoOferta(g) PROVE Meta
  <2>1. CASE Oferecer(g)
    BY <1>2, <2>1 DEF Oferecer, Ir, Passo
  <2>2. CASE CriarOferta(g)
    BY <2>2 DEF CriarOferta, Ir, Passo
  <2>3. CASE DefinirOferta(g)
    BY <2>3 DEF DefinirOferta, Ir, Passo
  <2>4. CASE Liberar(g)
    BY <1>2, <2>4 DEF Liberar, Ir, Passo
  <2>5. CASE EnviarOferta(g)
    BY <1>2, <2>5 DEF EnviarOferta, Ir, Passo
  <2> QED BY <1>5, <2>1, <2>2, <2>3, <2>4, <2>5 DEF PassoOferta
<1>6. ASSUME NEW f \in Faixa, Assinar(f) \/ Remover(f) PROVE Meta
  BY <1>6 DEF Assinar, Remover, Ir, Passo
<1>7. CASE ReceberResposta
  BY <1>7 DEF ReceberResposta, Chega, Ir, Passo
<1>8. CASE ReceberOferta
  BY <1>8 DEF ReceberOferta, Chega, Ir, Passo
<1>9. CASE Candidato \/ SemSessao
  BY <1>9, SMTT(30) DEF Candidato, SemSessao, Chega
<1>10. CASE AplicarPendentes \/ ConsultarAdiada
  BY <1>10, ZenonT(60) DEF AplicarPendentes, ConsultarAdiada, Ir, Passo
<1>11. CASE Responder \/ EnviarResposta
  BY <1>11, ZenonT(60) DEF Responder, EnviarResposta, Ir, Passo
<1>12. CASE Retirar \/ MarcarFechada \/ FecharConexao
  BY <1>12 DEF Retirar, MarcarFechada, FecharConexao
<1>13. CASE ClienteRecebe
  BY <1>13 DEF ClienteRecebe
<1>14. CASE ClienteOferta \/ ClienteCandidato
  <2>1. ofertasCliente' \in 0..MaxOfertasCliente /\ candidatosCliente' \in 0..MaxCandidatos
    BY <1>14, NegociacaoAssumption DEF ClienteOferta, ClienteCandidato
  <2> QED BY <1>14, <2>1 DEF ClienteOferta, ClienteCandidato
<1>15. CASE UNCHANGED vars
  BY <1>15 DEF vars
<1> QED
  BY <1>5, <1>6, <1>7, <1>8, <1>9, <1>10, <1>11, <1>12, <1>13, <1>14, <1>15
  DEF Next, PassoLeitor

LEMMA CandidatosInit == Init => CandidatosInv
<1> SUFFICES ASSUME Init PROVE CandidatosInv
  OBVIOUS
<1>1. TypeOK
  <2>1. passo \in [Goroutine -> Passo] /\ oferta \in [Goroutine -> SUBSET Faixa]
    BY DEF Init, Passo
  <2>2. descida \in Seq({"offer", "answer"}) /\ subida \in Seq({"offer", "answer", "ice"})
    BY DEF Init
  <2>3. /\ aplicados \in 0..MaxCandidatos /\ candidatosCliente \in 0..MaxCandidatos
        /\ candidatosPendentes \in 0..limiteCandidatos
        /\ ofertasCliente \in 0..MaxOfertasCliente
    BY NegociacaoAssumption DEF Init
  <2> QED BY <2>1, <2>2, <2>3 DEF Init, TypeOK
<1>2. Quantas(subida, "ice") = 0
  <2>1. Onde(subida, "ice") = {} /\ subida \in Seq(Tipo)
    BY DEF Init, Onde
  <2> QED BY <2>1, OndeFinito, FS_EmptySet
<1>3. Contados
  BY <1>2 DEF Init, Contados, Guardados
<1> QED BY <1>1, <1>3, OfertaInit DEF CandidatosInv

LEMMA CandidatosSempre == Spec => []CandidatosInv
<1>2. CandidatosInv /\ [Next]_vars => CandidatosInv'
  BY OfertaStep, ContadosStep, TipoStep DEF CandidatosInv
<1> QED BY <1>2, CandidatosInit, PTL DEF Spec

\* The variables have their types: in particular no more candidates are given to pion
\* than the client sent, and no more wait than limiteCandidatos.
THEOREM TipoSempre == Spec => []TypeOK
<1>1. CandidatosInv => TypeOK
  BY DEF CandidatosInv
<1> QED BY <1>1, CandidatosSempre, PTL

\* Between two messages no candidate waits that could be given to pion, and none of an
\* open session is lost below the limit, for any number of candidates, offers and tracks
\* (Candidato, and the head of Descricao).
THEOREM NenhumCandidatoPerdido == Spec => []CandidatosAplicados
<1>1. CandidatosInv => CandidatosAplicados
  <2> SUFFICES ASSUME CandidatosInv, passo[leitor] = "lendo", registrada
               PROVE  /\ remota => candidatosPendentes = 0
                      /\ \/ Guardados + Quantas(subida, "ice") = candidatosCliente
                         \/ Guardados >= limiteCandidatos
    BY DEF CandidatosAplicados, Guardados
  <2> QED BY DEF CandidatosInv, Contados, Aplicando
<1> QED BY <1>1, CandidatosSempre, PTL
-----------------------------------------------------------------------------
(***************************************************************************)
(* What an answer covers.  Only one goroutine makes an offer at a time and *)
(* none while one is outstanding, so that an offer is created after the    *)
(* answer to the one before it was handled, and has all that it covered    *)
(* except what has been dropped since.                                     *)
(***************************************************************************)
Conhecida(f) == f \in negociadas \/ f \in ofertadas \/ \E g \in Goroutine : f \in oferta[g]

Cobre ==
  /\ \A f \in Faixa : passo[f] = "inicio" => f \notin transceptores /\ ~Conhecida(f)
  /\ sinal = "have-local-offer" => negociadas \cap transceptores \subseteq ofertadas
  /\ \A g \in Definindo : negociadas \cap transceptores \subseteq oferta[g]

CobreInv ==
  /\ UmaInv
  /\ transceptores \subseteq Faixa /\ oferta \in [Goroutine -> SUBSET Faixa]
  /\ Cobre

\* Steps that add no track, touch no description and take nobody to SetLocalDescription
\* or back to the beginning.
LEMMA CobreParada ==
  ASSUME CobreInv,
         UNCHANGED <<ofertadas, negociadas, oferta>>,
         transceptores' \subseteq transceptores,
         sinal' = "have-local-offer" => sinal = "have-local-offer",
         \A g \in Goroutine : passo'[g] \in {"inicio", "definir"} => passo[g] = passo'[g]
  PROVE  Cobre'
<1>1. Definindo' \subseteq Definindo
  BY DEF Definindo
<1>2. \A f \in Faixa : passo'[f] = "inicio" => passo[f] = "inicio"
  BY DEF Goroutine
<1> QED BY <1>1, <1>2 DEF CobreInv, Cobre, Conhecida

LEMMA CobreStep == CobreInv /\ [Next]_vars => CobreInv'
<1> SUFFICES ASSUME CobreInv, [Next]_vars
             PROVE  CobreInv'
  OBVIOUS
<1>0. /\ UmaInv /\ UmaPorVez /\ passo \in [Goroutine -> Passo] /\ transceptores \subseteq Faixa
      /\ oferta \in [Goroutine -> SUBSET Faixa] /\ Cobre
      /\ leitor \in Goroutine /\ leitor \notin Faixa /\ Faixa \subseteq Goroutine
      /\ \A g \in Goroutine : Depois(g) \in {"lendo", "fim"}
  BY NegociacaoAssumption DEF CobreInv, UmaInv, PassoTipado, Goroutine, Depois
<1> USE DEF pion, sessao, candidatos, cliente
<1>1. transceptores' \subseteq Faixa /\ oferta' \in [Goroutine -> SUBSET Faixa]
  <2>1. \/ UNCHANGED <<transceptores, oferta>>
        \/ \E g \in Goroutine : CriarOferta(g) \/ DefinirOferta(g)
        \/ \E f \in Faixa : Assinar(f) \/ Remover(f)
    BY DEF Next, PassoOferta, Oferecer, Liberar, EnviarOferta,
           PassoLeitor, ReceberResposta, ReceberOferta, Candidato, SemSessao,
           AplicarPendentes, ConsultarAdiada, Responder, EnviarResposta, Retirar, MarcarFechada,
           FecharConexao, ClienteRecebe, ClienteOferta, ClienteCandidato, vars
  <2> QED BY <1>0, <2>1 DEF CriarOferta, DefinirOferta, Assinar, Remover
<1> SUFFICES Cobre'
  BY <1>0, <1>1, UmaStep DEF CobreInv
<1>2. ASSUME NEW g \in Goroutine, CriarOferta(g) PROVE Cobre'
  <2>1. UNCHANGED <<sinal, transceptores, ofertadas, negociadas>>
    BY <1>2 DEF CriarOferta
  <2>2. CASE sinal = "closed"
    <3>1. UNCHANGED oferta
      BY <1>2, <2>2 DEF CriarOferta
    <3>2. \A h \in Goroutine : passo'[h] \in {"inicio", "definir"} => passo[h] = passo'[h]
      BY <1>0, <1>2, <2>2 DEF CriarOferta, Ir
    <3> QED BY <2>1, <3>1, <3>2, CobreParada
  <2>3. CASE sinal # "closed"
    <3>1. /\ oferta' = [oferta EXCEPT ![g] = transceptores] /\ passo'[g] = "definir"
          /\ \A h \in Goroutine : h # g => passo'[h] = passo[h]
      BY <1>0, <1>2, <2>3 DEF CriarOferta, Ir
    <3>2. ASSUME NEW f \in Faixa, passo'[f] = "inicio" PROVE f \notin transceptores /\ ~Conhecida(f)'
      <4>1. passo[f] = "inicio"
        BY <1>0, <3>1, <3>2
      <4> QED BY <1>0, <2>1, <3>1, <4>1 DEF Cobre, Conhecida
    <3>3. \A h \in Definindo' : negociadas \cap transceptores \subseteq oferta'[h]
      BY <1>0, <3>1 DEF Cobre, Definindo
    <3> QED BY <1>0, <2>1, <3>2, <3>3 DEF Cobre
  <2> QED BY <2>2, <2>3
<1>3. ASSUME NEW g \in Goroutine, DefinirOferta(g) PROVE Cobre'
  <2>1. /\ UNCHANGED <<transceptores, negociadas>> /\ oferta' = [oferta EXCEPT ![g] = {}]
        /\ passo[g] = "definir" /\ passo'[g] \notin {"inicio", "definir"}
        /\ \A h \in Goroutine : h # g => passo'[h] = passo[h]
        /\ ofertadas' = oferta[g] \/ ofertadas' = ofertadas
    BY <1>0, <1>3 DEF DefinirOferta, Ir
  <2>2. ASSUME NEW f \in Faixa, passo'[f] = "inicio" PROVE f \notin transceptores /\ ~Conhecida(f)'
    <3>1. passo[f] = "inicio"
      BY <1>0, <2>1, <2>2
    <3> QED BY <1>0, <2>1, <3>1 DEF Cobre, Conhecida
  <2>3. \A h \in Definindo' : negociadas \cap transceptores \subseteq oferta'[h]
    BY <1>0, <2>1 DEF Cobre, Definindo
  <2>4. sinal' = "have-local-offer" => negociadas \cap transceptores \subseteq ofertadas'
    <3>1. g \in Definindo
      BY <2>1 DEF Definindo
    <3> QED BY <1>0, <1>3, <3>1 DEF DefinirOferta, Cobre
  <2> QED BY <2>1, <2>2, <2>3, <2>4 DEF Cobre
\* A track that arrives is in no description yet.
<1>4. ASSUME NEW f \in Faixa, Assinar(f) PROVE Cobre'
  <2>1. /\ passo[f] = "inicio" /\ passo'[f] = "oferecer"
        /\ UNCHANGED <<sinal, ofertadas, negociadas, oferta>>
        /\ transceptores' \subseteq transceptores \cup {f}
        /\ \A h \in Goroutine : h # f => passo'[h] = passo[h]
    BY <1>0, <1>4 DEF Assinar, Ir
  <2>2. Definindo' = Definindo
    BY <1>0, <2>1 DEF Definindo
  <2>3. f \notin negociadas
    BY <1>0, <2>1 DEF Cobre, Conhecida
  <2>4. ASSUME NEW h \in Faixa, passo'[h] = "inicio" PROVE h \notin transceptores' /\ ~Conhecida(h)'
    <3>1. h # f /\ passo[h] = "inicio"
      BY <1>0, <2>1, <2>4
    <3> QED BY <1>0, <2>1, <3>1 DEF Cobre, Conhecida
  <2> QED BY <1>0, <2>1, <2>2, <2>3, <2>4 DEF Cobre
<1>9. ASSUME NEW f \in Faixa, Remover(f) PROVE Cobre'
  <2>1. /\ UNCHANGED <<sinal, ofertadas, negociadas, oferta>> /\ transceptores' \subseteq transceptores
        /\ \A h \in Goroutine : passo'[h] \in {"inicio", "definir"} => passo[h] = passo'[h]
    BY <1>0, <1>9 DEF Remover, Ir
  <2> QED BY <2>1, CobreParada
\* The answer covers the offer that was outstanding, and no other is being set.
<1>5. CASE ReceberResposta
  <2>1. CASE sinal = "have-local-offer"
    <3>1. /\ sinal' = "stable" /\ negociadas' = ofertadas /\ ofertadas' = {}
          /\ UNCHANGED <<transceptores, oferta>>
          /\ \A h \in Goroutine : passo'[h] \in {"inicio", "definir"} => passo[h] = passo'[h]
      BY <1>0, <1>5, <2>1 DEF ReceberResposta, Ir
    <3>2. Definindo' = {}
      BY <1>0, <2>1, <3>1 DEF UmaPorVez, Definindo
    <3>3. ASSUME NEW f \in Faixa, passo'[f] = "inicio" PROVE f \notin transceptores /\ ~Conhecida(f)'
      <4>1. passo[f] = "inicio"
        BY <1>0, <3>1, <3>3
      <4> QED BY <1>0, <3>1, <4>1 DEF Cobre, Conhecida
    <3> QED BY <3>1, <3>2, <3>3 DEF Cobre
  <2>2. CASE sinal # "have-local-offer"
    BY <1>5, <2>2, CobreParada DEF ReceberResposta
  <2> QED BY <2>1, <2>2
<1>6. ASSUME NEW g \in Goroutine, Oferecer(g) \/ Liberar(g) \/ EnviarOferta(g) PROVE Cobre'
  <2>1. UNCHANGED <<sinal, transceptores, ofertadas, negociadas, oferta>>
    BY <1>6 DEF Oferecer, Liberar, EnviarOferta
  <2>2. \A h \in Goroutine : passo'[h] \in {"inicio", "definir"} => passo[h] = passo'[h]
    BY <1>0, <1>6 DEF Oferecer, Liberar, EnviarOferta, Ir
  <2> QED BY <2>1, <2>2, CobreParada
<1>7. CASE ReceberOferta \/ Candidato \/ SemSessao \/ AplicarPendentes \/ ConsultarAdiada
           \/ Responder \/ EnviarResposta
  <2>1. /\ UNCHANGED <<transceptores, ofertadas, negociadas, oferta>>
        /\ sinal' = "have-local-offer" => sinal = "have-local-offer"
    BY <1>7 DEF ReceberOferta, Candidato, SemSessao, AplicarPendentes, ConsultarAdiada, Responder,
                EnviarResposta
  <2>2. \A h \in Goroutine : passo'[h] \in {"inicio", "definir"} => passo[h] = passo'[h]
    BY <1>0, <1>7 DEF ReceberOferta, Candidato, SemSessao, AplicarPendentes, ConsultarAdiada,
                      Responder, EnviarResposta, Ir
  <2> QED BY <2>1, <2>2, CobreParada
<1>8. CASE Retirar \/ MarcarFechada \/ FecharConexao \/ ClienteRecebe \/ ClienteOferta
           \/ ClienteCandidato \/ UNCHANGED vars
  <2>1. /\ UNCHANGED <<passo, transceptores, ofertadas, negociadas, oferta>>
        /\ sinal' = "have-local-offer" => sinal = "have-local-offer"
    BY <1>8 DEF Retirar, MarcarFechada, FecharConexao, ClienteRecebe, ClienteOferta,
                ClienteCandidato, vars
  <2> QED BY <2>1, CobreParada
<1> QED
  BY <1>2, <1>3, <1>4, <1>5, <1>6, <1>7, <1>8, <1>9 DEF Next, PassoOferta, PassoLeitor

LEMMA CobreInit == Init => CobreInv
  BY UmaInit DEF Init, CobreInv, Cobre, Conhecida, Definindo

LEMMA CobreSempre == Spec => []CobreInv
  BY CobreInit, CobreStep, PTL DEF Spec

LEMMA AcordoStep ==
  ASSUME CobreInv, [Next]_vars
  PROVE  negociadas \cap transceptores' \subseteq negociadas'
<1>1. CASE ReceberResposta
  BY <1>1 DEF ReceberResposta, CobreInv, Cobre
<1>2. CASE ~ReceberResposta
  BY <1>2 DEF Next, PassoOferta, Oferecer, CriarOferta, DefinirOferta, Liberar, EnviarOferta,
              Assinar, Remover, PassoLeitor, ReceberOferta, Candidato, SemSessao,
              AplicarPendentes, ConsultarAdiada, Responder, EnviarResposta, Retirar,
              MarcarFechada, FecharConexao, ClienteRecebe, ClienteOferta, ClienteCandidato,
              vars, pion
<1> QED BY <1>1, <1>2

\* No answer takes back a track that an earlier answer covered and that is still sent,
\* for any number of tracks whose goroutines offer at the same time (oferecer, Descricao).
THEOREM AcordoSoCresce == Spec => NegociadaPermanece
<1>1. CobreInv /\ [Next]_vars => [negociadas \cap transceptores' \subseteq negociadas']_vars
  BY AcordoStep
<1> QED BY <1>1, CobreSempre, PTL DEF Spec, NegociadaPermanece
-----------------------------------------------------------------------------
(***************************************************************************)
(* Which goroutine has still to see to a track.                            *)
(***************************************************************************)
ComMarca == oferecendo => \E g \in Goroutine : NaOferta(g)

\* While the client makes no offer, nothing of what follows one happens.
Quieto ==
  registrada /\ ofertasCliente = 0 =>
    /\ subida \in Seq({"answer", "ice"})
    /\ sinal \in {"stable", "have-local-offer"}
    /\ \A g \in Goroutine : passo[g] # "desistir"
    /\ passo[leitor] \notin {"aplicarOferta", "responder", "enviarResposta"}

LembradaInv == CandidatosInv /\ CobreInv /\ ComMarca /\ Quieto /\ NenhumaEsquecida

\* What the conjuncts before say of a session that the client has made no offer to.
LEMMA Factos ==
  ASSUME LembradaInv
  PROVE  /\ passo \in [Goroutine -> Passo] /\ oferta \in [Goroutine -> SUBSET Faixa]
         /\ leitor \in Goroutine /\ leitor \notin Faixa /\ Faixa \subseteq Goroutine
         /\ \A g \in Goroutine : Depois(g) \in {"lendo", "fim"}
         /\ UmaPorVez /\ Cobre /\ ComMarca /\ ofertasCliente \in Nat
         /\ registrada => ~fechada
         /\ \A g \in Goroutine : registrada /\ passo[g] = "liberar" => sinal = "have-local-offer"
<1>1. \A g \in Goroutine : registrada /\ passo[g] = "liberar" => sinal = "have-local-offer"
  <2> SUFFICES ASSUME NEW g \in Goroutine, registrada, passo[g] = "liberar"
               PROVE  sinal = "have-local-offer"
    OBVIOUS
  <2>1. OfertaInv
    BY DEF LembradaInv, CandidatosInv
  <2>2. Cardinality(Saindo) # 0
    <3>1. g \in Saindo
      BY DEF Saindo
    <3> QED BY <3>1, SaindoFinito, FS_EmptySet
  <2>3. Lugares # 0
    BY <2>1, <2>2, LugaresNat DEF Lugares
  <2> QED BY <2>1, <2>3, EmUmLugar DEF OfertaInv
<1>2. ofertasCliente \in Nat
  BY NegociacaoAssumption DEF LembradaInv, CandidatosInv, TypeOK
<1>3. registrada => ~fechada
  BY DEF LembradaInv, CandidatosInv, OfertaInv
<1> QED
  BY <1>1, <1>2, <1>3, NegociacaoAssumption
  DEF LembradaInv, CobreInv, UmaInv, PassoTipado, Goroutine, Depois

LEMMA MarcaStep ==
  ASSUME LembradaInv, [Next]_vars
  PROVE  ComMarca'
<1>0. /\ passo \in [Goroutine -> Passo] /\ leitor \in Goroutine /\ Faixa \subseteq Goroutine
      /\ UmaPorVez /\ ComMarca
  BY Factos
<1> USE DEF NaOferta
\* Steps that leave the marker alone and take nobody out of the offer.
<1>1. ASSUME UNCHANGED oferecendo, \A g \in Goroutine : NaOferta(g) => NaOferta(g)'
      PROVE  ComMarca'
  BY <1>0, <1>1 DEF ComMarca
<1>2. ASSUME NEW g \in Goroutine, Oferecer(g) PROVE ComMarca'
  BY <1>0, <1>2 DEF Oferecer, Ir, ComMarca
<1>3. ASSUME NEW g \in Goroutine, CriarOferta(g) \/ DefinirOferta(g) \/ EnviarOferta(g) PROVE ComMarca'
  <2>1. UNCHANGED oferecendo /\ \A h \in Goroutine : NaOferta(h) => NaOferta(h)'
    BY <1>0, <1>3 DEF CriarOferta, DefinirOferta, EnviarOferta, Ir
  <2> QED BY <1>1, <2>1
<1>4. ASSUME NEW g \in Goroutine, Liberar(g) PROVE ComMarca'
  BY <1>4 DEF Liberar, ComMarca
<1>5. ASSUME NEW f \in Faixa, Assinar(f) \/ Remover(f) PROVE ComMarca'
  <2>1. UNCHANGED oferecendo /\ \A h \in Goroutine : NaOferta(h) => NaOferta(h)'
    BY <1>0, <1>5 DEF Assinar, Remover, Ir
  <2> QED BY <1>1, <2>1
<1>6. CASE PassoLeitor
  <2>1. UNCHANGED oferecendo /\ \A h \in Goroutine : NaOferta(h) => NaOferta(h)'
    BY <1>0, <1>6 DEF PassoLeitor, ReceberResposta, ReceberOferta, Candidato, SemSessao, Chega,
           AplicarPendentes, ConsultarAdiada, Responder, EnviarResposta, Ir
  <2> QED BY <1>1, <2>1
<1>7. CASE Retirar \/ MarcarFechada \/ FecharConexao \/ ClienteRecebe \/ ClienteOferta
           \/ ClienteCandidato \/ UNCHANGED vars
  <2>1. UNCHANGED <<oferecendo, passo>>
    BY <1>7 DEF Retirar, MarcarFechada, FecharConexao, ClienteRecebe, ClienteOferta,
                ClienteCandidato, vars
  <2> QED BY <1>1, <2>1
<1> QED
  BY <1>2, <1>3, <1>4, <1>5, <1>6, <1>7 DEF Next, PassoOferta

\* A step to such a session is not one of those that follow an offer of the client.
LEMMA SoRespostas ==
  ASSUME LembradaInv, [Next]_vars, registrada', ofertasCliente' = 0
  PROVE  /\ registrada /\ ofertasCliente = 0 /\ ~ClienteOferta
         /\ subida \in Seq({"answer", "ice"})
         /\ sinal \in {"stable", "have-local-offer"}
         /\ \A g \in Goroutine : passo[g] # "desistir"
         /\ passo[leitor] \notin {"aplicarOferta", "responder", "enviarResposta"}
         /\ ~ReceberOferta /\ ~Responder /\ ~EnviarResposta /\ ~FecharConexao /\ ~Retirar /\ ~SemSessao
<1> USE DEF pion, sessao, candidatos, cliente
<1>0. ofertasCliente \in Nat /\ (registrada => ~fechada)
  BY Factos
<1>1. registrada /\ ofertasCliente = 0 /\ ~ClienteOferta
  <2>1. ~ClienteOferta /\ ~Retirar
    <3>1. ofertasCliente' # ofertasCliente + 1
      BY <1>0
    <3> QED BY <3>1 DEF ClienteOferta, Retirar
  <2>2. UNCHANGED <<registrada, ofertasCliente>>
    BY <2>1
    DEF Next, PassoOferta, Oferecer, CriarOferta, DefinirOferta, Liberar, EnviarOferta,
        Assinar, Remover, PassoLeitor, ReceberResposta, ReceberOferta, Candidato, SemSessao,
        AplicarPendentes, ConsultarAdiada, Responder, EnviarResposta, MarcarFechada,
        FecharConexao, ClienteRecebe, ClienteCandidato, vars
  <2> QED BY <2>1, <2>2
<1>2. /\ subida \in Seq({"answer", "ice"})
      /\ sinal \in {"stable", "have-local-offer"}
      /\ \A g \in Goroutine : passo[g] # "desistir"
      /\ passo[leitor] \notin {"aplicarOferta", "responder", "enviarResposta"}
  BY <1>1 DEF LembradaInv, Quieto
<1>3. ~ReceberOferta /\ ~Responder /\ ~EnviarResposta /\ ~FecharConexao /\ ~Retirar /\ ~SemSessao
  <2>1. subida # <<>> => Head(subida) \in {"answer", "ice"}
    BY <1>2
  <2>2. ~ReceberOferta
    BY <2>1 DEF ReceberOferta, Chega
  <2>3. ~Responder /\ ~EnviarResposta
    BY <1>2 DEF Responder, EnviarResposta
  <2> QED BY <1>0, <1>1, <2>2, <2>3 DEF FecharConexao, Retirar, SemSessao
<1> QED BY <1>1, <1>2, <1>3

LEMMA QuietoStep ==
  ASSUME LembradaInv, [Next]_vars
  PROVE  Quieto'
<1>0. /\ passo \in [Goroutine -> Passo] /\ leitor \in Goroutine /\ Faixa \subseteq Goroutine
      /\ leitor \notin Faixa
      /\ \A g \in Goroutine : Depois(g) \in {"lendo", "fim"}
      /\ UmaPorVez /\ ofertasCliente \in Nat
      /\ registrada => ~fechada
  BY Factos
<1> SUFFICES ASSUME registrada', ofertasCliente' = 0
             PROVE  /\ subida' \in Seq({"answer", "ice"})
                    /\ sinal' \in {"stable", "have-local-offer"}
                    /\ \A g \in Goroutine : passo'[g] # "desistir"
                    /\ passo'[leitor] \notin {"aplicarOferta", "responder", "enviarResposta"}
  BY DEF Quieto
<1> USE DEF pion, sessao, candidatos, cliente
<1>1. ~ClienteOferta
  BY SoRespostas
<1>2. /\ subida \in Seq({"answer", "ice"})
      /\ sinal \in {"stable", "have-local-offer"}
      /\ \A g \in Goroutine : passo[g] # "desistir"
      /\ passo[leitor] \notin {"aplicarOferta", "responder", "enviarResposta"}
  BY SoRespostas
<1>3. ~ReceberOferta /\ ~Responder /\ ~EnviarResposta /\ ~FecharConexao /\ ~Retirar /\ ~SemSessao
  BY SoRespostas
<1>4. sinal' \in {"stable", "have-local-offer"}
  BY <1>2, <1>3
  DEF Next, PassoOferta, Oferecer, CriarOferta, DefinirOferta, Liberar, EnviarOferta,
      Assinar, Remover, PassoLeitor, ReceberResposta, Candidato,
      AplicarPendentes, ConsultarAdiada, MarcarFechada,
      ClienteRecebe, ClienteOferta, ClienteCandidato, vars
<1>5. subida' \in Seq({"answer", "ice"})
  <2>1. CASE ReceberResposta \/ Candidato
    <3>1. subida # <<>> /\ subida' = Tail(subida)
      BY <2>1 DEF ReceberResposta, Candidato, Chega
    <3> QED BY <1>2, <3>1
  <2>2. CASE ClienteRecebe \/ ClienteCandidato
    <3>1. \/ UNCHANGED subida
          \/ subida' = Append(subida, "answer") \/ subida' = Append(subida, "ice")
      BY <2>2 DEF ClienteRecebe, ClienteCandidato
    <3> QED BY <1>2, <3>1
  <2>3. CASE ~ReceberResposta /\ ~Candidato /\ ~ClienteRecebe /\ ~ClienteCandidato
    <3>1. UNCHANGED subida
      BY <1>1, <1>3, <2>3
      DEF Next, PassoOferta, Oferecer, CriarOferta, DefinirOferta, Liberar, EnviarOferta,
          Assinar, Remover, PassoLeitor, AplicarPendentes, ConsultarAdiada, MarcarFechada, vars
    <3> QED BY <1>2, <3>1
  <2> QED BY <2>1, <2>2, <2>3
<1>6. ASSUME NEW g \in Goroutine,
             NEW onde, onde \notin {"desistir", "aplicarOferta", "responder", "enviarResposta"},
             Ir(g, onde)
      PROVE  /\ \A h \in Goroutine : passo'[h] # "desistir"
             /\ passo'[leitor] \notin {"aplicarOferta", "responder", "enviarResposta"}
  BY <1>0, <1>2, <1>6 DEF Ir
<1>7. \/ UNCHANGED passo
      \/ \E g \in Goroutine : \E onde :
           onde \notin {"desistir", "aplicarOferta", "responder", "enviarResposta"} /\ Ir(g, onde)
  <2>1. ASSUME NEW g \in Goroutine, PassoOferta(g)
        PROVE  \E onde : onde \notin {"desistir", "aplicarOferta", "responder", "enviarResposta"} /\ Ir(g, onde)
    <3>1. ~(passo[g] = "definir" /\ sinal # "stable")
      <4>1. passo[g] = "definir" => sinal # "have-local-offer"
        BY <1>0 DEF UmaPorVez
      <4> QED BY <1>2, <4>1
    <3> QED BY <1>0, <1>2, <2>1, <3>1
            DEF PassoOferta, Oferecer, CriarOferta, DefinirOferta, Liberar, EnviarOferta
  <2>2. ASSUME NEW f \in Faixa, Assinar(f) \/ Remover(f) PROVE Ir(f, "oferecer") /\ f \in Goroutine
    BY <1>0, <2>2 DEF Assinar, Remover
  <2>3. CASE PassoLeitor
    <3>1. CASE AplicarPendentes
      BY <1>0, <1>2, <3>1 DEF AplicarPendentes
    <3>2. CASE ~AplicarPendentes
      BY <1>0, <1>2, <1>3, <2>3, <3>2 DEF PassoLeitor, ReceberResposta, Candidato, ConsultarAdiada
    <3> QED BY <3>1, <3>2
  <2>4. CASE MarcarFechada \/ ClienteRecebe \/ ClienteCandidato \/ UNCHANGED vars
    BY <2>4 DEF MarcarFechada, ClienteRecebe, ClienteCandidato, vars
  <2> QED BY <1>1, <1>3, <2>1, <2>2, <2>3, <2>4 DEF Next
<1>8. CASE UNCHANGED passo
  BY <1>2, <1>4, <1>5, <1>8
<1>9. CASE ~UNCHANGED passo
  BY <1>4, <1>5, <1>6, <1>7, <1>9
<1> QED BY <1>8, <1>9

\* Steps that leave the tracks, the offers and the note alone, and whoever had a call to
\* oferecer ahead or an answer to handle still has.
LEMMA LembradaFica ==
  ASSUME EmDia \/ PorOferecer,
         UNCHANGED <<sinal, transceptores, ofertadas, negociadas, oferta, renegociarDepois>>,
         \A g \in Goroutine :
           passo[g] \in {"oferecer", "criar", "definir"} => passo'[g] = passo[g],
         \A g \in Goroutine : passo'[g] = "definir" => passo[g] = "definir",
         passo[leitor] \in {"aplicarResposta", "consultar"}
           => passo'[leitor] \in {"aplicarResposta", "consultar"}
  PROVE  (EmDia \/ PorOferecer)'
<1>1. Definindo' = Definindo
  BY DEF Definindo
<1>2. EmDia => EmDia'
  BY <1>1 DEF EmDia
<1>3. PorOferecer => PorOferecer'
  BY DEF PorOferecer, AConsultar
<1> QED BY <1>2, <1>3

LEMMA LembradaStep ==
  ASSUME LembradaInv, [Next]_vars
  PROVE  NenhumaEsquecida'
<1> SUFFICES ASSUME registrada', ofertasCliente' = 0
             PROVE  EmDia' \/ PorOferecer'
  BY DEF NenhumaEsquecida
<1> USE DEF pion, sessao, candidatos, cliente
<1>0. /\ passo \in [Goroutine -> Passo] /\ oferta \in [Goroutine -> SUBSET Faixa]
      /\ leitor \in Goroutine /\ Faixa \subseteq Goroutine /\ leitor \notin Faixa
      /\ \A g \in Goroutine : Depois(g) \in {"lendo", "fim"}
      /\ UmaPorVez /\ ComMarca
  BY Factos
<1>1. /\ registrada /\ ofertasCliente = 0 /\ ~fechada
      /\ sinal \in {"stable", "have-local-offer"}
      /\ \A g \in Goroutine : passo[g] # "desistir"
      /\ passo[leitor] \notin {"aplicarOferta", "responder", "enviarResposta"}
  BY Factos, SoRespostas
<1>2. /\ ~ClienteOferta /\ ~ReceberOferta /\ ~Responder /\ ~EnviarResposta
      /\ ~FecharConexao /\ ~Retirar /\ ~SemSessao
  BY SoRespostas
<1>3. \A g \in Goroutine : passo[g] \in {"criar", "definir"} => sinal = "stable"
  BY <1>0, <1>1 DEF UmaPorVez
<1>4. EmDia \/ PorOferecer
  BY <1>1 DEF LembradaInv, NenhumaEsquecida
<1>14. \A g, h \in Goroutine : passo[g] \in {"criar", "definir"} /\ passo[h] \in {"criar", "definir"}
                              => g = h
  BY <1>0 DEF UmaPorVez, NaOferta
<1>5. ASSUME NEW g \in Goroutine, Oferecer(g) PROVE PorOferecer'
  <2>1. CASE ~Ocupada
    <3>1. passo'[g] = "criar"
      BY <1>0, <1>1, <1>5, <2>1 DEF Oferecer, Ir
    <3> QED BY <3>1 DEF PorOferecer
  <2>2. CASE Ocupada
    <3>1. /\ renegociarDepois' /\ sinal' = sinal
          /\ \A h \in Goroutine : passo[h] \in {"criar", "definir"} => passo'[h] = passo[h]
      BY <1>0, <1>1, <1>5, <2>2 DEF Oferecer, Ir
    <3>2. sinal = "have-local-offer" \/ \E h \in Goroutine : passo[h] \in {"criar", "definir"}
      <4>1. ASSUME NEW h \in Goroutine, passo[h] = "liberar" PROVE sinal = "have-local-offer"
        BY <1>1, <4>1, Factos
      <4> QED BY <1>0, <1>1, <2>2, <4>1 DEF Ocupada, ComMarca, NaOferta
    <3> QED BY <3>1, <3>2 DEF PorOferecer, AConsultar
  <2> QED BY <2>1, <2>2
\* An offer has what is sent when it is created ...
<1>6. ASSUME NEW g \in Goroutine, CriarOferta(g) PROVE EmDia'
  <2>1. /\ passo[g] = "criar" /\ passo'[g] = "definir" /\ oferta'[g] = transceptores
        /\ UNCHANGED <<sinal, transceptores>>
        /\ \A h \in Goroutine : h # g => passo'[h] = passo[h]
    BY <1>0, <1>1, <1>6 DEF CriarOferta, Ir
  <2>2. Definindo' = {g}
    BY <1>0, <1>14, <2>1 DEF Definindo
  <2> QED BY <1>3, <2>1, <2>2 DEF EmDia
\* ... and nobody else is making one meanwhile.
<1>7. ASSUME NEW g \in Goroutine, DefinirOferta(g) PROVE EmDia' \/ PorOferecer'
  <2>1. /\ sinal = "stable" /\ sinal' = "have-local-offer" /\ ofertadas' = oferta[g]
        /\ UNCHANGED <<transceptores, negociadas, renegociarDepois>>
        /\ \A h \in Goroutine : h # g => passo'[h] = passo[h]
        /\ passo[g] = "definir" /\ passo'[g] = "liberar"
    BY <1>0, <1>3, <1>7 DEF DefinirOferta, Ir
  <2>2. Definindo' = {}
    BY <1>0, <1>14, <2>1 DEF Definindo
  <2>3. EmDia => EmDia'
    <3>1. g \in Definindo
      BY <2>1 DEF Definindo
    <3> QED BY <2>1, <2>2, <3>1 DEF EmDia
  <2>4. PorOferecer => PorOferecer'
    BY <2>1 DEF PorOferecer, AConsultar
  <2> QED BY <1>4, <2>3, <2>4
<1>8. ASSUME NEW g \in Goroutine, Liberar(g) \/ EnviarOferta(g) PROVE EmDia' \/ PorOferecer'
  <2>1. /\ UNCHANGED <<sinal, transceptores, ofertadas, negociadas, oferta, renegociarDepois>>
        /\ \A h \in Goroutine : h # g => passo'[h] = passo[h]
        /\ passo[g] \in {"liberar", "desistir", "enviar"} /\ passo'[g] # "definir"
    BY <1>0, <1>8 DEF Liberar, EnviarOferta, Ir
  <2> QED BY <1>0, <1>4, <2>1, LembradaFica
\* A track that comes or goes has a goroutine about to call oferecer.
<1>9. ASSUME NEW f \in Faixa, Assinar(f) \/ Remover(f) PROVE PorOferecer'
  <2>1. passo'[f] = "oferecer"
    BY <1>0, <1>9 DEF Assinar, Remover, Ir
  <2> QED BY <1>0, <2>1 DEF PorOferecer
<1>10. CASE ReceberResposta
  <2>1. CASE sinal = "have-local-offer"
    <3>1. /\ negociadas' = ofertadas /\ sinal' = "stable"
          /\ passo[leitor] = "lendo" /\ passo'[leitor] = "aplicarResposta"
          /\ UNCHANGED <<transceptores, renegociarDepois>>
          /\ \A g \in Goroutine : g # leitor => passo'[g] = passo[g]
      BY <1>0, <1>10, <2>1 DEF ReceberResposta, Chega, Ir
    <3>2. \A g \in Goroutine : passo[g] \notin {"criar", "definir"}
      BY <1>3, <2>1
    <3>3. Definindo' = {}
      BY <3>1, <3>2 DEF Definindo
    <3>4. EmDia => EmDia'
      BY <2>1, <3>1, <3>3 DEF EmDia
    <3>5. PorOferecer => PorOferecer'
      BY <1>0, <3>1, <3>2 DEF PorOferecer, AConsultar
    <3> QED BY <1>4, <3>4, <3>5
  <2>2. CASE sinal # "have-local-offer"
    <3>1. UNCHANGED <<sinal, transceptores, ofertadas, negociadas, oferta, renegociarDepois, passo>>
      BY <1>10, <2>2 DEF ReceberResposta
    <3> QED BY <1>4, <3>1, LembradaFica
  <2> QED BY <2>1, <2>2
<1>11. CASE AplicarPendentes
  <2>1. /\ UNCHANGED <<sinal, transceptores, ofertadas, negociadas, oferta, renegociarDepois>>
        /\ passo[leitor] = "aplicarResposta" /\ passo'[leitor] = "consultar"
        /\ \A g \in Goroutine : g # leitor => passo'[g] = passo[g]
    BY <1>0, <1>1, <1>11 DEF AplicarPendentes, Ir
  <2> QED BY <1>0, <1>4, <2>1, LembradaFica
\* The note is acted upon, or there was none and somebody else has the track.
<1>12. CASE ConsultarAdiada
  <2>1. CASE renegociarDepois
    <3>1. passo'[leitor] = "oferecer"
      BY <1>0, <1>12, <2>1 DEF ConsultarAdiada, Ir
    <3> QED BY <1>0, <3>1 DEF PorOferecer
  <2>2. CASE ~renegociarDepois
    <3>1. /\ UNCHANGED <<sinal, transceptores, ofertadas, negociadas, oferta>>
          /\ passo[leitor] = "consultar" /\ passo'[leitor] = "lendo"
          /\ \A g \in Goroutine : g # leitor => passo'[g] = passo[g]
      BY <1>0, <1>12, <2>2 DEF ConsultarAdiada, Ir
    <3>2. Definindo' = Definindo
      BY <1>0, <3>1 DEF Definindo
    <3>3. EmDia => EmDia'
      BY <3>1, <3>2 DEF EmDia
    <3>4. PorOferecer => PorOferecer'
      BY <1>0, <2>2, <3>1 DEF PorOferecer
    <3> QED BY <1>4, <3>3, <3>4
  <2> QED BY <2>1, <2>2
<1>13. CASE Candidato \/ MarcarFechada \/ ClienteRecebe \/ ClienteCandidato \/ UNCHANGED vars
  <2>1. UNCHANGED <<sinal, transceptores, ofertadas, negociadas, oferta, renegociarDepois, passo>>
    BY <1>13 DEF Candidato, MarcarFechada, ClienteRecebe, ClienteCandidato, vars
  <2> QED BY <1>4, <2>1, LembradaFica
<1> QED
  BY <1>2, <1>5, <1>6, <1>7, <1>8, <1>9, <1>10, <1>11, <1>12, <1>13
  DEF Next, PassoOferta, PassoLeitor

\* Until the client makes an offer of its own, no track of an open session is forgotten
\* between the goroutines: unless the client knows, or will know with its next answer,
\* exactly what is sent, some call that tells it is outstanding (oferecer and the two
\* flags of sessaoSFU).
THEOREM FaixaSempreLembrada == Spec => []NenhumaEsquecida
<1>1. Init => LembradaInv
  <2> SUFFICES ASSUME Init PROVE LembradaInv
    OBVIOUS
  <2>1. CandidatosInv /\ CobreInv
    BY CandidatosInit, CobreInit
  <2>2. ComMarca /\ NenhumaEsquecida
    BY DEF Init, ComMarca, NenhumaEsquecida, EmDia, Definindo
  <2>3. Quieto
    BY NegociacaoAssumption DEF Init, Quieto, Goroutine
  <2> QED BY <2>1, <2>2, <2>3 DEF LembradaInv
<1>2. LembradaInv /\ [Next]_vars => LembradaInv'
  BY OfertaStep, ContadosStep, TipoStep, CobreStep, MarcaStep, QuietoStep, LembradaStep
  DEF LembradaInv, CandidatosInv
<1>3. LembradaInv => NenhumaEsquecida
  BY DEF LembradaInv
<1> QED BY <1>1, <1>2, <1>3, PTL DEF Spec
=============================================================================
