------------------------- MODULE QuadroChaveProofs -------------------------
(***************************************************************************)
(* Proofs about QuadroChave for any number of spectators, any interval and *)
(* any list of waits: the types, that one series of requests runs at a     *)
(* time, and that who starts a series is served by its second request.     *)
(* UmaSerie is inductive as it stands, given the types: the marker is read *)
(* and set in one section, and taken down by the series itself.            *)
(***************************************************************************)
EXTENDS QuadroChave, TLAPS

\* A goroutine that asks is a series, named by who started it, or a reader of feedback.
LEMMA GoroutineDe ==
  ASSUME NEW g \in Goroutine
  PROVE  \/ \E q \in Chamador : g = Serie(q) /\ g[1] = "serie" /\ g[2] = q
         \/ \E v \in Espectador : g = Leitor(v) /\ g[1] = "rtcp"
  BY DEF Goroutine, Serie, Leitor

LEMMA TipoInit == Init => TypeOK
<1> SUFFICES ASSUME Init PROVE TypeOK
  OBVIOUS
<1>1. noAr \in BOOLEAN /\ publicador \in BOOLEAN /\ repetindo \in BOOLEAN
  BY DEF Init
<1>2. vez \in [Chamador -> 1..Len(Esperas)] /\ espera \in [Chamador -> Nat] /\ idade \in 0..Intervalo
  BY QuadroChaveAssumption DEF Init
<1>3. passo \in [Goroutine -> Etapa] /\ avisados \in [Espectador -> Nat]
      /\ insistindo \in [Chamador -> Nat]
  BY DEF Init, Etapa
<1> QED BY <1>1, <1>2, <1>3 DEF Init, TypeOK

\* What Seguir does to the types.
LEMMA SeguirTipo ==
  ASSUME TypeOK, NEW g \in Goroutine, Seguir(g)
  PROVE  passo' \in [Goroutine -> Etapa] /\ vez' \in [Chamador -> 1..Len(Esperas)]
         /\ espera' \in [Chamador -> Nat]
<1> USE DEF TypeOK, Etapa, Ir, serie
<1>1. CASE g[1] = "rtcp"
  BY <1>1 DEF Seguir
<1>2. CASE g[1] # "rtcp"
  <2>1. PICK q \in Chamador : g[2] = q
    BY <1>2, GoroutineDe
  <2>2. CASE vez[q] = Len(Esperas)
    BY <1>2, <2>1, <2>2 DEF Seguir
  <2>3. CASE vez[q] # Len(Esperas)
    <3>1. Len(Esperas) \in Nat /\ vez[q] \in 1..Len(Esperas)
      BY QuadroChaveAssumption
    <3>2. vez[q] + 1 \in 1..Len(Esperas)
      BY <2>3, <3>1
    <3>3. Esperas[vez[q] + 1] \in Nat
      BY <3>2, QuadroChaveAssumption
    <3>4. /\ passo' = [passo EXCEPT ![g] = "dormir"]
          /\ vez' = [vez EXCEPT ![q] = vez[q] + 1]
          /\ espera' = [espera EXCEPT ![q] = Esperas[vez[q] + 1]]
      BY <1>2, <2>1, <2>3 DEF Seguir
    <3> QED BY <3>2, <3>3, <3>4
  <2> QED BY <2>2, <2>3
<1> QED BY <1>1, <1>2

LEMMA TipoStep == TypeOK /\ [Next]_vars => TypeOK'
<1> SUFFICES ASSUME TypeOK, [Next]_vars PROVE TypeOK'
  OBVIOUS
<1> USE QuadroChaveAssumption DEF TypeOK, Etapa, faixa, plateia, pedidos, serie, historia
<1>1. CASE AssinarComChave
  <2>1. insistindo' \in [Chamador -> Nat]
    BY <1>1 DEF AssinarComChave
  <2>2. destinos' \in SUBSET Espectador /\ inscritos' \in SUBSET Espectador
    BY <1>1 DEF AssinarComChave
  <2> QED BY <1>1, <2>1, <2>2 DEF AssinarComChave
<1>2. CASE PublicadorSai \/ SairDoAr
  BY <1>2 DEF PublicadorSai, SairDoAr
<1>3. CASE Tique
  BY <1>3 DEF Tique
<1>4. ASSUME NEW v \in Espectador, Entrar(v) \/ Cair(v) \/ Sair(v) PROVE TypeOK'
  BY <1>4 DEF Entrar, Cair, Sair
<1>5. ASSUME NEW v \in Espectador, Conectar(v) PROVE TypeOK'
  <2>1. avisados' = [avisados EXCEPT ![v] = avisados[v] + 1]
        /\ transporte' = [transporte EXCEPT ![v] = "conectado"]
        /\ UNCHANGED <<faixa, inscritos, destinos, insistindo, repetindo, idade, passo, serie, historia>>
    BY <1>5 DEF Conectar
  <2> QED BY <2>1
<1>6. ASSUME NEW v \in Espectador, PedirChaveDeTudo(v) PROVE TypeOK'
  <2>1. avisados[v] > 0 /\ v \in Chamador
    BY <1>6 DEF PedirChaveDeTudo, Chamador
  <2>2. avisados' \in [Espectador -> Nat]
    BY <1>6, <2>1 DEF PedirChaveDeTudo
  <2>3. insistindo' \in [Chamador -> Nat]
    BY <1>6, <2>1 DEF PedirChaveDeTudo
  <2> QED BY <1>6, <2>2, <2>3 DEF PedirChaveDeTudo
<1>7. ASSUME NEW v \in Espectador, PerderQuadro(v) PROVE TypeOK'
  BY <1>7 DEF PerderQuadro, Ir
<1>8. ASSUME NEW q \in Chamador, InsistirNaChave(q) PROVE TypeOK'
  <2>1. Esperas[1] \in Nat /\ 1 \in 1..Len(Esperas)
    OBVIOUS
  <2>2. insistindo' \in [Chamador -> Nat]
    BY <1>8 DEF InsistirNaChave
  <2>3. CASE repetindo
    BY <1>8, <2>3, <2>2 DEF InsistirNaChave
  <2>4. CASE ~repetindo
    <3>1. /\ repetindo' = TRUE
          /\ passo' = [passo EXCEPT ![Serie(q)] = "dormir"]
          /\ vez' = [vez EXCEPT ![q] = 1]
          /\ espera' = [espera EXCEPT ![q] = Esperas[1]]
          /\ UNCHANGED <<faixa, plateia, destinos, avisados, idade, servidos>>
      BY <1>8, <2>4 DEF InsistirNaChave, ComecarSerie, Ir
    <3>2. iniciou' \in SUBSET Espectador
      BY <1>8, <2>4 DEF InsistirNaChave, ComecarSerie
    <3> QED BY <2>1, <2>2, <3>1, <3>2
  <2> QED BY <2>3, <2>4
<1>9. ASSUME NEW q \in Chamador, Acordar(q) PROVE TypeOK'
  BY <1>9 DEF Acordar, Ir
<1>10. ASSUME NEW q \in Chamador, Soltar(q) PROVE TypeOK'
  <2>1. vez' \in [Chamador -> 1..Len(Esperas)]
    BY <1>10 DEF Soltar
  <2> QED BY <1>10, <2>1 DEF Soltar, Ir
<1>11. ASSUME NEW g \in Goroutine, PedirChave(g) PROVE TypeOK'
  <2>1. \/ idade' = 0 /\ Ir(g, "escrever") /\ UNCHANGED serie
        \/ Seguir(g) /\ UNCHANGED idade
    BY <1>11 DEF PedirChave
  <2>2. UNCHANGED <<faixa, plateia, destinos, pedidos, repetindo, historia>>
    BY <1>11 DEF PedirChave
  <2>3. CASE idade' = 0 /\ Ir(g, "escrever") /\ UNCHANGED serie
    BY <2>2, <2>3 DEF Ir
  <2>4. CASE Seguir(g) /\ UNCHANGED idade
    BY <2>2, <2>4, SeguirTipo
  <2> QED BY <2>1, <2>3, <2>4
<1>12. ASSUME NEW g \in Goroutine, EscreverPLI(g) PROVE TypeOK'
  BY <1>12, SeguirTipo DEF EscreverPLI
<1>13. CASE UNCHANGED vars
  BY <1>13 DEF vars
<1> QED
  BY <1>1, <1>2, <1>3, <1>4, <1>5, <1>6, <1>7, <1>8, <1>9, <1>10, <1>11, <1>12, <1>13
  DEF Next, PassoPedido

\* Every variable keeps its type; in particular a series never counts past the waits.
THEOREM TipoSempre == Spec => []TypeOK
  BY TipoInit, TipoStep, PTL DEF Spec

-----------------------------------------------------------------------------
\* A goroutine that goes from one stage to another, neither of them "parada", or that
\* is no series, leaves the set of series in progress as it was.
LEMMA EmSerieMesma ==
  ASSUME TypeOK, NEW g \in Goroutine, NEW onde \in Etapa, Ir(g, onde),
         g[1] = "rtcp" \/ (passo[g] # "parada" /\ onde # "parada")
  PROVE  EmSerie' = EmSerie
<1>1. ASSUME NEW q \in Chamador
      PROVE  passo'[Serie(q)] # "parada" <=> passo[Serie(q)] # "parada"
  <2>1. Serie(q) \in Goroutine /\ Serie(q)[1] = "serie"
    BY DEF Goroutine, Serie
  <2>2. CASE Serie(q) = g
    BY <2>1, <2>2 DEF Ir, TypeOK
  <2>3. CASE Serie(q) # g
    BY <2>1, <2>3 DEF Ir, TypeOK
  <2> QED BY <2>2, <2>3
<1> QED BY <1>1 DEF EmSerie

LEMMA SeguirMesma ==
  ASSUME TypeOK, NEW g \in Goroutine, Seguir(g), passo[g] # "parada"
  PROVE  EmSerie' = EmSerie
<1>1. CASE g[1] = "rtcp"
  BY <1>1, EmSerieMesma DEF Seguir, Etapa
<1>2. CASE g[1] # "rtcp"
  <2>1. Ir(g, "soltar") \/ Ir(g, "dormir")
    BY <1>2 DEF Seguir
  <2> QED BY <1>2, <2>1, EmSerieMesma DEF Etapa
<1> QED BY <1>1, <1>2

LEMMA UmaSerieStep == TypeOK /\ UmaSerie /\ [Next]_vars => UmaSerie'
<1> SUFFICES ASSUME TypeOK, UmaSerie, [Next]_vars PROVE UmaSerie'
  OBVIOUS
<1>1. ASSUME EmSerie' = EmSerie, UNCHANGED repetindo PROVE UmaSerie'
  BY <1>1 DEF UmaSerie
<1>2. ASSUME UNCHANGED <<passo, repetindo>> PROVE UmaSerie'
  BY <1>2 DEF UmaSerie, EmSerie
<1>3. CASE AssinarComChave \/ PublicadorSai \/ SairDoAr \/ Tique
  BY <1>2, <1>3 DEF AssinarComChave, PublicadorSai, SairDoAr, Tique
<1>4. ASSUME NEW v \in Espectador,
             Entrar(v) \/ Conectar(v) \/ Cair(v) \/ Sair(v) \/ PedirChaveDeTudo(v)
      PROVE  UmaSerie'
  BY <1>2, <1>4 DEF Entrar, Conectar, Cair, Sair, PedirChaveDeTudo
<1>5. ASSUME NEW v \in Espectador, PerderQuadro(v) PROVE UmaSerie'
  <2>1. Leitor(v) \in Goroutine /\ Leitor(v)[1] = "rtcp"
    BY DEF Goroutine, Leitor
  <2>2. EmSerie' = EmSerie
    BY <1>5, <2>1, EmSerieMesma DEF PerderQuadro, Etapa
  <2> QED BY <1>1, <1>5, <2>2 DEF PerderQuadro
<1>6. ASSUME NEW q \in Chamador, InsistirNaChave(q) PROVE UmaSerie'
  <2>1. CASE repetindo
    BY <1>2, <1>6, <2>1 DEF InsistirNaChave
  <2>2. CASE ~repetindo
    <3>1. EmSerie = {}
      BY <2>2 DEF UmaSerie
    <3>2. repetindo' = TRUE /\ Ir(Serie(q), "dormir")
      BY <1>6, <2>2 DEF InsistirNaChave, ComecarSerie
    <3>3. ASSUME NEW r \in Chamador PROVE passo'[Serie(r)] # "parada" <=> r = q
      <4>1. passo[Serie(r)] = "parada" /\ Serie(r) \in Goroutine /\ Serie(q) \in Goroutine
        BY <3>1 DEF EmSerie, Goroutine
      <4> QED BY <3>2, <4>1 DEF Ir, TypeOK, Serie
    <3>4. EmSerie' = {q}
      BY <3>3 DEF EmSerie
    <3> QED BY <3>2, <3>4 DEF UmaSerie
  <2> QED BY <2>1, <2>2
<1>7. ASSUME NEW q \in Chamador, Acordar(q) PROVE UmaSerie'
  <2>1. Serie(q) \in Goroutine /\ passo[Serie(q)] # "parada" /\ UNCHANGED repetindo
    BY <1>7 DEF Acordar, Goroutine
  <2>2. Ir(Serie(q), "pedir") \/ Ir(Serie(q), "soltar")
    BY <1>7 DEF Acordar
  <2>3. EmSerie' = EmSerie
    BY <2>1, <2>2, EmSerieMesma DEF Etapa
  <2> QED BY <1>1, <2>1, <2>3
<1>8. ASSUME NEW q \in Chamador, Soltar(q) PROVE UmaSerie'
  <2>1. EmSerie = {q}
    BY <1>8 DEF Soltar, UmaSerie, EmSerie
  <2>2. repetindo' = FALSE /\ Ir(Serie(q), "parada")
    BY <1>8 DEF Soltar
  <2>3. ASSUME NEW r \in Chamador PROVE passo'[Serie(r)] = "parada"
    <3>1. Serie(r) \in Goroutine /\ (r # q => passo[Serie(r)] = "parada")
      BY <2>1 DEF EmSerie, Goroutine
    <3> QED BY <2>2, <3>1 DEF Ir, TypeOK, Serie
  <2> QED BY <2>2, <2>3 DEF UmaSerie, EmSerie
<1>9. ASSUME NEW g \in Goroutine, PedirChave(g) PROVE UmaSerie'
  <2>1. passo[g] # "parada" /\ UNCHANGED repetindo
    BY <1>9 DEF PedirChave
  <2>2. Ir(g, "escrever") \/ Seguir(g)
    BY <1>9 DEF PedirChave
  <2>3. EmSerie' = EmSerie
    BY <2>1, <2>2, EmSerieMesma, SeguirMesma DEF Etapa
  <2> QED BY <1>1, <2>1, <2>3
<1>10. ASSUME NEW g \in Goroutine, EscreverPLI(g) PROVE UmaSerie'
  BY <1>1, <1>10, SeguirMesma DEF EscreverPLI
<1>11. CASE UNCHANGED vars
  BY <1>2, <1>11 DEF vars
<1> QED
  BY <1>3, <1>4, <1>5, <1>6, <1>7, <1>8, <1>9, <1>10, <1>11 DEF Next, PassoPedido

\* One series of key-frame requests at a time, and the marker is up exactly while it
\* runs: no call of insistirNaChave finds a marker that nobody will take down.
THEOREM UmaSeriePorVez == Spec => []UmaSerie
<1>1. Init => UmaSerie
  BY DEF Init, UmaSerie, EmSerie, Goroutine
<1> QED BY <1>1, TipoSempre, UmaSerieStep, PTL DEF Spec
-----------------------------------------------------------------------------
(***************************************************************************)
(* Who starts a series is served.  The argument is about time: the first   *)
(* request of the series may be refused, because somebody was granted one  *)
(* less than Intervalo before, but the second is made Intervalo later or   *)
(* more, so that only a request granted in between, which serves the       *)
(* spectator too, can be the cause of its refusal.                         *)
(***************************************************************************)
Escrevendo == \E g \in Goroutine : passo[g] = "escrever"

\* The series of v is before its second request, and that one will be granted.
Prazo(v) ==
  \/ vez[v] = 1 /\ passo[Serie(v)] \in {"dormir", "pedir"}
  \/ vez[v] = 2 /\ passo[Serie(v)] = "dormir" /\ idade + espera[v] >= Intervalo
  \/ vez[v] = 2 /\ passo[Serie(v)] = "pedir" /\ idade = Intervalo

\* While the track is on the air a connected spectator that asked for it is subscribed,
\* so that the next PLI serves it.
AtendidoInv ==
  /\ TypeOK /\ UmaSerie
  /\ \A v \in Espectador :
       noAr /\ insistindo[v] > 0 /\ transporte[v] # "fora" => v \in inscritos
  /\ \A v \in iniciou : transporte[v] = "conectado" /\ (noAr => v \in inscritos)
  /\ noAr /\ publicador => \A v \in iniciou : v \in servidos \/ Escrevendo \/ Prazo(v)

\* A goroutine that takes a step away from "escrever" is the only thing that can end it.
LEMMA EscrevendoFica ==
  ASSUME TypeOK, NEW g \in Goroutine, NEW onde \in Etapa, Ir(g, onde),
         passo[g] # "escrever", Escrevendo
  PROVE  Escrevendo'
<1>1. PICK h \in Goroutine : passo[h] = "escrever"
  BY DEF Escrevendo
<1>2. passo'[h] = "escrever"
  BY <1>1 DEF Ir, TypeOK
<1> QED BY <1>2 DEF Escrevendo

\* The part about the subscriptions.
LEMMA InscricaoStep ==
  ASSUME AtendidoInv, [Next]_vars
  PROVE  /\ \A v \in Espectador :
              noAr' /\ insistindo'[v] > 0 /\ transporte'[v] # "fora" => v \in inscritos'
         /\ \A v \in iniciou' : transporte'[v] = "conectado" /\ (noAr' => v \in inscritos')
<1> DEFINE Meta == /\ \A v \in Espectador :
                        noAr' /\ insistindo'[v] > 0 /\ transporte'[v] # "fora" => v \in inscritos'
                   /\ \A v \in iniciou' : transporte'[v] = "conectado" /\ (noAr' => v \in inscritos')
<1> USE DEF AtendidoInv, TypeOK, faixa, plateia, pedidos, serie, historia
<1>1. publicacao \notin Espectador /\ Espectador \subseteq Chamador
  BY QuadroChaveAssumption DEF Chamador
<1>2. CASE AssinarComChave
  BY <1>1, <1>2 DEF AssinarComChave
<1>3. CASE PublicadorSai \/ SairDoAr \/ Tique
  BY <1>3 DEF PublicadorSai, SairDoAr, Tique
<1>4. ASSUME NEW u \in Espectador, Entrar(u) \/ Conectar(u) \/ Cair(u) \/ Sair(u) PROVE Meta
  BY <1>1, <1>4, SMTT(30) DEF Entrar, Conectar, Cair, Sair
<1>5. ASSUME NEW u \in Espectador, PedirChaveDeTudo(u) PROVE Meta
  BY <1>1, <1>5 DEF PedirChaveDeTudo
<1>6. ASSUME NEW u \in Espectador, PerderQuadro(u) PROVE Meta
  BY <1>6 DEF PerderQuadro
<1>7. ASSUME NEW q \in Chamador, InsistirNaChave(q) PROVE Meta
  BY <1>1, <1>7 DEF InsistirNaChave, ComecarSerie
<1>8. ASSUME NEW q \in Chamador, Acordar(q) \/ Soltar(q) PROVE Meta
  BY <1>8 DEF Acordar, Soltar
<1>9. ASSUME NEW g \in Goroutine, PedirChave(g) \/ EscreverPLI(g) PROVE Meta
  BY <1>9 DEF PedirChave, EscreverPLI
<1>10. CASE UNCHANGED vars
  BY <1>10 DEF vars
<1> QED
  BY <1>2, <1>3, <1>4, <1>5, <1>6, <1>7, <1>8, <1>9, <1>10 DEF Next, PassoPedido

\* The part about the requests, for one spectator.
LEMMA PrazoStep ==
  ASSUME AtendidoInv, [Next]_vars, noAr', publicador', NEW v \in iniciou'
  PROVE  v \in servidos' \/ Escrevendo' \/ Prazo(v)'
<1> DEFINE Meta == v \in servidos' \/ Escrevendo' \/ Prazo(v)'
           minha == Serie(v)
<1>1. TypeOK /\ UmaSerie
  BY DEF AtendidoInv
<1>2. v \in Espectador /\ v \in Chamador /\ minha \in Goroutine
      /\ publicacao \notin Espectador
      /\ \A q \in Chamador : Serie(q) \in Goroutine /\ (Serie(q) = minha <=> q = v)
  <2>1. iniciou' \subseteq Espectador
    BY TipoStep, <1>1 DEF TypeOK
  <2> QED BY <2>1, QuadroChaveAssumption DEF Chamador, Goroutine, Serie
<1>3. noAr /\ publicador
  BY DEF Next, PassoPedido, AssinarComChave, PublicadorSai, SairDoAr, Tique, Entrar, Conectar,
         Cair, Sair, PedirChaveDeTudo, PerderQuadro, InsistirNaChave, Acordar, Soltar,
         PedirChave, EscreverPLI, faixa, vars
<1>4. v \in iniciou => v \in servidos \/ Escrevendo \/ Prazo(v)
  BY <1>3 DEF AtendidoInv
<1>5. ASSUME v \in iniciou, v \in servidos => v \in servidos',
             UNCHANGED <<passo, vez, espera, idade>>
      PROVE  Meta
  BY <1>4, <1>5 DEF Escrevendo, Prazo
<1>6. CASE AssinarComChave \/ PublicadorSai \/ SairDoAr
  BY <1>5, <1>6 DEF AssinarComChave, PublicadorSai, SairDoAr, serie, historia
<1>7. CASE Tique
  <2>1. /\ idade \in 0..Intervalo /\ espera[v] \in Nat /\ Intervalo \in Nat
        /\ idade' = IF idade < Intervalo THEN idade + 1 ELSE idade
        /\ espera'[v] = IF espera[v] > 0 THEN espera[v] - 1 ELSE 0
        /\ UNCHANGED <<passo, vez, historia>>
    BY <1>1, <1>2, <1>7, QuadroChaveAssumption DEF Tique, TypeOK
  <2>2. idade + espera[v] >= Intervalo => idade' + espera'[v] >= Intervalo
    BY <2>1
  <2>3. Prazo(v) => Prazo(v)'
    BY <2>1, <2>2 DEF Prazo
  <2> QED BY <1>4, <2>1, <2>3 DEF Escrevendo, historia
<1>8. ASSUME NEW u \in Espectador,
             Entrar(u) \/ Conectar(u) \/ PedirChaveDeTudo(u)
      PROVE  Meta
  BY <1>5, <1>8 DEF Entrar, Conectar, PedirChaveDeTudo, serie, historia
<1>9. ASSUME NEW u \in Espectador, Cair(u) \/ Sair(u) PROVE Meta
  BY <1>5, <1>9 DEF Cair, Sair, serie
<1>10. ASSUME NEW u \in Espectador, PerderQuadro(u) PROVE Meta
  <2>1. /\ Leitor(u) \in Goroutine /\ Leitor(u) # minha /\ passo[Leitor(u)] = "parada"
        /\ Ir(Leitor(u), "pedir") /\ UNCHANGED <<idade, vez, espera, servidos, iniciou>>
    BY <1>10 DEF PerderQuadro, Goroutine, Leitor, Serie, serie, historia
  <2>2. Prazo(v) => Prazo(v)'
    BY <1>1, <1>2, <2>1 DEF Prazo, Ir, TypeOK
  <2>3. Escrevendo => Escrevendo'
    BY <1>1, <2>1, EscrevendoFica DEF Etapa
  <2> QED BY <1>4, <2>1, <2>2, <2>3
<1>11. ASSUME NEW q \in Chamador, InsistirNaChave(q) PROVE Meta
  <2>1. CASE repetindo
    BY <1>5, <1>11, <2>1 DEF InsistirNaChave, serie
  <2>2. CASE ~repetindo
    <3>1. /\ Ir(Serie(q), "dormir") /\ vez' = [vez EXCEPT ![q] = 1]
          /\ iniciou' \subseteq iniciou \cup {q} /\ UNCHANGED <<idade, servidos>>
      BY <1>11, <2>2 DEF InsistirNaChave, ComecarSerie
    <3>2. \A r \in Chamador : passo[Serie(r)] = "parada"
      BY <1>1, <2>2 DEF UmaSerie, EmSerie
    <3>3. CASE q = v
      <4>1. vez'[v] = 1 /\ passo'[minha] = "dormir"
        BY <1>1, <1>2, <3>1, <3>3 DEF Ir, TypeOK
      <4> QED BY <4>1 DEF Prazo
    <3>4. CASE q # v
      <4>1. v \in iniciou /\ ~Prazo(v)
        BY <1>2, <3>1, <3>2, <3>4 DEF Prazo
      <4>2. Escrevendo => Escrevendo'
        BY <1>1, <1>2, <3>1, <3>2, EscrevendoFica DEF Etapa
      <4> QED BY <1>4, <3>1, <4>1, <4>2
    <3> QED BY <3>3, <3>4
  <2> QED BY <2>1, <2>2
<1>12. ASSUME NEW q \in Chamador, Acordar(q) PROVE Meta
  <2>1. /\ passo[Serie(q)] = "dormir" /\ espera[q] = 0 /\ Ir(Serie(q), "pedir")
        /\ UNCHANGED <<idade, vez, espera, servidos, iniciou>>
    BY <1>3, <1>12 DEF Acordar, serie, historia
  <2>2. Escrevendo => Escrevendo'
    BY <1>1, <1>2, <2>1, EscrevendoFica DEF Etapa
  <2>3. CASE q = v
    <3>1. passo'[minha] = "pedir" /\ idade \in 0..Intervalo /\ Intervalo \in Nat
      BY <1>1, <1>2, <2>1, <2>3, QuadroChaveAssumption DEF Ir, TypeOK
    <3>2. Prazo(v) => Prazo(v)'
      BY <2>1, <2>3, <3>1 DEF Prazo
    <3> QED BY <1>4, <2>1, <2>2, <3>2
  <2>4. CASE q # v
    <3>1. passo'[minha] = passo[minha]
      BY <1>1, <1>2, <2>1, <2>4 DEF Ir, TypeOK
    <3>2. Prazo(v) => Prazo(v)'
      BY <2>1, <3>1 DEF Prazo
    <3> QED BY <1>4, <2>1, <2>2, <3>2
  <2> QED BY <2>3, <2>4
<1>13. ASSUME NEW q \in Chamador, Soltar(q) PROVE Meta
  <2>1. /\ passo[Serie(q)] = "soltar" /\ Ir(Serie(q), "parada")
        /\ vez' = [vez EXCEPT ![q] = 1]
        /\ UNCHANGED <<idade, espera, servidos, iniciou>>
    BY <1>13 DEF Soltar, historia
  <2>2. Escrevendo => Escrevendo'
    BY <1>1, <1>2, <2>1, EscrevendoFica DEF Etapa
  <2>3. Prazo(v) => q # v
    BY <2>1 DEF Prazo
  <2>4. q # v => passo'[minha] = passo[minha] /\ vez'[v] = vez[v]
    BY <1>1, <1>2, <2>1 DEF Ir, TypeOK
  <2>5. Prazo(v) => Prazo(v)'
    BY <2>1, <2>3, <2>4 DEF Prazo
  <2> QED BY <1>4, <2>1, <2>2, <2>5
<1>14. ASSUME NEW g \in Goroutine, PedirChave(g) PROVE Meta
  <2>1. CASE idade = Intervalo
    <3>1. Ir(g, "escrever")
      BY <1>3, <1>14, <2>1 DEF PedirChave
    <3>2. passo'[g] = "escrever"
      BY <1>1, <3>1 DEF Ir, TypeOK
    <3> QED BY <3>2 DEF Escrevendo
  <2>2. CASE idade # Intervalo
    <3>1. Seguir(g) /\ passo[g] = "pedir" /\ UNCHANGED <<idade, servidos, iniciou>>
      BY <1>14, <2>2 DEF PedirChave, historia
    <3>2. \E onde \in Etapa : Ir(g, onde)
      BY <3>1 DEF Seguir, Etapa
    <3>3. Escrevendo => Escrevendo'
      BY <1>1, <3>1, <3>2, EscrevendoFica
    <3>4. CASE g = minha
      <4>1. g[1] # "rtcp" /\ g[2] = v
        BY <3>4 DEF Serie
      <4>2. Prazo(v) => vez[v] = 1
        BY <2>2, <3>1, <3>4 DEF Prazo
      <4>3. ASSUME vez[v] = 1 PROVE Prazo(v)'
        <5>1. Len(Esperas) # 1 /\ Esperas[2] \in Nat /\ Esperas[2] >= Intervalo
          BY QuadroChaveAssumption
        <5>2. /\ Ir(g, "dormir") /\ vez' = [vez EXCEPT ![v] = @ + 1]
              /\ espera' = [espera EXCEPT ![v] = Esperas[vez[v] + 1]]
          BY <3>1, <4>1, <4>3, <5>1 DEF Seguir
        <5>3. passo'[minha] = "dormir" /\ vez'[v] = 2 /\ espera'[v] = Esperas[2]
          BY <1>1, <1>2, <3>4, <4>3, <5>2 DEF Ir, TypeOK
        <5>4. idade' + espera'[v] >= Intervalo
          BY <1>1, <3>1, <5>1, <5>3, QuadroChaveAssumption DEF TypeOK
        <5> QED BY <5>3, <5>4 DEF Prazo
      <4> QED BY <1>4, <3>1, <3>3, <4>2, <4>3
    <3>5. CASE g # minha
      <4>1. passo'[minha] = passo[minha]
        BY <1>1, <1>2, <3>2, <3>5 DEF Ir, TypeOK
      <4>2. vez'[v] = vez[v] /\ espera'[v] = espera[v]
        <5>1. CASE g[1] = "rtcp"
          BY <3>1, <5>1 DEF Seguir, serie
        <5>2. CASE g[1] # "rtcp"
          <6>1. PICK q \in Chamador : g = Serie(q) /\ g[2] = q
            BY <5>2, GoroutineDe
          <6>2. g[2] # v
            BY <1>2, <3>5, <6>1
          <6> QED BY <1>1, <1>2, <3>1, <5>2, <6>2 DEF Seguir, serie, TypeOK
        <5> QED BY <5>1, <5>2
      <4>3. Prazo(v) => Prazo(v)'
        BY <3>1, <4>1, <4>2 DEF Prazo
      <4> QED BY <1>4, <3>1, <3>3, <4>3
    <3> QED BY <3>4, <3>5
  <2> QED BY <2>1, <2>2
<1>15. ASSUME NEW g \in Goroutine, EscreverPLI(g) PROVE Meta
  <2>1. v \in iniciou /\ transporte[v] = "conectado" /\ v \in inscritos
    BY <1>3, <1>15 DEF EscreverPLI, AtendidoInv
  <2> QED BY <1>15, <2>1 DEF EscreverPLI
<1>16. CASE UNCHANGED vars
  BY <1>5, <1>16 DEF vars, serie, historia
<1> QED
  BY <1>6, <1>7, <1>8, <1>9, <1>10, <1>11, <1>12, <1>13, <1>14, <1>15, <1>16
  DEF Next, PassoPedido

LEMMA AtendidoSempre == Spec => []AtendidoInv
<1>1. Init => AtendidoInv
  <2>1. Init => TypeOK /\ UmaSerie
    BY TipoInit DEF Init, UmaSerie, EmSerie, Goroutine
  <2> QED BY <2>1 DEF Init, AtendidoInv, Chamador
<1>2. AtendidoInv /\ [Next]_vars => AtendidoInv'
  <2> SUFFICES ASSUME AtendidoInv, [Next]_vars PROVE AtendidoInv'
    OBVIOUS
  <2>1. TypeOK' /\ UmaSerie'
    BY TipoStep, UmaSerieStep DEF AtendidoInv
  <2> QED BY <2>1, InscricaoStep, PrazoStep DEF AtendidoInv
<1> QED BY <1>1, <1>2, PTL DEF Spec

\* A spectator whose callback started a series is served at the latest at the second
\* request, however many others ask meanwhile, for any interval and any waits of which
\* the second is not shorter than it.
THEOREM QuemIniciaEAtendido == Spec => []IniciadorAtendido
<1>1. AtendidoInv => IniciadorAtendido
  <2> SUFFICES ASSUME AtendidoInv, noAr, publicador, NEW v \in iniciou,
                      v \notin servidos, ~Escrevendo
               PROVE  v \in EmSerie /\ passo[Serie(v)] # "soltar" /\ vez[v] <= 2
    BY DEF IniciadorAtendido, Escrevendo
  <2>1. Prazo(v) /\ v \in Chamador
    BY DEF AtendidoInv, TypeOK, Chamador
  <2> QED BY <2>1 DEF Prazo, EmSerie
<1> QED BY <1>1, AtendidoSempre, PTL
=============================================================================
