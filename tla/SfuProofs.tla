----------------------------- MODULE SfuProofs -----------------------------
(***************************************************************************)
(* Proofs about Sfu, for any number of participants, publishers and        *)
(* returns.                                                                *)
(***************************************************************************)
EXTENDS Sfu, TLAPS

USE DEF Dono, mesa, leitura, ligacao, midia, trabalho, Vezes, LeitorCoerente

\* What a session is, in the form the proofs need it.
LEMMA SobreSessao ==
  /\ Sessao \subseteq Peer \X (1..MaxSessoes)
  /\ Faixa \subseteq Sessao
  /\ \A x \in Sessao : Dono(x) \in Peer /\ x[2] \in 1..MaxSessoes /\ x = <<Dono(x), x[2]>>
  /\ \A p \in Peer : Visitas(p) \in 1..MaxSessoes
  /\ \A p \in Peer, n \in Nat \ {0} : n <= Visitas(p) => <<p, n>> \in Sessao
  BY SfuAssumption DEF Sessao, Faixa, Visitas

RegistroInv == TypeOK /\ RegistroCoerente /\ SemConexaoOrfa

LEMMA RegistroInit == Init => RegistroInv
<1> SUFFICES ASSUME Init PROVE RegistroInv
  OBVIOUS
<1>1. TypeOK
  BY SfuAssumption, SobreSessao DEF Init, TypeOK
<1>2. RegistroCoerente
  BY SfuAssumption, SobreSessao DEF Init, RegistroCoerente
<1>3. SemConexaoOrfa
  BY SfuAssumption, SobreSessao DEF Init, SemConexaoOrfa
<1> QED BY <1>1, <1>2, <1>3 DEF RegistroInv
-----------------------------------------------------------------------------
EmCursoTipado ==
  /\ emCurso \in [Peer \cup Faixa -> SUBSET Sessao]
  /\ \A p \in Peer : emCurso[p] \subseteq Faixa

LEMMA AnotarTipo ==
  ASSUME TypeOK, NEW t \in Peer \cup Faixa, NEW x \in Sessao, NEW f \in Faixa,
         NEW aoTratar \in Sessao, t \in Faixa \/ aoTratar \in Faixa,
         AnotarSaida(t, x, f, aoTratar)
  PROVE  saidas' \in [Sessao -> SUBSET (Peer \cup Faixa)] /\ EmCursoTipado'
  <1>1. Id(f) \in Peer \cup Faixa
    BY SobreSessao DEF Id
  <1>2. saidas' \in [Sessao -> SUBSET (Peer \cup Faixa)]
    BY <1>1, SMTT(30) DEF TypeOK, AnotarSaida
  <1>3. EmCursoTipado
    BY DEF TypeOK, EmCursoTipado
  <1>4. ASSUME PodeAssinar(x, f) PROVE EmCursoTipado'
    <2>1. emCurso' = [emCurso EXCEPT ![t] = {aoTratar}]
      BY <1>4 DEF AnotarSaida
    <2>2. t \in Peer => aoTratar \in Faixa
      BY GoroutinesAssumption
    <2>3. emCurso' \in [Peer \cup Faixa -> SUBSET Sessao]
      BY <1>3, <2>1 DEF EmCursoTipado
    <2>4. ASSUME NEW p \in Peer PROVE emCurso'[p] \subseteq Faixa
      <3>1. CASE p = t
        BY <1>3, <2>1, <2>2, <3>1 DEF EmCursoTipado
      <3>2. CASE p # t
        BY <1>3, <2>1, <3>2 DEF EmCursoTipado
      <3> QED BY <3>1, <3>2
    <2> QED BY <2>3, <2>4 DEF EmCursoTipado
  <1>5. ASSUME ~PodeAssinar(x, f) PROVE EmCursoTipado'
    <2>1. emCurso' = emCurso
      BY <1>5 DEF AnotarSaida
    <2> QED BY <1>3, <2>1 DEF EmCursoTipado
  <1> QED BY <1>2, <1>4, <1>5

LEMMA LigarTipo ==
  ASSUME TypeOK, NEW t \in Peer \cup Faixa, NEW x \in Sessao, NEW f \in Faixa,
         LigarTransceptor(t, x, f)
  PROVE  /\ saidas' \in [Sessao -> SUBSET (Peer \cup Faixa)]
         /\ remetentes' \in [Sessao -> SUBSET Faixa]
         /\ EmCursoTipado'
  BY DEF TypeOK, LigarTransceptor, EmCursoTipado

\* The reader that is in Entrar or Sair has a session.
LEMMA TemSessao ==
  ASSUME TypeOK, RegistroCoerente, NEW p \in Peer, fase[p] # "fora"
  PROVE  SessaoDe(p) \in Sessao
  <1>1. atual[p] \in Nat \ {0} /\ atual[p] <= Visitas(p)
    BY DEF TypeOK, RegistroCoerente
  <1> QED BY <1>1, SobreSessao DEF SessaoDe

LEMMA RetirarTipo ==
  ASSUME TypeOK, RegistroCoerente, NEW p \in Peer, Retirar(p)
  PROVE  /\ registro' \in [Peer -> 0..MaxSessoes]
         /\ estado' \in [Sessao -> {"nenhuma", "viva", "retirada", "marcada", "encerrada"}]
         /\ faixas' \in SUBSET Faixa
  <1>1. registro' = [registro EXCEPT ![p] = 0] /\ registro' \in [Peer -> 0..MaxSessoes]
    BY SfuAssumption DEF TypeOK, Retirar
  <1>2. CASE registro[p] = 0
    BY <1>1, <1>2 DEF TypeOK, Retirar
  <1>3. CASE registro[p] # 0
    <2>1. estado' = [estado EXCEPT ![<<p, registro[p]>>] = "retirada"]
      BY <1>3 DEF Retirar
    <2>2. estado' \in [Sessao -> {"nenhuma", "viva", "retirada", "marcada", "encerrada"}]
      BY <2>1 DEF TypeOK
    <2>3. faixas' \in SUBSET Faixa
      BY DEF TypeOK, Retirar
    <2> QED BY <1>1, <2>2, <2>3
  <1> QED BY <1>2, <1>3

LEMMA PassoTipo == TypeOK /\ RegistroCoerente /\ [Next]_vars => TypeOK'
<1> SUFFICES ASSUME TypeOK, RegistroCoerente, [Next]_vars PROVE TypeOK'
  OBVIOUS
<1>1. ASSUME NEW p \in Peer, Entrar(p) PROVE TypeOK'
  <2>1. atual[p] \in Nat /\ atual[p] < Visitas(p) /\ Visitas(p) \in 1..MaxSessoes
    BY <1>1, SobreSessao DEF Entrar, TypeOK
  <2>2. atual[p] + 1 \in 0..MaxSessoes
    BY <2>1, SfuAssumption
  <2> QED BY <1>1, <2>2 DEF Entrar, DeOutros, TypeOK
<1>2. ASSUME NEW p \in Peer, Sair(p) PROVE TypeOK'
  BY <1>2, RetirarTipo DEF Sair, TypeOK
<1>3. ASSUME NEW p \in Peer, AssinarExistente(p) PROVE TypeOK'
  <2>1. PICK f \in porAssinar[p] : AnotarSaida(p, SessaoDe(p), f, f)
    BY <1>3 DEF AssinarExistente
  <2>2. f \in Faixa /\ f \in Sessao /\ SessaoDe(p) \in Sessao
    BY <1>3, <2>1, TemSessao, SobreSessao DEF AssinarExistente, TypeOK
  <2>3. saidas' \in [Sessao -> SUBSET (Peer \cup Faixa)] /\ EmCursoTipado'
    BY <2>1, <2>2, AnotarTipo
  <2>4. porAssinar' \in [Peer -> SUBSET Faixa] /\ fase' \in [Peer -> {"fora", "assinando", "ligando", "dentro", "saindo"}]
    BY <1>3 DEF AssinarExistente, TypeOK
  <2> QED BY <1>3, <2>3, <2>4 DEF AssinarExistente, TypeOK, EmCursoTipado
<1>4. ASSUME NEW p \in Peer, LigarExistente(p) PROVE TypeOK'
  <2>1. PICK f \in emCurso[p] : LigarTransceptor(p, SessaoDe(p), f)
    BY <1>4 DEF LigarExistente
  <2>2. SessaoDe(p) \in Sessao
    BY <1>4, TemSessao DEF LigarExistente
  <2>3. f \in Faixa
    BY <2>1 DEF TypeOK
  <2>4. /\ saidas' \in [Sessao -> SUBSET (Peer \cup Faixa)]
        /\ remetentes' \in [Sessao -> SUBSET Faixa]
        /\ EmCursoTipado'
    BY <2>1, <2>2, <2>3, LigarTipo
  <2> QED BY <1>4, <2>4 DEF LigarExistente, TypeOK, EmCursoTipado
<1>5. ASSUME NEW p \in Peer, TerminarEntrada(p) PROVE TypeOK'
  BY <1>5 DEF TerminarEntrada, TypeOK
<1>6. ASSUME NEW p \in Peer, TerminarSaida(p) PROVE TypeOK'
  BY <1>6 DEF TerminarSaida, TypeOK
<1>7. ASSUME NEW x \in Sessao, MarcarFechada(x) PROVE TypeOK'
  BY <1>7 DEF MarcarFechada, TypeOK
<1>8. ASSUME NEW x \in Sessao, FecharConexao(x) PROVE TypeOK'
  <2>1. avisos[x] \in 0..2 /\ avisos[x] <= 1
    BY <1>8 DEF FecharConexao, TypeOK, RegistroCoerente
  <2>2. avisos[x] + 1 \in 0..2
    BY <2>1
  <2> QED BY <1>8, <2>2 DEF FecharConexao, TypeOK
<1>9. ASSUME NEW x \in Sessao, AoMudarEstado(x) PROVE TypeOK'
  BY <1>9, RetirarTipo, SobreSessao DEF AoMudarEstado, TypeOK
<1>10. ASSUME NEW x \in Sessao, Falhar(x) PROVE TypeOK'
  <2>1. avisos[x] \in 0..2 /\ avisos[x] <= 1
    BY <1>10 DEF Falhar, TypeOK, RegistroCoerente
  <2>2. avisos[x] + 1 \in 0..2
    BY <2>1
  <2> QED BY <1>10, <2>2 DEF Falhar, TypeOK
<1>11. ASSUME NEW f \in Faixa, FaixaChega(f) PROVE TypeOK'
  BY <1>11 DEF FaixaChega, TypeOK
<1>12. ASSUME NEW f \in Faixa, Publicar(f) PROVE TypeOK'
  BY <1>12 DEF Publicar, Registradas, TypeOK
<1>13. ASSUME NEW f \in Faixa, AssinarDestino(f) PROVE TypeOK'
  <2>1. PICK x \in destinos[f] : AnotarSaida(f, x, f, x)
    BY <1>13 DEF AssinarDestino
  <2>2. x \in Sessao
    BY <2>1 DEF TypeOK
  <2>3. saidas' \in [Sessao -> SUBSET (Peer \cup Faixa)] /\ EmCursoTipado'
    BY <2>1, <2>2, AnotarTipo
  <2>4. destinos' \in [Faixa -> SUBSET Sessao]
    BY <1>13 DEF AssinarDestino, TypeOK
  <2> QED BY <1>13, <2>3, <2>4 DEF AssinarDestino, TypeOK, EmCursoTipado
<1>14. ASSUME NEW f \in Faixa, LigarDestino(f) PROVE TypeOK'
  <2>1. PICK x \in emCurso[f] : LigarTransceptor(f, x, f)
    BY <1>14 DEF LigarDestino
  <2>2. x \in Sessao
    BY <2>1 DEF TypeOK
  <2>3. /\ saidas' \in [Sessao -> SUBSET (Peer \cup Faixa)]
        /\ remetentes' \in [Sessao -> SUBSET Faixa]
        /\ EmCursoTipado'
    BY <2>1, <2>2, LigarTipo
  <2> QED BY <1>14, <2>3 DEF LigarDestino, TypeOK, EmCursoTipado
<1>15. ASSUME NEW f \in Faixa, Bombear(f) PROVE TypeOK'
  BY <1>15 DEF Bombear, TypeOK
<1>16. ASSUME NEW f \in Faixa, RemoverFaixa(f) PROVE TypeOK'
  BY <1>16 DEF RemoverFaixa, Registradas, TypeOK
<1>17. ASSUME NEW f \in Faixa, EsquecerSaida(f) PROVE TypeOK'
  BY <1>17, GoroutinesAssumption DEF EsquecerSaida, TypeOK
<1>18. ASSUME NEW f \in Faixa, SoltarRemetente(f) PROVE TypeOK'
  BY <1>18 DEF SoltarRemetente, TypeOK
<1>19. ASSUME NEW f \in Faixa, TerminarFaixa(f) PROVE TypeOK'
  BY <1>19 DEF TerminarFaixa, TypeOK
<1>20. CASE UNCHANGED vars
  BY <1>20 DEF vars, TypeOK
<1> QED
  BY <1>1, <1>2, <1>3, <1>4, <1>5, <1>6, <1>7, <1>8, <1>9, <1>10, <1>11, <1>12, <1>13, <1>14,
     <1>15, <1>16, <1>17, <1>18, <1>19, <1>20 DEF Next, PassoPeer, PassoSessao, PassoFaixa

-----------------------------------------------------------------------------
\* A call of Sair by the name of p, whoever makes it.
LEMMA RetirarOrfa ==
  ASSUME RegistroInv, NEW p \in Peer, Retirar(p)
  PROVE  /\ registro' = [registro EXCEPT ![p] = 0]
         /\ \A x \in Sessao : estado'[x] = IF Dono(x) = p /\ registro[p] = x[2] THEN "retirada"
                                          ELSE estado[x]
         /\ SemConexaoOrfa'
  <1>1. registro' = [registro EXCEPT ![p] = 0] /\ registro' \in [Peer -> 0..MaxSessoes]
    BY RetirarTipo DEF Retirar, RegistroInv
  <1>2. ASSUME NEW x \in Sessao
        PROVE  estado'[x] = IF Dono(x) = p /\ registro[p] = x[2] THEN "retirada" ELSE estado[x]
    <2>1. Dono(x) \in Peer /\ x[2] \in 1..MaxSessoes /\ x = <<Dono(x), x[2]>>
      BY SobreSessao
    <2>2. CASE registro[p] = 0
      BY <2>1, <2>2 DEF Retirar, RegistroInv, TypeOK
    <2>3. CASE registro[p] # 0
      <3>1. estado' = [estado EXCEPT ![<<p, registro[p]>>] = "retirada"]
        BY <2>3 DEF Retirar
      <3>2. x = <<p, registro[p]>> <=> Dono(x) = p /\ registro[p] = x[2]
        BY <2>1
      <3> QED BY <3>1, <3>2 DEF RegistroInv, TypeOK
    <2> QED BY <2>2, <2>3
  <1>3. ASSUME NEW x \in Sessao PROVE (estado[x] = "viva" <=> registro[Dono(x)] = x[2])'
    <2>1. Dono(x) \in Peer /\ x[2] \in 1..MaxSessoes
      BY SobreSessao
    <2>2. estado[x] = "viva" <=> registro[Dono(x)] = x[2]
      BY DEF RegistroInv, SemConexaoOrfa
    <2> QED BY <1>1, <1>2, <2>1, <2>2 DEF RegistroInv, TypeOK
  <1> QED BY <1>1, <1>2, <1>3 DEF SemConexaoOrfa

LEMMA RetirarSessao ==
  ASSUME RegistroInv, NEW p \in Peer, Retirar(p), UNCHANGED <<atual, falhou>>,
         \A y \in Sessao : avisos'[y] \in Nat /\ avisos'[y] <= avisos[y],
         \A q \in Peer : LeitorCoerente(q)'
  PROVE  RegistroCoerente'
  <1>1. ASSUME NEW y \in Sessao PROVE (y[2] > atual[Dono(y)] => estado[y] = "nenhuma")'
    <2>1. Dono(y) \in Peer /\ y[2] \in 1..MaxSessoes
      BY SobreSessao
    <2>2. registro[Dono(y)] \in {0, atual[Dono(y)]} /\ atual[Dono(y)] \in Nat
      BY <2>1 DEF RegistroInv, RegistroCoerente, TypeOK
    <2> QED BY <2>1, <2>2, RetirarOrfa DEF RegistroInv, RegistroCoerente
  <1>2. ASSUME NEW y \in Sessao
        PROVE (avisos[y] <= Vezes(y \in falhou) + Vezes(estado[y] = "encerrada"))'
    <2>1. Dono(y) \in Peer
      BY SobreSessao
    <2>3. avisos[y] \in Nat
      BY DEF RegistroInv, TypeOK
    <2>2. estado[y] = "encerrada" => estado'[y] = "encerrada"
      BY <2>1, RetirarOrfa DEF RegistroInv, SemConexaoOrfa
    <2> QED BY <2>1, <2>2, <2>3 DEF RegistroInv, RegistroCoerente
  <1> QED BY <1>1, <1>2 DEF RegistroCoerente

LEMMA PassoRegistro == RegistroInv /\ [Next]_vars => (RegistroCoerente /\ SemConexaoOrfa)'
<1> SUFFICES ASSUME RegistroInv, [Next]_vars PROVE (RegistroCoerente /\ SemConexaoOrfa)'
  OBVIOUS
<1> DEFINE Meta == (RegistroCoerente /\ SemConexaoOrfa)'
<1> USE DEF RegistroInv
<1>1. ASSUME NEW p \in Peer, Entrar(p) PROVE Meta
  <2> DEFINE n == atual[p] + 1
             nova == <<p, n>>
  <2>1. atual[p] \in Nat /\ n \in Nat \ {0} /\ n <= Visitas(p) /\ registro[p] = 0 /\ Visitas(p) \in Nat
    BY <1>1, SobreSessao DEF Entrar, TypeOK, RegistroCoerente
  <2>2. nova \in Sessao
    BY <2>1, SobreSessao
  <2>3. /\ registro' = [registro EXCEPT ![p] = n]
        /\ atual' = [atual EXCEPT ![p] = n]
        /\ fase' = [fase EXCEPT ![p] = "assinando"]
        /\ estado' = [estado EXCEPT ![nova] = "viva"]
        /\ UNCHANGED <<falhou, avisos>>
    BY <1>1 DEF Entrar
  <2>4. \A q \in Peer : LeitorCoerente(q)'
    BY <2>1, <2>3 DEF TypeOK, RegistroCoerente
  <2>5. \A y \in Sessao : Dono(y) \in Peer /\ y[2] \in 1..MaxSessoes
                         /\ (y = nova <=> Dono(y) = p /\ y[2] = n)
    BY SobreSessao
  <2>6. ASSUME NEW y \in Sessao PROVE (y[2] > atual[Dono(y)] => estado[y] = "nenhuma")'
    BY <2>1, <2>2, <2>3, <2>5 DEF TypeOK, RegistroCoerente
  <2>7. estado[nova] = "nenhuma"
    BY <2>1, <2>2 DEF RegistroCoerente
  <2>8. ASSUME NEW y \in Sessao
        PROVE (avisos[y] <= Vezes(y \in falhou) + Vezes(estado[y] = "encerrada"))'
    BY <2>2, <2>3, <2>7 DEF TypeOK, RegistroCoerente
  <2>9. ASSUME NEW y \in Sessao PROVE (estado[y] = "viva" <=> registro[Dono(y)] = y[2])'
    <3>1. CASE Dono(y) = p
      <4>1. estado[y] # "viva"
        BY <2>1, <2>5, <3>1 DEF SemConexaoOrfa
      <4> QED BY <2>1, <2>2, <2>3, <2>5, <3>1, <4>1 DEF TypeOK
    <3>2. CASE Dono(y) # p
      BY <2>2, <2>3, <2>5, <3>2 DEF TypeOK, SemConexaoOrfa
    <3> QED BY <3>1, <3>2
  <2> QED BY <2>4, <2>6, <2>8, <2>9 DEF RegistroCoerente, SemConexaoOrfa
<1>2. ASSUME NEW p \in Peer, Sair(p) PROVE Meta
  <2>1. Retirar(p) /\ fase[p] = "dentro" /\ UNCHANGED <<atual, falhou, avisos>>
    BY <1>2 DEF Sair, TypeOK
  <2>2. \A q \in Peer : LeitorCoerente(q)'
    BY <1>2, <2>1, RetirarOrfa DEF Sair, RegistroCoerente, TypeOK
  <2>3. \A y \in Sessao : avisos'[y] \in Nat /\ avisos'[y] <= avisos[y]
    BY <2>1 DEF TypeOK
  <2> QED BY <2>1, <2>2, <2>3, RetirarOrfa, RetirarSessao
<1>3. ASSUME NEW x \in Sessao, AoMudarEstado(x) PROVE Meta
  <2>1. Dono(x) \in Peer /\ Retirar(Dono(x)) /\ UNCHANGED <<atual, fase, falhou>>
    BY <1>3, SobreSessao DEF AoMudarEstado
  <2>2. \A y \in Sessao : avisos'[y] <= avisos[y]
    BY <1>3 DEF AoMudarEstado, TypeOK
  <2>3. \A q \in Peer : LeitorCoerente(q)'
    BY <2>1, RetirarOrfa DEF RegistroCoerente, TypeOK
  <2>4. \A y \in Sessao : avisos'[y] \in Nat
    BY <1>3 DEF AoMudarEstado, TypeOK
  <2> QED BY <2>1, <2>2, <2>3, <2>4, RetirarOrfa, RetirarSessao
<1>4. ASSUME NEW p \in Peer, AssinarExistente(p) \/ LigarExistente(p) \/ TerminarEntrada(p) \/ TerminarSaida(p)
      PROVE Meta
  <2>1. UNCHANGED <<registro, atual, estado, falhou, avisos>>
    BY <1>4 DEF AssinarExistente, LigarExistente, TerminarEntrada, TerminarSaida
  <2>2. ASSUME NEW q \in Peer
        PROVE  /\ fase'[q] \in {"fora", "saindo"} => fase[q] \in {"fora", "saindo"}
               /\ fase'[q] # "fora" => fase[q] # "fora"
    BY <1>4 DEF AssinarExistente, LigarExistente, TerminarEntrada, TerminarSaida, TypeOK
  <2>3. \A q \in Peer : LeitorCoerente(q)'
    BY <2>1, <2>2 DEF RegistroCoerente
  <2>4. RegistroCoerente'
    BY <2>1, <2>3 DEF RegistroCoerente
  <2>5. SemConexaoOrfa'
    BY <2>1 DEF SemConexaoOrfa
  <2> QED BY <2>4, <2>5
<1>5. ASSUME NEW x \in Sessao, MarcarFechada(x) PROVE Meta
  BY <1>5 DEF MarcarFechada, RegistroCoerente, SemConexaoOrfa, TypeOK
<1>6. ASSUME NEW x \in Sessao, FecharConexao(x) PROVE Meta
  BY <1>6 DEF FecharConexao, RegistroCoerente, SemConexaoOrfa, TypeOK
<1>7. ASSUME NEW x \in Sessao, Falhar(x) PROVE Meta
  BY <1>7 DEF Falhar, RegistroCoerente, SemConexaoOrfa, TypeOK
<1>8. ASSUME UNCHANGED <<registro, atual, fase, estado, falhou, avisos>> PROVE Meta
  BY <1>8 DEF RegistroCoerente, SemConexaoOrfa
<1>9. ASSUME NEW f \in Faixa,
             FaixaChega(f) \/ Publicar(f) \/ AssinarDestino(f) \/ LigarDestino(f) \/ Bombear(f)
             \/ RemoverFaixa(f) \/ EsquecerSaida(f) \/ SoltarRemetente(f) \/ TerminarFaixa(f)
      PROVE Meta
  BY <1>8, <1>9 DEF FaixaChega, Publicar, AssinarDestino, LigarDestino, Bombear, RemoverFaixa,
                    EsquecerSaida, SoltarRemetente, TerminarFaixa
<1>10. CASE UNCHANGED vars
  BY <1>8, <1>10 DEF vars
<1> QED
  BY <1>1, <1>2, <1>3, <1>4, <1>5, <1>6, <1>7, <1>9, <1>10
  DEF Next, PassoPeer, PassoSessao, PassoFaixa

LEMMA RegistroSempre == Spec => []RegistroInv
<1>1. RegistroInv /\ [Next]_vars => RegistroInv'
  BY PassoTipo, PassoRegistro DEF RegistroInv
<1> QED BY <1>1, RegistroInit, PTL DEF Spec

\* The variables have their types; in particular a session is reported to have changed
\* its state at most twice (failed, closed).
THEOREM TipoSempre == Spec => []TypeOK
<1>1. RegistroInv => TypeOK
  BY DEF RegistroInv
<1> QED BY <1>1, RegistroSempre, PTL

\* No open connection is out of reach of the registry, for any number of participants
\* that enter, leave, fail and come back.
THEOREM NenhumaConexaoOrfa == Spec => []SemConexaoOrfa
<1>1. RegistroInv => SemConexaoOrfa
  BY DEF RegistroInv
<1> QED BY <1>1, RegistroSempre, PTL

-----------------------------------------------------------------------------
(***************************************************************************)
(* The life of a session, and who waits for it.                            *)
(***************************************************************************)
\* What a step does to the session of one call is all it does to sessions.
LEMMA VidaNoPasso ==
  ASSUME RegistroInv, [Next]_vars, NEW x \in Sessao, estado'[x] # estado[x]
  PROVE  <<estado[x], estado'[x]>> \in Avanca
<1> USE DEF Avanca
<1>a. Dono(x) \in Peer /\ x[2] \in 1..MaxSessoes
  BY SobreSessao
<1>1. ASSUME NEW p \in Peer, Retirar(p) PROVE <<estado[x], estado'[x]>> \in Avanca
  <2>1. estado'[x] = "retirada" /\ estado[x] = "viva"
    BY <1>a, <1>1, RetirarOrfa DEF RegistroInv, SemConexaoOrfa
  <2> QED BY <2>1
<1>2. ASSUME NEW p \in Peer, Entrar(p) PROVE <<estado[x], estado'[x]>> \in Avanca
  <2>1. estado' = [estado EXCEPT ![<<p, atual[p] + 1>>] = "viva"]
    BY <1>2 DEF Entrar
  <2>2. x = <<p, atual[p] + 1>> /\ estado'[x] = "viva"
    BY <2>1 DEF RegistroInv, TypeOK
  <2>3. atual[p] \in Nat /\ Dono(x) = p /\ x[2] = atual[p] + 1
    BY <2>2 DEF Dono, RegistroInv, TypeOK
  <2>4. estado[x] = "nenhuma"
    BY <2>3 DEF RegistroInv, RegistroCoerente
  <2> QED BY <2>2, <2>4
<1>3. ASSUME NEW p \in Peer, Sair(p) PROVE <<estado[x], estado'[x]>> \in Avanca
  BY <1>1, <1>3 DEF Sair
<1>4. ASSUME NEW y \in Sessao, AoMudarEstado(y) PROVE <<estado[x], estado'[x]>> \in Avanca
  BY <1>1, <1>4, SobreSessao DEF AoMudarEstado
<1>5. ASSUME NEW y \in Sessao, MarcarFechada(y) \/ FecharConexao(y)
      PROVE  <<estado[x], estado'[x]>> \in Avanca
  BY <1>5 DEF MarcarFechada, FecharConexao, RegistroInv, TypeOK
<1>6. \/ \E p \in Peer : Entrar(p) \/ Sair(p)
      \/ \E y \in Sessao : AoMudarEstado(y) \/ MarcarFechada(y) \/ FecharConexao(y)
  <2>1. ~UNCHANGED estado
    OBVIOUS
  <2> QED BY <2>1 DEF Next, vars, PassoPeer, PassoSessao, PassoFaixa, ligacao,
                      AssinarExistente, LigarExistente, TerminarEntrada, TerminarSaida, Falhar,
                      FaixaChega, Publicar, AssinarDestino, LigarDestino, Bombear, RemoverFaixa,
                      EsquecerSaida, SoltarRemetente, TerminarFaixa
<1> QED BY <1>2, <1>3, <1>4, <1>5, <1>6

\* Whoever calls Sair first, the reader or a state callback, a session is closed once: the
\* entry it was found by goes in the section that found it (Sair, sfu.go).
THEOREM SoAvanca == Spec => VidaDeSessao
<1>1. ASSUME RegistroInv, [Next]_vars
      PROVE  [\A x \in Sessao : estado'[x] # estado[x] => <<estado[x], estado'[x]>> \in Avanca]_vars
  BY <1>1, VidaNoPasso
<1> QED BY <1>1, RegistroSempre, PTL DEF Spec, VidaDeSessao

\* The three parts of EsperaFundada, for one participant or track.
EsperaPeer(p) ==
  /\ fase[p] = "saindo" => estado[SessaoDe(p)] \in {"retirada", "marcada", "encerrada"}
  /\ fase[p] = "ligando" => emCurso[p] # {}

EsperaFaixa(f) == publicacao[f] \in {"ligando", "soltando"} => emCurso[f] # {}

LEMMA EsperaNoPasso ==
  ASSUME RegistroInv, EsperaFundada, [Next]_vars
  PROVE  EsperaFundada'
<1> USE DEF RegistroInv
<1>a. /\ \A p \in Peer : EsperaPeer(p)
      /\ \A f \in Faixa : EsperaFaixa(f)
  BY DEF EsperaFundada, EsperaPeer, EsperaFaixa
\* A participant that stays where it is goes on waiting for a session that goes on.
<1>1. ASSUME NEW p \in Peer, UNCHANGED <<fase[p], emCurso[p], atual[p]>>
      PROVE  EsperaPeer(p)'
  <2>1. CASE fase[p] = "saindo"
    <3>1. PICK x : x = SessaoDe(p)
      OBVIOUS
    <3>2. atual[p] # 0 /\ atual[p] <= Visitas(p) /\ atual[p] \in Nat
      BY <2>1 DEF RegistroCoerente, LeitorCoerente, TypeOK
    <3>3. x \in Sessao
      BY <3>1, <3>2, SobreSessao DEF SessaoDe
    <3>4. estado[x] \in {"retirada", "marcada", "encerrada"}
      BY <1>a, <2>1, <3>1 DEF EsperaPeer
    <3>5. estado'[x] \in {"retirada", "marcada", "encerrada"}
      <4>1. CASE estado'[x] # estado[x]
        BY <3>3, <3>4, <4>1, VidaNoPasso DEF Avanca
      <4> QED BY <3>4, <4>1
    <3>6. SessaoDe(p)' = x
      BY <1>1, <3>1 DEF SessaoDe
    <3> QED BY <1>1, <2>1, <3>5, <3>6 DEF EsperaPeer
  <2>2. CASE fase[p] # "saindo"
    BY <1>a, <1>1, <2>2 DEF EsperaPeer
  <2> QED BY <2>1, <2>2
<1>2. ASSUME UNCHANGED emCurso, NEW p \in Peer, fase' = [fase EXCEPT ![p] = fase'[p]],
             atual' = [atual EXCEPT ![p] = atual'[p]], UNCHANGED publicacao,
             fase'[p] # "ligando",
             fase'[p] = "saindo" => estado[SessaoDe(p)]' \in {"retirada", "marcada", "encerrada"}
      PROVE  EsperaFundada'
  <2>1. ASSUME NEW q \in Peer PROVE EsperaPeer(q)'
    <3>1. CASE q = p
      BY <1>2, <3>1 DEF EsperaPeer
    <3>2. CASE q # p
      <4>1. UNCHANGED <<fase[q], emCurso[q], atual[q]>>
        BY <1>2, <3>2 DEF TypeOK
      <4> QED BY <1>1, <4>1
    <3> QED BY <3>1, <3>2
  <2>2. \A f \in Faixa : EsperaFaixa(f)'
    BY <1>a, <1>2 DEF EsperaFaixa
  <2> QED BY <2>1, <2>2 DEF EsperaFundada, EsperaPeer, EsperaFaixa
\* A thread takes something in hand, or lets go of it where it needs nothing.
<1>3. ASSUME NEW t \in Peer \cup Faixa, UNCHANGED atual,
             \A u \in (Peer \cup Faixa) \ {t} : UNCHANGED emCurso[u],
             \A q \in Peer \ {t} : UNCHANGED fase[q],
             \A f \in Faixa \ {t} : UNCHANGED publicacao[f],
             t \in Peer => EsperaPeer(t)',
             t \in Faixa => EsperaFaixa(t)'
      PROVE  EsperaFundada'
  <2>1. ASSUME NEW q \in Peer PROVE EsperaPeer(q)'
    <3>1. CASE q # t
      BY <1>1, <1>3, <3>1
    <3> QED BY <1>3, <3>1
  <2>2. ASSUME NEW f \in Faixa PROVE EsperaFaixa(f)'
    <3>1. CASE f # t
      BY <1>a, <1>3, <3>1 DEF EsperaFaixa
    <3> QED BY <1>3, <3>1
  <2> QED BY <2>1, <2>2 DEF EsperaFundada, EsperaPeer, EsperaFaixa
<1>4. CASE UNCHANGED <<fase, emCurso, atual, publicacao>>
  <2>1. \A q \in Peer : EsperaPeer(q)'
    BY <1>1, <1>4
  <2>2. \A f \in Faixa : EsperaFaixa(f)'
    BY <1>a, <1>4 DEF EsperaFaixa
  <2> QED BY <2>1, <2>2 DEF EsperaFundada, EsperaPeer, EsperaFaixa
<1>5. ASSUME NEW p \in Peer, Entrar(p) \/ TerminarEntrada(p) \/ TerminarSaida(p)
      PROVE  EsperaFundada'
  <2>1. /\ UNCHANGED <<emCurso, publicacao>>
        /\ fase' = [fase EXCEPT ![p] = fase'[p]]
        /\ atual' = [atual EXCEPT ![p] = atual'[p]]
        /\ fase'[p] \in {"assinando", "dentro", "fora"}
    BY <1>5 DEF Entrar, TerminarEntrada, TerminarSaida, trabalho, TypeOK
  <2> QED BY <1>2, <2>1
<1>6. ASSUME NEW p \in Peer, Sair(p) PROVE EsperaFundada'
  <2>1. /\ UNCHANGED <<emCurso, publicacao, atual>>
        /\ fase' = [fase EXCEPT ![p] = IF registro[p] = 0 THEN "fora" ELSE "saindo"]
        /\ Retirar(p)
    BY <1>6 DEF Sair, trabalho
  <2>2. fase' = [fase EXCEPT ![p] = fase'[p]] /\ fase'[p] # "ligando"
        /\ (fase'[p] = "saindo" => registro[p] # 0) /\ atual' = [atual EXCEPT ![p] = atual'[p]]
    BY <2>1 DEF TypeOK
  <2>3. ASSUME registro[p] # 0 PROVE estado[SessaoDe(p)]' = "retirada"
    <3>1. registro[p] = atual[p] /\ atual[p] \in Nat /\ atual[p] # 0 /\ atual[p] <= Visitas(p)
      BY <2>3 DEF RegistroCoerente, LeitorCoerente, TypeOK
    <3>2. PICK x : x = <<p, atual[p]>>
      OBVIOUS
    <3>3. x \in Sessao /\ Dono(x) = p /\ x[2] = atual[p]
      BY <3>1, <3>2, SobreSessao DEF Dono
    <3>4. estado'[x] = "retirada"
      BY <2>1, <3>1, <3>3, RetirarOrfa
    <3>5. SessaoDe(p)' = x
      BY <2>1, <3>2 DEF SessaoDe
    <3> QED BY <3>4, <3>5
  <2> QED BY <1>2, <2>1, <2>2, <2>3
<1>7. ASSUME NEW p \in Peer, AssinarExistente(p) \/ LigarExistente(p) PROVE EsperaFundada'
  <2>1. /\ UNCHANGED <<atual, publicacao>>
        /\ fase' = fase \/ fase' = [fase EXCEPT ![p] = fase'[p]]
        /\ \A u \in (Peer \cup Faixa) \ {p} : UNCHANGED emCurso[u]
        /\ fase'[p] # "saindo" /\ (fase'[p] = "ligando" => emCurso'[p] # {})
    <3>1. CASE AssinarExistente(p)
      <4>1. PICK f : /\ AnotarSaida(p, SessaoDe(p), f, f)
                     /\ fase' = IF PodeAssinar(SessaoDe(p), f)
                                THEN [fase EXCEPT ![p] = "ligando"] ELSE fase
        BY <3>1 DEF AssinarExistente
      <4>2. fase[p] = "assinando" /\ UNCHANGED <<atual, publicacao>>
        BY <3>1 DEF AssinarExistente, trabalho
      <4>3. CASE PodeAssinar(SessaoDe(p), f)
        <5>1. emCurso' = [emCurso EXCEPT ![p] = {f}] /\ fase' = [fase EXCEPT ![p] = "ligando"]
          BY <4>1, <4>3 DEF AnotarSaida
        <5> QED BY <4>2, <5>1 DEF TypeOK
      <4>4. CASE ~PodeAssinar(SessaoDe(p), f)
        BY <4>1, <4>2, <4>4 DEF AnotarSaida
      <4> QED BY <4>3, <4>4
    <3>2. CASE LigarExistente(p)
      BY <3>2 DEF LigarExistente, LigarTransceptor, trabalho, TypeOK
    <3> QED BY <1>7, <3>1, <3>2
  <2>2. p \notin Faixa
    BY GoroutinesAssumption
  <2>3. EsperaPeer(p)'
    BY <2>1 DEF EsperaPeer
  <2>4. \A q \in Peer \ {p} : UNCHANGED fase[q]
    BY <2>1 DEF TypeOK
  <2> QED BY <1>3, <2>1, <2>2, <2>3, <2>4
<1>8. ASSUME NEW f \in Faixa,
             FaixaChega(f) \/ Publicar(f) \/ AssinarDestino(f) \/ LigarDestino(f) \/ Bombear(f)
             \/ RemoverFaixa(f) \/ EsquecerSaida(f) \/ SoltarRemetente(f) \/ TerminarFaixa(f)
      PROVE  EsperaFundada'
  <2>1. /\ UNCHANGED <<atual, fase>>
        /\ \A g \in Faixa \ {f} : UNCHANGED publicacao[g]
        /\ \A u \in (Peer \cup Faixa) \ {f} : UNCHANGED emCurso[u]
        /\ publicacao'[f] \in {"ligando", "soltando"} => emCurso'[f] # {}
    <3>1. CASE AssinarDestino(f)
      <4>1. PICK x : /\ AnotarSaida(f, x, f, x)
                     /\ publicacao' = IF PodeAssinar(x, f)
                                      THEN [publicacao EXCEPT ![f] = "ligando"] ELSE publicacao
        BY <3>1 DEF AssinarDestino
      <4>2. publicacao[f] = "assinando" /\ UNCHANGED <<atual, fase>>
        BY <3>1 DEF AssinarDestino, leitura
      <4>3. CASE PodeAssinar(x, f)
        <5>1. emCurso' = [emCurso EXCEPT ![f] = {x}] /\ publicacao' = [publicacao EXCEPT ![f] = "ligando"]
          BY <4>1, <4>3 DEF AnotarSaida
        <5> QED BY <4>2, <5>1 DEF TypeOK
      <4>4. CASE ~PodeAssinar(x, f)
        BY <4>1, <4>2, <4>4 DEF AnotarSaida
      <4> QED BY <4>3, <4>4
    <3>2. CASE LigarDestino(f)
      BY <3>2 DEF LigarDestino, LigarTransceptor, leitura, TypeOK
    <3>3. CASE EsquecerSaida(f)
      <4>1. PICK x : emCurso' = [emCurso EXCEPT ![f] = {x}]
        BY <3>3 DEF EsquecerSaida
      <4>2. publicacao' = [publicacao EXCEPT ![f] = "soltando"] /\ UNCHANGED <<atual, fase>>
        BY <3>3 DEF EsquecerSaida, leitura
      <4> QED BY <4>1, <4>2 DEF TypeOK
    <3>4. CASE SoltarRemetente(f)
      BY <3>4 DEF SoltarRemetente, leitura, TypeOK
    <3>5. CASE FaixaChega(f) \/ Publicar(f) \/ Bombear(f) \/ RemoverFaixa(f) \/ TerminarFaixa(f)
      BY <3>5 DEF FaixaChega, Publicar, Bombear, RemoverFaixa, TerminarFaixa, leitura, TypeOK
    <3> QED BY <1>8, <3>1, <3>2, <3>3, <3>4, <3>5
  <2>2. f \notin Peer
    BY GoroutinesAssumption
  <2>3. EsperaFaixa(f)'
    BY <2>1 DEF EsperaFaixa
  <2> QED BY <1>3, <2>1, <2>2, <2>3
<1>9. ASSUME NEW x \in Sessao, MarcarFechada(x) \/ FecharConexao(x) \/ Falhar(x) \/ AoMudarEstado(x)
      PROVE  EsperaFundada'
  BY <1>4, <1>9 DEF MarcarFechada, FecharConexao, Falhar, AoMudarEstado, leitura, trabalho
<1>10. CASE UNCHANGED vars
  BY <1>4, <1>10 DEF vars, leitura, trabalho
<1> QED BY <1>5, <1>6, <1>7, <1>8, <1>9, <1>10 DEF Next, PassoPeer, PassoSessao, PassoFaixa

\* Nobody waits for what nobody does: the reader in Sair waits for a session that some
\* caller has taken out, and every goroutine in assinar or removerFaixa has what it works
\* at.  With this the guard of some step of each of them holds (SemBloqueio, which TLC
\* checks with ENABLED): TerminarSaida, or MarcarFechada or FecharConexao of that session.
THEOREM EsperaSempreFundada == Spec => []EsperaFundada
<1>1. Init => EsperaFundada
  BY DEF Init, EsperaFundada
<1> QED BY <1>1, EsperaNoPasso, RegistroSempre, PTL DEF Spec

-----------------------------------------------------------------------------
(***************************************************************************)
(* The list that newcomers copy and what is being pumped.                  *)
(***************************************************************************)
NoAr == {"assinando", "ligando", "bombeando"}

\* Why PublicadaNoAr and FaixasDeVivas hold: a track is in the list only between the
\* section of aoReceberFaixa and that of removerFaixa, and in between it leaves the list
\* only with the last session of the room, its own publisher's among them.
ListaInv ==
  /\ RegistroInv
  /\ \A f \in Faixa : estado[f] = "nenhuma" => publicacao[f] = "nada"
  /\ \A f \in faixas : publicacao[f] \in NoAr
  /\ \A f \in Faixa : publicacao[f] \in NoAr /\ estado[f] = "viva" => f \in faixas

\* A call of Sair by the name of p, as the list sees it.
LEMMA RetirarLista ==
  ASSUME RegistroInv, NEW p \in Peer, Retirar(p)
  PROVE  /\ \A x \in Sessao : estado'[x] = "nenhuma" <=> estado[x] = "nenhuma"
         /\ \A x \in Sessao : estado'[x] = "viva" => estado[x] = "viva"
         /\ faixas' \subseteq faixas
         /\ \A f \in Faixa : estado'[f] = "viva" => faixas' = faixas
<1>1. ASSUME NEW x \in Sessao
      PROVE  /\ estado'[x] = "nenhuma" <=> estado[x] = "nenhuma"
             /\ estado'[x] = "viva" => estado[x] = "viva"
  <2>1. Dono(x) \in Peer /\ (estado[x] = "viva" <=> registro[Dono(x)] = x[2])
    BY SobreSessao DEF RegistroInv, SemConexaoOrfa
  <2> QED BY <2>1, RetirarOrfa
<1>2. ASSUME NEW f \in Faixa, estado'[f] = "viva" PROVE faixas' = faixas
  <2>1. f \in Sessao /\ Dono(f) \in Peer /\ f[2] \in 1..MaxSessoes
    BY SobreSessao
  <2>2. registro'[Dono(f)] = f[2] /\ registro' = [registro EXCEPT ![p] = 0]
    BY <1>2, <2>1, RetirarOrfa DEF SemConexaoOrfa
  <2>3. Dono(f) # p /\ registro[Dono(f)] # 0
    BY <2>1, <2>2 DEF RegistroInv, TypeOK
  <2> QED BY <2>1, <2>3 DEF Retirar
<1> QED BY <1>1, <1>2 DEF Retirar

LEMMA ListaPasso == ListaInv /\ [Next]_vars => ListaInv'
<1> SUFFICES ASSUME ListaInv, [Next]_vars PROVE ListaInv'
  OBVIOUS
<1>1. RegistroInv /\ RegistroInv' /\ TypeOK
  BY PassoTipo, PassoRegistro DEF ListaInv, RegistroInv
<1>2. Faixa \subseteq Sessao
  BY SobreSessao
<1>3. ASSUME NEW p \in Peer, Entrar(p) PROVE ListaInv'
  <2> DEFINE nova == <<p, atual[p] + 1>>
  <2>1. nova \in Sessao /\ estado[nova] = "nenhuma"
    <3>1. atual[p] \in Nat /\ atual[p] < Visitas(p) /\ Visitas(p) \in Nat
      BY <1>1, <1>3, SobreSessao DEF Entrar, TypeOK
    <3>2. nova \in Sessao
      BY <3>1, SobreSessao
    <3> QED BY <1>1, <3>1, <3>2 DEF RegistroInv, RegistroCoerente
  <2>2. estado' = [estado EXCEPT ![nova] = "viva"] /\ UNCHANGED <<faixas, publicacao>>
    BY <1>3 DEF Entrar
  <2>3. \A f \in Faixa : f # nova => estado'[f] = estado[f]
    BY <1>1, <1>2, <2>2 DEF TypeOK
  <2>4. nova \in Faixa => publicacao'[nova] = "nada" /\ estado'[nova] = "viva"
    BY <1>1, <2>1, <2>2 DEF ListaInv, TypeOK
  <2> QED BY <1>1, <2>2, <2>3, <2>4 DEF ListaInv, NoAr
<1>4. ASSUME NEW p \in Peer, Retirar(p), UNCHANGED publicacao PROVE ListaInv'
  BY <1>1, <1>2, <1>4, RetirarLista DEF ListaInv
<1>5. ASSUME NEW x \in Sessao, MarcarFechada(x) \/ FecharConexao(x) PROVE ListaInv'
  <2>1. ASSUME NEW f \in Faixa
        PROVE  /\ estado'[f] = "nenhuma" => estado[f] = "nenhuma"
               /\ estado'[f] = "viva" => estado[f] = "viva"
    BY <1>1, <1>2, <1>5 DEF MarcarFechada, FecharConexao, TypeOK
  <2>2. faixas' = faixas /\ publicacao' = publicacao
    BY <1>5 DEF MarcarFechada, FecharConexao
  <2> QED BY <1>1, <2>1, <2>2 DEF ListaInv
<1>6. ASSUME UNCHANGED <<faixas, estado, publicacao>> PROVE ListaInv'
  BY <1>1, <1>6 DEF ListaInv
<1>7. ASSUME NEW p \in Peer, AssinarExistente(p) \/ LigarExistente(p) \/ TerminarEntrada(p)
                             \/ TerminarSaida(p)
      PROVE ListaInv'
  BY <1>6, <1>7 DEF AssinarExistente, LigarExistente, TerminarEntrada, TerminarSaida
<1>8. ASSUME NEW x \in Sessao, Falhar(x) PROVE ListaInv'
  BY <1>6, <1>8 DEF Falhar
<1>9. ASSUME NEW f \in Faixa, FaixaChega(f) PROVE ListaInv'
  BY <1>1, <1>9 DEF FaixaChega, ListaInv, TypeOK, NoAr
<1>10. ASSUME NEW f \in Faixa, Publicar(f) PROVE ListaInv'
  BY <1>1, <1>10 DEF Publicar, ListaInv, TypeOK, NoAr
<1>11. ASSUME NEW f \in Faixa, AssinarDestino(f) \/ LigarDestino(f) \/ Bombear(f)
      PROVE ListaInv'
  <2>1. publicacao[f] \in NoAr /\ publicacao'[f] \in NoAr /\ UNCHANGED <<faixas, estado>>
    BY <1>1, <1>11 DEF AssinarDestino, LigarDestino, Bombear, TypeOK, NoAr
  <2>2. \A g \in Faixa : g # f => publicacao'[g] = publicacao[g]
    BY <1>1, <1>11 DEF AssinarDestino, LigarDestino, Bombear, TypeOK
  <2>3. publicacao[f] # "nada"
    BY <2>1 DEF NoAr
  <2> QED BY <1>1, <2>1, <2>2, <2>3 DEF ListaInv, TypeOK
<1>12. ASSUME NEW f \in Faixa, RemoverFaixa(f) PROVE ListaInv'
  BY <1>1, <1>12 DEF RemoverFaixa, ListaInv, TypeOK, NoAr
<1>13. ASSUME NEW f \in Faixa, EsquecerSaida(f) \/ SoltarRemetente(f) \/ TerminarFaixa(f)
      PROVE ListaInv'
  <2>1. publicacao[f] \notin NoAr /\ publicacao'[f] \notin NoAr /\ UNCHANGED <<faixas, estado>>
        /\ publicacao[f] # "nada"
    BY <1>1, <1>13 DEF EsquecerSaida, SoltarRemetente, TerminarFaixa, TypeOK, NoAr
  <2>2. \A g \in Faixa : g # f => publicacao'[g] = publicacao[g]
    BY <1>1, <1>13 DEF EsquecerSaida, SoltarRemetente, TerminarFaixa, TypeOK
  <2> QED BY <1>1, <2>1, <2>2 DEF ListaInv, TypeOK
<1>14. ASSUME NEW p \in Peer, Sair(p) PROVE ListaInv'
  BY <1>4, <1>14 DEF Sair
<1>15. ASSUME NEW x \in Sessao, AoMudarEstado(x) PROVE ListaInv'
  BY <1>4, <1>15, SobreSessao DEF AoMudarEstado
<1>16. CASE UNCHANGED vars
  BY <1>6, <1>16 DEF vars
<1> QED
  BY <1>3, <1>5, <1>7, <1>8, <1>9, <1>10, <1>11, <1>12, <1>13, <1>14, <1>15, <1>16
  DEF Next, PassoPeer, PassoSessao, PassoFaixa

LEMMA ListaSempre == Spec => []ListaInv
<1>1. Init => ListaInv
  BY RegistroInit DEF Init, ListaInv, NoAr
<1> QED BY <1>1, ListaPasso, PTL DEF Spec

\* A track that is being pumped while its publisher is in the room is in the list that
\* newcomers copy, for any number of rooms' worth of sessions that come and go.
THEOREM SempreNoAr == Spec => []PublicadaNoAr
<1>1. ListaInv => PublicadaNoAr
  BY DEF ListaInv, PublicadaNoAr, NoAr
<1> QED BY <1>1, ListaSempre, PTL

\* When nothing is in the middle of its work, no track of a closed connection is on the
\* air: whatever the order of Sair, the callbacks and removerFaixa was.
THEOREM SoFaixasDeVivas == Spec => []FaixasDeVivas
<1>1. ListaInv => FaixasDeVivas
  BY DEF ListaInv, RegistroInv, TypeOK, FaixasDeVivas, Quieto, NoAr
<1> QED BY <1>1, ListaSempre, PTL
-----------------------------------------------------------------------------
(***************************************************************************)
(* Who receives what.  The theorem needs that no two tracks are held under *)
(* the same key: a browser gives every capture an id of its own, or nobody *)
(* publishes twice.                                                        *)
(***************************************************************************)
ChavesDistintas == \A f, g \in Faixa : Id(f) = Id(g) => f = g

\* A track that got to its goroutine's section under s.mu.
Conhecida(f) == publicacao[f] \notin {"nada", "chegou"}

\* The connection of x has a sender for f, or some goroutine is about to add it ...
Ligando(f, x) ==
  \/ fase[Dono(x)] = "ligando" /\ f \in emCurso[Dono(x)]
  \/ publicacao[f] = "ligando" /\ x \in emCurso[f]
Encaminhada(f, x) == f \in remetentes[x] \/ Ligando(f, x)

\* ... or has x and f still before it: the reader of x found f in the list, or the
\* goroutine of f found x in the registry.
PorVir(f, x) ==
  \/ fase[Dono(x)] \in {"assinando", "ligando"} /\ f \in porAssinar[Dono(x)]
  \/ publicacao[f] \in {"assinando", "ligando"} /\ x \in destinos[f]

Nenhuma(x) == estado[x] = "nenhuma"

\* What the goroutines hold is real: a session that was opened, a track that was
\* published, one pair at a time.
MaosInv ==
  /\ \A x \in Sessao : x[2] <= atual[Dono(x)] => ~Nenhuma(x)
  /\ \A x \in Sessao : Nenhuma(x) => saidas[x] = {}
  /\ \A f \in Faixa : \A x \in destinos[f] \cup emCurso[f] : ~Nenhuma(x)
  /\ \A p \in Peer : \A f \in porAssinar[p] \cup emCurso[p] : Conhecida(f)
  /\ \A x \in Sessao, f \in Faixa : Id(f) \in saidas[x] => Conhecida(f)
  /\ \A t \in Peer \cup Faixa : \A a, b \in emCurso[t] : a = b

\* The registry and the list are read and written in one section each, so of a session
\* and a track one finds the other; and who is turned away by the key in saidas is
\* turned away by one who has the sender or is adding it.
ParesInv ==
  \A x \in Sessao, f \in faixas :
    estado[x] = "viva" /\ Dono(x) # Dono(f) =>
      /\ Encaminhada(f, x) \/ PorVir(f, x)
      /\ Id(f) \in saidas[x] => Encaminhada(f, x)

AssinaturaInv == ListaInv /\ MaosInv /\ ParesInv

LEMMA MaosPasso ==
  ASSUME ChavesDistintas, AssinaturaInv, [Next]_vars
  PROVE  MaosInv'
<1>1. RegistroInv /\ TypeOK /\ ListaInv /\ MaosInv
  BY DEF AssinaturaInv, ListaInv, RegistroInv
<1>2. Faixa \subseteq Sessao
  BY SobreSessao
<1>3. ASSUME UNCHANGED <<atual, estado, saidas, destinos, emCurso, porAssinar, publicacao>>
      PROVE  MaosInv'
  BY <1>1, <1>3 DEF MaosInv, Nenhuma, Conhecida
\* Sessions change, and nothing else.
<1>4. ASSUME UNCHANGED <<atual, saidas, destinos, emCurso, porAssinar, publicacao>>,
             \A x \in Sessao : estado'[x] = "nenhuma" <=> estado[x] = "nenhuma"
      PROVE  MaosInv'
  <2>1. \A f \in Faixa : destinos[f] \cup emCurso[f] \subseteq Sessao
    BY <1>1 DEF TypeOK
  <2>2. ASSUME NEW x \in Sessao PROVE Nenhuma(x)' => Nenhuma(x)
    BY <1>4 DEF Nenhuma
  <2>3. ASSUME NEW x \in Sessao PROVE Nenhuma(x) => Nenhuma(x)'
    BY <1>4 DEF Nenhuma
  <2> QED BY <1>1, <1>4, <2>1, <2>2, <2>3 DEF MaosInv, Conhecida
<1>5. ASSUME NEW p \in Peer, Entrar(p) PROVE MaosInv'
  <2> DEFINE nova == <<p, atual[p] + 1>>
  <2>1. /\ atual[p] \in Nat /\ atual[p] < Visitas(p) /\ nova \in Sessao
        /\ atual' = [atual EXCEPT ![p] = @ + 1]
        /\ estado' = [estado EXCEPT ![nova] = "viva"]
        /\ porAssinar' = [porAssinar EXCEPT ![p] = DeOutros(p)]
        /\ UNCHANGED <<saidas, destinos, emCurso, publicacao>>
    <3>1. atual[p] \in Nat /\ atual[p] < Visitas(p) /\ Visitas(p) \in Nat
      BY <1>1, <1>5, SobreSessao DEF Entrar, TypeOK
    <3>2. nova \in Sessao
      BY <3>1, SobreSessao
    <3> QED BY <1>5, <3>1, <3>2 DEF Entrar
  <2>2. ASSUME NEW x \in Sessao PROVE Nenhuma(x)' => Nenhuma(x)
    BY <1>1, <2>1 DEF Nenhuma, TypeOK
  <2>3. ASSUME NEW x \in Sessao, x[2] <= atual'[Dono(x)] PROVE ~Nenhuma(x)'
    <3>1. Dono(x) \in Peer /\ x[2] \in Nat /\ x = <<Dono(x), x[2]>> /\ atual[Dono(x)] \in Nat
      BY <1>1, SobreSessao DEF TypeOK
    <3>2. CASE x = nova
      BY <1>1, <2>1, <3>2 DEF Nenhuma, TypeOK
    <3>3. CASE x # nova
      <4>1. x[2] <= atual[Dono(x)]
        BY <1>1, <2>1, <2>3, <3>1, <3>3 DEF TypeOK
      <4> QED BY <1>1, <2>2, <4>1 DEF MaosInv
    <3> QED BY <3>2, <3>3
  <2>4. \A f \in DeOutros(p) : Conhecida(f)
    BY <1>1 DEF DeOutros, ListaInv, Conhecida, NoAr
  <2>5. ASSUME NEW q \in Peer, NEW f \in porAssinar'[q] \cup emCurso'[q] PROVE Conhecida(f)'
    BY <1>1, <2>1, <2>4 DEF MaosInv, Conhecida, TypeOK
  <2>6. \A f \in Faixa : destinos[f] \cup emCurso[f] \subseteq Sessao
    BY <1>1 DEF TypeOK
  <2> QED BY <1>1, <2>1, <2>2, <2>3, <2>5, <2>6 DEF MaosInv, Conhecida
<1>6. ASSUME NEW p \in Peer, Retirar(p),
             UNCHANGED <<atual, saidas, destinos, emCurso, porAssinar, publicacao>>
      PROVE MaosInv'
  BY <1>1, <1>4, <1>6, RetirarLista
<1>7. ASSUME NEW p \in Peer, Sair(p) PROVE MaosInv'
  BY <1>6, <1>7 DEF Sair
<1>8. ASSUME NEW x \in Sessao, AoMudarEstado(x) PROVE MaosInv'
  BY <1>6, <1>8, SobreSessao DEF AoMudarEstado
<1>9. ASSUME NEW x \in Sessao, MarcarFechada(x) \/ FecharConexao(x) \/ Falhar(x) PROVE MaosInv'
  <2>1. ASSUME NEW y \in Sessao PROVE estado'[y] = "nenhuma" <=> estado[y] = "nenhuma"
    BY <1>1, <1>9 DEF MarcarFechada, FecharConexao, Falhar, TypeOK
  <2> QED BY <1>4, <1>9, <2>1 DEF MarcarFechada, FecharConexao, Falhar
<1>10. ASSUME NEW p \in Peer, AssinarExistente(p) PROVE MaosInv'
  <2>1. PICK f \in porAssinar[p] :
          /\ porAssinar' = [porAssinar EXCEPT ![p] = @ \ {f}]
          /\ AnotarSaida(p, SessaoDe(p), f, f)
    BY <1>10 DEF AssinarExistente
  <2>2. /\ f \in Faixa /\ SessaoDe(p) \in Sessao /\ Conhecida(f)
        /\ UNCHANGED <<atual, estado, destinos, publicacao>>
    BY <1>1, <1>10, TemSessao DEF AssinarExistente, TypeOK, MaosInv, RegistroInv
  <2>3. ~Nenhuma(SessaoDe(p))
    BY <1>1, <2>2 DEF MaosInv, SessaoDe, TypeOK
  <2>4. CASE PodeAssinar(SessaoDe(p), f)
    <3>1. /\ saidas' = [saidas EXCEPT ![SessaoDe(p)] = @ \cup {Id(f)}]
          /\ emCurso' = [emCurso EXCEPT ![p] = {f}]
      BY <2>1, <2>4 DEF AnotarSaida
    <3>2. \A x \in Sessao : Nenhuma(x)' => Nenhuma(x) /\ saidas'[x] = saidas[x]
      BY <1>1, <2>2, <2>3, <3>1 DEF Nenhuma, TypeOK
    <3>3. \A x \in Sessao, g \in Faixa : Id(g) \in saidas'[x] => Conhecida(g)
      BY <1>1, <2>2, <3>1 DEF MaosInv, TypeOK, ChavesDistintas
    <3>4. \A g \in Faixa : emCurso'[g] = emCurso[g]
      BY <1>1, <3>1, GoroutinesAssumption DEF TypeOK
    <3>5. \A q \in Peer : \A g \in porAssinar'[q] \cup emCurso'[q] : Conhecida(g)
      BY <1>1, <2>1, <2>2, <3>1 DEF MaosInv, TypeOK
    <3>6. \A t \in Peer \cup Faixa : \A a, b \in emCurso'[t] : a = b
      BY <1>1, <3>1 DEF MaosInv, TypeOK
    <3> QED BY <1>1, <2>2, <3>2, <3>3, <3>4, <3>5, <3>6 DEF MaosInv, Nenhuma, Conhecida
  <2>5. CASE ~PodeAssinar(SessaoDe(p), f)
    <3>1. UNCHANGED <<saidas, emCurso>>
      BY <2>1, <2>5 DEF AnotarSaida
    <3>2. \A q \in Peer : porAssinar'[q] \subseteq porAssinar[q]
      BY <1>1, <2>1 DEF TypeOK
    <3> QED BY <1>1, <2>2, <3>1, <3>2 DEF MaosInv, Nenhuma, Conhecida
  <2> QED BY <2>4, <2>5
\* LigarTransceptor empties the hand and at most frees the key.
<1>11. ASSUME NEW t \in Peer \cup Faixa, NEW x \in Sessao, NEW f \in Faixa,
              LigarTransceptor(t, x, f),
              UNCHANGED <<atual, estado, destinos, porAssinar>>,
              \A g \in Faixa : Conhecida(g) => Conhecida(g)'
       PROVE  MaosInv'
  <2>1. \A y \in Sessao : saidas'[y] \subseteq saidas[y]
    BY <1>1, <1>11 DEF LigarTransceptor, TypeOK
  <2>2. \A u \in Peer \cup Faixa : emCurso'[u] \subseteq emCurso[u]
    BY <1>1, <1>11 DEF LigarTransceptor, TypeOK
  <2>3. \A q \in Peer : porAssinar[q] \cup emCurso[q] \subseteq Faixa
    BY <1>1 DEF TypeOK
  <2> QED BY <1>1, <1>11, <2>1, <2>2, <2>3 DEF MaosInv, Nenhuma
<1>12. ASSUME NEW p \in Peer, LigarExistente(p) PROVE MaosInv'
  <2>1. PICK f \in emCurso[p] : LigarTransceptor(p, SessaoDe(p), f)
    BY <1>12 DEF LigarExistente
  <2>2. /\ f \in Faixa /\ SessaoDe(p) \in Sessao
        /\ UNCHANGED <<atual, estado, destinos, porAssinar, publicacao>>
    BY <1>1, <1>12, TemSessao DEF LigarExistente, TypeOK, RegistroInv
  <2> QED BY <1>11, <2>1, <2>2 DEF Conhecida
<1>13. ASSUME NEW p \in Peer, TerminarEntrada(p) \/ TerminarSaida(p) PROVE MaosInv'
  BY <1>3, <1>13 DEF TerminarEntrada, TerminarSaida
<1>14. ASSUME NEW f \in Faixa, FaixaChega(f) PROVE MaosInv'
  <2>1. \A g \in Faixa : Conhecida(g) => Conhecida(g)'
    BY <1>1, <1>14 DEF FaixaChega, Conhecida, TypeOK
  <2>2. \A q \in Peer : porAssinar[q] \cup emCurso[q] \subseteq Faixa
    BY <1>1 DEF TypeOK
  <2> QED BY <1>1, <1>14, <2>1, <2>2 DEF FaixaChega, MaosInv, Nenhuma
<1>15. ASSUME NEW f \in Faixa, Publicar(f) \/ RemoverFaixa(f) PROVE MaosInv'
  <2>1. /\ destinos' = [destinos EXCEPT ![f] = Registradas(Dono(f))]
        /\ UNCHANGED <<atual, estado, porAssinar, saidas, emCurso>>
    BY <1>15 DEF Publicar, RemoverFaixa
  <2>2. \A g \in Faixa : Conhecida(g) => Conhecida(g)'
    BY <1>1, <1>15 DEF Publicar, RemoverFaixa, Conhecida, TypeOK
  <2>3. \A x \in Registradas(Dono(f)) : ~Nenhuma(x)
    BY <1>1 DEF Registradas, RegistroInv, SemConexaoOrfa, Nenhuma
  <2>4. \A g \in Faixa : \A x \in destinos'[g] \cup emCurso[g] : ~Nenhuma(x)
    BY <1>1, <2>1, <2>3 DEF MaosInv, TypeOK
  <2>5. \A q \in Peer : porAssinar[q] \cup emCurso[q] \subseteq Faixa
    BY <1>1 DEF TypeOK
  <2> QED BY <1>1, <2>1, <2>2, <2>4, <2>5 DEF MaosInv, Nenhuma
<1>16. ASSUME NEW f \in Faixa, AssinarDestino(f) PROVE MaosInv'
  <2>1. PICK x \in destinos[f] :
          /\ destinos' = [destinos EXCEPT ![f] = @ \ {x}]
          /\ AnotarSaida(f, x, f, x)
    BY <1>16 DEF AssinarDestino
  <2>2. x \in Sessao /\ ~Nenhuma(x) /\ Conhecida(f) /\ UNCHANGED <<atual, estado, porAssinar>>
    BY <1>1, <1>16, <2>1 DEF AssinarDestino, TypeOK, MaosInv, Conhecida
  <2>3. \A g \in Faixa : Conhecida(g) => Conhecida(g)'
    BY <1>1, <1>16 DEF AssinarDestino, Conhecida, TypeOK
  <2>4. \A g \in Faixa : destinos'[g] \subseteq destinos[g]
    BY <1>1, <2>1 DEF TypeOK
  <2>5. \A q \in Peer : porAssinar[q] \cup emCurso[q] \subseteq Faixa
    BY <1>1 DEF TypeOK
  <2>6. CASE PodeAssinar(x, f)
    <3>1. /\ saidas' = [saidas EXCEPT ![x] = @ \cup {Id(f)}]
          /\ emCurso' = [emCurso EXCEPT ![f] = {x}]
      BY <2>1, <2>6 DEF AnotarSaida
    <3>2. \A y \in Sessao : Nenhuma(y)' => Nenhuma(y) /\ saidas'[y] = saidas[y]
      BY <1>1, <2>2, <3>1 DEF Nenhuma, TypeOK
    <3>3. \A y \in Sessao, g \in Faixa : Id(g) \in saidas'[y] => Conhecida(g)
      BY <1>1, <2>2, <3>1 DEF MaosInv, TypeOK, ChavesDistintas
    <3>4. \A q \in Peer : emCurso'[q] = emCurso[q]
      BY <1>1, <3>1, GoroutinesAssumption DEF TypeOK
    <3>5. \A g \in Faixa : \A y \in destinos'[g] \cup emCurso'[g] : ~Nenhuma(y)
      BY <1>1, <2>2, <2>4, <3>1 DEF MaosInv, TypeOK
    <3>6. \A t \in Peer \cup Faixa : \A a, b \in emCurso'[t] : a = b
      BY <1>1, <3>1 DEF MaosInv, TypeOK
    <3> QED BY <1>1, <2>2, <2>3, <2>5, <3>2, <3>3, <3>4, <3>5, <3>6 DEF MaosInv, Nenhuma
  <2>7. CASE ~PodeAssinar(x, f)
    <3>1. UNCHANGED <<saidas, emCurso>>
      BY <2>1, <2>7 DEF AnotarSaida
    <3> QED BY <1>1, <2>2, <2>3, <2>4, <2>5, <3>1 DEF MaosInv, Nenhuma
  <2> QED BY <2>6, <2>7
<1>17. ASSUME NEW f \in Faixa, LigarDestino(f) PROVE MaosInv'
  <2>1. PICK x \in emCurso[f] : LigarTransceptor(f, x, f)
    BY <1>17 DEF LigarDestino
  <2>2. x \in Sessao /\ UNCHANGED <<atual, estado, destinos, porAssinar>>
    BY <1>1, <1>17, <2>1 DEF LigarDestino, TypeOK
  <2>3. \A g \in Faixa : Conhecida(g) => Conhecida(g)'
    BY <1>1, <1>17 DEF LigarDestino, Conhecida, TypeOK
  <2> QED BY <1>11, <2>1, <2>2, <2>3
<1>18. ASSUME NEW f \in Faixa, Bombear(f) \/ TerminarFaixa(f) PROVE MaosInv'
  <2>1. \A g \in Faixa : Conhecida(g) => Conhecida(g)'
    BY <1>1, <1>18 DEF Bombear, TerminarFaixa, Conhecida, TypeOK
  <2>2. \A q \in Peer : porAssinar[q] \cup emCurso[q] \subseteq Faixa
    BY <1>1 DEF TypeOK
  <2> QED BY <1>1, <1>18, <2>1, <2>2 DEF Bombear, TerminarFaixa, MaosInv, Nenhuma
<1>19. ASSUME NEW f \in Faixa, EsquecerSaida(f) PROVE MaosInv'
  <2>1. PICK x \in destinos[f] :
          /\ destinos' = [destinos EXCEPT ![f] = @ \ {x}]
          /\ emCurso' = [emCurso EXCEPT ![f] = {x}]
          /\ saidas' = [saidas EXCEPT ![x] = @ \ {Id(f)}]
    BY <1>19 DEF EsquecerSaida
  <2>2. UNCHANGED <<atual, estado, porAssinar>>
    BY <1>19 DEF EsquecerSaida
  <2>3. \A g \in Faixa : Conhecida(g) => Conhecida(g)'
    BY <1>1, <1>19 DEF EsquecerSaida, Conhecida, TypeOK
  <2>4. \A y \in Sessao : saidas'[y] \subseteq saidas[y]
    BY <1>1, <2>1 DEF TypeOK
  <2>5. \A g \in Faixa : destinos'[g] \cup emCurso'[g] \subseteq destinos[g] \cup emCurso[g]
    BY <1>1, <2>1 DEF TypeOK
  <2>6. \A q \in Peer : emCurso'[q] = emCurso[q] /\ porAssinar[q] \cup emCurso[q] \subseteq Faixa
    BY <1>1, <2>1, GoroutinesAssumption DEF TypeOK
  <2>7. \A t \in Peer \cup Faixa : \A a, b \in emCurso'[t] : a = b
    BY <1>1, <2>1 DEF MaosInv, TypeOK
  <2> QED BY <1>1, <2>2, <2>3, <2>4, <2>5, <2>6, <2>7 DEF MaosInv, Nenhuma
<1>20. ASSUME NEW f \in Faixa, SoltarRemetente(f) PROVE MaosInv'
  <2>1. /\ emCurso' = [emCurso EXCEPT ![f] = {}]
        /\ UNCHANGED <<atual, estado, porAssinar, saidas, destinos>>
    BY <1>20 DEF SoltarRemetente
  <2>2. \A g \in Faixa : Conhecida(g) => Conhecida(g)'
    BY <1>1, <1>20 DEF SoltarRemetente, Conhecida, TypeOK
  <2>3. \A t \in Peer \cup Faixa : emCurso'[t] \subseteq emCurso[t]
    BY <1>1, <2>1 DEF TypeOK
  <2>4. \A q \in Peer : porAssinar[q] \cup emCurso[q] \subseteq Faixa
    BY <1>1 DEF TypeOK
  <2> QED BY <1>1, <2>1, <2>2, <2>3, <2>4 DEF MaosInv, Nenhuma
<1>21. CASE UNCHANGED vars
  BY <1>3, <1>21 DEF vars
<1> QED
  BY <1>5, <1>7, <1>8, <1>9, <1>10, <1>12, <1>13, <1>14, <1>15, <1>16, <1>17, <1>18, <1>19,
     <1>20, <1>21
  DEF Next, PassoPeer, PassoSessao, PassoFaixa

\* One pair of a session in the room and a track on the air, over one step.  Three facts
\* about the step are enough when the pair was already there: that nobody who has or adds
\* the sender drops it, that what is still to come stays to come or is taken up, and that
\* a key is only taken by who adds the sender.
LEMMA ParPasso ==
  ASSUME ChavesDistintas, AssinaturaInv, [Next]_vars,
         NEW x \in Sessao, NEW f \in Faixa,
         f \in faixas', estado'[x] = "viva", Dono(x) # Dono(f)
  PROVE  /\ Encaminhada(f, x)' \/ PorVir(f, x)'
         /\ Id(f) \in saidas'[x] => Encaminhada(f, x)'
<1> DEFINE Meta == /\ Encaminhada(f, x)' \/ PorVir(f, x)'
                   /\ Id(f) \in saidas'[x] => Encaminhada(f, x)'
           dono == Dono(x)
<1>1. RegistroInv /\ TypeOK /\ ListaInv /\ MaosInv /\ ParesInv
  BY DEF AssinaturaInv, ListaInv, RegistroInv
<1>2. /\ Faixa \subseteq Sessao /\ dono \in Peer /\ dono # f
      /\ x[2] \in 1..MaxSessoes /\ x = <<dono, x[2]>>
  BY SobreSessao, GoroutinesAssumption
\* A session in the room is the one its owner's reader is at.
<1>3. estado[x] = "viva" => registro[dono] = x[2] /\ x = SessaoDe(dono)
  <2>1. estado[x] = "viva" => registro[dono] = x[2]
    BY <1>1 DEF RegistroInv, SemConexaoOrfa
  <2>2. registro[dono] \in {0, atual[dono]}
    BY <1>1, <1>2 DEF RegistroInv, RegistroCoerente
  <2> QED BY <1>2, <2>1, <2>2 DEF SessaoDe
<1>4. ASSUME f \in faixas, estado[x] = "viva",
             Encaminhada(f, x) => Encaminhada(f, x)',
             PorVir(f, x) => Encaminhada(f, x)' \/ PorVir(f, x)',
             Id(f) \in saidas'[x] => Id(f) \in saidas[x] \/ Encaminhada(f, x)'
      PROVE  Meta
  BY <1>1, <1>4 DEF ParesInv
<1>5. f \in faixas /\ estado[x] = "viva" /\ Id(f) \in saidas[x] => Encaminhada(f, x)
  BY <1>1 DEF ParesInv
\* The step is of neither the reader of x nor the goroutine of f.
<1>6. ASSUME f \in faixas, estado[x] = "viva",
             fase'[dono] = fase[dono], porAssinar'[dono] = porAssinar[dono],
             emCurso'[dono] = emCurso[dono],
             publicacao'[f] = publicacao[f], destinos'[f] = destinos[f],
             emCurso'[f] = emCurso[f],
             f \in remetentes[x] => f \in remetentes'[x],
             Id(f) \in saidas'[x] => Id(f) \in saidas[x]
      PROVE  Meta
  <2>1. Encaminhada(f, x) => Encaminhada(f, x)'
    BY <1>6 DEF Encaminhada, Ligando
  <2>2. PorVir(f, x) => PorVir(f, x)'
    BY <1>6 DEF PorVir
  <2> QED BY <1>4, <1>6, <2>1, <2>2
<1>7. ASSUME NEW p \in Peer, Entrar(p) PROVE Meta
  <2> DEFINE nova == <<p, atual[p] + 1>>
  <2>1. /\ atual[p] \in Nat /\ fase[p] = "fora" /\ registro[p] = 0
        /\ faixas' = faixas /\ saidas' = saidas
        /\ estado' = [estado EXCEPT ![nova] = "viva"]
    BY <1>1, <1>7 DEF Entrar, RegistroInv, RegistroCoerente, TypeOK, midia
  <2>2. CASE dono = p
    <3>1. estado[x] # "viva"
      BY <1>2, <1>3, <2>1, <2>2
    <3>2. x = nova
      BY <1>1, <2>1, <3>1 DEF TypeOK
    <3>3. Nenhuma(x)
      BY <1>1, <1>2, <2>1, <3>2 DEF RegistroInv, RegistroCoerente, Nenhuma, TypeOK
    <3>4. saidas'[x] = {}
      BY <1>1, <2>1, <3>3 DEF MaosInv
    <3>5. f \in DeOutros(p)
      BY <2>1, <2>2 DEF DeOutros
    <3>6. porAssinar'[p] = DeOutros(p) /\ fase'[p] = "assinando"
      BY <1>1, <1>7 DEF Entrar, TypeOK
    <3>7. PorVir(f, x)'
      BY <2>2, <3>5, <3>6 DEF PorVir
    <3> QED BY <3>4, <3>7
  <2>3. CASE dono # p
    <3>1. x # nova
      BY <1>2, <2>3
    <3>2. estado[x] = "viva"
      BY <1>1, <2>1, <3>1 DEF TypeOK
    <3>3. /\ fase'[dono] = fase[dono] /\ porAssinar'[dono] = porAssinar[dono]
          /\ emCurso' = emCurso /\ publicacao' = publicacao /\ destinos' = destinos
          /\ remetentes' = remetentes
      BY <1>1, <1>2, <1>7, <2>3 DEF Entrar, TypeOK
    <3> QED BY <1>6, <2>1, <3>2, <3>3
  <2> QED BY <2>2, <2>3
<1>8. ASSUME NEW p \in Peer, Retirar(p), UNCHANGED <<porAssinar, emCurso, midia, trabalho>>,
             dono # p => fase'[dono] = fase[dono],
             fase'[p] = fase[p] \/ fase[p] = "dentro"
      PROVE Meta
  <2>1. f \in faixas /\ estado[x] = "viva"
    BY <1>1, <1>8, RetirarLista
  <2>2. Encaminhada(f, x) => Encaminhada(f, x)'
    BY <1>8 DEF Encaminhada, Ligando
  <2>3. PorVir(f, x) => PorVir(f, x)'
    BY <1>8 DEF PorVir
  <2> QED BY <1>4, <1>8, <2>1, <2>2, <2>3
<1>9. ASSUME NEW p \in Peer, Sair(p) PROVE Meta
  <2>1. /\ Retirar(p) /\ fase[p] = "dentro" /\ UNCHANGED <<porAssinar, emCurso, midia, trabalho>>
        /\ dono # p => fase'[dono] = fase[dono]
    BY <1>1, <1>2, <1>9 DEF Sair, TypeOK
  <2> QED BY <1>8, <2>1
<1>10. ASSUME NEW y \in Sessao, AoMudarEstado(y) PROVE Meta
  BY <1>8, <1>10, SobreSessao DEF AoMudarEstado
<1>11. ASSUME NEW y \in Sessao, MarcarFechada(y) \/ FecharConexao(y) \/ Falhar(y) PROVE Meta
  <2>1. estado[x] = "viva"
    BY <1>1, <1>11 DEF MarcarFechada, FecharConexao, Falhar, TypeOK
  <2>2. UNCHANGED <<faixas, leitura, midia, trabalho, emCurso>>
    BY <1>11 DEF MarcarFechada, FecharConexao, Falhar
  <2> QED BY <1>6, <2>1, <2>2
<1>12. ASSUME NEW p \in Peer, AssinarExistente(p) PROVE Meta
  <2>1. PICK g \in porAssinar[p] :
          /\ porAssinar' = [porAssinar EXCEPT ![p] = @ \ {g}]
          /\ AnotarSaida(p, SessaoDe(p), g, g)
          /\ fase' = IF PodeAssinar(SessaoDe(p), g)
                     THEN [fase EXCEPT ![p] = "ligando"] ELSE fase
    BY <1>12 DEF AssinarExistente
  <2>2. /\ g \in Faixa /\ SessaoDe(p) \in Sessao /\ fase[p] = "assinando"
        /\ f \in faixas /\ estado[x] = "viva" /\ x = SessaoDe(dono)
        /\ remetentes' = remetentes /\ publicacao' = publicacao /\ destinos' = destinos
    BY <1>1, <1>3, <1>12, TemSessao DEF AssinarExistente, TypeOK, RegistroInv
  <2>3. emCurso'[f] = emCurso[f]
    BY <1>1, <2>1, GoroutinesAssumption DEF AnotarSaida, TypeOK
  <2>4. CASE dono # p
    <3>1. x # SessaoDe(p)
      BY <1>2, <2>4 DEF SessaoDe
    <3>2. fase'[dono] = fase[dono] /\ porAssinar'[dono] = porAssinar[dono]
      BY <1>1, <1>2, <2>1, <2>4 DEF TypeOK
    <3>3. emCurso'[dono] = emCurso[dono] /\ saidas'[x] = saidas[x]
      BY <1>1, <1>2, <2>1, <2>4, <3>1 DEF AnotarSaida, TypeOK
    <3> QED BY <1>6, <2>2, <2>3, <3>2, <3>3
  <2>5. CASE dono = p
    <3>1. Encaminhada(f, x) => Encaminhada(f, x)'
      BY <2>2, <2>3, <2>5 DEF Encaminhada, Ligando
    <3>2. CASE PodeAssinar(x, g)
      <4>1. /\ saidas' = [saidas EXCEPT ![x] = @ \cup {Id(g)}]
            /\ emCurso' = [emCurso EXCEPT ![p] = {g}]
            /\ fase' = [fase EXCEPT ![p] = "ligando"]
        BY <2>1, <2>2, <2>5, <3>2 DEF AnotarSaida
      <4>2. saidas'[x] = saidas[x] \cup {Id(g)} /\ emCurso'[p] = {g} /\ fase'[p] = "ligando"
        BY <1>1, <4>1 DEF TypeOK
      <4>3. f = g => Encaminhada(f, x)'
        BY <2>5, <4>2 DEF Encaminhada, Ligando
      <4>4. f # g /\ f \in porAssinar[p] => f \in porAssinar'[p]
        BY <1>1, <2>1 DEF TypeOK
      <4>5. PorVir(f, x) => Encaminhada(f, x)' \/ PorVir(f, x)'
        BY <2>2, <2>5, <4>2, <4>3, <4>4 DEF PorVir
      <4>6. Id(f) \in saidas'[x] => Id(f) \in saidas[x] \/ Encaminhada(f, x)'
        BY <2>2, <4>2, <4>3 DEF ChavesDistintas
      <4> QED BY <1>4, <2>2, <3>1, <4>5, <4>6
    <3>3. CASE ~PodeAssinar(x, g)
      <4>1. saidas' = saidas /\ fase' = fase /\ Id(g) \in saidas[x]
        BY <2>1, <2>2, <2>5, <3>3 DEF AnotarSaida, PodeAssinar, Fechada
      <4>2. f = g => Encaminhada(f, x)'
        BY <1>5, <2>2, <3>1, <4>1
      <4>3. f # g /\ f \in porAssinar[p] => f \in porAssinar'[p]
        BY <1>1, <2>1 DEF TypeOK
      <4>4. PorVir(f, x) => Encaminhada(f, x)' \/ PorVir(f, x)'
        BY <2>2, <2>5, <4>1, <4>2, <4>3 DEF PorVir
      <4> QED BY <1>4, <2>2, <3>1, <4>1, <4>4
    <3> QED BY <3>2, <3>3
  <2> QED BY <2>4, <2>5
<1>13. ASSUME NEW p \in Peer, LigarExistente(p) PROVE Meta
  <2>1. PICK g \in emCurso[p] : LigarTransceptor(p, SessaoDe(p), g)
    BY <1>13 DEF LigarExistente
  <2>2. /\ g \in Faixa /\ SessaoDe(p) \in Sessao /\ fase[p] = "ligando"
        /\ fase' = [fase EXCEPT ![p] = "assinando"]
        /\ f \in faixas /\ estado[x] = "viva" /\ x = SessaoDe(dono)
        /\ porAssinar' = porAssinar /\ publicacao' = publicacao /\ destinos' = destinos
    BY <1>1, <1>3, <1>13, TemSessao DEF LigarExistente, TypeOK, RegistroInv
  <2>3. emCurso' = [emCurso EXCEPT ![p] = {}] /\ emCurso'[f] = emCurso[f]
    BY <1>1, <2>1, GoroutinesAssumption DEF LigarTransceptor, TypeOK
  <2>4. CASE dono # p
    <3>1. x # SessaoDe(p)
      BY <1>2, <2>4 DEF SessaoDe
    <3>2. saidas'[x] = saidas[x] /\ remetentes'[x] = remetentes[x]
      BY <1>1, <2>1, <3>1 DEF LigarTransceptor, TypeOK
    <3>3. fase'[dono] = fase[dono] /\ emCurso'[dono] = emCurso[dono]
      BY <1>1, <1>2, <2>2, <2>3, <2>4 DEF TypeOK
    <3> QED BY <1>6, <2>2, <2>3, <3>2, <3>3
  <2>5. CASE dono = p
    <3>1. remetentes'[x] = remetentes[x] \cup {g} /\ saidas' = saidas
      BY <1>1, <2>1, <2>2, <2>5 DEF LigarTransceptor, TypeOK
    <3>2. f \in emCurso[p] => f = g
      BY <1>1, <2>1 DEF MaosInv
    <3>3. Encaminhada(f, x) => Encaminhada(f, x)'
      BY <2>2, <2>3, <2>5, <3>1, <3>2 DEF Encaminhada, Ligando
    <3>4. fase'[p] = "assinando"
      BY <1>1, <2>2 DEF TypeOK
    <3>5. PorVir(f, x) => PorVir(f, x)'
      BY <2>2, <2>5, <3>4 DEF PorVir
    <3> QED BY <1>4, <2>2, <3>1, <3>3, <3>5
  <2> QED BY <2>4, <2>5
<1>14. ASSUME NEW p \in Peer, TerminarEntrada(p) \/ TerminarSaida(p) PROVE Meta
  <2>1. /\ UNCHANGED <<faixas, estado, saidas, remetentes, porAssinar, emCurso, trabalho>>
        /\ \/ fase[p] = "assinando" /\ porAssinar[p] = {}
           \/ fase[p] = "saindo"
    BY <1>14 DEF TerminarEntrada, TerminarSaida
  <2>2. dono # p => fase'[dono] = fase[dono]
    BY <1>1, <1>2, <1>14 DEF TerminarEntrada, TerminarSaida, TypeOK
  <2>3. Encaminhada(f, x) => Encaminhada(f, x)'
    BY <2>1, <2>2 DEF Encaminhada, Ligando
  <2>4. PorVir(f, x) => PorVir(f, x)'
    BY <2>1, <2>2 DEF PorVir
  <2> QED BY <1>4, <2>1, <2>3, <2>4
\* A step of the goroutine of another track.
<1>15. ASSUME NEW g \in Faixa, g # f,
              UNCHANGED <<leitura, estado>>, f \in faixas,
              \A t \in (Peer \cup Faixa) \ {g} : emCurso'[t] = emCurso[t],
              publicacao'[f] = publicacao[f], destinos'[f] = destinos[f],
              f \in remetentes[x] => f \in remetentes'[x],
              Id(f) \in saidas'[x] => Id(f) \in saidas[x] \cup {Id(g)}
       PROVE  Meta
  <2>1. Id(f) # Id(g)
    BY <1>15 DEF ChavesDistintas
  <2>2. dono # g /\ dono \in Peer \cup Faixa /\ f \in Peer \cup Faixa
    BY <1>2, GoroutinesAssumption
  <2> QED BY <1>6, <1>15, <2>1, <2>2
<1>16. ASSUME NEW g \in Faixa, FaixaChega(g) PROVE Meta
  <2>1. f \in faixas /\ publicacao[g] = "nada" /\ UNCHANGED <<faixas, leitura, ligacao, midia, emCurso, destinos>>
    BY <1>16 DEF FaixaChega
  <2>2. g # f
    BY <1>1, <2>1 DEF ListaInv, NoAr
  <2>3. publicacao'[f] = publicacao[f]
    BY <1>1, <1>16, <2>2 DEF FaixaChega, TypeOK
  <2> QED BY <1>15, <2>1, <2>2, <2>3
<1>17. ASSUME NEW g \in Faixa, Publicar(g) PROVE Meta
  <2>1. /\ publicacao[g] = "chegou" /\ faixas' = faixas \cup {g}
        /\ UNCHANGED <<leitura, ligacao, midia, emCurso>>
        /\ destinos' = [destinos EXCEPT ![g] = Registradas(Dono(g))]
        /\ publicacao' = [publicacao EXCEPT ![g] = "assinando"]
    BY <1>17 DEF Publicar
  <2>2. CASE f = g
    <3>1. x \in Registradas(Dono(g))
      BY <1>3, <2>1, <2>2 DEF Registradas
    <3>2. PorVir(f, x)'
      BY <1>1, <2>1, <2>2, <3>1 DEF PorVir, TypeOK
    <3>3. Id(f) \notin saidas'[x]
      BY <1>1, <2>1, <2>2 DEF MaosInv, Conhecida
    <3> QED BY <3>2, <3>3
  <2>3. CASE f # g
    <3>1. publicacao'[f] = publicacao[f] /\ destinos'[f] = destinos[f] /\ f \in faixas
      BY <1>1, <2>1, <2>3 DEF TypeOK
    <3> QED BY <1>15, <2>1, <2>3, <3>1
  <2> QED BY <2>2, <2>3
<1>18. ASSUME NEW g \in Faixa, AssinarDestino(g) PROVE Meta
  <2>1. PICK y \in destinos[g] :
          /\ destinos' = [destinos EXCEPT ![g] = @ \ {y}]
          /\ AnotarSaida(g, y, g, y)
          /\ publicacao' = IF PodeAssinar(y, g)
                           THEN [publicacao EXCEPT ![g] = "ligando"] ELSE publicacao
    BY <1>18 DEF AssinarDestino
  <2>2. /\ y \in Sessao /\ publicacao[g] = "assinando"
        /\ f \in faixas /\ estado[x] = "viva"
        /\ UNCHANGED <<leitura, estado, remetentes, faixas>>
    BY <1>1, <1>18, <2>1 DEF AssinarDestino, TypeOK
  <2>3. \A t \in (Peer \cup Faixa) \ {g} : emCurso'[t] = emCurso[t]
    BY <1>1, <2>1 DEF AnotarSaida, TypeOK
  <2>4. Id(f) \in saidas'[x] => Id(f) \in saidas[x] \cup {Id(g)}
    BY <1>1, <2>1 DEF AnotarSaida, TypeOK
  <2>5. CASE f # g
    <3>1. publicacao'[f] = publicacao[f] /\ destinos'[f] = destinos[f]
      BY <1>1, <2>1, <2>5 DEF TypeOK
    <3> QED BY <1>15, <2>2, <2>3, <2>4, <2>5, <3>1
  <2>6. CASE f = g
    <3>1. emCurso'[dono] = emCurso[dono]
      BY <1>2, <2>3, <2>6
    <3>2. Encaminhada(f, x) => Encaminhada(f, x)'
      BY <2>2, <2>6, <3>1 DEF Encaminhada, Ligando
    <3>3. x # y /\ x \in destinos[f] => x \in destinos'[f]
      BY <1>1, <2>1, <2>6 DEF TypeOK
    <3>4. CASE PodeAssinar(y, f)
      <4>1. /\ saidas' = [saidas EXCEPT ![y] = @ \cup {Id(f)}]
            /\ emCurso'[f] = {y} /\ publicacao'[f] = "ligando"
        BY <1>1, <2>1, <2>6, <3>4 DEF AnotarSaida, TypeOK
      <4>2. x = y => Encaminhada(f, x)'
        BY <4>1 DEF Encaminhada, Ligando
      <4>3. PorVir(f, x) => Encaminhada(f, x)' \/ PorVir(f, x)'
        BY <2>2, <3>3, <4>1, <4>2 DEF PorVir
      <4>4. x # y => saidas'[x] = saidas[x]
        BY <1>1, <4>1 DEF TypeOK
      <4> QED BY <1>4, <2>2, <3>2, <4>2, <4>3, <4>4
    <3>5. CASE ~PodeAssinar(y, f)
      <4>1. saidas' = saidas /\ publicacao' = publicacao
        BY <2>1, <2>6, <3>5 DEF AnotarSaida
      <4>2. x = y => Id(f) \in saidas[x]
        BY <2>2, <3>5 DEF PodeAssinar, Fechada
      <4>3. x = y => Encaminhada(f, x)'
        BY <1>5, <2>2, <3>2, <4>2
      <4>4. PorVir(f, x) => Encaminhada(f, x)' \/ PorVir(f, x)'
        BY <2>2, <3>3, <4>1, <4>3 DEF PorVir
      <4> QED BY <1>4, <2>2, <3>2, <4>1, <4>4
    <3> QED BY <3>4, <3>5
  <2> QED BY <2>5, <2>6
<1>19. ASSUME NEW g \in Faixa, LigarDestino(g) PROVE Meta
  <2>1. PICK y \in emCurso[g] : LigarTransceptor(g, y, g)
    BY <1>19 DEF LigarDestino
  <2>2. /\ y \in Sessao /\ publicacao[g] = "ligando"
        /\ f \in faixas /\ estado[x] = "viva" /\ destinos' = destinos
        /\ UNCHANGED <<leitura, estado, faixas>>
        /\ publicacao' = [publicacao EXCEPT ![g] = "assinando"]
    BY <1>1, <1>19, <2>1 DEF LigarDestino, TypeOK
  <2>3. \A t \in (Peer \cup Faixa) \ {g} : emCurso'[t] = emCurso[t]
    BY <1>1, <2>1 DEF LigarTransceptor, TypeOK
  <2>4. /\ Id(f) \in saidas'[x] => Id(f) \in saidas[x]
        /\ f \in remetentes[x] => f \in remetentes'[x]
    BY <1>1, <2>1, SMTT(30) DEF LigarTransceptor, TypeOK
  <2>5. CASE f # g
    <3>1. publicacao'[f] = publicacao[f]
      BY <1>1, <2>2, <2>5 DEF TypeOK
    <3> QED BY <1>15, <2>2, <2>3, <2>4, <2>5, <3>1
  <2>6. CASE f = g
    <3>1. emCurso'[dono] = emCurso[dono]
      BY <1>2, <2>3, <2>6
    <3>2. x \in emCurso[f] => x = y
      BY <1>1, <2>1, <2>6 DEF MaosInv
    <3>3. x = y => f \in remetentes'[x]
      BY <1>1, <2>1, <2>2, <2>6 DEF LigarTransceptor, TypeOK
    <3>4. Encaminhada(f, x) => Encaminhada(f, x)'
      BY <2>2, <2>4, <3>1, <3>2, <3>3 DEF Encaminhada, Ligando
    <3>5. publicacao'[f] = "assinando"
      BY <1>1, <2>2, <2>6 DEF TypeOK
    <3>6. PorVir(f, x) => PorVir(f, x)'
      BY <2>2, <3>5 DEF PorVir
    <3> QED BY <1>4, <2>2, <2>4, <3>4, <3>6
  <2> QED BY <2>5, <2>6
<1>20. ASSUME NEW g \in Faixa, Bombear(g) PROVE Meta
  <2>1. /\ publicacao[g] = "assinando" /\ destinos[g] = {}
        /\ UNCHANGED <<faixas, leitura, estado, midia, emCurso, destinos>>
        /\ g # f => publicacao'[f] = publicacao[f]
    BY <1>1, <1>20 DEF Bombear, TypeOK
  <2>2. f \in faixas /\ estado[x] = "viva"
    BY <2>1
  <2>3. Encaminhada(f, x) => Encaminhada(f, x)'
    BY <2>1 DEF Encaminhada, Ligando
  <2>4. PorVir(f, x) => PorVir(f, x)'
    BY <2>1 DEF PorVir
  <2> QED BY <1>4, <2>1, <2>2, <2>3, <2>4
<1>21. ASSUME NEW g \in Faixa, RemoverFaixa(g) PROVE Meta
  <2>1. g # f /\ f \in faixas /\ UNCHANGED <<leitura, ligacao, midia, emCurso>>
    BY <1>21 DEF RemoverFaixa
  <2>2. publicacao'[f] = publicacao[f] /\ destinos'[f] = destinos[f]
    BY <1>1, <1>21, <2>1 DEF RemoverFaixa, TypeOK
  <2> QED BY <1>15, <2>1, <2>2
<1>22. ASSUME NEW g \in Faixa, EsquecerSaida(g) \/ SoltarRemetente(g) \/ TerminarFaixa(g)
       PROVE Meta
  <2>1. f \in faixas /\ UNCHANGED <<leitura, estado>> /\ publicacao[g] \in {"removendo", "soltando"}
    BY <1>22 DEF EsquecerSaida, SoltarRemetente, TerminarFaixa
  <2>2. g # f
    BY <1>1, <2>1 DEF ListaInv, NoAr
  <2>3. publicacao'[f] = publicacao[f] /\ destinos'[f] = destinos[f]
    BY <1>1, <1>22, <2>2 DEF EsquecerSaida, SoltarRemetente, TerminarFaixa, TypeOK
  <2>4. \A t \in (Peer \cup Faixa) \ {g} : emCurso'[t] = emCurso[t]
    BY <1>1, <1>22 DEF EsquecerSaida, SoltarRemetente, TerminarFaixa, TypeOK
  <2>5. Id(f) \in saidas'[x] => Id(f) \in saidas[x]
    BY <1>1, <1>22 DEF EsquecerSaida, SoltarRemetente, TerminarFaixa, TypeOK
  <2>6. f \in remetentes[x] => f \in remetentes'[x]
    BY <1>1, <1>22, <2>2 DEF EsquecerSaida, SoltarRemetente, TerminarFaixa, TypeOK
  <2> QED BY <1>15, <2>1, <2>2, <2>3, <2>4, <2>5, <2>6
<1>23. CASE UNCHANGED vars
  BY <1>6, <1>23 DEF vars
<1> QED
  BY <1>7, <1>9, <1>10, <1>11, <1>12, <1>13, <1>14, <1>16, <1>17, <1>18, <1>19, <1>20, <1>21,
     <1>22, <1>23
  DEF Next, PassoPeer, PassoSessao, PassoFaixa

LEMMA AssinaturaSempre == ASSUME ChavesDistintas PROVE Spec => []AssinaturaInv
<1>1. Init => AssinaturaInv
  <2>1. ASSUME Init PROVE ListaInv
    BY <2>1, RegistroInit DEF Init, ListaInv, NoAr
  <2>2. ASSUME Init PROVE MaosInv
    BY <2>2, SobreSessao DEF Init, MaosInv, Nenhuma, Conhecida
  <2>3. ASSUME Init PROVE ParesInv
    BY <2>3 DEF Init, ParesInv
  <2> QED BY <2>1, <2>2, <2>3 DEF AssinaturaInv
<1>2. AssinaturaInv /\ [Next]_vars => AssinaturaInv'
  <2> SUFFICES ASSUME AssinaturaInv, [Next]_vars PROVE AssinaturaInv'
    OBVIOUS
  <2>1. ListaInv' /\ MaosInv'
    BY ListaPasso, MaosPasso DEF AssinaturaInv
  <2>2. faixas' \in SUBSET Faixa
    BY <2>1 DEF ListaInv, RegistroInv, TypeOK
  <2>3. ParesInv'
    BY <2>2, ParPasso DEF ParesInv
  <2> QED BY <2>1, <2>3 DEF AssinaturaInv
<1> QED BY <1>1, <1>2, PTL DEF Spec

\* When nothing is in the middle of its work, everybody in the room has a sender for
\* every track of the others on the air: no order of Entrar, aoReceberFaixa and Sair
\* loses a subscription, for any number of participants, publishers and returns.
THEOREM TodosAssinados == ASSUME ChavesDistintas PROVE Spec => []Assinados
<1>1. AssinaturaInv => Assinados
  <2> SUFFICES ASSUME AssinaturaInv, Quieto,
                      NEW x \in Sessao, NEW f \in faixas, estado[x] = "viva", Dono(f) # Dono(x)
               PROVE  f \in remetentes[x]
    BY DEF Assinados
  <2>1. f \in Faixa /\ Dono(x) \in Peer
    BY SobreSessao DEF AssinaturaInv, ListaInv, RegistroInv, TypeOK
  <2>2. ~Ligando(f, x) /\ ~PorVir(f, x)
    BY <2>1 DEF Quieto, Ligando, PorVir
  <2> QED BY <2>2 DEF AssinaturaInv, ParesInv, Encaminhada
<1> QED BY <1>1, AssinaturaSempre, PTL
=============================================================================
