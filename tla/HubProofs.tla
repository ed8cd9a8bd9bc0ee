----------------------------- MODULE HubProofs -----------------------------
(***************************************************************************)
(* Proofs about Hub, for any number of connections and rooms and any limit.*)
(* IndInv is inductive; what Hub promises about the table and about who    *)
(* knows of whom follows from it.  The limit of a room needs the finiteness*)
(* of Peer and has an induction of its own.                                *)
(***************************************************************************)
EXTENDS Hub, TLAPS, FiniteSetTheorems

USE DEF Fase, Talvez, Aberta, tabela, rede

\* Every goroutine starts outside of every room.
LEMMA InicioIndInv == Init => IndInv
BY HubAssumption DEF Init, IndInv, TypeOK, TabelaCoerente, Lugar, FaseCoerente, Noticiados

-----------------------------------------------------------------------------
\* The first part of IndInv, one lemma for the steps of each goroutine.
LEMMA PassoTipo == TypeOK /\ [Next]_vars => TypeOK'
<1> SUFFICES ASSUME TypeOK, [Next]_vars PROVE TypeOK'
  OBVIOUS
<1> USE HubAssumption
<1>1. ASSUME NEW p \in Peer, NEW d \in Talvez, Sair(p, d), fase[p] = "lendo" PROVE TypeOK'
  BY <1>1 DEF TypeOK, Sair, DepoisDeSair
<1>2. ASSUME NEW p \in Peer, NEW s \in Sala, Entrar(p, s) PROVE TypeOK'
  BY <1>1, <1>2 DEF Entrar
<1>3. ASSUME NEW p \in Peer, LerErro(p) PROVE TypeOK'
  BY <1>1, <1>3 DEF LerErro
<1>4. ASSUME NEW p \in Peer, Despedir(p) PROVE TypeOK'
  BY <1>4 DEF TypeOK, Despedir, Enviar
<1>5. ASSUME NEW p \in Peer, TerminarSaida(p) PROVE TypeOK'
  BY <1>5 DEF TypeOK, TerminarSaida, DepoisDeSair
<1>6. ASSUME NEW p \in Peer, Encerrar(p) PROVE TypeOK'
  BY <1>6 DEF TypeOK, Encerrar, Fechar
<1>7. ASSUME NEW p \in Peer, Inscrever(p) PROVE TypeOK'
  BY <1>7 DEF TypeOK, Inscrever, JaEstavam
<1>8. ASSUME NEW p \in Peer, RecusarSalaCheia(p) PROVE TypeOK'
  BY <1>8 DEF TypeOK, RecusarSalaCheia
<1>9. ASSUME NEW p \in Peer, Apresentar(p) PROVE TypeOK'
  BY <1>9 DEF TypeOK, Apresentar, Enviar
<1>10. ASSUME NEW p \in Peer, Anunciar(p) PROVE TypeOK'
  BY <1>10 DEF TypeOK, Anunciar, Enviar
<1>11. ASSUME NEW p \in Peer, TerminarEntrada(p) PROVE TypeOK'
  BY <1>11 DEF TypeOK, TerminarEntrada
<1>12. ASSUME NEW p \in Peer, ResponderPing(p) PROVE TypeOK'
  BY <1>12 DEF TypeOK, ResponderPing
<1>13. ASSUME NEW p \in Peer, NEW alvo \in Peer, Repassar(p, alvo) PROVE TypeOK'
  BY <1>13 DEF TypeOK, Repassar
<1>14. ASSUME NEW p \in Peer, EntregarRepasse(p) PROVE TypeOK'
  BY <1>14 DEF TypeOK, EntregarRepasse
<1>15. CASE EsvaziarPings
  BY <1>15 DEF TypeOK, EsvaziarPings
<1>16. ASSUME NEW p \in Peer, FilaEncheu(p) PROVE TypeOK'
  BY <1>16 DEF TypeOK, FilaEncheu
<1>17. ASSUME NEW p \in Peer, Desligar(p) PROVE TypeOK'
  BY <1>17 DEF TypeOK, Desligar
<1>18. CASE UNCHANGED vars
  BY <1>18 DEF TypeOK, vars
<1>19. ASSUME NEW p \in Peer, Remover(p) PROVE TypeOK'
  BY <1>19 DEF TypeOK, Remover, Restantes, VivasSem
<1>20. ASSUME NEW p \in Peer, Escolher(p) PROVE TypeOK'
  BY <1>20 DEF TypeOK, Escolher
<1>21. ASSUME NEW p \in Peer, Esquecer(p) PROVE TypeOK'
  BY <1>21 DEF TypeOK, Esquecer
<1>22. ASSUME NEW p \in Peer, Rejeitar(p) PROVE TypeOK'
  BY <1>22 DEF TypeOK, Rejeitar, Fechar
<1>23. QED
  BY <1>2, <1>3, <1>4, <1>5, <1>6, <1>7, <1>8, <1>9, <1>10, <1>11, <1>12, <1>13,
     <1>14, <1>15, <1>16, <1>17, <1>18, <1>19, <1>20, <1>21, <1>22 DEF Next, Continuar, Receber

\* The table changes only in the two sections under h.mu, p.sala only in those under
\* p.mu; each takes p to a phase in which the other is expected.
LEMMA PassoTabela == TypeOK /\ TabelaCoerente /\ FaseCoerente /\ [Next]_vars => TabelaCoerente'
<1> SUFFICES ASSUME TypeOK /\ TabelaCoerente /\ FaseCoerente, [Next]_vars PROVE TabelaCoerente'
  OBVIOUS
<1> USE HubAssumption
<1> USE DEF TypeOK, TabelaCoerente, FaseCoerente, Lugar
<1>1. ASSUME NEW p \in Peer, NEW d \in Talvez, Sair(p, d), fase[p] = "lendo" PROVE TabelaCoerente'
  BY <1>1 DEF Sair, DepoisDeSair
<1>2. ASSUME NEW p \in Peer, NEW s \in Sala, Entrar(p, s) PROVE TabelaCoerente'
  BY <1>1, <1>2 DEF Entrar
<1>3. ASSUME NEW p \in Peer, LerErro(p) PROVE TabelaCoerente'
  BY <1>1, <1>3 DEF LerErro
<1>4. ASSUME NEW p \in Peer, Despedir(p) PROVE TabelaCoerente'
  BY <1>4 DEF Despedir, Enviar
<1>5. ASSUME NEW p \in Peer, TerminarSaida(p) PROVE TabelaCoerente'
  BY <1>5 DEF TerminarSaida, DepoisDeSair
<1>6. ASSUME NEW p \in Peer, Encerrar(p) PROVE TabelaCoerente'
  BY <1>6 DEF Encerrar, Fechar
<1>7. ASSUME NEW p \in Peer, Inscrever(p) PROVE TabelaCoerente'
  BY <1>7 DEF Inscrever, JaEstavam
<1>8. ASSUME NEW p \in Peer, RecusarSalaCheia(p) PROVE TabelaCoerente'
  BY <1>8 DEF RecusarSalaCheia
<1>9. ASSUME NEW p \in Peer, Apresentar(p) PROVE TabelaCoerente'
  BY <1>9 DEF Apresentar, Enviar
<1>10. ASSUME NEW p \in Peer, Anunciar(p) PROVE TabelaCoerente'
  BY <1>10 DEF Anunciar, Enviar
<1>11. ASSUME NEW p \in Peer, TerminarEntrada(p) PROVE TabelaCoerente'
  BY <1>11 DEF TerminarEntrada
<1>12. ASSUME NEW p \in Peer, ResponderPing(p) PROVE TabelaCoerente'
  BY <1>12 DEF ResponderPing
<1>13. ASSUME NEW p \in Peer, NEW alvo \in Peer, Repassar(p, alvo) PROVE TabelaCoerente'
  BY <1>13 DEF Repassar
<1>14. ASSUME NEW p \in Peer, EntregarRepasse(p) PROVE TabelaCoerente'
  BY <1>14 DEF EntregarRepasse
<1>15. CASE EsvaziarPings
  BY <1>15 DEF EsvaziarPings
<1>16. ASSUME NEW p \in Peer, FilaEncheu(p) PROVE TabelaCoerente'
  BY <1>16 DEF FilaEncheu
<1>17. ASSUME NEW p \in Peer, Desligar(p) PROVE TabelaCoerente'
  BY <1>17 DEF Desligar
<1>18. CASE UNCHANGED vars
  BY <1>18 DEF vars
<1>19. ASSUME NEW p \in Peer, Remover(p) PROVE TabelaCoerente'
  BY <1>19 DEF Remover, Restantes, VivasSem
<1>20. ASSUME NEW p \in Peer, Escolher(p) PROVE TabelaCoerente'
  BY <1>20 DEF Escolher
<1>21. ASSUME NEW p \in Peer, Esquecer(p) PROVE TabelaCoerente'
  BY <1>21 DEF Esquecer
<1>22. ASSUME NEW p \in Peer, Rejeitar(p) PROVE TabelaCoerente'
  BY <1>22 DEF Rejeitar, Fechar
<1>23. QED
  BY <1>2, <1>3, <1>4, <1>5, <1>6, <1>7, <1>8, <1>9, <1>10, <1>11, <1>12, <1>13,
     <1>14, <1>15, <1>16, <1>17, <1>18, <1>19, <1>20, <1>21, <1>22 DEF Next, Continuar, Receber

\* What a goroutine has recorded as its room is what its phase says.
LEMMA PassoFase == TypeOK /\ FaseCoerente /\ [Next]_vars => FaseCoerente'
<1> SUFFICES ASSUME TypeOK /\ FaseCoerente, [Next]_vars PROVE FaseCoerente'
  OBVIOUS
<1> USE HubAssumption
<1> USE DEF TypeOK, FaseCoerente
<1>1. ASSUME NEW p \in Peer, NEW d \in Talvez, Sair(p, d), fase[p] = "lendo" PROVE FaseCoerente'
  BY <1>1 DEF Sair, DepoisDeSair
<1>2. ASSUME NEW p \in Peer, NEW s \in Sala, Entrar(p, s) PROVE FaseCoerente'
  BY <1>1, <1>2 DEF Entrar
<1>3. ASSUME NEW p \in Peer, LerErro(p) PROVE FaseCoerente'
  BY <1>1, <1>3 DEF LerErro
<1>4. ASSUME NEW p \in Peer, Despedir(p) PROVE FaseCoerente'
  BY <1>4 DEF Despedir, Enviar
<1>5. ASSUME NEW p \in Peer, TerminarSaida(p) PROVE FaseCoerente'
  BY <1>5 DEF TerminarSaida, DepoisDeSair
<1>6. ASSUME NEW p \in Peer, Encerrar(p) PROVE FaseCoerente'
  BY <1>6 DEF Encerrar, Fechar
<1>7. ASSUME NEW p \in Peer, Inscrever(p) PROVE FaseCoerente'
  BY <1>7 DEF Inscrever, JaEstavam
<1>8. ASSUME NEW p \in Peer, RecusarSalaCheia(p) PROVE FaseCoerente'
  BY <1>8 DEF RecusarSalaCheia
<1>9. ASSUME NEW p \in Peer, Apresentar(p) PROVE FaseCoerente'
  BY <1>9 DEF Apresentar, Enviar
<1>10. ASSUME NEW p \in Peer, Anunciar(p) PROVE FaseCoerente'
  BY <1>10 DEF Anunciar, Enviar
<1>11. ASSUME NEW p \in Peer, TerminarEntrada(p) PROVE FaseCoerente'
  BY <1>11 DEF TerminarEntrada
<1>12. ASSUME NEW p \in Peer, ResponderPing(p) PROVE FaseCoerente'
  BY <1>12 DEF ResponderPing
<1>13. ASSUME NEW p \in Peer, NEW alvo \in Peer, Repassar(p, alvo) PROVE FaseCoerente'
  BY <1>13 DEF Repassar
<1>14. ASSUME NEW p \in Peer, EntregarRepasse(p) PROVE FaseCoerente'
  BY <1>14 DEF EntregarRepasse
<1>15. CASE EsvaziarPings
  BY <1>15 DEF EsvaziarPings
<1>16. ASSUME NEW p \in Peer, FilaEncheu(p) PROVE FaseCoerente'
  BY <1>16 DEF FilaEncheu
<1>17. ASSUME NEW p \in Peer, Desligar(p) PROVE FaseCoerente'
  BY <1>17 DEF Desligar
<1>18. CASE UNCHANGED vars
  BY <1>18 DEF vars
<1>19. ASSUME NEW p \in Peer, Remover(p) PROVE FaseCoerente'
  BY <1>19 DEF Remover, Restantes, VivasSem
<1>20. ASSUME NEW p \in Peer, Escolher(p) PROVE FaseCoerente'
  BY <1>20 DEF Escolher
<1>21. ASSUME NEW p \in Peer, Esquecer(p) PROVE FaseCoerente'
  BY <1>21 DEF Esquecer
<1>22. ASSUME NEW p \in Peer, Rejeitar(p) PROVE FaseCoerente'
  BY <1>22 DEF Rejeitar, Fechar
<1>23. QED
  BY <1>2, <1>3, <1>4, <1>5, <1>6, <1>7, <1>8, <1>9, <1>10, <1>11, <1>12, <1>13,
     <1>14, <1>15, <1>16, <1>17, <1>18, <1>19, <1>20, <1>21, <1>22 DEF Next, Continuar, Receber

\* Nobody loses the news of a fellow member: the lists are taken under the lock
\* that makes the newcomer a member.
LEMMA PassoNoticia == TypeOK /\ TabelaCoerente /\ FaseCoerente /\ Noticiados /\ [Next]_vars => Noticiados'
<1> SUFFICES ASSUME TypeOK /\ TabelaCoerente /\ FaseCoerente /\ Noticiados, [Next]_vars PROVE Noticiados'
  OBVIOUS
<1> USE HubAssumption
<1> USE DEF TypeOK, TabelaCoerente, FaseCoerente, Lugar, Noticiados, SabeOuSabera
<1>1. ASSUME NEW p \in Peer, NEW d \in Talvez, Sair(p, d), fase[p] = "lendo" PROVE Noticiados'
  BY <1>1 DEF Sair, DepoisDeSair
<1>2. ASSUME NEW p \in Peer, NEW s \in Sala, Entrar(p, s) PROVE Noticiados'
  BY <1>1, <1>2 DEF Entrar
<1>3. ASSUME NEW p \in Peer, LerErro(p) PROVE Noticiados'
  BY <1>1, <1>3 DEF LerErro
<1>4. ASSUME NEW p \in Peer, Despedir(p) PROVE Noticiados'
  BY <1>4 DEF Despedir, Enviar
<1>5. ASSUME NEW p \in Peer, TerminarSaida(p) PROVE Noticiados'
  BY <1>5 DEF TerminarSaida, DepoisDeSair
<1>6. ASSUME NEW p \in Peer, Encerrar(p) PROVE Noticiados'
  BY <1>6 DEF Encerrar, Fechar
<1>7. ASSUME NEW p \in Peer, Inscrever(p) PROVE Noticiados'
  BY <1>7 DEF Inscrever, JaEstavam
<1>8. ASSUME NEW p \in Peer, RecusarSalaCheia(p) PROVE Noticiados'
  BY <1>8 DEF RecusarSalaCheia
<1>9. ASSUME NEW p \in Peer, Apresentar(p) PROVE Noticiados'
  BY <1>9 DEF Apresentar, Enviar
<1>10. ASSUME NEW p \in Peer, Anunciar(p) PROVE Noticiados'
  BY <1>10 DEF Anunciar, Enviar
<1>11. ASSUME NEW p \in Peer, TerminarEntrada(p) PROVE Noticiados'
  BY <1>11 DEF TerminarEntrada
<1>12. ASSUME NEW p \in Peer, ResponderPing(p) PROVE Noticiados'
  BY <1>12 DEF ResponderPing
<1>13. ASSUME NEW p \in Peer, NEW alvo \in Peer, Repassar(p, alvo) PROVE Noticiados'
  BY <1>13 DEF Repassar
<1>14. ASSUME NEW p \in Peer, EntregarRepasse(p) PROVE Noticiados'
  BY <1>14 DEF EntregarRepasse
<1>15. CASE EsvaziarPings
  BY <1>15 DEF EsvaziarPings
<1>16. ASSUME NEW p \in Peer, FilaEncheu(p) PROVE Noticiados'
  BY <1>16 DEF FilaEncheu
<1>17. ASSUME NEW p \in Peer, Desligar(p) PROVE Noticiados'
  BY <1>17 DEF Desligar
<1>18. CASE UNCHANGED vars
  BY <1>18 DEF vars
<1>19. ASSUME NEW p \in Peer, Remover(p) PROVE Noticiados'
  BY <1>19 DEF Remover, Restantes, VivasSem
<1>20. ASSUME NEW p \in Peer, Escolher(p) PROVE Noticiados'
  BY <1>20 DEF Escolher
<1>21. ASSUME NEW p \in Peer, Esquecer(p) PROVE Noticiados'
  BY <1>21 DEF Esquecer
<1>22. ASSUME NEW p \in Peer, Rejeitar(p) PROVE Noticiados'
  BY <1>22 DEF Rejeitar, Fechar
<1>23. QED
  BY <1>2, <1>3, <1>4, <1>5, <1>6, <1>7, <1>8, <1>9, <1>10, <1>11, <1>12, <1>13,
     <1>14, <1>15, <1>16, <1>17, <1>18, <1>19, <1>20, <1>21, <1>22 DEF Next, Continuar, Receber

\* IndInv holds in every reachable state.
THEOREM IndInvSempre == Spec => []IndInv
<1>1. IndInv /\ [Next]_vars => IndInv'
  BY PassoTipo, PassoTabela, PassoFase, PassoNoticia DEF IndInv
<1>2. QED
  BY InicioIndInv, <1>1, PTL DEF Spec

\* Type correctness of the room table and of every goroutine's locals.
THEOREM TipoSempre == Spec => []TypeOK
<1>1. IndInv => TypeOK
  BY DEF IndInv
<1>2. QED
  BY IndInvSempre, <1>1, PTL

\* A connection is listed in the room it recorded and in no other, or, between the
\* sections of p.mu and h.mu, where the section that is missing expects it; and the map
\* holds exactly the rooms with members, whatever joins and departures overlap.
THEOREM TabelaSempre == Spec => []TabelaCoerente
<1>1. IndInv => TabelaCoerente
  BY DEF IndInv
<1>2. QED
  BY IndInvSempre, <1>1, PTL

\* No goroutine that has returned leaves its connection behind in a room.
THEOREM NinguemAbandonado == Spec => []SemAbandonado
<1>1. IndInv => SemAbandonado
  BY HubAssumption DEF IndInv, TabelaCoerente, Lugar, FaseCoerente, SemAbandonado
<1>2. QED
  BY IndInvSempre, <1>1, PTL

\* Two settled members of a room have been told of each other.
THEOREM TodosApresentados == Spec => []Apresentados
<1>1. IndInv => Apresentados
  BY DEF IndInv, Noticiados, SabeOuSabera, Apresentados, Assentado, TypeOK
<1>2. QED
  BY IndInvSempre, <1>1, PTL

\* A relayed message comes from somebody its recipient has been told of.
THEOREM RemetenteSempreConhecido == Spec => []RemetenteConhecido
<1>1. IndInv => RemetenteConhecido
  <2> SUFFICES ASSUME IndInv, NEW q \in Peer, fase[q] = "repassar",
                      NEW p \in avisar[q] \ {q}, p \in salas[sala[q]], Aberta(p)
               PROVE  q \in visao[p] \/ (fase[p] = "apresentar" /\ q \in avisar[p])
    BY DEF RemetenteConhecido
  <2>1. p \in Peer /\ p # q
    BY DEF IndInv, TypeOK
  <2>2. sala[q] \in Sala /\ Lugar(q) = sala[q]
    BY DEF IndInv, TypeOK, FaseCoerente, Lugar
  <2>3. q \in salas[sala[q]]
    BY <2>2 DEF IndInv, TabelaCoerente
  <2>4. SabeOuSabera(p, q)
    BY <2>1, <2>2, <2>3 DEF IndInv, Noticiados
  <2>5. QED
    BY <2>4 DEF SabeOuSabera
<1>2. QED
  BY IndInvSempre, <1>1, PTL

-----------------------------------------------------------------------------
\* A member added below the limit does not pass it.
LEMMA MaisUm ==
  ASSUME NEW S \in SUBSET Peer, NEW p \in Peer, NEW n \in Nat, ~(Cardinality(S) >= n)
  PROVE  Cardinality(S \cup {p}) <= n
<1>1. IsFiniteSet(S)
  BY HubAssumption, FS_Subset
<1>2. Cardinality(S) \in Nat
  BY <1>1, FS_CardinalityType
<1>3. Cardinality(S \cup {p}) <= Cardinality(S) + 1
  BY <1>1, <1>2, FS_AddElement
<1>4. Cardinality(S \cup {p}) \in Nat
  BY <1>1, FS_AddElement, FS_CardinalityType
<1>5. QED
  BY <1>2, <1>3, <1>4

\* A member less does not pass it either.
LEMMA MenosUm ==
  ASSUME NEW S \in SUBSET Peer, NEW p \in Peer, NEW n \in Nat, Cardinality(S) <= n
  PROVE  Cardinality(S \ {p}) <= n
<1>1. IsFiniteSet(S)
  BY HubAssumption, FS_Subset
<1>2. /\ IsFiniteSet(S \ {p})
      /\ Cardinality(S \ {p}) <= Cardinality(S)
  BY <1>1, FS_Subset
<1>3. Cardinality(S) \in Nat /\ Cardinality(S \ {p}) \in Nat
  BY <1>1, <1>2, FS_CardinalityType
<1>4. QED
  BY <1>2, <1>3

\* The check of the limit and the inclusion are one section under h.mu, so no
\* overlap of joins takes a room over GREENLABS_MAX_POR_SALA.
THEOREM LimiteSempre == Spec => []LimiteRespeitado
<1>1. Init => LimiteRespeitado
  BY FS_EmptySet, HubAssumption DEF Init, LimiteRespeitado
<1>2. TypeOK /\ LimiteRespeitado /\ [Next]_vars => LimiteRespeitado'
  <2> SUFFICES ASSUME TypeOK, LimiteRespeitado, [Next]_vars PROVE LimiteRespeitado'
    OBVIOUS
  <2>0. limitePorSala \in Nat /\ UNCHANGED limitePorSala
    BY HubAssumption DEF TypeOK, Next, vars, Continuar, Receber, Entrar, LerErro, Sair, Despedir,
           TerminarSaida, Encerrar, Remover, Inscrever, RecusarSalaCheia, Esquecer, Rejeitar,
           Escolher, Apresentar, Anunciar, TerminarEntrada, ResponderPing, Repassar, EntregarRepasse, EsvaziarPings,
           FilaEncheu, Desligar
  <2>1. CASE UNCHANGED salas
    BY <2>0, <2>1 DEF LimiteRespeitado
  <2>2. ASSUME NEW p \in Peer, Remover(p) PROVE LimiteRespeitado'
    <3>1. deixada[p] \in Sala /\ salas[deixada[p]] \in SUBSET Peer
      BY <2>2 DEF Remover, TypeOK
    <3>2. Cardinality(salas[deixada[p]] \ {p}) <= limitePorSala
      BY <2>0, <3>1, MenosUm DEF LimiteRespeitado
    <3>3. QED
      BY <2>0, <2>2, <3>1, <3>2 DEF Remover, Restantes, TypeOK, LimiteRespeitado
  <2>3. ASSUME NEW p \in Peer, Inscrever(p) PROVE LimiteRespeitado'
    <3>1. destino[p] \in Sala /\ salas[destino[p]] \in SUBSET Peer
      BY <2>3 DEF Inscrever, TypeOK
    <3>2. Cardinality(salas[destino[p]] \cup {p}) <= limitePorSala
      BY <2>0, <2>3, <3>1, MaisUm DEF Inscrever, Cheia
    <3>3. QED
      BY <2>0, <2>3, <3>1, <3>2 DEF Inscrever, TypeOK, LimiteRespeitado
  <2>4. \/ UNCHANGED salas
        \/ \E p \in Peer : Remover(p) \/ Inscrever(p)
    BY DEF Next, vars, Continuar, Receber, Entrar, LerErro, Sair, Despedir,
           TerminarSaida, Encerrar, RecusarSalaCheia, Esquecer, Rejeitar,
           Escolher, Apresentar, Anunciar, TerminarEntrada, ResponderPing, Repassar, EntregarRepasse, EsvaziarPings,
           FilaEncheu, Desligar
  <2>5. QED
    BY <2>1, <2>2, <2>3, <2>4
<1>3. QED
  BY <1>1, <1>2, TipoSempre, PTL DEF Spec
=============================================================================
