--------------------------- MODULE ServidorProofs ---------------------------
(***************************************************************************)
(* Proofs about Servidor, for any number of clients and of places.         *)
(***************************************************************************)
EXTENDS Servidor, TLAPS, FiniteSetTheorems

USE DEF Etapa, goroutines, encerramento

-----------------------------------------------------------------------------
\* Types, without the bound on the places, which is a consequence of their count.
TiposSemVagas ==
  /\ etapa \in [Conexoes -> Etapa]
  /\ vagas \in Nat
  /\ conexoes \in SUBSET Conexoes
  /\ encerrando \in BOOLEAN
  /\ fechado \in SUBSET Conexoes
  /\ rede \in SUBSET Conexoes
  /\ escritor \in SUBSET Conexoes
  /\ coracao \in SUBSET Conexoes
  /\ midia \in SUBSET Conexoes
  /\ escutando \in BOOLEAN
  /\ passo \in {"espera", "fecha", "desliga", "fim"}
  /\ aFechar \in SUBSET Conexoes
  /\ midiaFechada \in BOOLEAN

VagasInv ==
  /\ TiposSemVagas
  /\ VagasConservadas
  /\ vagas <= maximoConexoes

LEMMA VagasInit == Init => VagasInv
<1> SUFFICES ASSUME Init PROVE VagasInv
  OBVIOUS
<1>1. ComVaga = {}
  BY DEF Init, ComVaga
<1>2. Cardinality(ComVaga) = 0
  BY <1>1, FS_EmptySet
<1>3. VagasConservadas
  BY <1>2 DEF VagasConservadas, Init
<1>4. TiposSemVagas
  BY DEF TiposSemVagas, Init
<1>5. vagas <= maximoConexoes
  BY ServidorAssumption DEF Init
<1> QED BY <1>3, <1>4, <1>5 DEF VagasInv

LEMMA ComVagaFinito == IsFiniteSet(ComVaga)
  BY ServidorAssumption, FS_Subset DEF ComVaga

\* A step that moves c between two places that both hold a slot, or none at all, leaves
\* the count alone.
LEMMA ComVagaMesma ==
  ASSUME TiposSemVagas, NEW c \in Conexoes, NEW onde \in Etapa \ {"fora", "fim"},
         etapa[c] \notin {"fora", "fim"}, Ir(c, onde)
  PROVE  ComVaga' = ComVaga
  BY DEF TiposSemVagas, Ir, ComVaga

LEMMA VagasStep == VagasInv /\ [Next]_vars => VagasInv'
<1> SUFFICES ASSUME VagasInv, [Next]_vars PROVE VagasInv'
  OBVIOUS
<1> USE ServidorAssumption
<1>1. ASSUME NEW c \in Conexoes, TomarVaga(c) PROVE VagasInv'
  <2>1. TiposSemVagas' /\ vagas' <= maximoConexoes
    BY <1>1 DEF TomarVaga, TemVaga, Ir, VagasInv, TiposSemVagas
  <2>2. CASE TemVaga
    <3>1. ComVaga' = ComVaga \cup {c} /\ c \notin ComVaga
      BY <1>1, <2>2 DEF TomarVaga, Ir, ComVaga, VagasInv, TiposSemVagas
    <3>2. Cardinality(ComVaga') = Cardinality(ComVaga) + 1
      BY <3>1, ComVagaFinito, FS_AddElement
    <3> QED BY <1>1, <2>1, <2>2, <3>2 DEF TomarVaga, VagasInv, VagasConservadas
  <2>3. CASE ~TemVaga
    <3>1. ComVaga' = ComVaga
      BY <1>1, <2>3 DEF TomarVaga, Ir, ComVaga, VagasInv, TiposSemVagas
    <3> QED BY <1>1, <2>1, <2>3, <3>1 DEF TomarVaga, VagasInv, VagasConservadas
  <2> QED BY <2>2, <2>3
<1>2. ASSUME NEW c \in Conexoes, DevolverVaga(c) PROVE VagasInv'
  <2>1. c \in ComVaga /\ ComVaga' = ComVaga \ {c}
    BY <1>2 DEF DevolverVaga, Ir, ComVaga, VagasInv, TiposSemVagas
  <2>2. Cardinality(ComVaga') = Cardinality(ComVaga) - 1
    BY <2>1, ComVagaFinito, FS_RemoveElement
  <2>3. Cardinality(ComVaga) \in Nat /\ Cardinality(ComVaga') \in Nat
    BY <2>1, ComVagaFinito, FS_CardinalityType, FS_Subset
  <2>4. VagasConservadas' /\ vagas' \in Nat /\ vagas' <= maximoConexoes
    BY <1>2, <2>2, <2>3 DEF DevolverVaga, VagasInv, VagasConservadas
  <2> QED BY <1>2, <2>4 DEF DevolverVaga, Ir, VagasInv, TiposSemVagas
<1>3. ASSUME NEW c \in Conexoes, Apertar(c) \/ Registrar(c) \/ LerErro(c) \/ Sair(c) \/ DarBaixa(c)
      PROVE VagasInv'
  <2>1. \E onde \in Etapa \ {"fora", "fim"} : etapa[c] \notin {"fora", "fim"} /\ Ir(c, onde)
    BY <1>3 DEF Apertar, Registrar, LerErro, Sair, DarBaixa
  <2>2. ComVaga' = ComVaga
    BY <2>1, ComVagaMesma DEF VagasInv
  <2>3. vagas' = vagas
    BY <1>3 DEF Apertar, Registrar, LerErro, Sair, DarBaixa
  <2>4. TiposSemVagas'
    BY <1>3, <2>3 DEF Apertar, Registrar, LerErro, Sair, DarBaixa, Ir, VagasInv, TiposSemVagas
  <2> QED BY <2>2, <2>3, <2>4 DEF VagasInv, VagasConservadas
<1>4. ASSUME UNCHANGED <<etapa, vagas>>, TiposSemVagas' PROVE VagasInv'
  BY <1>4 DEF VagasInv, VagasConservadas, ComVaga
<1>5. ASSUME NEW c \in Conexoes, AbrirMidia(c) \/ FecharPorFora(c) \/ PararEscritor(c) \/ PararCoracao(c)
      PROVE VagasInv'
  BY <1>4, <1>5 DEF AbrirMidia, FecharPorFora, PararEscritor, PararCoracao, VagasInv, TiposSemVagas
<1>6. CASE ComecarFechar \/ FecharUma \/ Desligar \/ FecharMidia
  BY <1>4, <1>6 DEF ComecarFechar, FecharUma, Desligar, FecharMidia, VagasInv, TiposSemVagas
<1>7. CASE UNCHANGED vars
  BY <1>4, <1>7 DEF vars, VagasInv, TiposSemVagas
<1> QED BY <1>1, <1>2, <1>3, <1>5, <1>6, <1>7 DEF Next, Passo, Encerramento

LEMMA VagasSempre == Spec => []VagasInv
  BY VagasInit, VagasStep, PTL DEF Spec

\* The variables have their types, and the places taken never exceed their number.
THEOREM TipoSempre == Spec => []TypeOK
<1>1. VagasInv => TypeOK
  BY ServidorAssumption DEF VagasInv, TiposSemVagas, TypeOK
<1> QED BY <1>1, VagasSempre, PTL

\* Every handler that returns has given back the place it took, for any number of
\* clients and of places.
THEOREM VagasSempreConservadas == Spec => []VagasConservadas
<1>1. VagasInv => VagasConservadas
  BY DEF VagasInv
<1> QED BY <1>1, VagasSempre, PTL

-----------------------------------------------------------------------------
USE DEF SocketFechado, FechadaDeVez

LEMMA EscapeStep == TiposSemVagas /\ EscapeCoberto /\ [Next]_vars => EscapeCoberto'
<1> SUFFICES ASSUME TiposSemVagas, EscapeCoberto, [Next]_vars PROVE EscapeCoberto'
  OBVIOUS
<1> USE DEF TiposSemVagas, EscapeCoberto, Ir
<1>1. ASSUME NEW c \in Conexoes, TomarVaga(c) PROVE EscapeCoberto'
  BY <1>1 DEF TomarVaga
<1>2. ASSUME NEW c \in Conexoes, Apertar(c) PROVE EscapeCoberto'
  BY <1>2 DEF Apertar
<1>3. ASSUME NEW c \in Conexoes, Registrar(c) PROVE EscapeCoberto'
  BY <1>3 DEF Registrar
<1>4. ASSUME NEW c \in Conexoes, AbrirMidia(c) PROVE EscapeCoberto'
  BY <1>4 DEF AbrirMidia
<1>5. ASSUME NEW c \in Conexoes, LerErro(c) PROVE EscapeCoberto'
  BY <1>5 DEF LerErro
<1>6. ASSUME NEW c \in Conexoes, Sair(c) PROVE EscapeCoberto'
  BY <1>6 DEF Sair
<1>7. ASSUME NEW c \in Conexoes, DarBaixa(c) PROVE EscapeCoberto'
  BY <1>7 DEF DarBaixa
<1>8. ASSUME NEW c \in Conexoes, DevolverVaga(c) PROVE EscapeCoberto'
  BY <1>8 DEF DevolverVaga
<1>9. ASSUME NEW c \in Conexoes, FecharPorFora(c) PROVE EscapeCoberto'
  BY <1>9 DEF FecharPorFora
<1>10. ASSUME NEW c \in Conexoes, PararEscritor(c) PROVE EscapeCoberto'
  BY <1>10 DEF PararEscritor
<1>11. ASSUME NEW c \in Conexoes, PararCoracao(c) PROVE EscapeCoberto'
  BY <1>11 DEF PararCoracao
<1>12. CASE ComecarFechar
  BY <1>12 DEF ComecarFechar
<1>13. CASE FecharUma
  BY <1>13 DEF FecharUma
<1>14. CASE Desligar
  BY <1>14 DEF Desligar
<1>15. CASE FecharMidia
  BY <1>15 DEF FecharMidia
<1>16. CASE UNCHANGED vars
  BY <1>16 DEF vars
<1> QED
  BY <1>1, <1>2, <1>3, <1>4, <1>5, <1>6, <1>7, <1>8, <1>9, <1>10, <1>11, <1>12, <1>13,
     <1>14, <1>15, <1>16 DEF Next, Passo, Encerramento

\* Once Fechar has walked its copy of s.conexoes every registered connection is closed,
\* whatever handshakes were in progress: the flag and the copy are one section, and the
\* flag is read in the section that registers.
THEOREM NenhumaEscapaNunca == Spec => []NenhumaEscapa
<1>1. Init => EscapeCoberto
  BY DEF Init, EscapeCoberto
<1>2. VagasInv => TiposSemVagas
  BY DEF VagasInv
<1>3. EscapeCoberto => NenhumaEscapa
  BY DEF EscapeCoberto, NenhumaEscapa
<1> QED BY <1>1, <1>2, <1>3, VagasSempre, EscapeStep, PTL DEF Spec

LEMMA MidiaStep == TiposSemVagas /\ MidiaRegistrada /\ [Next]_vars => MidiaRegistrada'
<1> SUFFICES ASSUME TiposSemVagas, MidiaRegistrada, [Next]_vars PROVE MidiaRegistrada'
  OBVIOUS
<1> USE DEF TiposSemVagas, MidiaRegistrada, Ir
<1>1. ASSUME NEW c \in Conexoes, TomarVaga(c) PROVE MidiaRegistrada'
  BY <1>1 DEF TomarVaga
<1>2. ASSUME NEW c \in Conexoes, Apertar(c) PROVE MidiaRegistrada'
  BY <1>2 DEF Apertar
<1>3. ASSUME NEW c \in Conexoes, Registrar(c) PROVE MidiaRegistrada'
  BY <1>3 DEF Registrar
<1>4. ASSUME NEW c \in Conexoes, AbrirMidia(c) PROVE MidiaRegistrada'
  BY <1>4 DEF AbrirMidia
<1>5. ASSUME NEW c \in Conexoes, LerErro(c) PROVE MidiaRegistrada'
  BY <1>5 DEF LerErro
<1>6. ASSUME NEW c \in Conexoes, Sair(c) PROVE MidiaRegistrada'
  BY <1>6 DEF Sair
<1>7. ASSUME NEW c \in Conexoes, DarBaixa(c) PROVE MidiaRegistrada'
  BY <1>7 DEF DarBaixa
<1>8. ASSUME NEW c \in Conexoes, DevolverVaga(c) PROVE MidiaRegistrada'
  BY <1>8 DEF DevolverVaga
<1>9. ASSUME NEW c \in Conexoes, FecharPorFora(c) \/ PararEscritor(c) \/ PararCoracao(c)
      PROVE MidiaRegistrada'
  BY <1>9 DEF FecharPorFora, PararEscritor, PararCoracao
<1>10. CASE ComecarFechar \/ FecharUma \/ Desligar
  BY <1>10 DEF ComecarFechar, FecharUma, Desligar
<1>11. CASE FecharMidia
  BY <1>11 DEF FecharMidia
<1>12. CASE UNCHANGED vars
  BY <1>12 DEF vars
<1> QED
  BY <1>1, <1>2, <1>3, <1>4, <1>5, <1>6, <1>7, <1>8, <1>9, <1>10, <1>11, <1>12
  DEF Next, Passo, Encerramento

\* When main releases the media port, every session still open is of a connection that
\* Fechar closed: it follows from the two invariants above, since the handler of a
\* session is that of a registered connection.
THEOREM MidiaSempreDeFechadas == Spec => []MidiaPorUltimo
<1>1. Init => EscapeCoberto /\ MidiaRegistrada
  BY DEF Init, EscapeCoberto, MidiaRegistrada
<1>2. VagasInv => TiposSemVagas
  BY DEF VagasInv
<1>3. TiposSemVagas /\ EscapeCoberto /\ MidiaRegistrada => MidiaPorUltimo
  BY DEF TiposSemVagas, EscapeCoberto, MidiaRegistrada, MidiaPorUltimo
<1> QED BY <1>1, <1>2, <1>3, VagasSempre, EscapeStep, MidiaStep, PTL DEF Spec

LEMMA FechoStep == TiposSemVagas /\ FechoAssegurado /\ [Next]_vars => FechoAssegurado'
<1> SUFFICES ASSUME TiposSemVagas, FechoAssegurado, [Next]_vars PROVE FechoAssegurado'
  OBVIOUS
<1> USE DEF TiposSemVagas, FechoAssegurado, Ir
<1>1. ASSUME NEW c \in Conexoes, TomarVaga(c) \/ Apertar(c) PROVE FechoAssegurado'
  BY <1>1 DEF TomarVaga, Apertar
<1>2. ASSUME NEW c \in Conexoes, Registrar(c) PROVE FechoAssegurado'
  BY <1>2 DEF Registrar
<1>3. ASSUME NEW c \in Conexoes, AbrirMidia(c) \/ LerErro(c) PROVE FechoAssegurado'
  BY <1>3 DEF AbrirMidia, LerErro
<1>4. ASSUME NEW c \in Conexoes, Sair(c) PROVE FechoAssegurado'
  BY <1>4 DEF Sair
<1>5. ASSUME NEW c \in Conexoes, DarBaixa(c) \/ DevolverVaga(c) PROVE FechoAssegurado'
  BY <1>5 DEF DarBaixa, DevolverVaga
<1>6. ASSUME NEW c \in Conexoes, FecharPorFora(c) \/ PararCoracao(c) PROVE FechoAssegurado'
  BY <1>6 DEF FecharPorFora, PararCoracao
<1>7. ASSUME NEW c \in Conexoes, PararEscritor(c) PROVE FechoAssegurado'
  BY <1>7 DEF PararEscritor
<1>8. CASE FecharUma
  BY <1>8 DEF FecharUma
<1>9. CASE ComecarFechar \/ Desligar \/ FecharMidia
  BY <1>9 DEF ComecarFechar, Desligar, FecharMidia
<1>10. CASE UNCHANGED vars
  BY <1>10 DEF vars
<1> QED
  BY <1>1, <1>2, <1>3, <1>4, <1>5, <1>6, <1>7, <1>8, <1>9, <1>10 DEF Next, Passo, Encerramento

\* No socket is left open and no writer or heartbeat left running without somebody who
\* has still to close the one and stop the others, for any number of clients and
\* whenever the shutdown comes (atenderWebSocket, Escritor, Fechar).
THEOREM FechoSempreAssegurado == Spec => []FechoAssegurado
<1>1. Init => FechoAssegurado
  BY DEF Init, FechoAssegurado
<1>2. VagasInv => TiposSemVagas
  BY DEF VagasInv
<1> QED BY <1>1, <1>2, VagasSempre, FechoStep, PTL DEF Spec
=============================================================================
