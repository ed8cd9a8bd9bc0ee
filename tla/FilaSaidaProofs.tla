-------------------------- MODULE FilaSaidaProofs --------------------------
(***************************************************************************)
(* The send side of a connection (module FilaSaida), for any number of     *)
(* senders and any limits: nothing is left out of what a sender sent       *)
(* (FilaInv), every step is one of the abstract connection (module         *)
(* Conexao) or none, and the byte counter is exact and keeps the channel   *)
(* within its limit (ContaInv).                                            *)
(***************************************************************************)
EXTENDS FilaSaida, SequenceTheorems, FiniteSetTheorems, TLAPS

Tipos ==
  /\ saida \in Seq(Quadro)
  /\ mao \in Seq(Quadro)
  /\ fluxo \in Seq(Quadro)
  /\ fechado \in BOOLEAN
  /\ passo \in [Remetente -> {"fora", "conferiu", "reservou", "devolver", "recusado", "fechando"}]
  /\ n \in [Remetente -> Nat]
  /\ tamanho \in [Remetente -> Tamanhos \cup {0}]
  /\ rejeita \in [Remetente -> BOOLEAN]
  /\ \A r \in Remetente : passo[r] # "fora" => n[r] \in 1..MaxEnvios /\ tamanho[r] \in Tamanhos
  /\ escritor \in {"pega", "debita", "escreve", "falhou", "fim", "quebrado"}
  /\ drenando \in BOOLEAN

\* Where the writer and the senders are, and what they know by then.
Etapas ==
  /\ escritor \in {"debita", "escreve"} => Len(mao) = 1
  /\ escritor \notin {"debita", "escreve"} => mao = <<>>
  /\ drenando => fechado
  /\ \A r \in Remetente : passo[r] = "recusado" => fechado

\* The frames that were accepted, written or not, while no write has failed.
Aceitos == fluxo \o (mao \o saida)

\* The last call of r whose frame may be among them.
Ultima(r) == IF passo[r] \in {"conferiu", "reservou"} THEN n[r] - 1 ELSE n[r]

\* A frame of r may still be accepted: a call that was refused goes on to close.
Continua(r) == passo[r] \in {"conferiu", "reservou"} \/ (passo[r] = "fora" /\ ~fechado)

\* A sender that may still have a frame accepted has had all the others accepted.
Completa ==
  /\ EmOrdem(Aceitos)
  /\ \A r \in Remetente : \A i \in DOMAIN Aceitos :
       Aceitos[i].de = r => Aceitos[i].n <= Ultima(r)
  /\ \A r \in Remetente : Continua(r) /\ Ultima(r) > 0 =>
       \E i \in DOMAIN Aceitos : Aceitos[i].de = r /\ Aceitos[i].n = Ultima(r)

FilaInv ==
  /\ Tipos
  /\ Etapas
  /\ SemLacuna
  /\ escritor \notin {"falhou", "quebrado"} => Completa

-----------------------------------------------------------------------------
\* A sequence that is in order stays so without what follows in it.
LEMMA OrdemDoComeco ==
  ASSUME NEW s \in Seq(Quadro), NEW t \in Seq(Quadro), EmOrdem(s \o t)
  PROVE EmOrdem(s)
<1> DEFINE u == s \o t
<1>1. /\ u \in Seq(Quadro) /\ Len(s) \in Nat /\ Len(t) \in Nat
      /\ DOMAIN s = 1..Len(s) /\ DOMAIN u = 1..(Len(s) + Len(t))
      /\ \A i \in 1..Len(s) : u[i] = s[i]
  BY ConcatProperties, LenProperties
<1> HIDE DEF u
<1>2. EmOrdem(u)
  BY DEF u
<1> SUFFICES ASSUME NEW i \in DOMAIN s
             PROVE /\ s[i].n > 1 => \E j \in 1..(i - 1) : s[j].de = s[i].de /\ s[j].n = s[i].n - 1
                   /\ \A j \in 1..(i - 1) : s[j].de = s[i].de => s[j].n < s[i].n
  BY DEF EmOrdem
<1>3. i \in 1..Len(s) /\ i \in DOMAIN u /\ u[i] = s[i] /\ \A j \in 1..(i - 1) : u[j] = s[j]
  BY <1>1
<1>4. /\ u[i].n > 1 => \E j \in 1..(i - 1) : u[j].de = u[i].de /\ u[j].n = u[i].n - 1
      /\ \A j \in 1..(i - 1) : u[j].de = u[i].de => u[j].n < u[i].n
  BY <1>2, <1>3 DEF EmOrdem
<1> QED BY <1>3, <1>4

\* The next frame of a sender keeps the order.
LEMMA OrdemDoProximo ==
  ASSUME NEW s \in Seq(Quadro), NEW q \in Quadro, EmOrdem(s),
         \A i \in DOMAIN s : s[i].de = q.de => s[i].n < q.n,
         q.n > 1 => \E i \in DOMAIN s : s[i].de = q.de /\ s[i].n = q.n - 1
  PROVE EmOrdem(Append(s, q))
<1> DEFINE u == Append(s, q)
<1>1. /\ Len(s) \in Nat /\ DOMAIN s = 1..Len(s) /\ DOMAIN u = 1..(Len(s) + 1)
      /\ \A i \in 1..Len(s) : u[i] = s[i]
      /\ u[Len(s) + 1] = q
  BY AppendProperties, LenProperties
<1> HIDE DEF u
<1> SUFFICES ASSUME NEW i \in DOMAIN u
             PROVE /\ u[i].n > 1 => \E j \in 1..(i - 1) : u[j].de = u[i].de /\ u[j].n = u[i].n - 1
                   /\ \A j \in 1..(i - 1) : u[j].de = u[i].de => u[j].n < u[i].n
  BY DEF EmOrdem, u
<1>2. CASE i \in DOMAIN s
  <2>1. u[i] = s[i] /\ \A j \in 1..(i - 1) : u[j] = s[j]
    BY <1>1, <1>2
  <2>2. /\ s[i].n > 1 => \E j \in 1..(i - 1) : s[j].de = s[i].de /\ s[j].n = s[i].n - 1
        /\ \A j \in 1..(i - 1) : s[j].de = s[i].de => s[j].n < s[i].n
    BY <1>2 DEF EmOrdem
  <2> QED BY <2>1, <2>2
<1>3. CASE i = Len(s) + 1
  <2>1. u[i] = q /\ 1..(i - 1) = DOMAIN s /\ \A j \in 1..(i - 1) : u[j] = s[j]
    BY <1>1, <1>3
  <2> QED BY <2>1
<1> QED BY <1>1, <1>2, <1>3

LEMMA AceitosSaoQuadros ==
  ASSUME Tipos
  PROVE /\ Aceitos \in Seq(Quadro) /\ DOMAIN Aceitos = 1..Len(Aceitos) /\ Len(Aceitos) \in Nat
        /\ mao \o saida \in Seq(Quadro)
<1>1. mao \o saida \in Seq(Quadro)
  BY ConcatProperties DEF Tipos
<1>2. Aceitos \in Seq(Quadro)
  BY <1>1, ConcatProperties DEF Tipos, Aceitos
<1> QED BY <1>1, <1>2, LenProperties

LEMMA UltimaInteira ==
  ASSUME Tipos, NEW r \in Remetente
  PROVE Ultima(r) \in Int
<1>1. n[r] \in Nat
  BY DEF Tipos
<1> QED BY <1>1 DEF Ultima

LEMMA UltimaInteiraDepois ==
  ASSUME Tipos', NEW r \in Remetente
  PROVE Ultima(r)' \in Int
<1>1. n'[r] \in Nat
  BY DEF Tipos
<1> QED BY <1>1 DEF Ultima

\* A step that accepts no frame and brings back no sender that was refused.
LEMMA MesmosAceitos ==
  ASSUME Completa, Tipos, Tipos', Aceitos' = Aceitos,
         \A r \in Remetente : Ultima(r)' >= Ultima(r),
         \A r \in Remetente : Continua(r)' => Continua(r) /\ Ultima(r)' = Ultima(r)
  PROVE Completa'
<1>1. EmOrdem(Aceitos)'
  <2>1. EmOrdem(Aceitos)
    BY DEF Completa
  <2> QED BY <2>1 DEF EmOrdem
<1>2. ASSUME NEW r \in Remetente, NEW i \in DOMAIN Aceitos', Aceitos'[i].de = r
      PROVE Aceitos'[i].n <= Ultima(r)'
  <2>1. i \in DOMAIN Aceitos /\ Aceitos[i] \in Quadro /\ Aceitos'[i] = Aceitos[i]
    BY <1>2, AceitosSaoQuadros, ElementOfSeq
  <2>2. Aceitos[i].n \in Int
    BY <2>1 DEF Quadro
  <2>3. Aceitos[i].n <= Ultima(r)
    BY <2>1, <1>2 DEF Completa
  <2>4. Ultima(r) \in Int /\ Ultima(r)' \in Int
    BY UltimaInteira, UltimaInteiraDepois
  <2>5. Ultima(r)' >= Ultima(r)
    OBVIOUS
  <2> QED BY <2>1, <2>2, <2>3, <2>4, <2>5
<1>3. ASSUME NEW r \in Remetente, Continua(r)', Ultima(r)' > 0
      PROVE \E i \in DOMAIN Aceitos' : Aceitos'[i].de = r /\ Aceitos'[i].n = Ultima(r)'
  <2>1. \E i \in DOMAIN Aceitos : Aceitos[i].de = r /\ Aceitos[i].n = Ultima(r)
    BY <1>3 DEF Completa
  <2> QED BY <2>1, <1>3
<1> QED BY <1>1, <1>2, <1>3 DEF Completa

\* The next frame of r is accepted.
LEMMA MaisUmAceito ==
  ASSUME Completa, Tipos, Tipos', NEW r \in Remetente, passo[r] = "reservou",
         Aceitos' = Append(Aceitos, MeuQuadro(r)), UNCHANGED <<n, fechado>>,
         \A q \in Remetente \ {r} : passo'[q] = passo[q],
         passo'[r] \notin {"conferiu", "reservou"}
  PROVE Completa'
<1> DEFINE q == MeuQuadro(r)
<1>1. q \in Quadro /\ q.de = r /\ q.n = n[r] /\ n[r] \in Nat /\ n[r] > 0
  BY DEF MeuQuadro, Quadro, Tipos
<1>2. /\ Len(Aceitos) \in Nat /\ DOMAIN Aceitos = 1..Len(Aceitos)
      /\ DOMAIN Aceitos' = 1..(Len(Aceitos) + 1)
      /\ \A i \in 1..Len(Aceitos) : Aceitos'[i] = Aceitos[i] /\ Aceitos[i] \in Quadro
      /\ Aceitos'[Len(Aceitos) + 1] = q
  BY <1>1, AceitosSaoQuadros, AppendProperties, LenProperties, ElementOfSeq
<1> HIDE DEF q
<1>3. Ultima(r) = n[r] - 1 /\ Ultima(r)' = n[r]
  BY DEF Ultima
<1>4. Continua(r)
  BY DEF Continua
<1>5. \A s \in Remetente \ {r} : Ultima(s)' = Ultima(s) /\ (Continua(s)' => Continua(s))
  BY DEF Ultima, Continua
<1>6. EmOrdem(Aceitos)'
  <2>1. \A i \in DOMAIN Aceitos : Aceitos[i].de = q.de => Aceitos[i].n < q.n
    <3> SUFFICES ASSUME NEW i \in DOMAIN Aceitos, Aceitos[i].de = q.de
                 PROVE Aceitos[i].n < q.n
      OBVIOUS
    <3>1. Aceitos[i].n <= n[r] - 1
      BY <1>1, <1>3 DEF Completa
    <3>2. Aceitos[i].n \in Int
      BY <1>2 DEF Quadro
    <3> QED BY <3>1, <3>2, <1>1
  <2>2. q.n > 1 => \E i \in DOMAIN Aceitos : Aceitos[i].de = q.de /\ Aceitos[i].n = q.n - 1
    BY <1>1, <1>3, <1>4 DEF Completa
  <2>3. EmOrdem(Append(Aceitos, q))
    BY <1>1, <2>1, <2>2, AceitosSaoQuadros, OrdemDoProximo DEF Completa
  <2>4. Aceitos' = Append(Aceitos, q)
    BY DEF q
  <2> QED BY <2>3, <2>4 DEF EmOrdem
<1>7. ASSUME NEW s \in Remetente, NEW i \in DOMAIN Aceitos', Aceitos'[i].de = s
      PROVE Aceitos'[i].n <= Ultima(s)'
  <2>1. CASE i = Len(Aceitos) + 1
    <3>1. Aceitos'[i] = q
      BY <2>1, <1>2
    <3>2. s = r /\ Aceitos'[i].n = n[r]
      BY <3>1, <1>1, <1>7
    <3> QED BY <3>2, <1>1, <1>3
  <2>2. CASE i \in DOMAIN Aceitos
    <3>1. Aceitos'[i] = Aceitos[i] /\ Aceitos[i].n \in Int
      BY <2>2, <1>2 DEF Quadro
    <3>2. Aceitos[i].n <= Ultima(s)
      BY <3>1, <2>2, <1>7 DEF Completa
    <3>3. CASE s = r
      BY <3>1, <3>2, <3>3, <1>1, <1>3
    <3>4. CASE s # r
      BY <3>1, <3>2, <3>4, <1>5
    <3> QED BY <3>3, <3>4
  <2> QED BY <2>1, <2>2, <1>2, <1>7
<1>8. ASSUME NEW s \in Remetente, Continua(s)', Ultima(s)' > 0
      PROVE \E i \in DOMAIN Aceitos' : Aceitos'[i].de = s /\ Aceitos'[i].n = Ultima(s)'
  <2>1. CASE s = r
    <3>1. Len(Aceitos) + 1 \in DOMAIN Aceitos'
      BY <1>2
    <3> QED BY <2>1, <3>1, <1>1, <1>2, <1>3
  <2>2. CASE s # r
    <3>1. \E i \in DOMAIN Aceitos : Aceitos[i].de = s /\ Aceitos[i].n = Ultima(s)
      BY <2>2, <1>5, <1>8 DEF Completa
    <3>2. \A i \in DOMAIN Aceitos : i \in DOMAIN Aceitos' /\ Aceitos'[i] = Aceitos[i]
      BY <1>2
    <3> QED BY <2>2, <3>1, <3>2, <1>5
  <2> QED BY <2>1, <2>2
<1> QED BY <1>6, <1>7, <1>8 DEF Completa

-----------------------------------------------------------------------------
\* How the actions move the accepted frames.
LEMMA AcrescentarNoFim ==
  ASSUME NEW S, NEW s \in Seq(S), NEW t \in Seq(S), NEW q \in S
  PROVE s \o Append(t, q) = Append(s \o t, q)
<1>1. <<q>> \in Seq(S) /\ s \o t \in Seq(S)
  BY ConcatProperties
<1>2. Append(t, q) = t \o <<q>> /\ Append(s \o t, q) = (s \o t) \o <<q>>
  BY <1>1, AppendIsConcat
<1> QED BY <1>1, <1>2, ConcatAssociative

LEMMA CabecaECauda ==
  ASSUME NEW S, NEW s \in Seq(S), s # <<>>
  PROVE /\ Head(s) \in S /\ Tail(s) \in Seq(S)
        /\ <<Head(s)>> \in Seq(S)
        /\ <<Head(s)>> \o Tail(s) = s
<1>1. Head(s) \in S /\ Tail(s) \in Seq(S) /\ Len(Tail(s)) = Len(s) - 1
      /\ \A i \in 1..Len(Tail(s)) : Tail(s)[i] = s[i + 1]
  BY HeadTailProperties
<1>2. <<Head(s)>> \in Seq(S) /\ Len(<<Head(s)>>) = 1 /\ <<Head(s)>>[1] = s[1]
  BY <1>1
<1>3. Len(s) \in Nat \ {0}
  BY EmptySeq
<1>4. /\ <<Head(s)>> \o Tail(s) \in Seq(S)
      /\ Len(<<Head(s)>> \o Tail(s)) = Len(s)
      /\ \A i \in 1..Len(s) : (<<Head(s)>> \o Tail(s))[i] =
           IF i <= 1 THEN <<Head(s)>>[i] ELSE Tail(s)[i - 1]
  BY <1>1, <1>2, <1>3, ConcatProperties
<1>5. \A i \in 1..Len(s) : (<<Head(s)>> \o Tail(s))[i] = s[i]
  BY <1>1, <1>2, <1>3, <1>4
<1> QED BY <1>1, <1>2, <1>4, <1>5, SeqEqual

LEMMA AceitosAoDepositar ==
  ASSUME Tipos, NEW r \in Remetente, passo[r] # "fora",
         saida' = Append(saida, MeuQuadro(r)), UNCHANGED <<mao, fluxo>>
  PROVE /\ MeuQuadro(r) \in Quadro
        /\ mao' \o saida' = Append(mao \o saida, MeuQuadro(r))
        /\ Aceitos' = Append(Aceitos, MeuQuadro(r))
<1>1. MeuQuadro(r) \in Quadro
  BY DEF Tipos, MeuQuadro, Quadro
<1>2. mao' \o saida' = Append(mao \o saida, MeuQuadro(r))
  BY <1>1, AcrescentarNoFim DEF Tipos
<1>3. Aceitos' = Append(Aceitos, MeuQuadro(r))
  <2>1. fluxo \in Seq(Quadro) /\ mao \o saida \in Seq(Quadro)
    BY AceitosSaoQuadros DEF Tipos
  <2>2. fluxo \o Append(mao \o saida, MeuQuadro(r)) = Append(fluxo \o (mao \o saida), MeuQuadro(r))
    BY <1>1, <2>1, AcrescentarNoFim
  <2>3. Aceitos' = fluxo \o (mao' \o saida')
    BY DEF Aceitos
  <2> QED BY <1>2, <2>2, <2>3 DEF Aceitos
<1> QED BY <1>1, <1>2, <1>3

LEMMA AceitosAoPegar ==
  ASSUME Tipos, mao = <<>>, saida # <<>>, mao' = <<Head(saida)>>, saida' = Tail(saida),
         UNCHANGED fluxo
  PROVE mao' \o saida' = mao \o saida /\ Aceitos' = Aceitos
<1>1. mao' \o saida' = saida
  BY CabecaECauda DEF Tipos
<1>2. mao \o saida = saida
  BY ConcatEmptySeq DEF Tipos
<1> QED BY <1>1, <1>2 DEF Aceitos

LEMMA AceitosAoEscrever ==
  ASSUME Tipos, fluxo' = fluxo \o mao, mao' = <<>>, UNCHANGED saida
  PROVE mao' \o saida' = saida /\ Aceitos' = Aceitos
<1>1. mao' \o saida' = saida
  BY ConcatEmptySeq DEF Tipos
<1>2. (fluxo \o mao) \o saida = fluxo \o (mao \o saida)
  BY ConcatAssociative DEF Tipos
<1> QED BY <1>1, <1>2 DEF Aceitos

-----------------------------------------------------------------------------
LEMMA FilaInicial == Init => FilaInv
<1> SUFFICES ASSUME Init PROVE FilaInv
  OBVIOUS
<1> USE FilaAssumption DEF Init
<1>1. Tipos
  <2>1. saida \in Seq(Quadro) /\ mao \in Seq(Quadro) /\ fluxo \in Seq(Quadro)
    BY EmptySeq
  <2>2. n \in [Remetente -> Nat] /\ tamanho \in [Remetente -> Tamanhos \cup {0}]
    OBVIOUS
  <2>3. rejeita \in [Remetente -> BOOLEAN] /\ fechado \in BOOLEAN /\ drenando \in BOOLEAN
    OBVIOUS
  <2>4. passo \in [Remetente -> {"fora", "conferiu", "reservou", "devolver", "recusado", "fechando"}]
    OBVIOUS
  <2>5. \A r \in Remetente : passo[r] = "fora"
    OBVIOUS
  <2> QED BY <2>1, <2>2, <2>3, <2>4, <2>5 DEF Tipos
<1>2. Etapas
  BY DEF Etapas
<1>3. SemLacuna
  BY DEF SemLacuna, EmOrdem
<1>4. Aceitos = <<>>
  BY DEF Aceitos
<1>5. Completa
  <2>1. EmOrdem(Aceitos)
    BY <1>4 DEF EmOrdem
  <2>2. \A r \in Remetente : Ultima(r) = 0
    BY DEF Ultima
  <2> QED BY <1>4, <2>1, <2>2 DEF Completa
<1> QED BY <1>1, <1>2, <1>3, <1>5 DEF FilaInv

\* Where the writer and the senders are, action by action.
LEMMA TiposFicam ==
  ASSUME Tipos, Etapas, [Next]_vars
  PROVE Tipos' /\ Etapas'
<1> USE DEF Tipos, Etapas, remetentes
<1>1. ASSUME NEW r \in Remetente, NEW t \in Tamanhos, NEW rej \in BOOLEAN, Conferir(r, t, rej)
      PROVE Tipos' /\ Etapas'
  <2>1. n[r] \in Nat /\ n[r] + 1 \in 1..MaxEnvios
    BY <1>1, FilaAssumption DEF Conferir
  <2>2. rejeita' \in [Remetente -> BOOLEAN]
    BY <1>1 DEF Conferir
  <2>3. passo' \in [Remetente -> {"fora", "conferiu", "reservou", "devolver", "recusado", "fechando"}]
    BY <1>1 DEF Conferir
  <2>4. /\ n' \in [Remetente -> Nat] /\ tamanho' \in [Remetente -> Tamanhos \cup {0}]
        /\ \A q \in Remetente : passo'[q] # "fora" => n'[q] \in 1..MaxEnvios /\ tamanho'[q] \in Tamanhos
        /\ \A q \in Remetente : passo'[q] = "recusado" => fechado
    BY <1>1, <2>1 DEF Conferir
  <2> QED BY <1>1, <2>2, <2>3, <2>4 DEF Conferir
<1>2. ASSUME NEW r \in Remetente, Reservar(r) PROVE Tipos' /\ Etapas'
  BY <1>2 DEF Reservar
<1>3. ASSUME NEW r \in Remetente, Depositar(r) PROVE Tipos' /\ Etapas'
  <2>1. saida' \in Seq(Quadro)
    BY <1>3, AceitosAoDepositar, AppendProperties DEF Depositar
  <2> QED BY <1>3, <2>1 DEF Depositar, Recusado
<1>4. ASSUME NEW r \in Remetente, Desistir(r) PROVE Tipos' /\ Etapas'
  BY <1>4 DEF Desistir
<1>5. ASSUME NEW r \in Remetente, Devolver(r) PROVE Tipos' /\ Etapas'
  BY <1>5 DEF Devolver, Recusado
<1>6. ASSUME NEW r \in Remetente, FecharPorEnvio(r) PROVE Tipos' /\ Etapas'
  BY <1>6 DEF FecharPorEnvio
<1>7. CASE Fechar
  BY <1>7 DEF Fechar
<1>8. CASE Pegar
  <2>1. saida' \in Seq(Quadro) /\ mao' \in Seq(Quadro) /\ Len(mao') = 1
    BY <1>8, CabecaECauda DEF Pegar
  <2> QED BY <1>8, <2>1 DEF Pegar
<1>9. CASE Debitar
  BY <1>9 DEF Debitar
<1>10. CASE Escrever
  <2>1. fluxo' \in Seq(Quadro) /\ mao' \in Seq(Quadro)
    BY <1>10, ConcatProperties, EmptySeq DEF Escrever
  <2> QED BY <1>10, <2>1 DEF Escrever
<1>11. CASE FalharEscrita
  <2>1. mao' \in Seq(Quadro)
    BY <1>11, EmptySeq DEF FalharEscrita
  <2> QED BY <1>11, <2>1 DEF FalharEscrita
<1>12. CASE FecharPorFalha
  BY <1>12 DEF FecharPorFalha
<1>13. CASE ComecarDreno
  BY <1>13 DEF ComecarDreno
<1>14. CASE TerminarDreno
  BY <1>14 DEF TerminarDreno
<1>15. CASE UNCHANGED vars
  BY <1>15 DEF vars
<1> QED
  BY <1>1, <1>2, <1>3, <1>4, <1>5, <1>6, <1>7, <1>8, <1>9, <1>10, <1>11, <1>12, <1>13, <1>14, <1>15
  DEF Next, Continuar, Escritor

\* A step of one sender that accepts no frame, and a step that is of no sender.
LEMMA UmRemetente ==
  ASSUME Completa, Tipos, Tipos', Aceitos' = Aceitos, UNCHANGED fechado \/ fechado',
         NEW r \in Remetente,
         \A q \in Remetente \ {r} : passo'[q] = passo[q] /\ n'[q] = n[q],
         Ultima(r)' >= Ultima(r),
         Continua(r)' => Continua(r) /\ Ultima(r)' = Ultima(r)
  PROVE Completa'
<1>1. \A q \in Remetente \ {r} : Ultima(q)' = Ultima(q) /\ (Continua(q)' => Continua(q))
  BY DEF Ultima, Continua
<1>2. \A q \in Remetente : Ultima(q)' >= Ultima(q)
  BY <1>1, UltimaInteira
<1>3. \A q \in Remetente : Continua(q)' => Continua(q) /\ Ultima(q)' = Ultima(q)
  BY <1>1
<1> QED BY <1>2, <1>3, MesmosAceitos

LEMMA NenhumRemetente ==
  ASSUME Completa, Tipos, Tipos', Aceitos' = Aceitos, UNCHANGED fechado \/ fechado',
         UNCHANGED <<passo, n>>
  PROVE Completa'
<1>1. \A q \in Remetente : Ultima(q)' = Ultima(q) /\ (Continua(q)' => Continua(q))
  BY DEF Ultima, Continua
<1>2. \A q \in Remetente : Ultima(q)' >= Ultima(q)
  BY <1>1, UltimaInteira
<1> QED BY <1>1, <1>2, MesmosAceitos

\* The order of what was accepted, action by action, while no write fails.
LEMMA CompletaFica ==
  ASSUME Tipos, Etapas, Tipos', Completa, [Next]_vars,
         escritor' \notin {"falhou", "quebrado"}
  PROVE Completa'
<1> USE DEF remetentes
<1>1. ASSUME NEW r \in Remetente, NEW t \in Tamanhos, NEW rej \in BOOLEAN, Conferir(r, t, rej)
      PROVE Completa'
  <2>1. n[r] \in Nat /\ n'[r] = n[r] + 1 /\ Ultima(r) = n[r]
    BY <1>1 DEF Conferir, Tipos, Ultima
  <2>2. fechado => passo'[r] \in {"fechando", "fora"}
    BY <1>1 DEF Conferir, Tipos
  <2>3. ~fechado => passo'[r] = "conferiu"
    BY <1>1 DEF Conferir, Tipos
  <2>4. Ultima(r)' >= Ultima(r)
    BY <2>1, <2>2, <2>3 DEF Ultima
  <2>5. Continua(r)' => Continua(r) /\ Ultima(r)' = Ultima(r)
    <3>1. CASE fechado
      BY <3>1, <2>2, <1>1 DEF Continua, Conferir
    <3>2. CASE ~fechado
      BY <3>2, <2>1, <2>3, <1>1 DEF Continua, Conferir, Ultima
    <3> QED BY <3>1, <3>2
  <2>6. Aceitos' = Aceitos /\ UNCHANGED fechado
    BY <1>1 DEF Conferir, Aceitos
  <2>7. \A q \in Remetente \ {r} : passo'[q] = passo[q] /\ n'[q] = n[q]
    BY <1>1 DEF Conferir, Tipos
  <2> QED BY <2>4, <2>5, <2>6, <2>7, UmRemetente
<1>2. ASSUME NEW r \in Remetente, Reservar(r) \/ Desistir(r) \/ Devolver(r) \/ FecharPorEnvio(r)
      PROVE Completa'
  <2>1. /\ n[r] \in Nat /\ n'[r] = n[r]
        /\ passo[r] \notin {"conferiu", "reservou"} => passo'[r] \notin {"conferiu", "reservou"}
        /\ passo'[r] = "fora" => fechado'
    BY <1>2 DEF Reservar, Desistir, Devolver, FecharPorEnvio, Recusado, Tipos, Etapas
  <2>2. Ultima(r)' >= Ultima(r)
    BY <2>1 DEF Ultima
  <2>3. Continua(r)' => Continua(r) /\ Ultima(r)' = Ultima(r)
    BY <2>1 DEF Ultima, Continua
  <2>4. Aceitos' = Aceitos /\ (UNCHANGED fechado \/ fechado')
    BY <1>2 DEF Reservar, Desistir, Devolver, FecharPorEnvio, Aceitos
  <2>5. \A q \in Remetente \ {r} : passo'[q] = passo[q] /\ n'[q] = n[q]
    BY <1>2 DEF Reservar, Desistir, Devolver, FecharPorEnvio, Tipos
  <2> QED BY <2>2, <2>3, <2>4, <2>5, UmRemetente
<1>3. ASSUME NEW r \in Remetente, Depositar(r)
      PROVE Completa'
  <2>1. Aceitos' = Append(Aceitos, MeuQuadro(r))
    BY <1>3, AceitosAoDepositar DEF Depositar
  <2>2. /\ passo[r] = "reservou" /\ passo'[r] \in {"fechando", "fora"}
        /\ \A q \in Remetente \ {r} : passo'[q] = passo[q]
    BY <1>3 DEF Depositar, Recusado, Tipos
  <2> QED BY <1>3, <2>1, <2>2, MaisUmAceito DEF Depositar
<1>4. CASE Pegar
  <2>1. Aceitos' = Aceitos
    BY <1>4, AceitosAoPegar DEF Pegar, Etapas
  <2> QED BY <1>4, <2>1, NenhumRemetente DEF Pegar
<1>5. CASE Escrever
  <2>1. Aceitos' = Aceitos
    BY <1>5, AceitosAoEscrever DEF Escrever
  <2> QED BY <1>5, <2>1, NenhumRemetente DEF Escrever
<1>6. CASE Fechar \/ Debitar \/ ComecarDreno \/ TerminarDreno \/ UNCHANGED vars
  <2>1. Aceitos' = Aceitos /\ (UNCHANGED fechado \/ fechado') /\ UNCHANGED <<passo, n>>
    BY <1>6 DEF Fechar, Debitar, ComecarDreno, TerminarDreno, vars, Aceitos
  <2> QED BY <2>1, NenhumRemetente
<1>7. ~FalharEscrita /\ ~FecharPorFalha
  BY DEF FalharEscrita, FecharPorFalha
<1> QED BY <1>1, <1>2, <1>3, <1>4, <1>5, <1>6, <1>7 DEF Next, Continuar, Escritor

LEMMA FilaPasso ==
  ASSUME FilaInv, [Next]_vars
  PROVE FilaInv'
<1>1. Tipos' /\ Etapas'
  BY TiposFicam DEF FilaInv
<1>2. escritor \in {"falhou", "quebrado"} =>
        UNCHANGED fluxo /\ escritor' \in {"falhou", "quebrado"}
  BY DEF FilaInv, Tipos, Next, vars, Continuar, Escritor, Conferir, Reservar, Depositar, Desistir,
         Devolver, FecharPorEnvio, Fechar, Pegar, Debitar, Escrever, FalharEscrita, FecharPorFalha,
         ComecarDreno, TerminarDreno, remetentes
<1>3. escritor' \notin {"falhou", "quebrado"} => Completa'
  BY <1>1, <1>2, CompletaFica DEF FilaInv
<1>4. SemLacuna'
  <2>1. CASE UNCHANGED fluxo
    BY <2>1 DEF FilaInv, SemLacuna, EmOrdem
  <2>2. CASE Escrever
    <3>1. EmOrdem(Aceitos') /\ escritor' \notin {"falhou", "quebrado"}
      <4>1. escritor' \notin {"falhou", "quebrado"}
        BY <2>2 DEF Escrever
      <4> QED BY <4>1, <1>3 DEF Completa
    <3>2. fluxo' \in Seq(Quadro) /\ mao' \o saida' \in Seq(Quadro)
      BY <1>1, ConcatProperties DEF Tipos
    <3>3. EmOrdem(fluxo')
      BY <3>1, <3>2, OrdemDoComeco DEF Aceitos
    <3> QED BY <3>3 DEF SemLacuna
  <2>3. UNCHANGED fluxo \/ Escrever
    BY DEF Next, vars, Continuar, Escritor, Conferir, Reservar, Depositar, Desistir,
           Devolver, FecharPorEnvio, Fechar, Pegar, Debitar, FalharEscrita, FecharPorFalha,
           ComecarDreno, TerminarDreno
  <2> QED BY <2>1, <2>2, <2>3
<1> QED BY <1>1, <1>3, <1>4 DEF FilaInv

LEMMA FilaInvSempre == Spec => []FilaInv
<1>1. Init => FilaInv
  BY FilaInicial
<1>2. FilaInv /\ [Next]_vars => FilaInv'
  BY FilaPasso
<1> QED BY <1>1, <1>2, PTL DEF Spec

\* What the client reads of each sender is a prefix of what that sender sent, whatever
\* senders, limits and ways of being told to close (enfileirar, Escritor, drenar).
THEOREM NuncaLacuna == Spec => []SemLacuna
<1>1. FilaInv => SemLacuna
  BY DEF FilaInv
<1> QED BY <1>1, FilaInvSempre, PTL

-----------------------------------------------------------------------------
(***************************************************************************)
(* The refinement: what Conexao calls its state and its pending messages.  *)
(***************************************************************************)
Estado ==
  IF escritor \in {"falhou", "quebrado"} THEN "quebrada"
  ELSE IF escritor = "fim" THEN "encerrada"
  ELSE IF fechado THEN "fechando" ELSE "aberta"

Pendente == IF Encerrado \/ escritor = "falhou" THEN <<>> ELSE mao \o saida

\* The abstract connection, written over those.
Atende(m) == Estado \in {"aberta", "fechando"} /\ Pendente' = Append(Pendente, m)
             /\ Estado' = Estado /\ UNCHANGED fluxo
Entrega == Estado \in {"aberta", "fechando"} /\ Pendente # <<>>
           /\ fluxo' = Append(fluxo, Head(Pendente)) /\ Pendente' = Tail(Pendente)
           /\ Estado' = Estado
Quebra == Estado \in {"aberta", "fechando"} /\ Pendente # <<>>
          /\ Estado' = "quebrada" /\ Pendente' = <<>> /\ UNCHANGED fluxo
Encerra == Estado = "fechando" /\ Pendente = <<>>
           /\ Estado' = "encerrada" /\ Pendente' = Pendente /\ UNCHANGED fluxo
Fecha == Estado = "aberta" /\ Estado' = "fechando" /\ Pendente' = Pendente /\ UNCHANGED fluxo
Nada == Estado' = Estado /\ Pendente' = Pendente /\ UNCHANGED fluxo

Abstrato == (\E m \in Quadro : Atende(m)) \/ Entrega \/ Fecha \/ Quebra \/ Encerra \/ Nada

LEMMA Traducao == Abstrato => [Abstrata!Next]_(Abstrata!vars)
BY DEF Abstrato, Atende, Entrega, Quebra, Encerra, Fecha, Nada, Estado, Pendente,
       Abstrata!Next, Abstrata!vars, Abstrata!Aceitar, Abstrata!Entregar, Abstrata!Fechar,
       Abstrata!Quebrar, Abstrata!Encerrar, Abstrata!Ativa

LEMMA PassoAbstrato ==
  ASSUME FilaInv, [Next]_vars
  PROVE Abstrato
<1>a. Tipos /\ Etapas
  BY DEF FilaInv
<1> USE DEF remetentes, Encerrado
<1>1. ASSUME NEW r \in Remetente, Depositar(r) PROVE Abstrato
  <2>1. MeuQuadro(r) \in Quadro /\ mao' \o saida' = Append(mao \o saida, MeuQuadro(r))
    BY <1>1, <1>a, AceitosAoDepositar DEF Depositar
  <2>2. CASE Estado \in {"aberta", "fechando"}
    <3>1. Atende(MeuQuadro(r))
      BY <2>1, <2>2, <1>1 DEF Depositar, Atende, Estado, Pendente
    <3> QED BY <2>1, <3>1 DEF Abstrato
  <2>3. CASE Estado \notin {"aberta", "fechando"}
    BY <2>3, <1>1 DEF Depositar, Abstrato, Nada, Estado, Pendente
  <2> QED BY <2>2, <2>3
<1>2. ASSUME NEW r \in Remetente, FecharPorEnvio(r) PROVE Abstrato
  BY <1>2, <1>a DEF FecharPorEnvio, Abstrato, Fecha, Nada, Estado, Pendente, Tipos
<1>3. CASE Fechar
  BY <1>3, <1>a DEF Fechar, Abstrato, Fecha, Nada, Estado, Pendente, Tipos
<1>4. ASSUME NEW r \in Remetente,
             \/ Reservar(r) \/ Desistir(r) \/ Devolver(r)
             \/ \E t \in Tamanhos, rej \in BOOLEAN : Conferir(r, t, rej)
      PROVE Abstrato
  BY <1>4 DEF Reservar, Desistir, Devolver, Conferir, Abstrato, Nada, Estado, Pendente
<1>5. CASE Pegar
  <2>1. mao' \o saida' = mao \o saida
    BY <1>5, <1>a, AceitosAoPegar DEF Pegar, Etapas
  <2> QED BY <1>5, <2>1 DEF Pegar, Abstrato, Nada, Estado, Pendente
<1>6. CASE Escrever
  <2>1. PICK q \in Quadro : mao = <<q>>
    <3>1. mao \in Seq(Quadro) /\ Len(mao) = 1
      BY <1>6, <1>a DEF Escrever, Etapas, Tipos
    <3> QED BY <3>1
  <2>2. mao' \o saida' = saida
    BY <1>6, <1>a, AceitosAoEscrever DEF Escrever
  <2>3. /\ <<q>> \o saida # <<>>
        /\ Head(<<q>> \o saida) = q /\ Tail(<<q>> \o saida) = saida
    BY <1>a DEF Tipos
  <2>4. fluxo' = Append(fluxo, q)
    BY <1>6, <1>a, <2>1, AppendIsConcat DEF Escrever, Tipos
  <2>5. Pendente = <<q>> \o saida /\ Pendente' = saida
    BY <1>6, <2>1, <2>2 DEF Escrever, Pendente
  <2>6. Estado \in {"aberta", "fechando"} /\ Estado' = Estado
    BY <1>6 DEF Escrever, Estado
  <2>7. Entrega
    BY <2>3, <2>4, <2>5, <2>6 DEF Entrega
  <2> QED BY <2>7 DEF Abstrato
<1>7. CASE FalharEscrita
  <2>1. mao \in Seq(Quadro) /\ Len(mao) = 1 /\ saida \in Seq(Quadro)
    BY <1>7, <1>a DEF FalharEscrita, Etapas, Tipos
  <2>2. mao \o saida # <<>>
    BY <2>1, ConcatProperties, EmptySeq
  <2>3. Quebra
    BY <1>7, <2>2 DEF FalharEscrita, Quebra, Estado, Pendente
  <2> QED BY <2>3 DEF Abstrato
<1>8. CASE TerminarDreno
  <2>1. mao = <<>> /\ saida = <<>> /\ fechado
    BY <1>8, <1>a DEF TerminarDreno, Etapas
  <2>2. mao \o saida = <<>>
    BY <2>1
  <2>3. Encerra
    BY <1>8, <2>1, <2>2 DEF TerminarDreno, Encerra, Estado, Pendente
  <2> QED BY <2>3 DEF Abstrato
<1>9. CASE Debitar \/ FecharPorFalha \/ ComecarDreno \/ UNCHANGED vars
  BY <1>9 DEF Debitar, FecharPorFalha, ComecarDreno, vars, Abstrato, Nada, Estado, Pendente
<1> QED
  BY <1>1, <1>2, <1>3, <1>4, <1>5, <1>6, <1>7, <1>8, <1>9 DEF Next, Continuar, Escritor

LEMMA InicioAbstrato == Init => Abstrata!Init
BY EmptySeq, ConcatEmptySeq DEF Init, Abstrata!Init, Encerrado

\* The queue, the counter and the writer are the connection that Conexao describes:
\* first in, first out, and no end before everything accepted was written unless a write
\* fails.  This is the safety of ImplementaConexao; its fairness is checked by TLC.
THEOREM SegurancaDaConexao == Spec => Abstrata!Init /\ [][Abstrata!Next]_(Abstrata!vars)
<1>1. FilaInv /\ [Next]_vars => [Abstrata!Next]_(Abstrata!vars)
  BY PassoAbstrato, Traducao
<1> QED BY <1>1, InicioAbstrato, FilaInvSempre, PTL DEF Spec

-----------------------------------------------------------------------------
(***************************************************************************)
(* The byte counter.                                                       *)
(***************************************************************************)
\* The bytes of a set of frames that gains one, that loses one, and of a part of it.
LEMMA OctetosMais ==
  ASSUME NEW P, NEW q, q.bytes \in Nat, q \notin P, IsFiniteSet(Octetos(P))
  PROVE  /\ IsFiniteSet(Octetos(P \cup {q}))
         /\ Cardinality(Octetos(P \cup {q})) = Cardinality(Octetos(P)) + q.bytes
<1> DEFINE novos == {q} \X (1..q.bytes)
<1>1. Octetos(P \cup {q}) = Octetos(P) \cup novos
  BY DEF Octetos
<1>2. Octetos(P) \cap novos = {}
  BY DEF Octetos
<1>3. IsFiniteSet(1..q.bytes) /\ Cardinality(1..q.bytes) = q.bytes
  <2>1. PICK b \in Nat : b = q.bytes
    OBVIOUS
  <2>2. IsFiniteSet(1..b) /\ Cardinality(1..b) = IF 1 > b THEN 0 ELSE b - 1 + 1
    BY FS_Interval
  <2>3. Cardinality(1..b) = b
    BY <2>2
  <2> QED BY <2>1, <2>2, <2>3
<1>4. IsFiniteSet({q}) /\ Cardinality({q}) = 1
  BY FS_Singleton
<1>5. IsFiniteSet(novos) /\ Cardinality(novos) = Cardinality({q}) * Cardinality(1..q.bytes)
  BY <1>3, <1>4, FS_Product
<1>6. Cardinality(novos) = q.bytes
  BY <1>3, <1>4, <1>5
<1> HIDE DEF novos
<1>7. /\ IsFiniteSet(Octetos(P) \cup novos)
      /\ Cardinality(Octetos(P) \cup novos)
         = Cardinality(Octetos(P)) + Cardinality(novos) - Cardinality(Octetos(P) \cap novos)
  BY <1>5, FS_Union
<1>8. Cardinality(Octetos(P) \cap novos) = 0 /\ Cardinality(Octetos(P)) \in Nat
  BY <1>2, FS_EmptySet, FS_CardinalityType
<1>9. Cardinality(Octetos(P) \cup novos) = Cardinality(Octetos(P)) + q.bytes
  BY <1>6, <1>7, <1>8
<1> QED BY <1>1, <1>7, <1>9

LEMMA OctetosParte ==
  ASSUME NEW Q, NEW P \in SUBSET Q, IsFiniteSet(Octetos(Q))
  PROVE  /\ IsFiniteSet(Octetos(P))
         /\ Cardinality(Octetos(P)) \in Nat /\ Cardinality(Octetos(Q)) \in Nat
         /\ Cardinality(Octetos(P)) <= Cardinality(Octetos(Q))
<1>1. Octetos(P) \in SUBSET Octetos(Q)
  BY DEF Octetos
<1> QED BY <1>1, FS_Subset, FS_CardinalityType

LEMMA OctetosMenos ==
  ASSUME NEW Q, NEW q \in Q, q.bytes \in Nat, IsFiniteSet(Octetos(Q))
  PROVE  /\ IsFiniteSet(Octetos(Q \ {q}))
         /\ Cardinality(Octetos(Q)) = Cardinality(Octetos(Q \ {q})) + q.bytes
         /\ Cardinality(Octetos(Q \ {q})) \in Nat
<1>1. IsFiniteSet(Octetos(Q \ {q})) /\ Cardinality(Octetos(Q \ {q})) \in Nat
  BY OctetosParte
<1>2. Q = (Q \ {q}) \cup {q} /\ q \notin Q \ {q}
  OBVIOUS
<1>3. Cardinality(Octetos((Q \ {q}) \cup {q})) = Cardinality(Octetos(Q \ {q})) + q.bytes
  BY <1>1, <1>2, OctetosMais
<1> QED BY <1>1, <1>2, <1>3

-----------------------------------------------------------------------------
\* The last call of r whose frame may be in memory: that of the call in progress is only
\* once it has been put into the channel.
Teto(r) == IF passo[r] \in {"conferiu", "reservou", "devolver", "recusado"} THEN n[r] - 1 ELSE n[r]

\* A frame in memory is in one place, and is none that a sender still has to hand over.
EmMemoria(q) == (\E i \in DOMAIN saida : saida[i] = q) \/ (\E i \in DOMAIN mao : mao[i] = q)
Unicos ==
  /\ \A q \in Quadro : EmMemoria(q) => q.n <= Teto(q.de)
  /\ \A i, j \in DOMAIN saida : saida[i] = saida[j] => i = j
  /\ \A i \in DOMAIN mao, j \in DOMAIN saida : mao[i] # saida[j]

\* The frames whose bytes count against the limit: those of a sender that went over it
\* are in the counter until it gives them back, but never enter the channel.
Admitidos == Range(saida) \cup {MeuQuadro(r) : r \in {s \in Remetente : passo[s] = "reservou"}}

Conta == IsFiniteSet(Octetos(Contados)) /\ BytesConservados
Cabe == Cardinality(Octetos(Admitidos)) <= bytesMaximosFilaSaida

ContaInv ==
  /\ FilaInv
  /\ Unicos
  /\ Conta
  /\ Cabe
  /\ Len(saida) <= tamanhoFilaSaida
  /\ n \in [Remetente -> 0..MaxEnvios]

LEMMA AdmitidosContados ==
  ASSUME IsFiniteSet(Octetos(Contados))
  PROVE  /\ IsFiniteSet(Octetos(Admitidos))
         /\ Cardinality(Octetos(Admitidos)) <= Cardinality(Octetos(Contados))
         /\ Cardinality(Octetos(Admitidos)) \in Nat /\ Cardinality(Octetos(Contados)) \in Nat
<1>1. Admitidos \in SUBSET Contados
  BY DEF Admitidos, Contados
<1> QED BY <1>1, OctetosParte

LEMMA NaFaixa ==
  ASSUME Tipos
  PROVE  /\ \A i \in DOMAIN saida : saida[i] \in Quadro
         /\ \A i \in DOMAIN mao : mao[i] \in Quadro
         /\ \A q \in Quadro : q.bytes \in Nat /\ q.n \in Nat /\ q.de \in Remetente
         /\ \A r \in Remetente : n[r] \in Nat /\ Teto(r) \in Int
<1>1. \A r \in Remetente : n[r] \in Nat
  BY DEF Tipos
<1>2. \A q \in Quadro : q.bytes \in Nat /\ q.n \in Nat /\ q.de \in Remetente
  <2> SUFFICES ASSUME NEW q \in Quadro PROVE q.bytes \in Nat /\ q.n \in Nat /\ q.de \in Remetente
    OBVIOUS
  <2>1. q.bytes \in Tamanhos /\ q.n \in 1..MaxEnvios /\ q.de \in Remetente
    BY DEF Quadro
  <2>2. q.bytes \in Nat
    BY <2>1, FilaAssumption
  <2>3. q.n \in Nat
    BY <2>1
  <2> QED BY <2>1, <2>2, <2>3
<1>3. \A r \in Remetente : Teto(r) \in Int
  BY <1>1 DEF Teto
<1> QED BY <1>1, <1>2, <1>3, ElementOfSeq, LenProperties DEF Tipos

\* A step that brings no frame to memory.
LEMMA TetoFica ==
  ASSUME Tipos, Tipos', Unicos, NEW q \in Quadro, EmMemoria(q), Teto(q.de)' >= Teto(q.de)
  PROVE  q.n <= Teto(q.de)'
<1>1. n'[q.de] \in Nat /\ q.de \in Remetente /\ q.n \in Nat
  BY NaFaixa DEF Tipos
<1>2. Teto(q.de)' \in Int
  BY <1>1 DEF Teto
<1>3. Teto(q.de) \in Int
  BY <1>1, NaFaixa
<1>4. q.n <= Teto(q.de)
  BY DEF Unicos
<1> QED BY <1>1, <1>2, <1>3, <1>4

LEMMA UnicosParados ==
  ASSUME Tipos, Tipos', Unicos, UNCHANGED <<saida, mao>>,
         \A r \in Remetente : Teto(r)' >= Teto(r)
  PROVE  Unicos'
<1>1. \A q \in Quadro : EmMemoria(q)' => EmMemoria(q)
  BY DEF EmMemoria
<1>2. \A q \in Quadro : EmMemoria(q)' => q.n <= Teto(q.de)'
  BY <1>1, TetoFica, NaFaixa
<1> QED BY <1>2 DEF Unicos

\* What a step of one sender does to the limits of its frames, and of the others'.
LEMMA TetoDosOutros ==
  ASSUME Tipos, Tipos', NEW r \in Remetente, Teto(r)' >= Teto(r),
         \A s \in Remetente \ {r} : passo'[s] = passo[s] /\ n'[s] = n[s]
  PROVE  \A s \in Remetente : Teto(s)' >= Teto(s)
<1>1. ASSUME NEW s \in Remetente, s # r PROVE Teto(s)' = Teto(s)
  BY <1>1 DEF Teto
<1> QED BY <1>1, NaFaixa

LEMMA UnicosFicam ==
  ASSUME Tipos, Etapas, Tipos', Unicos, [Next]_vars
  PROVE  Unicos'
<1> USE DEF remetentes
<1>1. ASSUME NEW r \in Remetente, NEW t \in Tamanhos, NEW rej \in BOOLEAN, Conferir(r, t, rej)
      PROVE  Unicos'
  <2>1. /\ passo[r] = "fora" /\ n[r] \in Nat /\ n'[r] = n[r] + 1
        /\ \A s \in Remetente \ {r} : passo'[s] = passo[s] /\ n'[s] = n[s]
        /\ UNCHANGED <<saida, mao>>
    BY <1>1 DEF Conferir, Tipos
  <2>2. Teto(r)' >= Teto(r)
    BY <2>1 DEF Teto
  <2> QED BY <2>1, <2>2, TetoDosOutros, UnicosParados
<1>2. ASSUME NEW r \in Remetente, Reservar(r) \/ Desistir(r) \/ Devolver(r) \/ FecharPorEnvio(r)
      PROVE  Unicos'
  <2>1. /\ n[r] \in Nat /\ n'[r] = n[r]
        /\ passo'[r] \in {"reservou", "devolver", "recusado"} => passo[r] \in {"conferiu", "reservou"}
        /\ passo'[r] # "conferiu"
        /\ \A s \in Remetente \ {r} : passo'[s] = passo[s] /\ n'[s] = n[s]
        /\ UNCHANGED <<saida, mao>>
    BY <1>2 DEF Reservar, Desistir, Devolver, FecharPorEnvio, Recusado, Tipos
  <2>2. Teto(r)' >= Teto(r)
    BY <2>1 DEF Teto
  <2> QED BY <2>1, <2>2, TetoDosOutros, UnicosParados
<1>3. ASSUME NEW r \in Remetente, Depositar(r)
      PROVE  Unicos'
  <2>0. PICK q : q = MeuQuadro(r)
    OBVIOUS
  <2>1. /\ passo[r] = "reservou" /\ passo'[r] \in {"fora", "fechando"} /\ n[r] \in Nat /\ n'[r] = n[r]
        /\ \A s \in Remetente \ {r} : passo'[s] = passo[s] /\ n'[s] = n[s]
        /\ UNCHANGED mao /\ saida' = Append(saida, q)
    BY <1>3, <2>0 DEF Depositar, Recusado, Tipos
  <2>2. q \in Quadro /\ q.de = r /\ q.n = n[r]
    BY <1>3, <2>0, AceitosAoDepositar DEF Depositar, MeuQuadro
  <2>3. Teto(r) = n[r] - 1 /\ Teto(r)' = n[r]
    BY <2>1 DEF Teto
  <2>4. \A s \in Remetente : Teto(s)' >= Teto(s)
    <3>1. Teto(r)' >= Teto(r)
      BY <2>1, <2>3
    <3> QED BY <2>1, <3>1, TetoDosOutros
  <2>5. ~EmMemoria(q)
    <3>1. ~(q.n <= Teto(q.de))
      BY <2>1, <2>2, <2>3
    <3> QED BY <2>2, <3>1 DEF Unicos
  <2>6. /\ Len(saida) \in Nat /\ DOMAIN saida = 1..Len(saida) /\ DOMAIN saida' = 1..(Len(saida) + 1)
        /\ \A i \in 1..Len(saida) : saida'[i] = saida[i]
        /\ saida'[Len(saida) + 1] = q
    BY <2>1, <2>2, AppendProperties, LenProperties DEF Tipos
  <2>7. \A i \in DOMAIN saida' : (i \in DOMAIN saida /\ saida'[i] = saida[i]) \/ (i = Len(saida) + 1 /\ saida'[i] = q)
    BY <2>6
  <2>8. \A i \in DOMAIN saida : saida[i] # q
    BY <2>5 DEF EmMemoria
  <2>9. \A i \in DOMAIN mao : mao[i] # q
    BY <2>5 DEF EmMemoria
  <2>10. \A i, j \in DOMAIN saida' : saida'[i] = saida'[j] => i = j
    BY <2>7, <2>8 DEF Unicos
  <2>11. \A i \in DOMAIN mao', j \in DOMAIN saida' : mao'[i] # saida'[j]
    BY <2>1, <2>7, <2>9 DEF Unicos
  <2>12. ASSUME NEW p \in Quadro, EmMemoria(p)' PROVE p.n <= Teto(p.de)'
    <3>1. EmMemoria(p) \/ p = q
      BY <2>1, <2>7, <2>12 DEF EmMemoria
    <3>2. CASE EmMemoria(p)
      BY <2>4, <3>2, TetoFica, NaFaixa
    <3>3. CASE p = q
      <4>1. Teto(p.de)' = n[r]
        BY <2>2, <2>3, <3>3 DEF Teto
      <4> QED BY <2>1, <2>2, <3>3, <4>1
    <3> QED BY <3>1, <3>2, <3>3
  <2> QED BY <2>10, <2>11, <2>12 DEF Unicos
<1>4. CASE Pegar
  <2>1. /\ mao = <<>> /\ saida # <<>> /\ mao' = <<Head(saida)>> /\ saida' = Tail(saida)
        /\ UNCHANGED <<passo, n>>
    BY <1>4 DEF Pegar, Etapas
  <2>2. /\ Len(saida) \in Nat \ {0} /\ DOMAIN saida = 1..Len(saida) /\ Head(saida) = saida[1]
        /\ DOMAIN saida' = 1..(Len(saida) - 1)
        /\ \A i \in 1..(Len(saida) - 1) : saida'[i] = saida[i + 1]
    BY <2>1 DEF Tipos
  <2>3. \A i \in DOMAIN mao' : i = 1 /\ mao'[i] = saida[1]
    BY <2>1, <2>2
  <2>4. 1 \in DOMAIN saida /\ \A i \in DOMAIN saida' : i + 1 \in DOMAIN saida /\ i + 1 # 1 /\ saida'[i] = saida[i + 1]
    BY <2>2
  <2>5. ASSUME NEW i \in DOMAIN saida', NEW j \in DOMAIN saida', saida'[i] = saida'[j] PROVE i = j
    <3>1. i + 1 = j + 1
      BY <2>4, <2>5 DEF Unicos
    <3> QED BY <2>2, <3>1
  <2>6. \A i \in DOMAIN mao', j \in DOMAIN saida' : mao'[i] # saida'[j]
    BY <2>3, <2>4 DEF Unicos
  <2>7. \A q \in Quadro : EmMemoria(q)' => EmMemoria(q)
    BY <2>3, <2>4 DEF EmMemoria
  <2>8. \A q \in Quadro : EmMemoria(q)' => q.n <= Teto(q.de)'
    BY <2>1, <2>7 DEF Unicos, Teto
  <2> QED BY <2>5, <2>6, <2>8 DEF Unicos
<1>5. CASE Escrever \/ FalharEscrita
  <2>1. mao' = <<>> /\ UNCHANGED <<saida, passo, n>>
    BY <1>5 DEF Escrever, FalharEscrita
  <2>2. \A q \in Quadro : EmMemoria(q)' => EmMemoria(q)
    BY <2>1 DEF EmMemoria
  <2> QED BY <2>1, <2>2 DEF Unicos, Teto
<1>6. CASE Debitar \/ Fechar \/ FecharPorFalha \/ ComecarDreno \/ TerminarDreno \/ UNCHANGED vars
  <2>1. UNCHANGED <<saida, mao, passo, n>>
    BY <1>6 DEF Debitar, Fechar, FecharPorFalha, ComecarDreno, TerminarDreno, vars
  <2> QED BY <2>1 DEF Unicos, Teto, EmMemoria
<1> QED BY <1>1, <1>2, <1>3, <1>4, <1>5, <1>6 DEF Next, Continuar, Escritor

\* A sender with bytes in the counter.
Reservou == {"reservou", "devolver", "recusado"}

\* The frame a sender has in its hands is none of those in the channel or the writer's,
\* nor another sender's.
LEMMA ForaDaMemoria ==
  ASSUME Tipos, Unicos, NEW r \in Remetente,
         passo[r] \in {"conferiu", "reservou", "devolver", "recusado"}
  PROVE  /\ MeuQuadro(r) \in Quadro /\ MeuQuadro(r).bytes = tamanho[r]
         /\ \A i \in DOMAIN saida : saida[i] # MeuQuadro(r)
         /\ \A i \in DOMAIN mao : mao[i] # MeuQuadro(r)
         /\ \A s \in Remetente : s # r => MeuQuadro(s) # MeuQuadro(r)
<1>1. MeuQuadro(r) \in Quadro /\ MeuQuadro(r).bytes = tamanho[r]
  BY DEF Tipos, MeuQuadro, Quadro
<1>2. MeuQuadro(r).de = r /\ MeuQuadro(r).n = n[r] /\ Teto(r) = n[r] - 1 /\ n[r] \in Nat
  BY DEF MeuQuadro, Teto, Tipos
<1>3. ~EmMemoria(MeuQuadro(r))
  <2>1. PICK q \in Quadro : q = MeuQuadro(r)
    BY <1>1
  <2>2. ~(q.n <= Teto(q.de))
    BY <1>2, <2>1
  <2> QED BY <2>1, <2>2 DEF Unicos
<1>4. \A s \in Remetente : s # r => MeuQuadro(s).de # MeuQuadro(r).de
  BY DEF MeuQuadro
<1> QED BY <1>1, <1>3, <1>4 DEF EmMemoria

LEMMA ContadosNoRemetente ==
  ASSUME Tipos, Etapas, Tipos', Unicos, NEW r \in Remetente,
         \A s \in Remetente \ {r} : passo'[s] = passo[s] /\ n'[s] = n[s] /\ tamanho'[s] = tamanho[s],
         UNCHANGED <<saida, escritor, mao>>
  PROVE  /\ passo[r] \notin Reservou /\ passo'[r] \notin Reservou => Contados' = Contados
         /\ UNCHANGED <<n, tamanho>> /\ passo[r] \in Reservou /\ passo'[r] \in Reservou => Contados' = Contados
         /\ UNCHANGED <<n, tamanho>> /\ passo[r] = "conferiu" /\ passo'[r] \in Reservou
            => Contados' = Contados \cup {MeuQuadro(r)} /\ MeuQuadro(r) \notin Contados
         /\ UNCHANGED <<n, tamanho>> /\ passo[r] \in Reservou /\ passo'[r] \notin Reservou
            => Contados' = Contados \ {MeuQuadro(r)} /\ MeuQuadro(r) \in Contados
<1> DEFINE Outros == Range(saida) \cup {MeuQuadro(s) : s \in {u \in Remetente \ {r} : passo[u] \in Reservou}}
                     \cup (IF escritor = "debita" THEN {mao[1]} ELSE {})
<1>1. Contados = IF passo[r] \in Reservou THEN Outros \cup {MeuQuadro(r)} ELSE Outros
  BY DEF Contados, Reservou
<1>2. Contados' = IF passo'[r] \in Reservou THEN Outros' \cup {MeuQuadro(r)'} ELSE Outros'
  BY DEF Contados, Reservou
<1>3. Outros' = Outros
  <2>1. \A s \in Remetente \ {r} : MeuQuadro(s)' = MeuQuadro(s) /\ passo'[s] = passo[s]
    BY DEF MeuQuadro
  <2> QED BY <2>1
<1>4. UNCHANGED <<n, tamanho>> => MeuQuadro(r)' = MeuQuadro(r)
  BY DEF MeuQuadro
<1>5. passo[r] \in {"conferiu"} \cup Reservou => MeuQuadro(r) \notin Outros
  <2> SUFFICES ASSUME passo[r] \in {"conferiu"} \cup Reservou PROVE MeuQuadro(r) \notin Outros
    OBVIOUS
  <2>1. /\ \A i \in DOMAIN saida : saida[i] # MeuQuadro(r)
        /\ \A i \in DOMAIN mao : mao[i] # MeuQuadro(r)
        /\ \A s \in Remetente : s # r => MeuQuadro(s) # MeuQuadro(r)
    BY ForaDaMemoria DEF Reservou
  <2>2. escritor = "debita" => 1 \in DOMAIN mao
    BY LenProperties DEF Etapas, Tipos
  <2> QED BY <2>1, <2>2 DEF Range
<1> HIDE DEF Outros
<1>6. "conferiu" \notin Reservou
  BY DEF Reservou
<1> QED BY <1>1, <1>2, <1>3, <1>4, <1>5, <1>6

\* Steps that leave the counted frames as they are, add one, and take one off.
LEMMA ContaIgual ==
  ASSUME Conta, UNCHANGED bytesNaFila, Contados' = Contados
  PROVE  Conta'
BY DEF Conta, BytesConservados, Octetos

LEMMA ContaMais ==
  ASSUME Conta, NEW q, q.bytes \in Nat, q \notin Contados, Contados' = Contados \cup {q},
         bytesNaFila' = bytesNaFila + q.bytes
  PROVE  Conta'
<1>1. PICK C : C = Contados
  OBVIOUS
<1>2. IsFiniteSet(Octetos(C)) /\ bytesNaFila = Cardinality(Octetos(C))
  BY <1>1 DEF Conta, BytesConservados
<1>3. /\ IsFiniteSet(Octetos(C \cup {q}))
      /\ Cardinality(Octetos(C \cup {q})) = Cardinality(Octetos(C)) + q.bytes
  BY <1>1, <1>2, OctetosMais
<1>4. Contados' = C \cup {q} /\ bytesNaFila' = Cardinality(Octetos(C \cup {q}))
  BY <1>1, <1>2, <1>3
<1> QED BY <1>3, <1>4 DEF Conta, BytesConservados

LEMMA ContaMenos ==
  ASSUME Conta, NEW q \in Contados, q.bytes \in Nat, Contados' = Contados \ {q},
         bytesNaFila' = bytesNaFila - q.bytes
  PROVE  Conta'
<1>1. PICK C : C = Contados
  OBVIOUS
<1>2. IsFiniteSet(Octetos(C)) /\ bytesNaFila = Cardinality(Octetos(C))
  BY <1>1 DEF Conta, BytesConservados
<1>3. /\ IsFiniteSet(Octetos(C \ {q})) /\ Cardinality(Octetos(C \ {q})) \in Nat
      /\ Cardinality(Octetos(C)) = Cardinality(Octetos(C \ {q})) + q.bytes
  BY <1>1, <1>2, OctetosMenos
<1>4. Contados' = C \ {q} /\ bytesNaFila' = Cardinality(Octetos(C \ {q}))
  BY <1>1, <1>2, <1>3
<1> QED BY <1>3, <1>4 DEF Conta, BytesConservados

LEMMA CabeAinda ==
  ASSUME Conta, Cabe, Admitidos' \subseteq Admitidos
  PROVE  Cabe'
<1>1. PICK A : A = Admitidos
  OBVIOUS
<1>2. PICK B : B = Admitidos'
  OBVIOUS
<1>3. IsFiniteSet(Octetos(A)) /\ Cardinality(Octetos(A)) <= bytesMaximosFilaSaida
  BY <1>1, AdmitidosContados DEF Conta, Cabe
<1>4. /\ Cardinality(Octetos(B)) <= Cardinality(Octetos(A))
      /\ Cardinality(Octetos(B)) \in Nat /\ Cardinality(Octetos(A)) \in Nat
  BY <1>1, <1>2, <1>3, OctetosParte
<1>5. Cardinality(Octetos(B)) <= bytesMaximosFilaSaida
  BY <1>3, <1>4, FilaAssumption
<1> QED BY <1>2, <1>5 DEF Cabe

\* A step of one sender that does not enter the limit.
LEMMA CabeNoRemetente ==
  ASSUME Conta, Cabe, NEW r \in Remetente, UNCHANGED saida,
         \A s \in Remetente \ {r} : passo'[s] = passo[s] /\ n'[s] = n[s] /\ tamanho'[s] = tamanho[s],
         passo'[r] # "reservou"
  PROVE  Cabe'
<1>1. \A s \in Remetente \ {r} : MeuQuadro(s)' = MeuQuadro(s)
  BY DEF MeuQuadro
<1>2. Admitidos' \subseteq Admitidos
  BY <1>1 DEF Admitidos
<1> QED BY <1>2, CabeAinda

\* The comparison in enfileirar is with the whole counter, so it bounds what is admitted.
LEMMA CabeAoReservar ==
  ASSUME Conta, Cabe, Tipos, NEW r \in Remetente, MeuQuadro(r) \notin Contados,
         MeuQuadro(r).bytes = tamanho[r], tamanho[r] \in Nat, ~PassouDoLimite(r),
         Admitidos' = Admitidos \cup {MeuQuadro(r)}
  PROVE  Cabe'
<1>1. PICK A : A = Admitidos
  OBVIOUS
<1>2. PICK q : q = MeuQuadro(r)
  OBVIOUS
<1>3. /\ IsFiniteSet(Octetos(A))
      /\ Cardinality(Octetos(A)) <= bytesNaFila /\ Cardinality(Octetos(A)) \in Nat /\ bytesNaFila \in Nat
  BY <1>1, AdmitidosContados DEF Conta, BytesConservados
<1>4. q \notin A /\ q.bytes \in Nat /\ q.bytes = tamanho[r]
  BY <1>1, <1>2 DEF Admitidos, Contados
<1>5. Cardinality(Octetos(A \cup {q})) = Cardinality(Octetos(A)) + q.bytes
  BY <1>3, <1>4, OctetosMais
<1>6. bytesNaFila + tamanho[r] <= bytesMaximosFilaSaida
  BY <1>3, FilaAssumption DEF PassouDoLimite
<1>7. Cardinality(Octetos(A \cup {q})) <= bytesMaximosFilaSaida
  BY <1>3, <1>4, <1>5, <1>6, FilaAssumption
<1> QED BY <1>1, <1>2, <1>7 DEF Cabe

\* The counter and the limit, action by action.
LEMMA ContaFica ==
  ASSUME Tipos, Etapas, Tipos', Unicos, Conta, Cabe, [Next]_vars
  PROVE  Conta' /\ Cabe'
<1> USE DEF remetentes
<1>1. ASSUME NEW r \in Remetente, NEW t \in Tamanhos, NEW rej \in BOOLEAN, Conferir(r, t, rej)
      PROVE  Conta' /\ Cabe'
  <2>1. /\ passo[r] = "fora" /\ passo'[r] \in {"conferiu", "fechando", "fora"}
        /\ \A s \in Remetente \ {r} : passo'[s] = passo[s] /\ n'[s] = n[s] /\ tamanho'[s] = tamanho[s]
        /\ UNCHANGED <<saida, bytesNaFila, escritor, mao>>
    BY <1>1 DEF Conferir, Tipos
  <2>2. Contados' = Contados
    BY <2>1, ContadosNoRemetente DEF Reservou
  <2> QED BY <2>1, <2>2, ContaIgual, CabeNoRemetente
<1>2. ASSUME NEW r \in Remetente, Reservar(r)
      PROVE  Conta' /\ Cabe'
  <2>0. PICK q : q = MeuQuadro(r)
    OBVIOUS
  <2>1. /\ passo[r] = "conferiu" /\ passo'[r] = IF PassouDoLimite(r) THEN "devolver" ELSE "reservou"
        /\ bytesNaFila' = bytesNaFila + tamanho[r]
        /\ \A s \in Remetente \ {r} : passo'[s] = passo[s] /\ n'[s] = n[s] /\ tamanho'[s] = tamanho[s]
        /\ UNCHANGED <<saida, escritor, mao>> /\ UNCHANGED <<n, tamanho>>
    BY <1>2 DEF Reservar, Tipos
  <2>2. Contados' = Contados \cup {q} /\ q \notin Contados
    BY <2>0, <2>1, ContadosNoRemetente DEF Reservou
  <2>3. q \in Quadro /\ q.bytes = tamanho[r] /\ q.bytes \in Nat
    BY <2>0, <2>1, ForaDaMemoria, NaFaixa
  <2>4. Conta'
    BY <2>1, <2>2, <2>3, ContaMais
  <2>5. CASE PassouDoLimite(r)
    BY <2>1, <2>4, <2>5, CabeNoRemetente
  <2>6. CASE ~PassouDoLimite(r)
    <3>1. \A s \in Remetente : MeuQuadro(s)' = MeuQuadro(s)
      BY <2>1 DEF MeuQuadro
    <3>2. \A s \in Remetente : passo'[s] = "reservou" <=> (s = r \/ passo[s] = "reservou")
      BY <2>1, <2>6
    <3>3. Admitidos' = Admitidos \cup {MeuQuadro(r)}
      BY <2>1, <3>1, <3>2 DEF Admitidos
    <3> QED BY <2>0, <2>2, <2>3, <2>4, <2>6, <3>3, CabeAoReservar
  <2> QED BY <2>5, <2>6
<1>3. ASSUME NEW r \in Remetente, Depositar(r)
      PROVE  Conta' /\ Cabe'
  <2>0. PICK q : q = MeuQuadro(r)
    OBVIOUS
  <2>1. /\ passo[r] = "reservou" /\ passo'[r] \in {"fora", "fechando"}
        /\ \A s \in Remetente \ {r} : passo'[s] = passo[s]
        /\ UNCHANGED <<n, tamanho, bytesNaFila, escritor, mao>> /\ saida' = Append(saida, q)
    BY <1>3, <2>0 DEF Depositar, Recusado, Tipos
  <2>2. q \in Quadro
    BY <1>3, <2>0, AceitosAoDepositar DEF Depositar
  <2>3. /\ Len(saida) \in Nat /\ DOMAIN saida = 1..Len(saida) /\ DOMAIN saida' = 1..(Len(saida) + 1)
        /\ \A i \in 1..Len(saida) : saida'[i] = saida[i]
        /\ saida'[Len(saida) + 1] = q
    BY <2>1, <2>2, AppendProperties, LenProperties DEF Tipos
  <2>4. Range(saida') = Range(saida) \cup {q}
    <3>1. \A i \in DOMAIN saida' : (i \in DOMAIN saida /\ saida'[i] = saida[i]) \/ saida'[i] = q
      BY <2>3
    <3>2. \A i \in DOMAIN saida : i \in DOMAIN saida' /\ saida'[i] = saida[i]
      BY <2>3
    <3>3. Len(saida) + 1 \in DOMAIN saida'
      BY <2>3
    <3> QED BY <2>3, <3>1, <3>2, <3>3 DEF Range
  <2>5. \A s \in Remetente : MeuQuadro(s)' = MeuQuadro(s)
    BY <2>1 DEF MeuQuadro
  <2>6. Contados' = Contados
    BY <2>0, <2>1, <2>4, <2>5 DEF Contados
  <2>7. Admitidos' \subseteq Admitidos
    BY <2>0, <2>1, <2>4, <2>5 DEF Admitidos
  <2> QED BY <2>1, <2>6, <2>7, ContaIgual, CabeAinda
<1>4. ASSUME NEW r \in Remetente, Desistir(r) \/ FecharPorEnvio(r)
      PROVE  Conta' /\ Cabe'
  <2>1. /\ \/ passo[r] = "reservou" /\ passo'[r] \in {"recusado", "devolver"}
           \/ passo[r] = "fechando" /\ passo'[r] = "fora"
        /\ \A s \in Remetente \ {r} : passo'[s] = passo[s] /\ n'[s] = n[s] /\ tamanho'[s] = tamanho[s]
        /\ UNCHANGED <<saida, bytesNaFila, escritor, mao>> /\ UNCHANGED <<n, tamanho>>
    BY <1>4 DEF Desistir, FecharPorEnvio, Tipos
  <2>2. Contados' = Contados
    BY <2>1, ContadosNoRemetente DEF Reservou
  <2> QED BY <2>1, <2>2, ContaIgual, CabeNoRemetente
<1>5. ASSUME NEW r \in Remetente, Devolver(r)
      PROVE  Conta' /\ Cabe'
  <2>0. PICK q : q = MeuQuadro(r)
    OBVIOUS
  <2>1. /\ passo[r] \in {"devolver", "recusado"} /\ passo'[r] \in {"fora", "fechando"}
        /\ bytesNaFila' = bytesNaFila - tamanho[r]
        /\ \A s \in Remetente \ {r} : passo'[s] = passo[s] /\ n'[s] = n[s] /\ tamanho'[s] = tamanho[s]
        /\ UNCHANGED <<saida, escritor, mao>> /\ UNCHANGED <<n, tamanho>>
    BY <1>5 DEF Devolver, Recusado, Tipos
  <2>2. Contados' = Contados \ {q} /\ q \in Contados
    BY <2>0, <2>1, ContadosNoRemetente DEF Reservou
  <2>3. q \in Quadro /\ q.bytes = tamanho[r] /\ q.bytes \in Nat
    BY <2>0, <2>1, ForaDaMemoria, NaFaixa
  <2>4. Conta'
    BY <2>1, <2>2, <2>3, ContaMenos
  <2> QED BY <2>1, <2>4, CabeNoRemetente
<1>6. CASE Pegar
  <2>1. /\ saida # <<>> /\ mao' = <<Head(saida)>> /\ saida' = Tail(saida)
        /\ escritor = "pega" /\ escritor' = "debita"
        /\ UNCHANGED <<passo, n, tamanho, bytesNaFila>>
    BY <1>6 DEF Pegar
  <2>2. /\ Len(saida) \in Nat \ {0} /\ DOMAIN saida = 1..Len(saida) /\ Head(saida) = saida[1]
        /\ DOMAIN saida' = 1..(Len(saida) - 1)
        /\ \A i \in 1..(Len(saida) - 1) : saida'[i] = saida[i + 1]
    BY <2>1 DEF Tipos
  <2>3. Range(saida) = Range(saida') \cup {mao'[1]}
    <3>1. \A i \in DOMAIN saida' : i + 1 \in DOMAIN saida /\ saida'[i] = saida[i + 1]
      BY <2>2
    <3>2. \A i \in DOMAIN saida : i = 1 \/ (i - 1 \in DOMAIN saida' /\ saida'[i - 1] = saida[i])
      BY <2>2
    <3>3. 1 \in DOMAIN saida /\ mao'[1] = saida[1]
      BY <2>1, <2>2
    <3> QED BY <3>1, <3>2, <3>3 DEF Range
  <2>4. \A s \in Remetente : MeuQuadro(s)' = MeuQuadro(s)
    BY <2>1 DEF MeuQuadro
  <2>5. Contados' = Contados
    BY <2>1, <2>3, <2>4 DEF Contados
  <2>6. Admitidos' \subseteq Admitidos
    BY <2>1, <2>3, <2>4 DEF Admitidos
  <2> QED BY <2>1, <2>5, <2>6, ContaIgual, CabeAinda
<1>7. CASE Debitar
  <2>0. PICK q : q = mao[1]
    OBVIOUS
  <2>1. /\ escritor = "debita" /\ escritor' = "escreve" /\ bytesNaFila' = bytesNaFila - q.bytes
        /\ UNCHANGED <<saida, passo, n, tamanho, mao>>
    BY <1>7, <2>0 DEF Debitar
  <2>2. 1 \in DOMAIN mao /\ mao[1] = q
    BY <2>0, <2>1, LenProperties DEF Etapas, Tipos
  <2>3. q \in Quadro /\ q.bytes \in Nat
    BY <2>2, NaFaixa
  <2>4. q \notin Range(saida)
    BY <2>2 DEF Unicos, Range
  <2>5. ASSUME NEW r \in Remetente, passo[r] \in {"reservou", "devolver", "recusado"}
        PROVE  MeuQuadro(r) # q
    BY <2>2, <2>5, ForaDaMemoria
  <2>6. \A s \in Remetente : MeuQuadro(s)' = MeuQuadro(s)
    BY <2>1 DEF MeuQuadro
  <2>7. Contados' = Contados \ {q} /\ q \in Contados
    BY <2>0, <2>1, <2>4, <2>5, <2>6 DEF Contados
  <2>8. Admitidos' = Admitidos
    BY <2>1, <2>6 DEF Admitidos
  <2>9. Conta'
    BY <2>1, <2>3, <2>7, ContaMenos
  <2> QED BY <2>8, <2>9, CabeAinda
<1>8. CASE \/ Fechar \/ Escrever \/ FalharEscrita \/ FecharPorFalha \/ ComecarDreno \/ TerminarDreno
           \/ UNCHANGED vars
  <2>1. /\ UNCHANGED <<saida, passo, n, tamanho, bytesNaFila>>
        /\ UNCHANGED <<escritor, mao>> \/ (escritor # "debita" /\ escritor' # "debita")
    BY <1>8 DEF Fechar, Escrever, FalharEscrita, FecharPorFalha, ComecarDreno, TerminarDreno, vars
  <2>2. \A s \in Remetente : MeuQuadro(s)' = MeuQuadro(s)
    BY <2>1 DEF MeuQuadro
  <2>3. Contados' = Contados /\ Admitidos' = Admitidos
    BY <2>1, <2>2 DEF Contados, Admitidos
  <2> QED BY <2>1, <2>3, ContaIgual, CabeAinda
<1> QED BY <1>1, <1>2, <1>3, <1>4, <1>5, <1>6, <1>7, <1>8 DEF Next, Continuar, Escritor

LEMMA ContaInicial == Init => ContaInv
<1> SUFFICES ASSUME Init PROVE ContaInv
  OBVIOUS
<1>1. FilaInv
  BY FilaInicial
<1>2. /\ saida = <<>> /\ mao = <<>> /\ bytesNaFila = 0 /\ escritor = "pega"
      /\ \A r \in Remetente : passo[r] = "fora" /\ n[r] = 0
      /\ n = [r \in Remetente |-> 0]
  BY DEF Init
<1>3. Unicos
  BY <1>2 DEF Unicos, EmMemoria
<1>4. Contados = {} /\ Admitidos = {}
  BY <1>2 DEF Contados, Admitidos, Range
<1>5. Octetos({}) = {}
  BY DEF Octetos
<1>6. Conta
  BY <1>2, <1>4, <1>5, FS_EmptySet DEF Conta, BytesConservados
<1>7. Cabe
  BY <1>4, <1>5, FS_EmptySet, FilaAssumption DEF Cabe
<1>8. Len(saida) <= tamanhoFilaSaida
  BY <1>2, FilaAssumption
<1>9. n \in [Remetente -> 0..MaxEnvios]
  BY <1>2, FilaAssumption
<1> QED BY <1>1, <1>3, <1>6, <1>7, <1>8, <1>9 DEF ContaInv

LEMMA ContaPasso == ContaInv /\ [Next]_vars => ContaInv'
<1> SUFFICES ASSUME ContaInv, [Next]_vars PROVE ContaInv'
  OBVIOUS
<1>1. FilaInv /\ FilaInv' /\ Tipos /\ Etapas /\ Tipos'
  BY FilaPasso DEF ContaInv, FilaInv
<1>2. Unicos' /\ Conta' /\ Cabe'
  BY <1>1, UnicosFicam, ContaFica DEF ContaInv
<1>3. Len(saida') <= tamanhoFilaSaida
  <2>1. CASE UNCHANGED saida
    BY <2>1 DEF ContaInv
  <2>2. ASSUME NEW r \in Remetente, Depositar(r) PROVE Len(saida') <= tamanhoFilaSaida
    <3>1. Len(saida') = Len(saida) + 1 /\ Len(saida) \in Nat
      <4>1. MeuQuadro(r) \in Quadro
        BY <1>1, <2>2, AceitosAoDepositar DEF Depositar
      <4> QED BY <1>1, <2>2, <4>1, AppendProperties, LenProperties DEF Depositar, Tipos
    <3> QED BY <2>2, <3>1, FilaAssumption DEF Depositar, TemVaga
  <2>3. CASE Pegar
    <3>1. Len(saida') = Len(saida) - 1 /\ Len(saida) \in Nat
      BY <1>1, <2>3 DEF Pegar, Tipos
    <3> QED BY <3>1, FilaAssumption DEF ContaInv
  <2>4. UNCHANGED saida \/ Pegar \/ \E r \in Remetente : Depositar(r)
    BY DEF Next, vars, remetentes, Continuar, Escritor, Conferir, Reservar, Desistir, Devolver,
           FecharPorEnvio, Fechar, Debitar, Escrever, FalharEscrita, FecharPorFalha,
           ComecarDreno, TerminarDreno
  <2> QED BY <2>1, <2>2, <2>3, <2>4
<1>4. n' \in [Remetente -> 0..MaxEnvios]
  <2>1. CASE UNCHANGED n
    BY <2>1 DEF ContaInv
  <2>2. ASSUME NEW r \in Remetente, n[r] < MaxEnvios, n' = [n EXCEPT ![r] = @ + 1]
        PROVE  n' \in [Remetente -> 0..MaxEnvios]
    <3>1. n[r] + 1 \in 0..MaxEnvios
      BY <2>2, FilaAssumption DEF ContaInv
    <3> QED BY <2>2, <3>1 DEF ContaInv
  <2>3. UNCHANGED n \/ \E r \in Remetente : n[r] < MaxEnvios /\ n' = [n EXCEPT ![r] = @ + 1]
    BY DEF Next, vars, remetentes, Continuar, Escritor, Conferir, Reservar, Depositar, Desistir, Devolver,
           FecharPorEnvio, Fechar, Pegar, Debitar, Escrever, FalharEscrita, FecharPorFalha,
           ComecarDreno, TerminarDreno
  <2> QED BY <2>1, <2>2, <2>3
<1> QED BY <1>1, <1>2, <1>3, <1>4 DEF ContaInv

LEMMA ContaSempre == Spec => []ContaInv
BY ContaInicial, ContaPasso, PTL DEF Spec

\* Every variable of the send side keeps its type: the channel never holds more frames
\* than it has room for, the counter is never negative, and the writer holds one frame or
\* none.
THEOREM TipoSempre == Spec => []TypeOK
<1>1. ASSUME ContaInv PROVE TypeOK
  <2>1. Tipos /\ Etapas /\ Conta /\ Len(saida) <= tamanhoFilaSaida /\ n \in [Remetente -> 0..MaxEnvios]
    BY <1>1 DEF ContaInv, FilaInv
  <2>2. bytesNaFila \in Nat
    BY <2>1, FS_CardinalityType DEF Conta, BytesConservados
  <2>3. mao \in {<<>>} \cup {<<q>> : q \in Quadro}
    <3>1. CASE escritor \in {"debita", "escreve"}
      <4>1. Len(mao) = 1 /\ mao \in Seq(Quadro)
        BY <2>1, <3>1 DEF Etapas, Tipos
      <4>2. mao = <<mao[1]>> /\ mao[1] \in Quadro
        BY <4>1
      <4> QED BY <4>2
    <3>2. CASE escritor \notin {"debita", "escreve"}
      BY <2>1, <3>2 DEF Etapas
    <3> QED BY <3>1, <3>2
  <2> QED BY <2>1, <2>2, <2>3 DEF Tipos, TypeOK
<1> QED BY <1>1, ContaSempre, PTL

\* The byte counter is what it counts, at every step of every sender and of the writer:
\* nothing is counted twice, forgotten, or taken off twice (enfileirar, Escritor, drenar).
THEOREM BytesSempreConservados == Spec => []BytesConservados
<1>1. ContaInv => BytesConservados
  BY DEF ContaInv, Conta
<1> QED BY <1>1, ContaSempre, PTL

\* However many senders overlap between the addition and the channel, what is in the
\* channel is within bytesMaximosFilaSaida.
THEOREM FilaSempreLimitada == Spec => []FilaLimitada
<1>1. ASSUME ContaInv PROVE FilaLimitada
  <2>1. PICK A : A = Admitidos
    OBVIOUS
  <2>2. PICK B : B = Range(saida)
    OBVIOUS
  <2>3. B \in SUBSET A
    BY <2>1, <2>2 DEF Admitidos
  <2>4. IsFiniteSet(Octetos(A)) /\ Cardinality(Octetos(A)) <= bytesMaximosFilaSaida
    BY <1>1, <2>1, AdmitidosContados DEF ContaInv, Conta, Cabe
  <2>5. /\ Cardinality(Octetos(B)) <= Cardinality(Octetos(A))
        /\ Cardinality(Octetos(B)) \in Nat /\ Cardinality(Octetos(A)) \in Nat
    BY <2>3, <2>4, OctetosParte
  <2>6. Cardinality(Octetos(B)) <= bytesMaximosFilaSaida
    BY <2>4, <2>5, FilaAssumption
  <2> QED BY <2>2, <2>6 DEF FilaLimitada
<1> QED BY <1>1, ContaSempre, PTL
=============================================================================
