--------------------------- MODULE CaminhoProofs ---------------------------
(***************************************************************************)
(* Four results about the composition (module Caminho), for any number of  *)
(* connections, addresses and frames and any limits: the places of the     *)
(* bridge, the sockets open under them, the limit of what is assembled,    *)
(* and that the messages of the client come out whole (module Mensagens).  *)
(*                                                                         *)
(* For the last one every unit on its way from the client to the reader    *)
(* has a note of what the client meant with it; the notes begin with what  *)
(* the reader knows and end with where the client is, and each follows     *)
(* from the one before.  A step of the client adds notes at the end, one   *)
(* of the reader takes the first away, the bridge leaves them as they are, *)
(* and a connection that is cut loses the last ones.                       *)
(***************************************************************************)
EXTENDS Caminho, FiniteSetTheorems, SequenceTheorems, WellFoundedInduction, TLAPS

\* The connections that hold a place under address i.
Sob(i) == {c \in P!ComLugar : origem[c] = i}

Etapa == {"nova", "discar", "sequestrar", "pedir", "esvaziar", "copiar",
          "fecharAqui", "fecharLa", "devolver", "fim"}

\* What is inductive: a handler that holds a place holds it under an address, and
\* leaves it by Devolver alone.
ContasInv ==
  /\ etapa \in [Ligacao -> Etapa]
  /\ origem \in [Ligacao -> Endereco \cup {Nenhum}]
  /\ total \in Nat
  /\ ContasCertas

\* A step of the handler that neither takes a place nor gives it back.
MesmoLugar ==
  /\ \/ UNCHANGED etapa
     \/ \E c \in Ligacao : \E para \in Etapa :
          /\ etapa' = [etapa EXCEPT ![c] = para]
          /\ etapa[c] \in {"nova", "fim"} <=> para \in {"nova", "fim"}
  /\ UNCHANGED <<origem, porIP, total>>

-----------------------------------------------------------------------------
LEMMA LugaresFinitos ==
  /\ IsFiniteSet(P!ComLugar)
  /\ \A i : IsFiniteSet(Sob(i))
<1>1. P!ComLugar \subseteq Ligacao
  BY DEF P!ComLugar
<1>2. IsFiniteSet(P!ComLugar)
  BY <1>1, CaminhoAssumption, FS_Subset
<1>3. ASSUME NEW i PROVE IsFiniteSet(Sob(i))
  <2>1. Sob(i) \subseteq P!ComLugar
    BY DEF Sob
  <2> QED BY <2>1, <1>2, FS_Subset
<1> QED BY <1>2, <1>3

LEMMA MenosUm ==
  ASSUME NEW S, IsFiniteSet(S), NEW x \in S
  PROVE /\ Cardinality(S) \in Nat /\ Cardinality(S) >= 1
        /\ Cardinality(S \ {x}) = Cardinality(S) - 1
        /\ Cardinality(S) = 1 <=> S \ {x} = {}
<1>1. Cardinality(S) \in Nat /\ Cardinality(S) # 0
  BY FS_CardinalityType, FS_EmptySet
<1>2. IsFiniteSet(S \ {x}) /\ Cardinality(S \ {x}) = Cardinality(S) - 1
  BY FS_RemoveElement
<1>3. Cardinality(S \ {x}) = 0 <=> S \ {x} = {}
  BY <1>2, FS_EmptySet
<1> QED BY <1>1, <1>2, <1>3

\* Ponte counts with its own instance of FiniteSets.
LEMMA MesmaCardinalidade == \A S : P!Cardinality(S) = Cardinality(S)
BY DEF P!Cardinality, Cardinality

LEMMA Contado ==
  ContasCertas <=>
    /\ total = Cardinality(P!ComLugar)
    /\ DOMAIN porIP = {origem[c] : c \in P!ComLugar}
    /\ \A i \in DOMAIN porIP : porIP[i] = Cardinality(Sob(i))
    /\ total <= totalMaximo
    /\ \A i \in DOMAIN porIP : porIP[i] <= porLimite
BY MesmaCardinalidade DEF ContasCertas, P!ContasCertas, Sob

\* An address that is no key has no place.
LEMMA SemChave ==
  ASSUME ContasInv, NEW i
  PROVE P!Abertas(i) = Cardinality(Sob(i))
<1>1. CASE i \in DOMAIN porIP
  BY <1>1, Contado DEF ContasInv, P!Abertas
<1>2. CASE i \notin DOMAIN porIP
  <2>1. Sob(i) = {}
    BY <1>2, Contado DEF ContasInv, Sob
  <2> QED BY <1>2, <2>1, FS_EmptySet DEF P!Abertas
<1> QED BY <1>1, <1>2

LEMMA ContasNoMesmo ==
  ASSUME ContasInv, MesmoLugar
  PROVE ContasInv'
<1>1. etapa' \in [Ligacao -> Etapa] /\ P!ComLugar' = P!ComLugar
  BY DEF ContasInv, MesmoLugar, P!ComLugar, Etapa
<1>2. \A i : Sob(i)' = Sob(i)
  BY <1>1 DEF MesmoLugar, Sob
<1>3. ContasCertas'
  BY <1>1, Contado, MesmoLugar DEF ContasInv, MesmoLugar, ContasCertas, P!ContasCertas
<1> QED BY <1>1, <1>3 DEF ContasInv, MesmoLugar

LEMMA ContasAoReservar ==
  ASSUME ContasInv, NEW c \in Ligacao, NEW i \in Endereco, P!Reservar(c, i)
  PROVE ContasInv'
<1>1. etapa[c] = "nova" /\ etapa' = [etapa EXCEPT ![c] = "discar"]
  BY DEF P!Reservar, P!Ir
<1>2. c \notin P!ComLugar /\ P!ComLugar' = P!ComLugar \cup {c}
  BY <1>1 DEF ContasInv, P!ComLugar
<1>3. /\ origem' = [origem EXCEPT ![c] = i]
      /\ porIP' = [j \in DOMAIN porIP \cup {i} |-> IF j = i THEN P!Abertas(i) + 1 ELSE porIP[j]]
      /\ total' = total + 1
      /\ total < totalMaximo /\ P!Abertas(i) < porLimite
  BY DEF P!Reservar, P!Cabe
<1>4. Sob(i)' = Sob(i) \cup {c} /\ c \notin Sob(i)
  BY <1>2, <1>3 DEF ContasInv, Sob, P!ComLugar
<1>5. \A j : j # i => Sob(j)' = Sob(j)
  BY <1>2, <1>3 DEF ContasInv, Sob, P!ComLugar
<1>6. total' = Cardinality(P!ComLugar)'
  BY <1>2, <1>3, LugaresFinitos, FS_AddElement, Contado DEF ContasInv
<1>7. DOMAIN porIP' = {origem'[d] : d \in P!ComLugar'}
  <2>1. origem'[c] = i /\ \A d \in P!ComLugar : origem'[d] = origem[d]
    BY <1>2, <1>3 DEF ContasInv, P!ComLugar
  <2>2. DOMAIN porIP' = {origem[d] : d \in P!ComLugar} \cup {i}
    BY <1>3, Contado DEF ContasInv
  <2> QED BY <1>2, <2>1, <2>2
<1>8. Cardinality(Sob(i))' = P!Abertas(i) + 1 /\ P!Abertas(i) \in Nat
  BY <1>4, LugaresFinitos, FS_AddElement, FS_CardinalityType, SemChave
<1>9. \A j \in DOMAIN porIP' : porIP'[j] = Cardinality(Sob(j))' /\ porIP'[j] <= porLimite
  BY <1>3, <1>5, <1>8, Contado, CaminhoAssumption DEF ContasInv
<1>10. ContasCertas'
  <2>1. total' <= totalMaximo
    BY <1>3, CaminhoAssumption DEF ContasInv
  <2> QED BY <1>6, <1>7, <1>9, <2>1, MesmaCardinalidade DEF ContasCertas, P!ContasCertas, Sob
<1> QED BY <1>1, <1>3, <1>10 DEF ContasInv, Etapa

LEMMA ContasAoDevolver ==
  ASSUME ContasInv, NEW c \in Ligacao, P!Devolver(c)
  PROVE ContasInv'
<1>0. PICK i : i = origem[c]
  OBVIOUS
<1>1. etapa[c] = "devolver" /\ etapa' = [etapa EXCEPT ![c] = "fim"]
  BY DEF P!Devolver, P!Ir
<1>2. c \in P!ComLugar /\ P!ComLugar' = P!ComLugar \ {c}
  BY <1>1 DEF ContasInv, P!ComLugar
<1>3. /\ origem' = [origem EXCEPT ![c] = Nenhum]
      /\ porIP' = IF P!Abertas(i) <= 1
                  THEN [j \in DOMAIN porIP \ {i} |-> porIP[j]]
                  ELSE [porIP EXCEPT ![i] = @ - 1]
      /\ total' = total - 1
  BY <1>0 DEF P!Devolver
<1>4. \A d \in P!ComLugar' : origem'[d] = origem[d]
  BY <1>2, <1>3 DEF ContasInv, P!ComLugar
<1>5. c \in Sob(i) /\ Sob(i)' = Sob(i) \ {c}
  BY <1>0, <1>2, <1>4 DEF Sob
<1>6. \A j : j # i => Sob(j)' = Sob(j)
  BY <1>0, <1>2, <1>4 DEF Sob
<1>7. i \in DOMAIN porIP /\ porIP[i] = Cardinality(Sob(i)) /\ P!Abertas(i) = porIP[i]
  BY <1>0, <1>2, Contado DEF ContasInv, P!Abertas
<1>8. /\ porIP[i] \in Nat /\ porIP[i] >= 1
      /\ Cardinality(Sob(i))' = porIP[i] - 1
      /\ porIP[i] = 1 <=> Sob(i) \ {c} = {}
  <2>1. IsFiniteSet(Sob(i))
    BY LugaresFinitos
  <2> QED BY <1>5, <1>7, <2>1, MenosUm
<1>9. /\ total' = Cardinality(P!ComLugar)' /\ total' \in Nat
      /\ total' <= totalMaximo
  <2>1. IsFiniteSet(P!ComLugar)
    BY LugaresFinitos
  <2>2. /\ Cardinality(P!ComLugar) \in Nat /\ Cardinality(P!ComLugar) >= 1
        /\ Cardinality(P!ComLugar \ {c}) = Cardinality(P!ComLugar) - 1
    BY <1>2, <2>1, MenosUm
  <2>3. total = Cardinality(P!ComLugar) /\ total <= totalMaximo
    BY Contado DEF ContasInv
  <2> QED BY <1>2, <1>3, <2>2, <2>3, CaminhoAssumption
<1>10. DOMAIN porIP' = {origem'[d] : d \in P!ComLugar'}
  <2>1. {origem'[d] : d \in P!ComLugar'} = {origem[d] : d \in P!ComLugar \ {c}}
    BY <1>2, <1>4
  <2>2. DOMAIN porIP = {origem[d] : d \in P!ComLugar}
    BY Contado DEF ContasInv
  <2>3. CASE porIP[i] = 1
    <3>1. \A d \in P!ComLugar \ {c} : origem[d] # i
      BY <2>3, <1>8 DEF Sob
    <3>2. DOMAIN porIP' = DOMAIN porIP \ {i}
      BY <2>3, <1>3, <1>7
    <3>3. {origem[d] : d \in P!ComLugar \ {c}} = {origem[d] : d \in P!ComLugar} \ {i}
      BY <3>1, <1>0, <1>2
    <3> QED BY <2>1, <2>2, <3>2, <3>3
  <2>4. CASE porIP[i] > 1
    <3>1. PICK d \in P!ComLugar \ {c} : origem[d] = i
      BY <2>4, <1>8 DEF Sob
    <3>2. DOMAIN porIP' = DOMAIN porIP
      BY <2>4, <1>3, <1>7, <1>8
    <3>3. {origem[e] : e \in P!ComLugar \ {c}} = {origem[e] : e \in P!ComLugar}
      BY <3>1, <1>0, <1>2
    <3> QED BY <2>1, <2>2, <3>2, <3>3
  <2>5. porIP[i] = 1 \/ porIP[i] > 1
    BY <1>8
  <2> QED BY <2>3, <2>4, <2>5
<1>11. \A j \in DOMAIN porIP' : porIP'[j] = Cardinality(Sob(j))' /\ porIP'[j] <= porLimite
  <2> SUFFICES ASSUME NEW j \in DOMAIN porIP'
               PROVE porIP'[j] = Cardinality(Sob(j))' /\ porIP'[j] <= porLimite
    OBVIOUS
  <2>1. j \in DOMAIN porIP
    BY <1>3, <1>7
  <2>2. CASE j = i
    BY <2>2, <1>3, <1>7, <1>8, Contado, CaminhoAssumption DEF ContasInv
  <2>3. CASE j # i
    BY <2>1, <2>3, <1>3, <1>6, Contado DEF ContasInv
  <2> QED BY <2>2, <2>3
<1>12. ContasCertas'
  BY <1>9, <1>10, <1>11, MesmaCardinalidade DEF ContasCertas, P!ContasCertas, Sob
<1> QED BY <1>1, <1>3, <1>9, <1>12 DEF ContasInv, Etapa

LEMMA ContasNoInicio == Init => ContasInv
<1> SUFFICES ASSUME Init PROVE ContasInv
  OBVIOUS
<1>1. P!ComLugar = {} /\ DOMAIN porIP = {} /\ total = 0
  BY DEF Init, P!Init, P!ComLugar
<1>2. ContasCertas
  BY <1>1, FS_EmptySet, MesmaCardinalidade, CaminhoAssumption DEF ContasCertas, P!ContasCertas
<1> QED BY <1>1, <1>2 DEF ContasInv, Init, P!Init, Etapa

LEMMA ContasNoPasso == ContasInv /\ [Next]_vars => ContasInv'
<1> SUFFICES ASSUME ContasInv, [Next]_vars PROVE ContasInv'
  OBVIOUS
<1>1. ASSUME NEW c \in Ligacao, PassoDaPonte(c) PROVE ContasInv'
  <2>1. CASE P!Devolver(c)
    BY <2>1, ContasAoDevolver
  <2>2. CASE ~P!Devolver(c)
    <3>1. MesmoLugar
      BY <1>1, <2>2
         DEF PassoDaPonte, MesmoLugar, Etapa, P!contas, P!Ir, P!Atender, P!Discar, P!FalharDiscagem,
             P!Sequestrar, P!FalharSequestro, P!EscreverPedido, P!PassarBuffer,
             P!TerminarCopia, P!FecharAqui, P!FecharLa
    <3> QED BY <3>1, ContasNoMesmo
  <2> QED BY <2>1, <2>2
<1>2. ASSUME NEW c \in Ligacao, PassoDaCopia(c) PROVE ContasInv'
  <2>1. MesmoLugar
    BY <1>2 DEF PassoDaCopia, MesmoLugar, P!contas, P!Copiar, P!LerOrigem, P!EscreverDestino,
                P!AcabarCopia
  <2> QED BY <2>1, ContasNoMesmo
<1>3. ASSUME NEW c \in Ligacao, Ambiente(c) PROVE ContasInv'
  <2>1. CASE \E i \in Endereco : P!Reservar(c, i)
    BY <2>1, ContasAoReservar
  <2>2. CASE ~ \E i \in Endereco : P!Reservar(c, i)
    <3>1. MesmoLugar
      BY <1>3, <2>2 DEF Ambiente, MesmoLugar, Etapa, P!contas, P!Ir, P!Recusar, P!RecusarExcesso,
                        P!ClienteFecha, P!ServidorFecha, P!InterromperCopia
    <3> QED BY <3>1, ContasNoMesmo
  <2> QED BY <2>1, <2>2
<1>4. CASE (\E q \in Quadros : Enviar(q)) \/ Ler \/ InterromperLeitura \/ ServidorDesiste \/ UNCHANGED vars
  <2>1. MesmoLugar
    BY <1>4 DEF MesmoLugar, Enviar, Ler, InterromperLeitura, ServidorDesiste,
                P!ServidorFecha, P!contas, ponte, vars
  <2> QED BY <2>1, ContasNoMesmo
<1> QED BY <1>1, <1>2, <1>3, <1>4 DEF Next

\* The counters of the bridge are the handlers that hold a place, whatever way each of
\* them takes through atender (reservar, devolver and the deferred calls).
THEOREM ContasSempre == Spec => []ContasCertas
<1>1. ContasInv => ContasCertas
  BY DEF ContasInv
<1> QED BY ContasNoInicio, ContasNoPasso, <1>1, PTL DEF Spec

-----------------------------------------------------------------------------
(***************************************************************************)
(* Sums of lengths.                                                        *)
(***************************************************************************)
\* A set of numbers has a least one, and so the numbers are reached from 0 by ones.
LEMMA Menor ==
  ASSUME NEW T \in SUBSET Nat, T # {}
  PROVE \E x \in T : \A y \in T : x <= y
<1> DEFINE R == {ss \in Nat \X Nat : ss[1] < ss[2]}
<1>1. IsWellFoundedOn(R, Nat)
  BY NatLessThanWellFounded DEF OpToRel
<1>2. \A x, y \in Nat : y < x => <<y, x>> \in R
  OBVIOUS
<1> HIDE DEF R
<1>3. PICK x \in T : \A y \in T : <<y, x>> \notin R
  BY <1>1, WFMin
<1>4. \A y \in T : ~(y < x)
  BY <1>2, <1>3
<1> QED BY <1>4

LEMMA Inducao ==
  ASSUME NEW S, 0 \in S, \A n \in Nat : n \in S => n + 1 \in S
  PROVE Nat \subseteq S
<1> SUFFICES ASSUME Nat \ S # {} PROVE FALSE
  OBVIOUS
<1>1. PICK x \in Nat \ S : \A y \in Nat \ S : x <= y
  BY Menor
<1>2. x # 0 /\ x - 1 \in Nat
  BY <1>1
<1>3. x - 1 \in S
  BY <1>1, <1>2
<1> QED BY <1>2, <1>3, (x - 1) + 1 = x

\* f holds the sums of the first k elements of s, up to n.
Somas(f, s, n) == f = [k \in 0..n |-> IF k = 0 THEN 0 ELSE f[k - 1] + s[k]]

LEMMA SomasExistem ==
  ASSUME NEW s \in Seq(Nat)
  PROVE \E f : Somas(f, s, Len(s))
<1> DEFINE S == {n \in Nat : \E f : Somas(f, s, n)}
<1>1. 0 \in S
  <2> DEFINE f == [k \in 0..0 |-> 0]
  <2>1. Somas(f, s, 0)
    BY DEF Somas
  <2> QED BY <2>1
<1>2. ASSUME NEW n \in Nat, n \in S PROVE n + 1 \in S
  <2>1. PICK f : Somas(f, s, n)
    BY <1>2
  <2> DEFINE g == [k \in 0..(n + 1) |-> IF k = n + 1 THEN f[n] + s[n + 1] ELSE f[k]]
  <2>2. \A k \in 0..n : f[k] = IF k = 0 THEN 0 ELSE f[k - 1] + s[k]
    BY <2>1 DEF Somas
  <2>3. \A k \in 0..(n + 1) : g[k] = IF k = 0 THEN 0 ELSE g[k - 1] + s[k]
    <3> TAKE k \in 0..(n + 1)
    <3>1. CASE k = n + 1
      BY <3>1
    <3>2. CASE k # n + 1
      BY <2>2, <3>2
    <3> QED BY <3>1, <3>2
  <2>4. Somas(g, s, n + 1)
    BY <2>3 DEF Somas
  <2> QED BY <2>4
<1> HIDE DEF S
<1>3. Len(s) \in S
  BY <1>1, <1>2, Inducao, SMTT(30)
<1> QED BY <1>3 DEF S

LEMMA SomaDe ==
  ASSUME NEW s \in Seq(Nat)
  PROVE \E f : Somas(f, s, Len(s)) /\ L!Soma(s) = f[Len(s)]
<1> DEFINE f == CHOOSE f : Somas(f, s, Len(s))
<1>1. Somas(f, s, Len(s))
  BY SomasExistem
<1>2. L!Soma(s) = f[Len(s)]
  BY DEF L!Soma, Somas
<1> QED BY <1>1, <1>2

\* What a sum is, and that it depends on nothing but the elements it adds.
LEMMA SomasIguais ==
  ASSUME NEW s \in Seq(Nat), NEW t \in Seq(Nat), NEW f, NEW g, NEW n \in Nat,
         Somas(f, s, Len(s)), Somas(g, t, Len(t)), n <= Len(s), n <= Len(t),
         \A k \in 1..n : s[k] = t[k]
  PROVE f[n] = g[n] /\ f[n] \in Nat
<1> DEFINE S == {k \in Nat : k <= n => f[k] = g[k] /\ f[k] \in Nat}
<1>1. /\ \A k \in 0..Len(s) : f[k] = IF k = 0 THEN 0 ELSE f[k - 1] + s[k]
      /\ \A k \in 0..Len(t) : g[k] = IF k = 0 THEN 0 ELSE g[k - 1] + t[k]
  BY DEF Somas
<1>2. 0 \in S
  BY <1>1
<1>3. ASSUME NEW k \in Nat, k \in S PROVE k + 1 \in S
  <2>1. CASE k + 1 <= n
    <3>1. f[k + 1] = f[k] + s[k + 1] /\ g[k + 1] = g[k] + t[k + 1]
      BY <2>1, <1>1, SMTT(30)
    <3>2. s[k + 1] = t[k + 1] /\ s[k + 1] \in Nat
      BY <2>1
    <3>3. f[k] = g[k] /\ f[k] \in Nat
      BY <2>1, <1>3
    <3>4. PICK a, b, x : a = f[k] /\ b = f[k + 1] /\ x = s[k + 1]
      OBVIOUS
    <3>5. b = a + x /\ g[k + 1] = b /\ a \in Nat /\ x \in Nat
      BY <3>1, <3>2, <3>3, <3>4
    <3>6. b \in Nat
      BY ONLY <3>5
    <3>7. f[k + 1] = g[k + 1] /\ f[k + 1] \in Nat
      BY ONLY <3>4, <3>5, <3>6
    <3>8. k + 1 \in Nat
      OBVIOUS
    <3> QED BY ONLY <3>7, <3>8
  <2>2. CASE ~(k + 1 <= n)
    <3>1. k + 1 \in Nat
      OBVIOUS
    <3> QED BY ONLY <2>2, <3>1
  <2> QED BY <2>1, <2>2
<1> HIDE DEF S
<1>4. n \in S
  BY <1>2, <1>3, Inducao
<1> QED BY <1>4 DEF S

LEMMA SomaNatural ==
  ASSUME NEW s \in Seq(Nat)
  PROVE L!Soma(s) \in Nat
<1>1. PICK f : Somas(f, s, Len(s)) /\ L!Soma(s) = f[Len(s)]
  BY SomaDe
<1> QED BY <1>1, SomasIguais

LEMMA SomaVazia == L!Soma(<<>>) = 0
<1>1. PICK f : Somas(f, <<>>, 0) /\ L!Soma(<<>>) = f[0]
  BY SomaDe, <<>> \in Seq(Nat), Len(<<>>) = 0
<1> QED BY <1>1 DEF Somas

LEMMA SomaMais ==
  ASSUME NEW s \in Seq(Nat), NEW x \in Nat
  PROVE L!Soma(Append(s, x)) = L!Soma(s) + x
<1> DEFINE t == Append(s, x)
<1>1. t \in Seq(Nat) /\ Len(t) = Len(s) + 1 /\ t[Len(s) + 1] = x
      /\ \A k \in 1..Len(s) : t[k] = s[k]
  OBVIOUS
<1> HIDE DEF t
<1>2. PICK f : Somas(f, s, Len(s)) /\ L!Soma(s) = f[Len(s)]
  BY SomaDe
<1>3. PICK g : Somas(g, t, Len(t)) /\ L!Soma(t) = g[Len(t)]
  BY <1>1, SomaDe
<1>4. g[Len(t)] = g[Len(s)] + x
  BY <1>1, <1>3 DEF Somas
<1>5. f[Len(s)] = g[Len(s)]
  <2>1. PICK n \in Nat : n = Len(s)
    OBVIOUS
  <2>2. n <= Len(s) /\ n <= Len(t) /\ \A k \in 1..n : s[k] = t[k]
    BY <1>1, <2>1
  <2>3. f[n] = g[n]
    <3>1. t \in Seq(Nat)
      BY <1>1
    <3>2. Somas(f, s, Len(s)) /\ Somas(g, t, Len(t))
      BY <1>2, <1>3
    <3> QED BY ONLY <3>1, <3>2, <2>2, SomasIguais, s \in Seq(Nat), n \in Nat
  <2> QED BY <2>1, <2>3
<1> QED BY <1>2, <1>3, <1>4, <1>5 DEF t

-----------------------------------------------------------------------------
(***************************************************************************)
(* The way of the bytes through the bridge.                                *)
(***************************************************************************)
Unidade == {L!Unidades(q)[k] : q \in Quadros, k \in 1..3}

Copia == {"nada", "lendo", "escrevendo", "fim"}

TiposDosBytes ==
  /\ enviado \in Seq(Unidade)
  /\ mao \in Seq(Unidade)
  /\ recebido \in Seq(Unidade)
  /\ copia \in [Ligacao -> [P!Lado -> Copia]]
  /\ la \in [Ligacao -> {"nenhum", "aberto", "fechado"}]
  /\ servidor \in [Ligacao -> BOOLEAN]

\* The server was not reached yet, or never will be.
SemServidor ==
  /\ etapa[Observada] \in {"nova", "discar", "devolver", "fim"}
  /\ copia[Observada]["ida"] = "nada"

\* What is inductive of the bridge: only the observed connection carries bytes, its
\* goroutine holds some between a Read and a Write alone, and starts after the buffer was
\* passed on; and the server is there while it reads.
PonteInv ==
  /\ TiposDosBytes
  /\ \A c \in Ligacao : copia[c]["ida"] = "escrevendo" => c = Observada
  /\ copia[Observada]["ida"] # "escrevendo" => mao = <<>>
  /\ etapa[Observada] \in {"nova", "discar", "sequestrar", "pedir", "esvaziar"}
       => copia[Observada]["ida"] = "nada"
  /\ la[Observada] = "nenhum" => SemServidor
  /\ la[Observada] # "nenhum" => servidor[Observada] \/ leitura = "fim"

LEMMA Dois ==
  ASSUME NEW S, NEW s \in Seq(S), NEW x \in S, Len(s) = 1
  PROVE s \o <<x>> = <<s[1], x>>
<1>1. <<x>> \in Seq(S) /\ Len(<<x>>) = 1 /\ <<x>>[1] = x
  OBVIOUS
<1>2. /\ s \o <<x>> \in Seq(S) /\ Len(s \o <<x>>) = Len(s) + 1
      /\ \A i \in 1..(Len(s) + 1) : (s \o <<x>>)[i] = IF i <= Len(s) THEN s[i] ELSE <<x>>[i - Len(s)]
  BY <1>1, ConcatProperties
<1>3. s[1] \in S
  <2>1. 1 \in 1..Len(s)
    OBVIOUS
  <2> QED BY <2>1, ElementOfSeq
<1>4. /\ <<s[1], x>> \in Seq(S) /\ Len(<<s[1], x>>) = 2
      /\ \A i \in 1..2 : <<s[1], x>>[i] = IF i <= 1 THEN s[i] ELSE x
  BY <1>3
<1>5. \A i \in 1..2 : (s \o <<x>>)[i] = IF i <= 1 THEN s[i] ELSE x
  BY <1>1, <1>2
<1>6. PICK t, r : t = s \o <<x>> /\ r = <<s[1], x>>
  OBVIOUS
<1>7. /\ t \in Seq(S) /\ r \in Seq(S) /\ Len(t) = Len(r)
      /\ \A i \in 1..Len(t) : t[i] = r[i]
  BY <1>2, <1>4, <1>5, <1>6
<1>8. t = r
  BY <1>7, SeqEqual
<1> QED BY ONLY <1>6, <1>8

LEMMA Tres ==
  ASSUME NEW S, NEW s \in Seq(S), NEW x \in S, Len(s) = 2
  PROVE s \o <<x>> = <<s[1], s[2], x>>
<1>1. <<x>> \in Seq(S) /\ Len(<<x>>) = 1 /\ <<x>>[1] = x
  OBVIOUS
<1>2. /\ s \o <<x>> \in Seq(S) /\ Len(s \o <<x>>) = Len(s) + 1
      /\ \A i \in 1..(Len(s) + 1) : (s \o <<x>>)[i] = IF i <= Len(s) THEN s[i] ELSE <<x>>[i - Len(s)]
  BY <1>1, ConcatProperties
<1>3. s[1] \in S /\ s[2] \in S
  <2>1. 1 \in 1..Len(s) /\ 2 \in 1..Len(s)
    OBVIOUS
  <2> QED BY <2>1, ElementOfSeq
<1>4. /\ <<s[1], s[2], x>> \in Seq(S) /\ Len(<<s[1], s[2], x>>) = 3
      /\ \A i \in 1..3 : <<s[1], s[2], x>>[i] = IF i <= 2 THEN s[i] ELSE x
  BY <1>3
<1>5. \A i \in 1..3 : (s \o <<x>>)[i] = IF i <= 2 THEN s[i] ELSE x
  BY <1>1, <1>2
<1>6. PICK t, r : t = s \o <<x>> /\ r = <<s[1], s[2], x>>
  OBVIOUS
<1>7. /\ t \in Seq(S) /\ r \in Seq(S) /\ Len(t) = Len(r)
      /\ \A i \in 1..Len(t) : t[i] = r[i]
  BY <1>2, <1>4, <1>5, <1>6
<1>8. t = r
  BY <1>7, SeqEqual
<1> QED BY ONLY <1>6, <1>8

LEMMA TresEmFila ==
  ASSUME NEW a, NEW b, NEW u
  PROVE /\ (<<a>> \o <<b>>) \o <<u>> = <<a, b, u>>
        /\ (<<a>> \o <<>>) \o <<u>> = <<a, u>>
<1> DEFINE S == {a, b, u}
<1>1. /\ <<a>> \in Seq(S) /\ Len(<<a>>) = 1 /\ <<a>>[1] = a
      /\ <<a, b>> \in Seq(S) /\ Len(<<a, b>>) = 2 /\ <<a, b>>[1] = a /\ <<a, b>>[2] = b
      /\ b \in S /\ u \in S
  OBVIOUS
<1>2. <<a>> \o <<b>> = <<a, b>> /\ <<a>> \o <<u>> = <<a, u>>
  BY <1>1, Dois
<1>3. <<a, b>> \o <<u>> = <<a, b, u>>
  BY <1>1, Tres
<1>4. <<a>> \o <<>> = <<a>>
  BY <1>1, ConcatEmptySeq
<1> QED BY <1>2, <1>3, <1>4

LEMMA UnidadesDeQuadro ==
  ASSUME NEW q \in Quadros
  PROVE /\ L!Unidades(q) \in Seq(Unidade)
        /\ Len(L!Unidades(q)) = IF L!Estendido(L!Campo(q.tam)) THEN 3 ELSE 2
        /\ L!Unidades(q)[1] = [parte |-> "cabecalho", op |-> q.op, fim |-> q.fim, rsv |-> q.rsv,
                               mascarado |-> q.mascarado, campo |-> L!Campo(q.tam)]
        /\ L!Estendido(L!Campo(q.tam)) =>
             L!Unidades(q)[2] = [parte |-> "extensao", valor |-> L!Extensao(q.tam)]
<1> DEFINE a == [parte |-> "cabecalho", op |-> q.op, fim |-> q.fim, rsv |-> q.rsv,
                 mascarado |-> q.mascarado, campo |-> L!Campo(q.tam)]
           b == [parte |-> "extensao", valor |-> L!Extensao(q.tam)]
           u == [parte |-> "corpo"]
<1>1. L!Unidades(q) = IF L!Estendido(L!Campo(q.tam)) THEN (<<a>> \o <<b>>) \o <<u>>
                                                      ELSE (<<a>> \o <<>>) \o <<u>>
  BY DEF L!Unidades
<1> HIDE DEF a, b, u
<1>2. L!Unidades(q) = IF L!Estendido(L!Campo(q.tam)) THEN <<a, b, u>> ELSE <<a, u>>
  BY <1>1, TresEmFila
<1>3. CASE L!Estendido(L!Campo(q.tam))
  <2>1. L!Unidades(q) = <<a, b, u>>
    BY <1>2, <1>3
  <2>2. a \in Unidade /\ b \in Unidade /\ u \in Unidade
    <3>1. \A k \in 1..3 : L!Unidades(q)[k] \in Unidade
      BY DEF Unidade
    <3> QED BY <2>1, <3>1
  <2> QED BY <1>3, <2>1, <2>2 DEF a, b
<1>4. CASE ~L!Estendido(L!Campo(q.tam))
  <2>1. L!Unidades(q) = <<a, u>>
    BY <1>2, <1>4
  <2>2. a \in Unidade /\ u \in Unidade
    <3>1. \A k \in 1..3 : L!Unidades(q)[k] \in Unidade
      BY DEF Unidade
    <3> QED BY <2>1, <3>1
  <2> QED BY <1>4, <2>1, <2>2 DEF a
<1> QED BY <1>3, <1>4

LEMMA PonteNoInicio == Init => PonteInv
<1> SUFFICES ASSUME Init PROVE PonteInv
  OBVIOUS
<1> QED
  BY CaminhoAssumption
  DEF Init, P!Init, P!Lado, PonteInv, TiposDosBytes, SemServidor, Copia, Etapa

LEMMA TiposNoPasso ==
  ASSUME TiposDosBytes, [Next]_vars
  PROVE TiposDosBytes'
<1> USE DEF TiposDosBytes, P!contas, P!sockets, P!bytes, ponte
<1>1. ASSUME NEW c \in Ligacao, PassoDaPonte(c) PROVE TiposDosBytes'
  <2>1. CASE P!PassarBuffer(c)
    <3>1. UNCHANGED <<mao, la, servidor>>
      BY <2>1 DEF P!PassarBuffer
    <3>2. copia' \in [Ligacao -> [P!Lado -> Copia]]
      <4>1. copia' = copia \/ copia' = [copia EXCEPT ![c] = [l \in P!Lado |-> "lendo"]]
        BY <2>1 DEF P!PassarBuffer
      <4>2. [l \in P!Lado |-> "lendo"] \in [P!Lado -> Copia]
        BY DEF Copia
      <4> QED BY <4>1, <4>2
    <3>3. CASE \E n \in 0..Len(enviado) :
                 /\ P!Escrever(c, SubSeq(enviado, 1, n))
                 /\ enviado' = SubSeq(enviado, n + 1, Len(enviado))
      <4>1. PICK n \in 0..Len(enviado) :
                 /\ P!Escrever(c, SubSeq(enviado, 1, n))
                 /\ enviado' = SubSeq(enviado, n + 1, Len(enviado))
        BY <3>3
      <4>2. SubSeq(enviado, 1, n) \in Seq(Unidade) /\ enviado' \in Seq(Unidade)
        BY <4>1
      <4>3. recebido' = recebido \/ recebido' = recebido \o SubSeq(enviado, 1, n)
        BY <4>1 DEF P!Escrever
      <4>4. recebido' \in Seq(Unidade)
        <5>1. recebido \o SubSeq(enviado, 1, n) \in Seq(Unidade)
          BY <4>2, ConcatProperties
        <5> QED BY <4>3, <5>1
      <4> QED BY <3>1, <3>2, <4>2, <4>4
    <3>4. CASE UNCHANGED <<enviado, recebido>>
      BY <3>1, <3>2, <3>4
    <3> QED BY <2>1, <3>3, <3>4 DEF P!PassarBuffer
  <2>2. CASE P!Discar(c) \/ P!FecharLa(c)
    BY <2>2 DEF P!Discar, P!FecharLa
  <2>3. CASE ~(P!PassarBuffer(c) \/ P!Discar(c) \/ P!FecharLa(c))
    <3>1. UNCHANGED <<enviado, mao, recebido, copia, la, servidor>>
      BY <1>1, <2>3
         DEF PassoDaPonte, P!Atender, P!FalharDiscagem, P!Sequestrar, P!FalharSequestro,
             P!EscreverPedido, P!TerminarCopia, P!FecharAqui, P!Devolver
    <3> QED BY <3>1
  <2> QED BY <2>1, <2>2, <2>3
<1>2. ASSUME NEW c \in Ligacao, PassoDaCopia(c) PROVE TiposDosBytes'
  <2>1. UNCHANGED <<la, servidor>>
    BY <1>2 DEF PassoDaCopia, P!Copiar, P!LerOrigem, P!EscreverDestino, P!AcabarCopia
  <2>2. copia' \in [Ligacao -> [P!Lado -> Copia]]
    BY <1>2 DEF PassoDaCopia, P!Copiar, P!LerOrigem, P!EscreverDestino, P!AcabarCopia, Copia, P!Lado
  <2>3. enviado' \in Seq(Unidade) /\ mao' \in Seq(Unidade) /\ recebido' \in Seq(Unidade)
    <3>1. CASE P!LerOrigem(c)
      BY <3>1 DEF P!LerOrigem
    <3>2. CASE P!EscreverDestino(c)
      <4>1. /\ mao' = <<>>
            /\ enviado' = enviado \/ enviado' = <<>>
            /\ recebido' = recebido \/ recebido' = recebido \o mao
        BY <3>2 DEF P!EscreverDestino, P!Escrever
      <4>2. recebido \o mao \in Seq(Unidade) /\ <<>> \in Seq(Unidade)
        BY ConcatProperties
      <4> QED BY <4>1, <4>2
    <3>3. CASE \E l \in P!Lado : P!AcabarCopia(c, l)
      BY <3>3 DEF P!AcabarCopia
    <3> QED BY <1>2, <3>1, <3>2, <3>3 DEF PassoDaCopia, P!Copiar
  <2> QED BY <2>1, <2>2, <2>3
<1>3. ASSUME NEW c \in Ligacao, Ambiente(c) PROVE TiposDosBytes'
  <2>1. CASE P!ServidorFecha(c)
    BY <2>1 DEF P!ServidorFecha
  <2>2. CASE \E l \in P!Lado : P!InterromperCopia(c, l)
    BY <2>2 DEF P!InterromperCopia, Copia
  <2>3. CASE ~(P!ServidorFecha(c) \/ \E l \in P!Lado : P!InterromperCopia(c, l))
    BY <1>3, <2>3 DEF Ambiente, P!Recusar, P!Reservar, P!RecusarExcesso, P!ClienteFecha
  <2> QED BY <2>1, <2>2, <2>3
<1>4. ASSUME NEW q \in Quadros, Enviar(q) PROVE TiposDosBytes'
  <2>1. L!Unidades(q) \in Seq(Unidade)
    BY UnidadesDeQuadro
  <2>2. enviado' = enviado \o L!Unidades(q) /\ UNCHANGED <<copia, mao, recebido, la, servidor>>
    BY <1>4 DEF Enviar
  <2>3. enviado' \in Seq(Unidade)
    BY <2>1, <2>2
  <2> QED BY <2>2, <2>3
<1>5. CASE Ler
  <2>1. UNCHANGED <<ponte, enviado, mao>>
    BY <1>5 DEF Ler
  <2>2. recebido' \in Seq(Unidade)
    <3>1. recebido' = recebido \/ (recebido # <<>> /\ recebido' = Tail(recebido))
      BY <1>5 DEF Ler, L!LerSemEntregar, L!LerCabecalho, L!LerExtensao, L!LerControle,
                  L!LerForaDeOrdem, L!LerFragmento, L!LerErro, L!LerMensagem, L!Consumir, L!Chegou
    <3>2. recebido # <<>> => Tail(recebido) \in Seq(Unidade)
      BY HeadTailProperties
    <3> QED BY <3>1, <3>2
  <2> QED BY <2>1, <2>2
<1>6. CASE ServidorDesiste
  <2>1. /\ servidor' = [servidor EXCEPT ![Observada] = FALSE] /\ recebido' = <<>>
        /\ UNCHANGED <<copia, enviado, mao, la>>
    BY <1>6 DEF ServidorDesiste, P!ServidorFecha
  <2>2. recebido' \in Seq(Unidade)
    BY <2>1
  <2> QED BY <2>1, <2>2
<1>7. CASE InterromperLeitura \/ UNCHANGED vars
  BY <1>7 DEF InterromperLeitura, L!Interromper, vars
<1> QED BY <1>1, <1>2, <1>3, <1>4, <1>5, <1>6, <1>7 DEF Next

LEMMA PonteNoPasso ==
  ASSUME ContasInv, ContasInv', PonteInv, [Next]_vars
  PROVE PonteInv'
<1>a. TiposDosBytes /\ TiposDosBytes'
  BY TiposNoPasso DEF PonteInv
<1>b. etapa \in [Ligacao -> Etapa] /\ Observada \in Ligacao
  BY CaminhoAssumption DEF ContasInv
<1> USE DEF P!contas, P!sockets, P!bytes, ponte
<1> DEFINE Fica == /\ \A c \in Ligacao : copia[c]["ida"] = "escrevendo" => c = Observada
                   /\ copia[Observada]["ida"] # "escrevendo" => mao = <<>>
           Antes == etapa[Observada] \in {"nova", "discar", "sequestrar", "pedir", "esvaziar"}
                      => copia[Observada]["ida"] = "nada"
           Ha == /\ la[Observada] = "nenhum" => SemServidor
                 /\ la[Observada] # "nenhum" => servidor[Observada] \/ leitura = "fim"
<1> SUFFICES Fica' /\ Antes' /\ Ha'
  BY <1>a DEF PonteInv
<1>c. Fica /\ Antes /\ Ha
  BY DEF PonteInv
<1>1. ASSUME NEW c \in Ligacao, PassoDaPonte(c) PROVE Fica' /\ Antes' /\ Ha'
  <2>1. CASE P!PassarBuffer(c)
    <3>1. UNCHANGED <<mao, la, servidor, leitura>>
      BY <1>1, <2>1 DEF PassoDaPonte, P!PassarBuffer, leitor
    <3>2. /\ copia' = copia \/ copia' = [copia EXCEPT ![c] = [l \in P!Lado |-> "lendo"]]
          /\ etapa[c] = "esvaziar"
          /\ etapa' = [etapa EXCEPT ![c] = "copiar"] \/ etapa' = [etapa EXCEPT ![c] = "fecharAqui"]
      BY <2>1 DEF P!PassarBuffer, P!Ir
    <3>3. Fica'
      BY <1>a, <1>b, <1>c, <3>1, <3>2, SMTT(30) DEF TiposDosBytes, P!Lado
    <3>4. Antes'
      BY <1>a, <1>b, <1>c, <3>1, <3>2 DEF TiposDosBytes, P!Lado
    <3>5. Ha'
      BY <1>a, <1>b, <1>c, <3>1, <3>2 DEF TiposDosBytes, P!Lado, SemServidor
    <3> QED BY <3>3, <3>4, <3>5
  <2>2. CASE P!Discar(c)
    <3>1. UNCHANGED <<mao, copia, leitura>>
      BY <1>1, <2>2 DEF PassoDaPonte, P!Discar, leitor
    <3>2. Ha'
      BY <1>a, <1>b, <1>c, <3>1, <2>2 DEF P!Discar, P!Ir, TiposDosBytes, SemServidor
    <3>3. Antes'
      BY <1>b, <1>c, <3>1, <2>2 DEF P!Discar, P!Ir
    <3> QED BY <1>c, <3>1, <3>2, <3>3
  <2>3. CASE P!FecharLa(c)
    BY <1>1, <2>3, <1>a, <1>b, <1>c DEF PassoDaPonte, P!FecharLa, P!Ir, TiposDosBytes, SemServidor, leitor
  <2>4. CASE ~(P!PassarBuffer(c) \/ P!Discar(c) \/ P!FecharLa(c))
    <3>1. UNCHANGED <<mao, copia, la, servidor, leitura>>
      BY <1>1, <2>4
         DEF PassoDaPonte, P!Atender, P!FalharDiscagem, P!Sequestrar, P!FalharSequestro,
             P!EscreverPedido, P!TerminarCopia, P!FecharAqui, P!Devolver, leitor
    <3>2. \/ /\ etapa[c] = "discar" /\ etapa' = [etapa EXCEPT ![c] = "devolver"]
          \/ /\ etapa[c] = "devolver" /\ etapa' = [etapa EXCEPT ![c] = "fim"]
          \/ /\ etapa[c] = "sequestrar"
             /\ etapa' = [etapa EXCEPT ![c] = "pedir"] \/ etapa' = [etapa EXCEPT ![c] = "fecharLa"]
          \/ /\ etapa[c] = "pedir"
             /\ etapa' = [etapa EXCEPT ![c] = "esvaziar"] \/ etapa' = [etapa EXCEPT ![c] = "fecharAqui"]
          \/ /\ etapa[c] = "copiar" /\ etapa' = [etapa EXCEPT ![c] = "fecharAqui"]
          \/ /\ etapa[c] = "fecharAqui" /\ etapa' = [etapa EXCEPT ![c] = "fecharLa"]
      BY <1>1, <2>4
         DEF PassoDaPonte, P!Atender, P!FalharDiscagem, P!Sequestrar, P!FalharSequestro,
             P!EscreverPedido, P!TerminarCopia, P!FecharAqui, P!Devolver, P!Ir
    <3>3. Antes'
      BY <1>b, <1>c, <3>1, <3>2
    <3>4. Ha'
      BY <1>b, <1>c, <3>1, <3>2 DEF SemServidor
    <3> QED BY <1>c, <3>1, <3>3, <3>4
  <2> QED BY <2>1, <2>2, <2>3, <2>4
<1>2. ASSUME NEW c \in Ligacao, PassoDaCopia(c) PROVE Fica' /\ Antes' /\ Ha'
  <2>1. UNCHANGED <<etapa, la, servidor, leitura>>
    BY <1>2 DEF PassoDaCopia, P!Copiar, P!LerOrigem, P!EscreverDestino, P!AcabarCopia, leitor
  <2>2. Fica'
    <3>1. CASE P!LerOrigem(c)
      BY <3>1, <1>a, <1>b, <1>c DEF P!LerOrigem, TiposDosBytes, P!Lado
    <3>2. CASE P!EscreverDestino(c)
      BY <3>2, <1>a, <1>b, <1>c DEF P!EscreverDestino, TiposDosBytes, P!Lado
    <3>3. CASE \E l \in P!Lado : P!AcabarCopia(c, l)
      BY <3>3, <1>a, <1>b, <1>c DEF P!AcabarCopia, TiposDosBytes, P!Lado
    <3> QED BY <1>2, <3>1, <3>2, <3>3 DEF PassoDaCopia, P!Copiar
  <2>3. copia[Observada]["ida"] = "nada" => copia'[Observada]["ida"] = "nada"
    <3>1. \A para : \A l \in P!Lado : copia[c][l] # "nada" /\ copia' = [copia EXCEPT ![c][l] = para] =>
            (copia[Observada]["ida"] = "nada" => copia'[Observada]["ida"] = "nada")
      BY <1>a, <1>b DEF TiposDosBytes, P!Lado
    <3>2. \E para : \E l \in P!Lado : copia[c][l] # "nada" /\ copia' = [copia EXCEPT ![c][l] = para]
      BY <1>2 DEF PassoDaCopia, P!Copiar, P!LerOrigem, P!EscreverDestino, P!AcabarCopia, P!Lado
    <3> QED BY <3>1, <3>2
  <2> QED BY <2>1, <2>2, <2>3, <1>c DEF SemServidor
<1>3. ASSUME NEW c \in Ligacao, Ambiente(c) PROVE Fica' /\ Antes' /\ Ha'
  <2>1. UNCHANGED <<mao, la, leitura>>
    BY <1>3 DEF Ambiente, P!Recusar, P!Reservar, P!RecusarExcesso, P!ClienteFecha, P!ServidorFecha,
                P!InterromperCopia, leitor
  <2>2. CASE \E l \in P!Lado : P!InterromperCopia(c, l)
    <3>1. UNCHANGED <<etapa, servidor>>
      BY <2>2 DEF P!InterromperCopia
    <3>2. PICK l \in P!Lado : copia[c][l] = "lendo" /\ copia' = [copia EXCEPT ![c][l] = "fim"]
      BY <2>2 DEF P!InterromperCopia
    <3>3. Fica'
      BY <1>a, <1>b, <1>c, <2>1, <3>2 DEF TiposDosBytes, P!Lado
    <3>4. copia[Observada]["ida"] = "nada" => copia'[Observada]["ida"] = "nada"
      BY <1>a, <1>b, <3>2 DEF TiposDosBytes, P!Lado
    <3> QED BY <1>c, <2>1, <3>1, <3>3, <3>4 DEF SemServidor
  <2>3. CASE ~ \E l \in P!Lado : P!InterromperCopia(c, l)
    <3>1. UNCHANGED copia
      BY <1>3, <2>3 DEF Ambiente, P!Recusar, P!Reservar, P!RecusarExcesso, P!ClienteFecha, P!ServidorFecha
    <3>2. servidor'[Observada] = servidor[Observada]
      BY <1>3, <2>3, <1>a, <1>b DEF Ambiente, P!Recusar, P!Reservar, P!RecusarExcesso, P!ClienteFecha,
                              P!ServidorFecha, TiposDosBytes
    <3>3. etapa' = etapa \/ (etapa[c] = "nova" /\ \E s \in {"discar", "fim"} : etapa' = [etapa EXCEPT ![c] = s])
      BY <1>3, <2>3 DEF Ambiente, P!Recusar, P!Reservar, P!RecusarExcesso, P!ClienteFecha, P!ServidorFecha, P!Ir
    <3>4. Antes'
      BY <1>b, <1>c, <3>1, <3>3
    <3>5. Ha'
      BY <1>b, <1>c, <2>1, <3>1, <3>2, <3>3 DEF SemServidor
    <3> QED BY <1>c, <2>1, <3>1, <3>4, <3>5
  <2> QED BY <2>2, <2>3
<1>4. ASSUME NEW q \in Quadros, Enviar(q) PROVE Fica' /\ Antes' /\ Ha'
  BY <1>4, <1>c DEF Enviar, leitor, SemServidor
<1>5. CASE Ler
  <2>1. UNCHANGED <<etapa, copia, mao, la, servidor>>
    BY <1>5 DEF Ler
  <2>2. leitura # "fim"
    BY <1>5 DEF Ler, L!LerSemEntregar, L!LerCabecalho, L!LerExtensao, L!LerControle,
                L!LerForaDeOrdem, L!LerFragmento, L!LerErro, L!LerMensagem, L!Chegou
  <2> QED BY <2>1, <2>2, <1>c DEF SemServidor
<1>6. CASE ServidorDesiste
  <2>1. UNCHANGED <<etapa, copia, mao, la, leitura>> /\ leitura = "fim"
    BY <1>6 DEF ServidorDesiste, P!ServidorFecha, leitor
  <2> QED BY <2>1, <1>c DEF SemServidor
<1>7. CASE InterromperLeitura \/ UNCHANGED vars
  <2>1. UNCHANGED <<etapa, copia, mao, la, servidor>> /\ (leitura' = "fim" \/ leitura' = leitura)
    BY <1>7 DEF InterromperLeitura, L!Interromper, L!Falhar, vars, leitor
  <2> QED BY <2>1, <1>c DEF SemServidor
<1> QED BY <1>1, <1>2, <1>3, <1>4, <1>5, <1>6, <1>7 DEF Next

-----------------------------------------------------------------------------
(***************************************************************************)
(* What is on its way to the reader.                                       *)
(***************************************************************************)
Fluxo == recebido \o (mao \o enviado)

Cortado == copia[Observada]["ida"] = "fim"

\* How a step of the bridge leaves it: as it was, or cut off at some point for good.
Inteiro == Fluxo' = Fluxo /\ (Cortado => Cortado')
Corte ==
  /\ Cortado'
  /\ Len(Fluxo') <= Len(Fluxo)
  /\ \A k \in 1..Len(Fluxo') : Fluxo'[k] = Fluxo[k]

LEMMA FluxoTipado ==
  ASSUME TiposDosBytes
  PROVE /\ Fluxo \in Seq(Unidade) /\ mao \o enviado \in Seq(Unidade)
        /\ Len(Fluxo) = Len(recebido) + Len(mao \o enviado)
        /\ \A k \in 1..(Len(recebido) + Len(mao \o enviado)) :
             Fluxo[k] = IF k <= Len(recebido) THEN recebido[k] ELSE (mao \o enviado)[k - Len(recebido)]
<1>1. recebido \in Seq(Unidade) /\ mao \in Seq(Unidade) /\ enviado \in Seq(Unidade)
  BY DEF TiposDosBytes
<1>2. PICK a : a = mao \o enviado
  OBVIOUS
<1>3. a \in Seq(Unidade)
  BY <1>1, <1>2, ConcatProperties
<1>4. Fluxo = recebido \o a
  BY <1>2 DEF Fluxo
<1> QED BY <1>1, <1>2, <1>3, <1>4, ConcatProperties

\* What the reader takes is the first of it.
LEMMA FluxoAoLer ==
  ASSUME TiposDosBytes, recebido # <<>>, recebido' = Tail(recebido), UNCHANGED <<mao, enviado>>
  PROVE /\ Len(Fluxo) \in Nat /\ Len(Fluxo) >= 1 /\ Len(Fluxo') = Len(Fluxo) - 1
        /\ Fluxo[1] = Head(recebido)
        /\ \A k \in 1..Len(Fluxo') : Fluxo'[k] = Fluxo[k + 1]
<1>1. PICK r, t, a : r = recebido /\ t = Tail(recebido) /\ a = mao \o enviado
  OBVIOUS
<1>2. /\ r \in Seq(Unidade) /\ t \in Seq(Unidade) /\ Len(t) = Len(r) - 1
      /\ Len(r) \in Nat /\ Len(r) >= 1
      /\ \A k \in 1..Len(t) : t[k] = r[k + 1]
      /\ Head(recebido) = r[1]
  BY <1>1, HeadTailProperties DEF TiposDosBytes
<1>3. a \in Seq(Unidade) /\ Len(a) \in Nat
  BY <1>1, FluxoTipado
<1>4. PICK f, g : f = Fluxo /\ g = Fluxo'
  OBVIOUS
<1>5. f = r \o a /\ g = t \o a
  BY <1>1, <1>4 DEF Fluxo
<1>6. /\ Len(f) = Len(r) + Len(a) /\ Len(g) = Len(t) + Len(a)
      /\ \A k \in 1..(Len(r) + Len(a)) : f[k] = IF k <= Len(r) THEN r[k] ELSE a[k - Len(r)]
      /\ \A k \in 1..(Len(t) + Len(a)) : g[k] = IF k <= Len(t) THEN t[k] ELSE a[k - Len(t)]
  BY <1>2, <1>3, <1>5, ConcatProperties
<1>7. Len(f) \in Nat /\ Len(f) >= 1 /\ Len(g) = Len(f) - 1 /\ f[1] = r[1]
  BY <1>2, <1>3, <1>6
<1>8. ASSUME NEW k \in 1..Len(g) PROVE g[k] = f[k + 1]
  <2>1. k \in 1..(Len(t) + Len(a)) /\ k + 1 \in 1..(Len(r) + Len(a))
    BY <1>2, <1>3, <1>6
  <2>2. CASE k <= Len(t)
    <3>1. g[k] = t[k] /\ f[k + 1] = r[k + 1]
      BY <1>2, <1>6, <2>1, <2>2
    <3> QED BY <1>2, <2>1, <2>2, <3>1
  <2>3. CASE ~(k <= Len(t))
    <3>1. g[k] = a[k - Len(t)] /\ f[k + 1] = a[(k + 1) - Len(r)]
      BY <1>2, <1>6, <2>1, <2>3
    <3>2. k - Len(t) = (k + 1) - Len(r)
      BY <1>2
    <3> QED BY <3>1, <3>2
  <2> QED BY <2>2, <2>3
<1> QED BY <1>2, <1>4, <1>7, <1>8

\* A frame is sent behind it.
LEMMA FluxoAoEnviar ==
  ASSUME TiposDosBytes, NEW u \in Seq(Unidade), enviado' = enviado \o u, UNCHANGED <<recebido, mao>>
  PROVE /\ Len(Fluxo) \in Nat /\ Len(Fluxo') = Len(Fluxo) + Len(u)
        /\ \A k \in 1..Len(Fluxo) : Fluxo'[k] = Fluxo[k]
        /\ \A k \in 1..Len(u) : Fluxo'[Len(Fluxo) + k] = u[k]
<1>1. recebido \in Seq(Unidade) /\ mao \in Seq(Unidade) /\ enviado \in Seq(Unidade)
  BY DEF TiposDosBytes
<1>2. recebido \o (mao \o (enviado \o u)) = (recebido \o (mao \o enviado)) \o u
  <2>1. PICK S, r, m, e : S = Unidade /\ r = recebido /\ m = mao /\ e = enviado
    OBVIOUS
  <2>2. PICK a : a = m \o e
    OBVIOUS
  <2>3. r \in Seq(S) /\ m \in Seq(S) /\ e \in Seq(S) /\ u \in Seq(S)
    BY <1>1, <2>1
  <2>4. a \in Seq(S)
    BY ONLY <2>2, <2>3, ConcatProperties
  <2>5. a \o u = m \o (e \o u)
    BY ONLY <2>2, <2>3, ConcatAssociative, SMTT(30)
  <2>6. (r \o a) \o u = r \o (a \o u)
    BY ONLY <2>3, <2>4, ConcatAssociative, SMTT(30)
  <2> QED BY <2>1, <2>2, <2>5, <2>6
<1>3. Fluxo \in Seq(Unidade)
  BY FluxoTipado
<1>5. Fluxo' = Fluxo \o u
  BY <1>2 DEF Fluxo
<1>6. PICK f, g : f = Fluxo /\ g = Fluxo'
  OBVIOUS
<1>7. f \in Seq(Unidade) /\ g = f \o u
  BY <1>3, <1>5, <1>6
<1>8. /\ Len(g) = Len(f) + Len(u) /\ Len(f) \in Nat /\ Len(u) \in Nat
      /\ \A k \in 1..(Len(f) + Len(u)) : g[k] = IF k <= Len(f) THEN f[k] ELSE u[k - Len(f)]
  BY <1>7, ConcatProperties
<1>9. \A k \in 1..Len(f) : g[k] = f[k]
  BY <1>8
<1>10. ASSUME NEW k \in 1..Len(u) PROVE g[Len(f) + k] = u[k]
  <2>1. Len(f) + k \in 1..(Len(f) + Len(u)) /\ ~(Len(f) + k <= Len(f)) /\ (Len(f) + k) - Len(f) = k
    BY <1>8
  <2> QED BY <1>8, <2>1
<1> QED BY <1>6, <1>8, <1>9, <1>10

\* Some of what was sent is handed to the server as it is.
LEMMA FluxoAoPassar ==
  ASSUME TiposDosBytes, mao = <<>>, mao' = <<>>, NEW n \in 0..Len(enviado),
         recebido' = recebido \o SubSeq(enviado, 1, n),
         enviado' = SubSeq(enviado, n + 1, Len(enviado))
  PROVE Fluxo' = Fluxo
<1>1. recebido \in Seq(Unidade) /\ enviado \in Seq(Unidade)
  BY DEF TiposDosBytes
<1>2. PICK a, b : a = SubSeq(enviado, 1, n) /\ b = SubSeq(enviado, n + 1, Len(enviado))
  OBVIOUS
<1>3. a \in Seq(Unidade) /\ b \in Seq(Unidade)
  BY <1>1, <1>2
<1>4. a \o b = enviado
  <2>1. /\ Len(a) = n /\ Len(b) = Len(enviado) - n
        /\ \A k \in 1..n : a[k] = enviado[k]
        /\ \A k \in 1..(Len(enviado) - n) : b[k] = enviado[n + k]
    BY <1>1, <1>2, SMTT(30)
  <2>2. PICK t : t = a \o b
    OBVIOUS
  <2>3. /\ t \in Seq(Unidade) /\ Len(t) = Len(a) + Len(b)
        /\ \A k \in 1..(Len(a) + Len(b)) : t[k] = IF k <= Len(a) THEN a[k] ELSE b[k - Len(a)]
    BY <1>3, <2>2, ConcatProperties
  <2>4. Len(t) = Len(enviado) /\ \A k \in 1..Len(t) : t[k] = enviado[k]
    <3>1. Len(t) = Len(enviado)
      BY <1>1, <2>1, <2>3
    <3>2. ASSUME NEW k \in 1..Len(t) PROVE t[k] = enviado[k]
      <4>1. CASE k <= n
        BY <1>1, <2>1, <2>3, <3>1, <4>1
      <4>2. CASE ~(k <= n)
        <5>1. k - n \in 1..(Len(enviado) - n) /\ n + (k - n) = k
          BY <1>1, <3>1, <4>2
        <5>2. t[k] = b[k - n]
          BY <1>1, <2>1, <2>3, <3>1, <4>2
        <5> QED BY <2>1, <5>1, <5>2
      <4> QED BY <4>1, <4>2
    <3> QED BY <3>1, <3>2
  <2> QED BY <1>1, <2>2, <2>3, <2>4, SeqEqual
<1>5. <<>> \o enviado = enviado /\ <<>> \o b = b
  BY <1>1, <1>3, ConcatEmptySeq
<1>6. (recebido \o a) \o b = recebido \o (a \o b)
  <2>1. PICK S, r : S = Unidade /\ r = recebido
    OBVIOUS
  <2>2. r \in Seq(S) /\ a \in Seq(S) /\ b \in Seq(S)
    BY <1>1, <1>3, <2>1
  <2>3. (r \o a) \o b = r \o (a \o b)
    BY ONLY <2>2, ConcatAssociative, SMTT(30)
  <2> QED BY <2>1, <2>3
<1> QED BY <1>2, <1>4, <1>5, <1>6 DEF Fluxo

\* What is kept of it when the bytes in the hand of the bridge, or behind, are lost.
LEMMA FluxoAoCortar ==
  ASSUME TiposDosBytes, Cortado', recebido' = recebido, mao' = <<>>, enviado' = <<>>
  PROVE Corte
<1>1. recebido \in Seq(Unidade) /\ <<>> \o <<>> = <<>>
  BY ConcatEmptySeq DEF TiposDosBytes
<1>2. Fluxo' = recebido
  BY <1>1, ConcatEmptySeq DEF Fluxo
<1>3. PICK f : f = Fluxo
  OBVIOUS
<1>4. /\ f \in Seq(Unidade) /\ Len(mao \o enviado) \in Nat /\ Len(recebido) \in Nat
      /\ Len(f) = Len(recebido) + Len(mao \o enviado)
      /\ \A k \in 1..(Len(recebido) + Len(mao \o enviado)) :
           f[k] = IF k <= Len(recebido) THEN recebido[k] ELSE (mao \o enviado)[k - Len(recebido)]
  BY <1>1, <1>3, FluxoTipado
<1>5. Len(recebido) <= Len(f) /\ \A k \in 1..Len(recebido) : recebido[k] = f[k]
  BY <1>4
<1> QED BY <1>2, <1>3, <1>5 DEF Corte

\* And when the bytes in its hand went, but the Write that took them reported an error.
LEMMA FluxoAoFalhar ==
  ASSUME TiposDosBytes, Cortado', recebido' = recebido \o mao, mao' = <<>>, enviado' = <<>>
  PROVE Corte
<1>1. PICK r, m, e : r = recebido /\ m = mao /\ e = enviado
  OBVIOUS
<1>2. r \in Seq(Unidade) /\ m \in Seq(Unidade) /\ e \in Seq(Unidade)
  BY <1>1 DEF TiposDosBytes
<1>3. PICK f, g : f = r \o (m \o e) /\ g = r \o m
  OBVIOUS
<1>4. f = g \o e
  BY ONLY <1>2, <1>3, ConcatAssociative, SMTT(30)
<1>5. g \in Seq(Unidade)
  BY ONLY <1>2, <1>3, ConcatProperties
<1>6. /\ Len(g) \in Nat /\ Len(e) \in Nat /\ Len(f) = Len(g) + Len(e)
      /\ \A k \in 1..(Len(g) + Len(e)) : f[k] = IF k <= Len(g) THEN g[k] ELSE e[k - Len(g)]
  BY ONLY <1>2, <1>4, <1>5, ConcatProperties, LenProperties, SMTT(30)
<1>7. Len(g) <= Len(f) /\ \A k \in 1..Len(g) : g[k] = f[k]
  BY <1>6
<1>8. <<>> \o <<>> = <<>> /\ g \o <<>> = g
  BY <1>5, ConcatEmptySeq
<1>9. Fluxo' = g
  BY <1>1, <1>3, <1>8 DEF Fluxo
<1> QED BY <1>1, <1>3, <1>7, <1>9 DEF Corte, Fluxo

\* The bridge, the clients and the deadlines: while the server reads, nothing of what is
\* on its way changes, unless the end of it is cut off.
LEMMA FluxoNaPonte ==
  ASSUME ContasInv, PonteInv, leitura # "fim",
         NEW c \in Ligacao, PassoDaPonte(c) \/ PassoDaCopia(c) \/ Ambiente(c)
  PROVE (Inteiro \/ Corte) /\ UNCHANGED <<leitor, externo>>
<1>a. TiposDosBytes /\ Observada \in Ligacao /\ etapa \in [Ligacao -> Etapa]
  BY CaminhoAssumption DEF PonteInv, ContasInv
<1>b. UNCHANGED <<leitor, externo>>
  BY DEF PassoDaPonte, PassoDaCopia, Ambiente
<1> USE DEF P!contas, P!sockets, P!bytes
<1>1. CASE PassoDaPonte(c)
  <2>1. CASE P!PassarBuffer(c)
    <3>1. etapa[c] = "esvaziar" /\ mao' = mao
      BY <2>1 DEF P!PassarBuffer, P!Ir
    <3>2. c = Observada =>
            copia[Observada]["ida"] = "nada" /\ mao = <<>> /\ servidor[Observada]
      BY <3>1 DEF PonteInv, SemServidor
    <3>3. Cortado => Cortado'
      BY <2>1, <3>2, <1>a DEF P!PassarBuffer, Cortado, TiposDosBytes, P!Lado
    <3>4. Fluxo' = Fluxo
      <4>1. CASE UNCHANGED <<enviado, recebido>>
        BY <3>1, <4>1 DEF Fluxo
      <4>2. CASE /\ c = Observada
                 /\ \E n \in 0..Len(enviado) :
                       /\ P!Escrever(c, SubSeq(enviado, 1, n))
                       /\ enviado' = SubSeq(enviado, n + 1, Len(enviado))
        <5>1. PICK n \in 0..Len(enviado) :
                /\ P!Escrever(c, SubSeq(enviado, 1, n))
                /\ enviado' = SubSeq(enviado, n + 1, Len(enviado))
          BY <4>2
        <5>2. recebido' = recebido \o SubSeq(enviado, 1, n)
          BY <3>2, <4>2, <5>1 DEF P!Escrever
        <5>3. mao = <<>> /\ mao' = <<>>
          BY <3>1, <3>2, <4>2
        <5> QED BY <1>a, <5>1, <5>2, <5>3, FluxoAoPassar
      <4> QED BY <2>1, <4>1, <4>2 DEF P!PassarBuffer
    <3> QED BY <1>b, <3>3, <3>4 DEF Inteiro
  <2>2. CASE ~P!PassarBuffer(c)
    <3>1. UNCHANGED <<enviado, mao, recebido, copia>>
      BY <1>1, <2>2
         DEF PassoDaPonte, P!Atender, P!Discar, P!FalharDiscagem, P!Sequestrar, P!FalharSequestro,
             P!EscreverPedido, P!TerminarCopia, P!FecharAqui, P!FecharLa, P!Devolver
    <3> QED BY <1>b, <3>1 DEF Inteiro, Fluxo, Cortado
  <2> QED BY <2>1, <2>2
<1>2. CASE PassoDaCopia(c)
  <2>1. CASE P!LerOrigem(c)
    <3>1. /\ c = Observada /\ copia[c]["ida"] = "lendo" /\ enviado # <<>>
          /\ mao' = <<Head(enviado)>> /\ enviado' = Tail(enviado) /\ recebido' = recebido
      BY <2>1 DEF P!LerOrigem
    <3>2. mao = <<>> /\ ~Cortado
      BY <3>1 DEF PonteInv, Cortado
    <3>3. enviado \in Seq(Unidade)
      BY <1>a DEF TiposDosBytes
    <3>4. <<Head(enviado)>> \o Tail(enviado) = enviado
      <4>1. PICK h, t : h = <<Head(enviado)>> /\ t = Tail(enviado)
        OBVIOUS
      <4>2. /\ t \in Seq(Unidade) /\ Len(t) = Len(enviado) - 1
            /\ \A k \in 1..Len(t) : t[k] = enviado[k + 1]
            /\ h \in Seq(Unidade) /\ Len(h) = 1 /\ h[1] = enviado[1]
            /\ Len(enviado) \in Nat /\ Len(enviado) >= 1
        BY <3>1, <3>3, <4>1, HeadTailProperties
      <4>3. PICK s : s = h \o t
        OBVIOUS
      <4>4. /\ s \in Seq(Unidade) /\ Len(s) = Len(h) + Len(t)
            /\ \A k \in 1..(Len(h) + Len(t)) : s[k] = IF k <= Len(h) THEN h[k] ELSE t[k - Len(h)]
        BY <4>2, <4>3, ConcatProperties, SMTT(30)
      <4>5. Len(s) = Len(enviado)
        BY <4>2, <4>4
      <4>6. ASSUME NEW k \in 1..Len(s) PROVE s[k] = enviado[k]
        <5>1. CASE k = 1
          BY <4>2, <4>4, <4>5, <5>1
        <5>2. CASE k # 1
          <6>1. k - 1 \in 1..Len(t) /\ (k - 1) + 1 = k
            BY <4>2, <4>5, <5>2
          <6>2. s[k] = t[k - 1]
            BY <4>2, <4>4, <4>5, <5>2
          <6> QED BY <4>2, <6>1, <6>2
        <5> QED BY <5>1, <5>2
      <4> QED BY <3>3, <4>1, <4>3, <4>4, <4>5, <4>6, SeqEqual
    <3>5. <<>> \o enviado = enviado
      BY <3>3, ConcatEmptySeq
    <3> QED BY <1>b, <3>1, <3>2, <3>4, <3>5 DEF Inteiro, Fluxo
  <2>2. CASE P!EscreverDestino(c)
    <3>1. copia[c]["ida"] = "escrevendo" /\ c = Observada /\ mao' = <<>>
      BY <2>2 DEF P!EscreverDestino, PonteInv
    <3>2. CASE la[c] = "aberto" /\ P!Escrever(c, mao) /\ UNCHANGED enviado
      <4>1. servidor[Observada]
        BY <3>1, <3>2 DEF PonteInv
      <4>2. recebido' = recebido \o mao /\ enviado' = enviado
        BY <3>1, <3>2, <4>1 DEF P!Escrever
      <4>3. ~Cortado
        BY <3>1 DEF Cortado
      <4>4. <<>> \o enviado = enviado
        BY <1>a, ConcatEmptySeq DEF TiposDosBytes
      <4>5. (recebido \o mao) \o enviado = recebido \o (mao \o enviado)
        <5>1. PICK S, r, m, e : S = Unidade /\ r = recebido /\ m = mao /\ e = enviado
          OBVIOUS
        <5>2. r \in Seq(S) /\ m \in Seq(S) /\ e \in Seq(S)
          BY <1>a, <5>1 DEF TiposDosBytes
        <5>3. (r \o m) \o e = r \o (m \o e)
          BY ONLY <5>2, ConcatAssociative, SMTT(30)
        <5> QED BY <5>1, <5>3
      <4> QED BY <1>b, <3>1, <4>2, <4>3, <4>4, <4>5 DEF Inteiro, Fluxo
    <3>3. CASE copia' = [copia EXCEPT ![c]["ida"] = "fim"] /\ enviado' = <<>> /\ UNCHANGED recebido
      <4>1. Cortado'
        BY <1>a, <3>1, <3>3 DEF Cortado, TiposDosBytes, P!Lado
      <4> QED BY <1>a, <1>b, <3>1, <3>3, <4>1, FluxoAoCortar
    <3>4. CASE /\ copia' = [copia EXCEPT ![c]["ida"] = "fim"] /\ enviado' = <<>>
               /\ la[c] = "aberto" /\ P!Escrever(c, mao)
      <4>1. Cortado'
        BY <1>a, <3>1, <3>4 DEF Cortado, TiposDosBytes, P!Lado
      <4>2. servidor[Observada]
        BY <3>1, <3>4 DEF PonteInv
      <4>3. recebido' = recebido \o mao
        BY <3>1, <3>4, <4>2 DEF P!Escrever
      <4> QED BY <1>a, <1>b, <3>1, <3>4, <4>1, <4>3, FluxoAoFalhar
    <3> QED BY <2>2, <3>2, <3>3, <3>4 DEF P!EscreverDestino
  <2>3. ASSUME NEW l \in P!Lado, P!AcabarCopia(c, l) PROVE Inteiro \/ Corte
    <3>1. /\ copia[c][l] = "lendo" /\ copia' = [copia EXCEPT ![c][l] = "fim"]
          /\ UNCHANGED <<mao, recebido>>
      BY <2>3 DEF P!AcabarCopia
    <3>2. CASE c = Observada /\ l = "ida"
      <4>1. Cortado' /\ mao = <<>> /\ enviado' = <<>>
        BY <1>a, <2>3, <3>1, <3>2 DEF P!AcabarCopia, Cortado, TiposDosBytes, P!Lado, PonteInv
      <4> QED BY <1>a, <3>1, <4>1, FluxoAoCortar
    <3>3. CASE ~(c = Observada /\ l = "ida")
      <4>1. Cortado' = Cortado /\ enviado' = enviado
        BY <1>a, <2>3, <3>1, <3>3 DEF P!AcabarCopia, Cortado, TiposDosBytes, P!Lado
      <4> QED BY <3>1, <4>1 DEF Inteiro, Fluxo
    <3> QED BY <3>2, <3>3
  <2> QED BY <1>2, <1>b, <2>1, <2>2, <2>3 DEF PassoDaCopia, P!Copiar
<1>3. CASE Ambiente(c)
  <2>1. UNCHANGED <<enviado, mao>>
    BY <1>3 DEF Ambiente, P!Recusar, P!Reservar, P!RecusarExcesso, P!ClienteFecha, P!ServidorFecha,
                P!InterromperCopia
  <2>2. UNCHANGED recebido
    BY <1>3 DEF Ambiente, P!Recusar, P!Reservar, P!RecusarExcesso, P!ClienteFecha, P!ServidorFecha,
                P!InterromperCopia
  <2>3. Cortado => Cortado'
    <3>1. CASE \E l \in P!Lado : P!InterromperCopia(c, l)
      BY <1>a, <3>1 DEF P!InterromperCopia, Cortado, TiposDosBytes, P!Lado
    <3>2. CASE ~ \E l \in P!Lado : P!InterromperCopia(c, l)
      BY <1>3, <3>2 DEF Ambiente, P!Recusar, P!Reservar, P!RecusarExcesso, P!ClienteFecha,
                        P!ServidorFecha, Cortado
    <3> QED BY <3>1, <3>2
  <2> QED BY <1>b, <2>1, <2>2, <2>3 DEF Inteiro, Fluxo
<1> QED BY <1>1, <1>2, <1>3

-----------------------------------------------------------------------------
(***************************************************************************)
(* What the client meant with each unit that is on its way: the frame it   *)
(* belongs to, the message the client was in the middle of when it sent    *)
(* the frame, and the messages completed by this frame and the following.  *)
(***************************************************************************)
Nota == [parte : {"cabecalho", "extensao", "corpo"}, q : Quadros,
         antes : Seq(Nat), fila : Seq(Seq(Nat))]

Valido(a) == ~Incorreto(a.q, a.antes)
Completo(a) == Valido(a) /\ a.q.op \in L!Dados /\ a.q.fim
Prossegue(a) == Valido(a) /\ a.q.op # "fechar"

Cabecalho(q) == [parte |-> "cabecalho", op |-> q.op, fim |-> q.fim, rsv |-> q.rsv,
                 mascarado |-> q.mascarado, campo |-> L!Campo(q.tam)]
ComExtensao(q) == L!Estendido(L!Campo(q.tam))

\* What comes after the unit: the unit, the message in the middle, the messages.
Seguinte(a) ==
  IF a.parte = "cabecalho" THEN IF ComExtensao(a.q) THEN "extensao" ELSE "corpo"
  ELSE IF a.parte = "extensao" THEN "corpo" ELSE "cabecalho"
Resta(a) ==
  IF a.parte # "corpo" THEN a.antes
  ELSE IF Completo(a) THEN <<>>
  ELSE IF a.q.op \in L!Dados THEN Append(a.antes, a.q.tam) ELSE a.antes
Sobra(a) == IF a.parte = "corpo" /\ Completo(a) THEN Tail(a.fila) ELSE a.fila

\* A message that the frame completes is the first of those still to come.
Primeira(a) == Completo(a) => a.fila # <<>> /\ Head(a.fila) = Append(a.antes, a.q.tam)

\* The unit u is the one that a is about.
Trecho(a, u) ==
  /\ a.parte = "cabecalho" => u = Cabecalho(a.q)
  /\ a.parte = "extensao" => ComExtensao(a.q) /\ u.valor = L!Extensao(a.q.tam)
  /\ Primeira(a)

\* b follows a; nothing that counts follows a frame that breaks the protocol, or a close.
Emenda(a, b) ==
  /\ a.parte = "corpo" => Prossegue(a)
  /\ a.parte # "corpo" => b.q = a.q
  /\ b.parte = Seguinte(a) /\ b.antes = Resta(a) /\ b.fila = Sobra(a)

\* What the reader knows of the frame q when it comes to that part of it.
EmLeitura(lido, q, parte) ==
  /\ parte = "extensao" => lido = Cabecalho(q) /\ ~L!CabecalhoInvalido(Cabecalho(q))
  /\ parte = "corpo" =>
       /\ lido = [op |-> q.op, fim |-> q.fim, tam |-> q.tam]
       /\ ~q.rsv /\ q.mascarado
       /\ q.op \in L!Controle => q.fim /\ q.tam <= 125
       /\ q.tam <= tamanhoMaximoMensagem

\* The reader is about to read the unit of a, or has read it.
Lendo(a) == leitura = a.parte /\ montagem = a.antes /\ EmLeitura(quadro, a.q, a.parte)
Passou(a) ==
  /\ a.parte = "corpo" => Prossegue(a)
  /\ leitura' = Seguinte(a)
  /\ montagem' = Resta(a)
  /\ emTransito' = Sobra(a)
  /\ a.parte # "corpo" => EmLeitura(quadro', a.q, leitura')

MontagemInv ==
  /\ montagem \in Seq(Nat)
  /\ entregue \in Seq(Nat)
  /\ montando \in BOOLEAN
  /\ MontagemLimitada

\* A step of the reader that hands nothing over, or the next message.
NadaEntregue == emTransito' = emTransito /\ (entregue' = entregue \/ entregue' = <<>>)
Entregou == emTransito # <<>> /\ entregue' = Head(emTransito) /\ emTransito' = Tail(emTransito)

\* The length that the reader works out is that of the frame.
LEMMA TamanhoLido ==
  ASSUME NEW n \in Nat
  PROVE /\ L!Campo(n) \in Nat
        /\ ~L!Estendido(L!Campo(n)) => L!Campo(n) = n /\ n <= 125
        /\ L!Estendido(L!Campo(n)) => L!TamanhoEstendido(L!Campo(n), L!Extensao(n)) = n
        /\ L!Campo(n) <= 125 => n <= 125
BY DEF L!Campo, L!Estendido, L!TamanhoEstendido, L!Extensao

LEMMA LidoCabecalho ==
  ASSUME NEW a \in Nota, a.parte = "cabecalho", Lendo(a), Trecho(a, Head(recebido)),
         a.fila = emTransito, Ler, leitura' # "fim"
  PROVE Passou(a) /\ NadaEntregue /\ recebido # <<>> /\ recebido' = Tail(recebido)
<1>1. leitura = "cabecalho" /\ montagem = a.antes
  BY DEF Lendo
<1>2. PICK u : u = Head(recebido)
  OBVIOUS
<1>3. u = Cabecalho(a.q) /\ a.q \in Quadros /\ a.q.tam \in Nat
  BY <1>2, CaminhoAssumption DEF Trecho, Nota
<1>4. L!LerCabecalho /\ UNCHANGED emTransito
  BY <1>1 DEF Ler, L!LerSemEntregar, L!LerExtensao, L!LerControle, L!LerForaDeOrdem,
              L!LerFragmento, L!LerErro, L!LerMensagem, L!Chegou, L!Falhar
<1>5. recebido # <<>> /\ recebido' = Tail(recebido)
  BY <1>4 DEF L!LerCabecalho, L!Chegou, L!Consumir
<1>6. /\ ~L!CabecalhoInvalido(u)
      /\ entregue' = <<>> /\ montagem' = montagem
      /\ \/ /\ ~L!Estendido(u.campo)
            /\ L!AceitarTamanho(u, u.campo)
         \/ /\ L!Estendido(u.campo)
            /\ leitura' = "extensao"
            /\ quadro' = u
  BY <1>2, <1>4 DEF L!LerCabecalho, L!Falhar, L!AceitarTamanho, L!fragmentos
<1>7. EmLeitura(quadro', a.q, leitura') /\ leitura' = Seguinte(a)
  <2>1. CASE L!Estendido(u.campo)
    <3>1. leitura' = "extensao" /\ quadro' = u
      BY <1>6, <2>1
    <3>2. ComExtensao(a.q)
      BY <1>3, <2>1 DEF Cabecalho, ComExtensao
    <3> QED BY <1>3, <1>6, <3>1, <3>2 DEF EmLeitura, Seguinte
  <2>2. CASE ~L!Estendido(u.campo)
    <3>1. ~ComExtensao(a.q) /\ u.campo = a.q.tam /\ a.q.tam <= 125
      BY <1>3, <2>2, TamanhoLido DEF Cabecalho, ComExtensao
    <3>2. /\ ~L!QuadroInvalido(u, u.campo) /\ leitura' = "corpo"
          /\ quadro' = [op |-> u.op, fim |-> u.fim, tam |-> u.campo]
      BY <1>6, <2>2 DEF L!AceitarTamanho, L!Falhar
    <3>3. u.op = a.q.op /\ u.fim = a.q.fim /\ u.rsv = a.q.rsv /\ u.mascarado = a.q.mascarado
      BY <1>3 DEF Cabecalho
    <3>4. ~a.q.rsv /\ (a.q.op \in L!Controle => a.q.fim)
      BY <1>6, <3>3 DEF L!CabecalhoInvalido
    <3>5. a.q.mascarado /\ a.q.tam <= tamanhoMaximoMensagem
      BY <1>3, <3>1, <3>2, <3>3, CaminhoAssumption DEF L!QuadroInvalido
    <3> QED BY <3>1, <3>2, <3>3, <3>4, <3>5 DEF EmLeitura, Seguinte
  <2> QED BY <2>1, <2>2
<1> QED BY <1>1, <1>4, <1>5, <1>6, <1>7 DEF Passou, NadaEntregue, Resta, Sobra

LEMMA LidoExtensao ==
  ASSUME NEW a \in Nota, a.parte = "extensao", Lendo(a), Trecho(a, Head(recebido)),
         a.fila = emTransito, Ler, leitura' # "fim"
  PROVE Passou(a) /\ NadaEntregue /\ recebido # <<>> /\ recebido' = Tail(recebido)
<1>1. leitura = "extensao" /\ montagem = a.antes /\ quadro = Cabecalho(a.q)
      /\ ~L!CabecalhoInvalido(Cabecalho(a.q))
  BY DEF Lendo, EmLeitura
<1>2. /\ Head(recebido).valor = L!Extensao(a.q.tam) /\ ComExtensao(a.q)
      /\ a.q \in Quadros /\ a.q.tam \in Nat
  BY CaminhoAssumption DEF Trecho, Nota
<1>3. L!LerExtensao /\ UNCHANGED emTransito
  BY <1>1 DEF Ler, L!LerSemEntregar, L!LerCabecalho, L!LerControle, L!LerForaDeOrdem,
              L!LerFragmento, L!LerErro, L!LerMensagem, L!Chegou, L!Falhar
<1>4. recebido # <<>> /\ recebido' = Tail(recebido)
  BY <1>3 DEF L!LerExtensao, L!Chegou, L!Consumir
<1>5. L!TamanhoEstendido(quadro.campo, Head(recebido).valor) = a.q.tam
  BY <1>1, <1>2, TamanhoLido DEF Cabecalho, ComExtensao
<1>6. L!AceitarTamanho(quadro, a.q.tam)
  BY <1>3, <1>5 DEF L!LerExtensao
<1>7. /\ quadro.op = a.q.op /\ quadro.fim = a.q.fim /\ quadro.rsv = a.q.rsv
      /\ quadro.mascarado = a.q.mascarado /\ quadro.campo = L!Campo(a.q.tam)
  BY <1>1 DEF Cabecalho
<1>8. /\ ~L!QuadroInvalido(quadro, a.q.tam) /\ leitura' = "corpo"
      /\ quadro' = [op |-> a.q.op, fim |-> a.q.fim, tam |-> a.q.tam]
      /\ entregue' = <<>> /\ montagem' = montagem
  BY <1>6, <1>7 DEF L!AceitarTamanho, L!Falhar, L!fragmentos
<1>9. ~a.q.rsv /\ (a.q.op \in L!Controle => a.q.fim /\ L!Campo(a.q.tam) <= 125)
  BY <1>1, <1>2, <1>7, TamanhoLido DEF L!CabecalhoInvalido
<1>10. a.q.mascarado /\ a.q.tam <= tamanhoMaximoMensagem
  BY <1>2, <1>7, <1>8, CaminhoAssumption DEF L!QuadroInvalido
<1>11. EmLeitura(quadro', a.q, leitura') /\ leitura' = Seguinte(a)
  BY <1>2, <1>8, <1>9, <1>10, TamanhoLido DEF EmLeitura, Seguinte
<1> QED BY <1>1, <1>3, <1>4, <1>8, <1>11 DEF Passou, NadaEntregue, Resta, Sobra

LEMMA LidoCorpo ==
  ASSUME NEW a \in Nota, a.parte = "corpo", Lendo(a), Trecho(a, Head(recebido)),
         a.fila = emTransito, MontagemInv, Ler, leitura' # "fim"
  PROVE Passou(a) /\ (NadaEntregue \/ Entregou) /\ recebido # <<>> /\ recebido' = Tail(recebido)
<1>1. leitura = "corpo" /\ montagem = a.antes
  BY DEF Lendo
<1>2. PICK q : q = a.q
  OBVIOUS
<1>3. /\ quadro = [op |-> q.op, fim |-> q.fim, tam |-> q.tam]
      /\ ~q.rsv /\ q.mascarado
      /\ q.op \in L!Controle => q.fim /\ q.tam <= 125
      /\ q.tam <= tamanhoMaximoMensagem /\ q.tam \in Nat
  BY <1>2, CaminhoAssumption DEF Lendo, EmLeitura, Nota
<1>4. quadro.op = q.op /\ quadro.fim = q.fim /\ quadro.tam = q.tam
  BY <1>3
<1>5. a.antes \in Seq(Nat) /\ a.fila \in Seq(Seq(Nat)) /\ emTransito = a.fila
  BY DEF Nota
<1>6. leitura' = Seguinte(a)
  BY <1>1 DEF Ler, L!LerSemEntregar, L!LerCabecalho, L!LerExtensao, L!LerControle, L!LerForaDeOrdem,
              L!LerFragmento, L!LerErro, L!LerMensagem, L!Chegou, L!Falhar, L!Proximo, Seguinte
<1>7. recebido # <<>> /\ recebido' = Tail(recebido)
  BY <1>1, <1>6 DEF Ler, L!LerSemEntregar, L!LerCabecalho, L!LerExtensao, L!LerControle,
     L!LerForaDeOrdem, L!LerFragmento, L!LerErro, L!LerMensagem, L!Chegou, L!Falhar, L!Consumir
<1>8. CASE L!LerControle /\ UNCHANGED emTransito
  <2>1. /\ q.op \in L!Controle /\ q.op # "fechar" /\ montagem' = montagem /\ entregue' = entregue
    BY <1>4, <1>8 DEF L!LerControle, L!Falhar, L!fragmentos
  <2>2. q.op \notin L!Dados /\ q.op # "texto" /\ q.op # "continuacao"
    BY <2>1 DEF L!Controle, L!Dados
  <2>3. Valido(a) /\ ~Completo(a)
    BY <1>2, <1>3, <2>1, <2>2 DEF Valido, Completo, Incorreto
  <2> QED BY <1>1, <1>2, <1>5, <1>6, <1>7, <1>8, <2>1, <2>2, <2>3
          DEF Passou, NadaEntregue, Prossegue, Resta, Sobra
<1>9. ASSUME q.op \notin L!Controle, ~L!ForaDeOrdem
      PROVE  Prossegue(a) /\ q.op \in L!Dados /\ L!Montada = Append(a.antes, q.tam)
  <2>1. /\ q.op \in L!Dados
        /\ q.op = "texto" => a.antes = <<>>
        /\ q.op = "continuacao" => a.antes # <<>> /\ ~(L!Soma(a.antes) + q.tam > tamanhoMaximoMensagem)
    <3>1. q.op \in L!Dados
      BY <1>4, <1>9 DEF L!ForaDeOrdem
    <3>2. montando => montagem # <<>>
      BY DEF MontagemInv, MontagemLimitada, L!MontagemLimitada
    <3>3. ~montando => montagem = <<>>
      BY DEF MontagemInv, MontagemLimitada, L!MontagemLimitada
    <3>4. q.op = "texto" => a.antes = <<>>
      BY <1>1, <1>4, <1>9, <3>3 DEF L!ForaDeOrdem
    <3>5. q.op = "continuacao" => a.antes # <<>>
      BY <1>1, <1>4, <1>9, <3>2 DEF L!ForaDeOrdem
    <3>6. q.op = "continuacao" => ~(L!Soma(a.antes) + q.tam > tamanhoMaximoMensagem)
      BY <1>1, <1>4, <1>9 DEF L!ForaDeOrdem, L!PassaDoLimite
    <3> QED BY <3>1, <3>4, <3>5, <3>6
  <2>2. L!Soma(<<>>) + q.tam <= tamanhoMaximoMensagem
    BY <1>3, SomaVazia
  <2>3. ~(L!Soma(a.antes) + q.tam > tamanhoMaximoMensagem)
    <3>1. CASE q.op = "texto"
      BY <1>3, <2>1, <2>2, <3>1, SomaVazia, CaminhoAssumption
    <3>2. CASE q.op = "continuacao"
      BY <2>1, <3>2
    <3> QED BY <2>1, <3>1, <3>2 DEF L!Dados
  <2>4. Valido(a)
    BY <1>2, <1>3, <1>9, <2>1, <2>3 DEF Valido, Incorreto, L!Dados
  <2>5. Prossegue(a)
    BY <1>2, <1>9, <2>4 DEF Prossegue, L!Controle
  <2>6. L!Montada = Append(a.antes, q.tam)
    <3>1. CASE q.op = "texto"
      <4>1. Append(<<>>, q.tam) = <<q.tam>>
        OBVIOUS
      <4> QED BY <1>4, <2>1, <3>1, <4>1 DEF L!Montada
    <3>2. CASE q.op # "texto"
      BY <1>1, <1>4, <3>2 DEF L!Montada
    <3> QED BY <3>1, <3>2
  <2> QED BY <2>1, <2>5, <2>6
<1>10. CASE L!LerFragmento /\ UNCHANGED emTransito
  <2>1. q.op \notin L!Controle /\ ~L!ForaDeOrdem /\ ~q.fim /\ montagem' = L!Montada /\ entregue' = entregue
    BY <1>4, <1>10 DEF L!LerFragmento
  <2>2. Prossegue(a) /\ q.op \in L!Dados /\ L!Montada = Append(a.antes, q.tam)
    BY <1>9, <2>1
  <2>3. ~Completo(a)
    BY <1>2, <2>1 DEF Completo
  <2> QED BY <1>2, <1>5, <1>6, <1>7, <1>10, <2>1, <2>2, <2>3
          DEF Passou, NadaEntregue, Resta, Sobra
<1>11. CASE L!LerMensagem /\ emTransito' = SubSeq(emTransito, 2, Len(emTransito))
  <2>1. /\ q.op \notin L!Controle /\ ~L!ForaDeOrdem /\ q.fim /\ montagem' = <<>> /\ entregue' = L!Montada
    BY <1>4, <1>11 DEF L!LerMensagem
  <2>2. Prossegue(a) /\ q.op \in L!Dados /\ L!Montada = Append(a.antes, q.tam)
    BY <1>9, <2>1
  <2>3. Completo(a)
    BY <1>2, <2>1, <2>2 DEF Completo, Prossegue
  <2>4. emTransito # <<>> /\ Head(emTransito) = Append(a.antes, q.tam)
    BY <1>2, <1>5, <2>3 DEF Trecho, Primeira
  <2>5. emTransito' = Tail(emTransito)
    BY <1>5, <1>11, <2>4, TailIsSubSeq
  <2> QED BY <1>2, <1>5, <1>6, <1>7, <2>1, <2>2, <2>3, <2>4, <2>5
          DEF Passou, Entregou, Resta, Sobra
<1>12. \/ L!LerControle /\ UNCHANGED emTransito
       \/ L!LerFragmento /\ UNCHANGED emTransito
       \/ L!LerMensagem /\ emTransito' = SubSeq(emTransito, 2, Len(emTransito))
  BY <1>1 DEF Ler, L!LerSemEntregar, L!LerCabecalho, L!LerExtensao, L!LerForaDeOrdem,
              L!LerErro, L!Chegou, L!Falhar
<1> QED BY <1>8, <1>10, <1>11, <1>12

-----------------------------------------------------------------------------
(***************************************************************************)
(* The units on their way and what the client meant with them.             *)
(***************************************************************************)
\* A frame after which nothing counts.
Derradeiro(a) == a.parte = "corpo" /\ ~Prossegue(a)

\* The first m units of f are those of the notes of g, up to the frame after which
\* nothing counts if there is one.
Notas(f, g, m) ==
  /\ Len(f) \in Nat /\ m \in 0..Len(f) /\ g \in [1..m -> Nota]
  /\ \A k \in 1..m : Trecho(g[k], f[k])
  /\ \A k \in 1..m : k + 1 <= m => Emenda(g[k], g[k + 1])
  /\ m < Len(f) => m > 0 /\ Derradeiro(g[m])

\* Unless it was cut off, what is on its way ends where the client is.
Final(g, m) ==
  /\ m = 0 => /\ conversa.correta /\ leitura = "cabecalho" /\ montagem = conversa.parcial
              /\ emTransito = <<>>
  /\ m > 0 => g[m].parte = "corpo"
  /\ m > 0 /\ conversa.correta =>
       Prossegue(g[m]) /\ Resta(g[m]) = conversa.parcial /\ Sobra(g[m]) = <<>>
  /\ m > 0 /\ ~conversa.correta => ~Prossegue(g[m])

Situacao(g, m) ==
  /\ m > 0 => Lendo(g[1]) /\ g[1].fila = emTransito
  /\ ~Cortado => Final(g, m)

FluxoInv == leitura # "fim" => \E m, g : Notas(Fluxo, g, m) /\ Situacao(g, m)

TiposDeFora ==
  /\ conversa \in [quadros : Nat, parcial : Seq(Nat), correta : BOOLEAN]
  /\ emTransito \in Seq(Seq(Nat))

LEMMA NotasAoCortar ==
  ASSUME NEW f, NEW g, NEW m, Notas(f, g, m), NEW h, Len(h) \in Nat, Len(h) <= Len(f),
         \A k \in 1..Len(h) : h[k] = f[k]
  PROVE \E n \in 0..m : /\ Notas(h, [k \in 1..n |-> g[k]], n)
<1>1. CASE m <= Len(h)
  <2>1. [k \in 1..m |-> g[k]] = g
    BY DEF Notas
  <2>2. Notas(h, g, m)
    BY <1>1 DEF Notas
  <2>3. m \in 0..m
    BY DEF Notas
  <2> QED BY <2>1, <2>2, <2>3
<1>2. CASE ~(m <= Len(h))
  <2> DEFINE n == Len(h)
             e == [k \in 1..n |-> g[k]]
  <2>1. n \in 0..m /\ \A k \in 1..n : k \in 1..m /\ e[k] = g[k]
    BY <1>2 DEF Notas
  <2>2. e \in [1..n -> Nota]
    BY <2>1 DEF Notas
  <2>3. \A k \in 1..n : Trecho(e[k], h[k])
    BY <2>1 DEF Notas
  <2>4. ASSUME NEW k \in 1..n, k + 1 <= n PROVE Emenda(e[k], e[k + 1])
    <3>1. k + 1 \in 1..n /\ k + 1 <= m
      BY <2>1, <2>4 DEF Notas
    <3>2. e[k] = g[k] /\ e[k + 1] = g[k + 1] /\ k \in 1..m
      BY <2>1, <3>1
    <3> QED BY <3>1, <3>2 DEF Notas
  <2>5. n \in 0..Len(h) /\ ~(n < Len(h))
    OBVIOUS
  <2> HIDE DEF e
  <2>6. Notas(h, e, n)
    BY <2>2, <2>3, <2>4, <2>5 DEF Notas
  <2> QED BY <2>1, <2>6 DEF e
<1> QED BY <1>1, <1>2

LEMMA NotasAoLer ==
  ASSUME NEW f, NEW g, NEW m, Notas(f, g, m), m > 0, ~Derradeiro(g[1]),
         NEW h, Len(h) = Len(f) - 1, \A k \in 1..Len(h) : h[k] = f[k + 1]
  PROVE /\ m - 1 \in Nat
        /\ Notas(h, [k \in 1..(m - 1) |-> g[k + 1]], m - 1)
<1>1. m \in Nat /\ m >= 1 /\ Len(f) \in Nat /\ m <= Len(f) /\ g \in [1..m -> Nota]
  BY DEF Notas
<1> DEFINE n == m - 1
           e == [k \in 1..n |-> g[k + 1]]
<1>2. n \in 0..Len(h) /\ Len(h) \in Nat /\ \A k \in 1..n : k + 1 \in 1..m /\ k \in 1..Len(h)
  BY <1>1
<1>3. e \in [1..n -> Nota] /\ \A k \in 1..n : e[k] = g[k + 1]
  BY <1>1, <1>2
<1>4. \A k \in 1..n : Trecho(e[k], h[k])
  BY <1>2, <1>3 DEF Notas
<1>5. ASSUME NEW k \in 1..n, k + 1 <= n PROVE Emenda(e[k], e[k + 1])
  <2>1. k + 1 \in 1..n /\ k + 1 \in 1..m /\ (k + 1) + 1 <= m
    BY <1>1, <1>2, <1>5
  <2>2. e[k] = g[k + 1] /\ e[k + 1] = g[(k + 1) + 1]
    BY <1>3, <2>1
  <2> QED BY <2>1, <2>2 DEF Notas
<1>6. ASSUME n < Len(h) PROVE n > 0 /\ Derradeiro(e[n])
  <2>1. m < Len(f) /\ Derradeiro(g[m])
    BY <1>1, <1>6 DEF Notas
  <2>2. m # 1
    BY <2>1
  <2>3. n > 0 /\ n \in 1..n /\ n + 1 = m
    BY <1>1, <2>2
  <2>4. e[n] = g[n + 1]
    BY <1>3, <2>3
  <2> QED BY <2>1, <2>3, <2>4
<1> HIDE DEF e
<1>7. Notas(h, e, n)
  BY <1>2, <1>3, <1>4, <1>5, <1>6 DEF Notas
<1> QED BY <1>2, <1>7 DEF e

\* The client sends the frame q in the middle of the message p, and may complete it: it is
\* then behind all those that it completed before.
Completa(q, p) == ~Incorreto(q, p) /\ q.op \in L!Dados /\ q.fim
Acrescida(fila, q, p) == IF Completa(q, p) THEN Append(fila, Append(p, q.tam)) ELSE fila
Mais(a, q, p) == [a EXCEPT !.fila = Acrescida(@, q, p)]

LEMMA FilaAcrescida ==
  ASSUME NEW q \in Quadros, NEW p \in Seq(Nat), NEW f \in Seq(Seq(Nat))
  PROVE /\ Acrescida(f, q, p) \in Seq(Seq(Nat))
        /\ f # <<>> => /\ Acrescida(f, q, p) # <<>> /\ Head(Acrescida(f, q, p)) = Head(f)
                       /\ Tail(Acrescida(f, q, p)) = Acrescida(Tail(f), q, p)
<1>1. PICK S, t : S = Seq(Nat) /\ t = Append(p, q.tam)
  OBVIOUS
<1>2. f \in Seq(S) /\ t \in S
  BY <1>1, CaminhoAssumption
<1>3. /\ Append(f, t) \in Seq(S)
      /\ f # <<>> => /\ Append(f, t) # <<>> /\ Head(Append(f, t)) = Head(f)
                     /\ Tail(Append(f, t)) = Append(Tail(f), t)
  BY <1>2, HeadTailAppend, AppendProperties, ZenonT(60)
<1> QED BY <1>1, <1>3 DEF Acrescida

LEMMA NotaMais ==
  ASSUME NEW q \in Quadros, NEW p \in Seq(Nat), NEW a \in Nota, NEW u, Trecho(a, u),
         NEW b, b = Mais(a, q, p)
  PROVE /\ b \in Nota /\ b.parte = a.parte /\ b.q = a.q /\ b.antes = a.antes
        /\ b.fila = Acrescida(a.fila, q, p)
        /\ Prossegue(a) => Prossegue(b)
        /\ Prossegue(b) => Prossegue(a)
        /\ Seguinte(b) = Seguinte(a) /\ Resta(b) = Resta(a)
        /\ Sobra(b) = Acrescida(Sobra(a), q, p)
        /\ Trecho(b, u)
<1>1. a.fila \in Seq(Seq(Nat)) /\ Acrescida(a.fila, q, p) \in Seq(Seq(Nat))
  BY FilaAcrescida DEF Nota
<1>2. b \in Nota /\ b.parte = a.parte /\ b.q = a.q /\ b.antes = a.antes
  BY <1>1 DEF Mais, Nota
<1>3. b.fila = Acrescida(a.fila, q, p)
  BY DEF Mais, Nota
<1>4. (Valido(a) <=> Valido(b)) /\ (Completo(a) <=> Completo(b)) /\ (Prossegue(a) <=> Prossegue(b))
  BY <1>2 DEF Valido, Completo, Prossegue
<1>5. Seguinte(b) = Seguinte(a) /\ Resta(b) = Resta(a)
  BY <1>2, <1>4 DEF Seguinte, Resta
<1>6. Completo(a) => a.fila # <<>> /\ Head(a.fila) = Append(a.antes, a.q.tam)
  BY DEF Trecho, Primeira
<1>7. a.fila # <<>> => /\ b.fila # <<>> /\ Head(b.fila) = Head(a.fila)
                       /\ Tail(b.fila) = Acrescida(Tail(a.fila), q, p)
  <2>1. PICK f : f = a.fila
    OBVIOUS
  <2>2. f # <<>> => /\ Acrescida(f, q, p) # <<>> /\ Head(Acrescida(f, q, p)) = Head(f)
                    /\ Tail(Acrescida(f, q, p)) = Acrescida(Tail(f), q, p)
    BY <1>1, <2>1, FilaAcrescida
  <2> QED BY <1>3, <2>1, <2>2
<1>8. Sobra(b) = Acrescida(Sobra(a), q, p)
  BY <1>2, <1>3, <1>4, <1>6, <1>7 DEF Sobra
<1>9. Trecho(b, u)
  <2>1. Primeira(b)
    BY <1>2, <1>4, <1>6, <1>7 DEF Primeira
  <2> QED BY <1>2, <2>1 DEF Trecho
<1> QED BY <1>2, <1>3, <1>4, <1>5, <1>8, <1>9

\* The notes of the frame.
NotaDe(parte, q, p) == [parte |-> parte, q |-> q, antes |-> p, fila |-> Acrescida(<<>>, q, p)]

LEMMA NotaNova ==
  ASSUME NEW q \in Quadros, NEW p \in Seq(Nat), NEW parte \in {"cabecalho", "extensao", "corpo"},
         NEW a, a = NotaDe(parte, q, p)
  PROVE /\ a \in Nota /\ a.parte = parte /\ a.q = q /\ a.antes = p
        /\ a.fila = Acrescida(<<>>, q, p)
        /\ Primeira(a)
        /\ parte = "corpo" => Sobra(a) = <<>>
        /\ parte # "corpo" => Sobra(a) = a.fila
<1>1. Acrescida(<<>>, q, p) \in Seq(Seq(Nat))
  BY FilaAcrescida, <<>> \in Seq(Seq(Nat))
<1>2. a \in Nota /\ a.parte = parte /\ a.q = q /\ a.antes = p /\ a.fila = Acrescida(<<>>, q, p)
  BY <1>1 DEF Nota, NotaDe
<1>3. Completo(a) <=> Completa(q, p)
  BY <1>2 DEF Completo, Valido, Completa
<1>4. PICK t : t = Append(p, q.tam)
  OBVIOUS
<1>5. Append(<<>>, t) # <<>> /\ Head(Append(<<>>, t)) = t /\ Tail(Append(<<>>, t)) = <<>>
  <2>1. <<>> \in Seq({t}) /\ t \in {t}
    OBVIOUS
  <2> QED BY <2>1, HeadTailAppend, AppendProperties
<1>6. Completa(q, p) => a.fila = Append(<<>>, t)
  BY <1>2, <1>4 DEF Acrescida
<1>7. ~Completa(q, p) => a.fila = <<>>
  BY <1>2 DEF Acrescida
<1>8. Primeira(a)
  BY <1>2, <1>3, <1>4, <1>5, <1>6 DEF Primeira
<1>9. (parte = "corpo" => Sobra(a) = <<>>) /\ (parte # "corpo" => Sobra(a) = a.fila)
  BY <1>2, <1>3, <1>5, <1>6, <1>7 DEF Sobra
<1> QED BY <1>2, <1>8, <1>9

ParteDe(k, w) == IF k = 1 THEN "cabecalho" ELSE IF k = w THEN "corpo" ELSE "extensao"

LEMMA NotasDoQuadro ==
  ASSUME NEW q \in Quadros, NEW p \in Seq(Nat),
         NEW w, w = Len(L!Unidades(q))
  PROVE /\ w \in {2, 3} /\ w \in Nat /\ (ComExtensao(q) => w = 3) /\ (~ComExtensao(q) => w = 2)
        /\ \A k \in 1..w : /\ NotaDe(ParteDe(k, w), q, p) \in Nota
                           /\ Trecho(NotaDe(ParteDe(k, w), q, p), L!Unidades(q)[k])
        /\ \A k \in 1..w : k + 1 <= w =>
             Emenda(NotaDe(ParteDe(k, w), q, p), NotaDe(ParteDe(k + 1, w), q, p))
<1>1. w \in {2, 3} /\ w \in Nat /\ (ComExtensao(q) => w = 3) /\ (~ComExtensao(q) => w = 2)
  <2>1. w = 2 \/ w = 3
    BY UnidadesDeQuadro
  <2>2. (ComExtensao(q) => w = 3) /\ (~ComExtensao(q) => w = 2)
    BY UnidadesDeQuadro DEF ComExtensao
  <2> QED BY <2>1, <2>2
<1>2. /\ L!Unidades(q)[1] = Cabecalho(q)
      /\ ComExtensao(q) => L!Unidades(q)[2].valor = L!Extensao(q.tam)
  <2>1. L!Unidades(q)[1] = Cabecalho(q)
    BY UnidadesDeQuadro DEF Cabecalho
  <2>2. ComExtensao(q) => L!Unidades(q)[2] = [parte |-> "extensao", valor |-> L!Extensao(q.tam)]
    BY UnidadesDeQuadro DEF ComExtensao
  <2> QED BY <2>1, <2>2
<1>3. ASSUME NEW k \in 1..w
      PROVE  /\ NotaDe(ParteDe(k, w), q, p) \in Nota
             /\ Trecho(NotaDe(ParteDe(k, w), q, p), L!Unidades(q)[k])
  <2>1. PICK a : a = NotaDe(ParteDe(k, w), q, p)
    OBVIOUS
  <2>2. ParteDe(k, w) \in {"cabecalho", "extensao", "corpo"}
    BY DEF ParteDe
  <2>3. a \in Nota /\ a.parte = ParteDe(k, w) /\ a.q = q /\ Primeira(a)
    <3>1. PICK parte \in {"cabecalho", "extensao", "corpo"} : parte = ParteDe(k, w)
      BY <2>2
    <3>2. a = NotaDe(parte, q, p)
      BY <2>1, <3>1
    <3>3. a \in Nota /\ a.parte = parte /\ a.q = q /\ Primeira(a)
      BY <3>2, NotaNova
    <3> QED BY <3>1, <3>3
  <2>4. a.parte = "cabecalho" => k = 1
    BY <2>3 DEF ParteDe
  <2>5. a.parte = "extensao" => k = 2 /\ ComExtensao(q)
    <3>1. a.parte = "extensao" => k # 1 /\ k # w
      BY <2>3 DEF ParteDe
    <3>2. k # 1 /\ k # w => k = 2 /\ w = 3
      <4>1. CASE w = 2
        BY <4>1
      <4>2. CASE w = 3
        BY <4>2
      <4> QED BY <1>1, <4>1, <4>2
    <3> QED BY <1>1, <3>1, <3>2
  <2>6. Trecho(a, L!Unidades(q)[k])
    BY <1>2, <2>3, <2>4, <2>5 DEF Trecho
  <2> QED BY <2>1, <2>3, <2>6
<1>4. ASSUME NEW k \in 1..w, k + 1 <= w
      PROVE  Emenda(NotaDe(ParteDe(k, w), q, p), NotaDe(ParteDe(k + 1, w), q, p))
  <2>1. PICK a, b : a = NotaDe(ParteDe(k, w), q, p) /\ b = NotaDe(ParteDe(k + 1, w), q, p)
    OBVIOUS
  <2>2. ParteDe(k, w) \in {"cabecalho", "extensao"} /\ ParteDe(k + 1, w) \in {"extensao", "corpo"}
    BY <1>1, <1>4 DEF ParteDe
  <2>3. /\ a.parte = ParteDe(k, w) /\ a.q = q /\ a.antes = p /\ Sobra(a) = a.fila
        /\ a.fila = Acrescida(<<>>, q, p)
    BY <2>1, <2>2, NotaNova
  <2>4. /\ b.parte = ParteDe(k + 1, w) /\ b.q = q /\ b.antes = p
        /\ b.fila = Acrescida(<<>>, q, p)
    BY <2>1, <2>2, NotaNova
  <2>5. b.parte = Seguinte(a)
    <3>1. CASE w = 2
      <4>1. k = 1 /\ k + 1 = 2 /\ ~ComExtensao(q)
        BY <1>1, <1>4, <3>1
      <4>2. a.parte = "cabecalho" /\ b.parte = "corpo"
        BY <2>3, <2>4, <3>1, <4>1 DEF ParteDe
      <4> QED BY <2>3, <4>1, <4>2 DEF Seguinte
    <3>2. CASE w = 3 /\ k = 1
      <4>1. k + 1 = 2 /\ ComExtensao(q)
        BY <1>1, <3>2
      <4>2. a.parte = "cabecalho" /\ b.parte = "extensao"
        BY <2>3, <2>4, <3>2, <4>1 DEF ParteDe
      <4> QED BY <2>3, <4>1, <4>2 DEF Seguinte
    <3>3. CASE w = 3 /\ k # 1
      <4>1. k = 2 /\ k + 1 = 3
        BY <1>4, <3>3
      <4>2. a.parte = "extensao" /\ b.parte = "corpo"
        BY <2>3, <2>4, <3>3, <4>1 DEF ParteDe
      <4> QED BY <4>2 DEF Seguinte
    <3> QED BY <1>1, <3>1, <3>2, <3>3
  <2>6. a.parte # "corpo" /\ b.antes = Resta(a)
    BY <2>2, <2>3, <2>4 DEF Resta
  <2>7. Emenda(a, b)
    BY <2>3, <2>4, <2>5, <2>6 DEF Emenda
  <2> QED BY <2>1, <2>7
<1> QED BY <1>1, <1>3, <1>4

\* h is the stream f with the frame q after it; f is noted to its end, with p of an
\* unfinished message left.
Envio(f, g, m, q, p, w, h) ==
  /\ q \in Quadros /\ p \in Seq(Nat)
  /\ Notas(f, g, m) /\ m = Len(f)
  /\ m > 0 => g[m].parte = "corpo" /\ Prossegue(g[m]) /\ Resta(g[m]) = p /\ Sobra(g[m]) = <<>>
  /\ w = Len(L!Unidades(q))
  /\ Len(h) = Len(f) + w
  /\ \A k \in 1..Len(f) : h[k] = f[k]
  /\ \A k \in 1..w : h[Len(f) + k] = L!Unidades(q)[k]

LEMMA NotasAoEnviar ==
  ASSUME NEW f, NEW g, NEW m, NEW q, NEW p, NEW w, NEW h, Envio(f, g, m, q, p, w, h)
  PROVE \E e : /\ Notas(h, e, m + w)
               /\ m > 0 => e[1] = Mais(g[1], q, p)
               /\ m = 0 => e[1] = NotaDe("cabecalho", q, p)
               /\ e[m + w] = NotaDe("corpo", q, p)
<1>0. /\ q \in Quadros /\ p \in Seq(Nat)
      /\ Notas(f, g, m) /\ m = Len(f)
      /\ m > 0 => g[m].parte = "corpo" /\ Prossegue(g[m]) /\ Resta(g[m]) = p /\ Sobra(g[m]) = <<>>
      /\ w = Len(L!Unidades(q))
      /\ Len(h) = Len(f) + w
      /\ \A k \in 1..Len(f) : h[k] = f[k]
      /\ \A k \in 1..w : h[Len(f) + k] = L!Unidades(q)[k]
  BY DEF Envio
<1> USE <1>0
<1>1. m \in Nat /\ Len(f) \in Nat /\ g \in [1..m -> Nota]
  BY DEF Notas
<1>2. w \in {2, 3} /\ w \in Nat
  BY NotasDoQuadro
<1> DEFINE N(k) == NotaDe(ParteDe(k, w), q, p)
           e == [k \in 1..(m + w) |-> IF k <= m THEN Mais(g[k], q, p) ELSE N(k - m)]
<1>5. /\ \A k \in 1..m : e[k] = Mais(g[k], q, p)
      /\ \A k \in 1..w : e[m + k] = N(k)
  <2>1. \A k \in 1..m : k \in 1..(m + w)
    BY <1>1, <1>2
  <2>2. \A k \in 1..w : m + k \in 1..(m + w) /\ ~(m + k <= m) /\ (m + k) - m = k
    BY <1>1, <1>2
  <2> QED BY <2>1, <2>2
<1>6. \A k \in 1..(m + w) : k \in 1..m \/ \E j \in 1..w : k = m + j
  <2> TAKE k \in 1..(m + w)
  <2>1. CASE k <= m
    BY <1>1, <2>1
  <2>2. CASE ~(k <= m)
    <3>1. k - m \in 1..w /\ k = m + (k - m)
      BY <1>1, <1>2, <2>2
    <3> QED BY <3>1
  <2> QED BY <2>1, <2>2
<1>7. DOMAIN e = 1..(m + w)
  OBVIOUS
<1>8. e = [k \in 1..(m + w) |-> e[k]]
  OBVIOUS
<1> HIDE DEF e
<1>9. /\ \A k \in 1..w : N(k) \in Nota /\ Trecho(N(k), L!Unidades(q)[k])
      /\ \A k \in 1..w : k + 1 <= w => Emenda(N(k), N(k + 1))
  BY NotasDoQuadro
<1> HIDE DEF N
<1>10. ASSUME NEW k \in 1..m
       PROVE  /\ e[k] \in Nota /\ Trecho(e[k], h[k])
              /\ e[k].parte = g[k].parte /\ e[k].q = g[k].q /\ e[k].antes = g[k].antes
              /\ e[k].fila = Acrescida(g[k].fila, q, p)
              /\ Prossegue(g[k]) => Prossegue(e[k])
              /\ Seguinte(e[k]) = Seguinte(g[k]) /\ Resta(e[k]) = Resta(g[k])
              /\ Sobra(e[k]) = Acrescida(Sobra(g[k]), q, p)
  <2>1. PICK a, b, u : a = g[k] /\ b = Mais(a, q, p) /\ u = f[k]
    OBVIOUS
  <2>2. a \in Nota /\ Trecho(a, u)
    BY <1>1, <2>1 DEF Notas
  <2>3. e[k] = b /\ h[k] = u
    BY <1>5, <2>1
  <2>4. /\ b \in Nota /\ Trecho(b, u)
        /\ b.parte = a.parte /\ b.q = a.q /\ b.antes = a.antes
        /\ b.fila = Acrescida(a.fila, q, p)
        /\ Prossegue(a) => Prossegue(b)
        /\ Seguinte(b) = Seguinte(a) /\ Resta(b) = Resta(a)
        /\ Sobra(b) = Acrescida(Sobra(a), q, p)
    BY <2>1, <2>2, NotaMais
  <2> QED BY <2>1, <2>3, <2>4
<1>11. ASSUME NEW k \in 1..(m + w) PROVE e[k] \in Nota /\ Trecho(e[k], h[k])
  <2>1. CASE k \in 1..m
    BY <1>10, <2>1
  <2>2. CASE \E j \in 1..w : k = m + j
    <3>1. PICK j \in 1..w : k = m + j
      BY <2>2
    <3>2. e[k] = N(j) /\ h[k] = L!Unidades(q)[j]
      BY <1>5, <3>1
    <3> QED BY <1>9, <3>2
  <2> QED BY <1>6, <2>1, <2>2
<1>12. e \in [1..(m + w) -> Nota]
  BY <1>8, <1>11
<1>13. ASSUME NEW k \in 1..(m + w), k + 1 <= m + w PROVE Emenda(e[k], e[k + 1])
  <2>1. CASE k \in 1..m /\ k # m
    <3>1. k \in 1..m /\ k + 1 \in 1..m /\ k + 1 <= m
      BY <1>1, <2>1
    <3>2. Emenda(g[k], g[k + 1])
      BY <3>1 DEF Notas
    <3>3. PICK a, b, c, d : a = g[k] /\ b = g[k + 1] /\ c = e[k] /\ d = e[k + 1]
      OBVIOUS
    <3>4. /\ c.parte = a.parte /\ c.q = a.q /\ (Prossegue(a) => Prossegue(c))
          /\ Seguinte(c) = Seguinte(a) /\ Resta(c) = Resta(a)
          /\ Sobra(c) = Acrescida(Sobra(a), q, p)
      BY <1>10, <3>1, <3>3
    <3>5. /\ d.parte = b.parte /\ d.q = b.q /\ d.antes = b.antes
          /\ d.fila = Acrescida(b.fila, q, p)
      BY <1>10, <3>1, <3>3
    <3>6. Emenda(c, d)
      BY <3>2, <3>3, <3>4, <3>5 DEF Emenda
    <3> QED BY <3>3, <3>6
  <2>2. CASE k = m
    <3>1. m \in 1..m /\ m > 0 /\ 1 \in 1..w
      BY <1>1, <1>2, <2>2
    <3>2. PICK a, c, d : a = g[m] /\ c = e[m] /\ d = e[m + 1]
      OBVIOUS
    <3>3. a.parte = "corpo" /\ Prossegue(a) /\ Resta(a) = p /\ Sobra(a) = <<>>
      BY <3>1, <3>2
    <3>4. /\ c.parte = "corpo" /\ Prossegue(c) /\ Resta(c) = p
          /\ Sobra(c) = Acrescida(<<>>, q, p)
      BY <1>10, <3>1, <3>2, <3>3
    <3>5. d = NotaDe("cabecalho", q, p)
      BY <1>5, <3>1, <3>2 DEF N, ParteDe
    <3>6. /\ d.parte = "cabecalho" /\ d.antes = p
          /\ d.fila = Acrescida(<<>>, q, p)
      BY <3>5, NotaNova
    <3>8. Emenda(c, d)
      BY <3>4, <3>6 DEF Emenda, Seguinte
    <3> QED BY <2>2, <3>2, <3>8
  <2>3. CASE \E j \in 1..w : k = m + j
    <3>1. PICK j \in 1..w : k = m + j
      BY <2>3
    <3>2. j + 1 \in 1..w /\ j + 1 <= w /\ k + 1 = m + (j + 1)
      BY <1>1, <1>2, <1>13, <3>1
    <3>3. e[k] = N(j) /\ e[k + 1] = N(j + 1)
      BY <1>5, <3>1, <3>2
    <3> QED BY <1>9, <3>2, <3>3
  <2> QED BY <1>6, <2>1, <2>2, <2>3
<1>14. Notas(h, e, m + w)
  <2>1. Len(h) \in Nat /\ m + w \in 0..Len(h) /\ ~(m + w < Len(h))
    BY <1>1, <1>2
  <2> QED BY <1>11, <1>12, <1>13, <2>1 DEF Notas
<1>15. m > 0 => e[1] = Mais(g[1], q, p)
  BY <1>1, <1>5
<1>16. m = 0 => e[1] = NotaDe("cabecalho", q, p)
  <2>1. 1 \in 1..w /\ (m = 0 => m + 1 = 1)
    BY <1>1, <1>2
  <2>2. e[m + 1] = NotaDe("cabecalho", q, p)
    BY <1>5, <2>1 DEF N, ParteDe
  <2> QED BY <2>1, <2>2
<1>17. e[m + w] = NotaDe("corpo", q, p)
  <2>1. w >= 2
    BY <1>2
  <2>2. w \in 1..w /\ w # 1
    BY <1>2, <2>1
  <2> QED BY <1>5, <2>2 DEF N, ParteDe
<1> QED BY <1>14, <1>15, <1>16, <1>17

-----------------------------------------------------------------------------
(***************************************************************************)
(* Every step keeps the notes.                                             *)
(***************************************************************************)
LEMMA FluxoNoEnvio ==
  ASSUME TiposDosBytes, TiposDeFora, FluxoInv, NEW q \in Quadros, Enviar(q)
  PROVE FluxoInv'
<1> SUFFICES ASSUME leitura' # "fim"
             PROVE \E m, g : Notas(Fluxo', g, m) /\ Situacao(g, m)'
  BY DEF FluxoInv
<1>1. UNCHANGED <<leitor, ponte, recebido, mao>> /\ ~Cortado /\ enviado' = enviado \o L!Unidades(q)
  BY DEF Enviar, Cortado
<1>2. leitura # "fim" /\ UNCHANGED <<leitura, quadro, montagem>> /\ ~Cortado'
  BY <1>1 DEF leitor, ponte, Cortado
<1>3. PICK m, g : Notas(Fluxo, g, m) /\ Situacao(g, m)
  BY <1>2 DEF FluxoInv
<1>4. PICK p, f, h, u, w : p = conversa.parcial /\ f = Fluxo /\ h = Fluxo' /\ u = L!Unidades(q) /\ w = Len(u)
  OBVIOUS
<1>5. p \in Seq(Nat) /\ conversa.correta \in BOOLEAN /\ emTransito \in Seq(Seq(Nat))
  BY <1>4 DEF TiposDeFora
<1>6. w \in Nat /\ w > 0
  <2>1. w = 2 \/ w = 3
    BY <1>4, UnidadesDeQuadro
  <2> QED BY <2>1
<1>7. /\ Len(f) \in Nat /\ Len(h) = Len(f) + w
      /\ \A k \in 1..Len(f) : h[k] = f[k]
      /\ \A k \in 1..w : h[Len(f) + k] = u[k]
  <2>1. u \in Seq(Unidade)
    BY <1>4, UnidadesDeQuadro
  <2> QED BY <1>1, <1>4, <2>1, FluxoAoEnviar
<1>8. Final(g, m) /\ (m > 0 => Lendo(g[1]) /\ g[1].fila = emTransito)
  BY <1>1, <1>3 DEF Situacao
<1>9. m \in Nat /\ m <= Len(f) /\ g \in [1..m -> Nota]
  BY <1>3, <1>4, <1>7 DEF Notas
<1>10. CASE conversa.correta
  <2>1. /\ conversa'.correta <=> ~Incorreto(q, p) /\ q.op # "fechar"
        /\ conversa'.correta => conversa'.parcial = IF Completa(q, p) THEN <<>>
                                     ELSE IF q.op \in L!Dados THEN Append(p, q.tam) ELSE p
        /\ emTransito' = Acrescida(emTransito, q, p)
    BY <1>4, <1>10 DEF Enviar, Completa, Acrescida
  <2>2. m = Len(f)
    <3>1. ~(m < Len(f))
      BY <1>3, <1>4, <1>8, <1>10 DEF Notas, Final, Derradeiro
    <3> QED BY <1>7, <1>9, <3>1
  <2>3. m > 0 => g[m].parte = "corpo" /\ Prossegue(g[m]) /\ Resta(g[m]) = p /\ Sobra(g[m]) = <<>>
    BY <1>4, <1>8, <1>10 DEF Final
  <2>4. PICK e : /\ Notas(h, e, m + w)
                 /\ m > 0 => e[1] = Mais(g[1], q, p)
                 /\ m = 0 => e[1] = NotaDe("cabecalho", q, p)
                 /\ e[m + w] = NotaDe("corpo", q, p)
    <3>1. Notas(f, g, m)
      BY <1>3, <1>4
    <3>2. w = Len(L!Unidades(q))
      BY <1>4
    <3>3. \A k \in 1..w : h[Len(f) + k] = L!Unidades(q)[k]
      BY <1>4, <1>7
    <3>4. /\ p \in Seq(Nat) /\ q \in Quadros
          /\ Len(h) = Len(f) + w /\ \A k \in 1..Len(f) : h[k] = f[k]
      BY <1>5, <1>7
    <3>5. Envio(f, g, m, q, p, w, h)
      BY <3>1, <3>2, <3>3, <3>4, <2>2, <2>3 DEF Envio
    <3> QED BY ONLY <3>5, NotasAoEnviar
  <2>5. Lendo(e[1])' /\ e[1].fila = emTransito'
    <3>1. PICK a, b, t : a = e[1] /\ b = g[1] /\ t = f[1]
      OBVIOUS
    <3>2. CASE m > 0
      <4>1. b \in Nota /\ Trecho(b, t) /\ Lendo(b) /\ b.fila = emTransito
        BY <1>3, <1>4, <1>8, <1>9, <3>1, <3>2 DEF Notas
      <4>2. a = Mais(b, q, p)
        BY <2>4, <3>1, <3>2
      <4>3. a.parte = b.parte /\ a.q = b.q /\ a.antes = b.antes /\ a.fila = Acrescida(b.fila, q, p)
        BY <1>5, <4>1, <4>2, NotaMais
      <4>4. leitura' = a.parte /\ montagem' = a.antes /\ EmLeitura(quadro', a.q, a.parte)
        BY <1>2, <4>1, <4>3 DEF Lendo
      <4> QED BY <2>1, <3>1, <4>1, <4>3, <4>4 DEF Lendo
    <3>3. CASE m = 0
      <4>1. a = NotaDe("cabecalho", q, p)
        BY <2>4, <3>1, <3>3
      <4>2. a.parte = "cabecalho" /\ a.antes = p /\ a.fila = Acrescida(<<>>, q, p)
        BY <1>5, <4>1, NotaNova
      <4>3. leitura = "cabecalho" /\ montagem = p /\ emTransito = <<>>
        BY <1>4, <1>8, <3>3 DEF Final
      <4>4. leitura' = a.parte /\ montagem' = a.antes /\ EmLeitura(quadro', a.q, a.parte)
        BY <1>2, <4>2, <4>3 DEF EmLeitura
      <4> QED BY <2>1, <3>1, <4>2, <4>3, <4>4 DEF Lendo
    <3> QED BY <1>9, <3>2, <3>3
  <2>6. Final(e, m + w)'
    <3>1. PICK z, n : z = e[m + w] /\ n = m + w
      OBVIOUS
    <3>2. z = NotaDe("corpo", q, p)
      BY <2>4, <3>1
    <3>3. z.parte = "corpo" /\ z.q = q /\ z.antes = p /\ Sobra(z) = <<>>
      BY <1>5, <3>2, NotaNova
    <3>4. /\ Prossegue(z) <=> conversa'.correta
          /\ conversa'.correta => Resta(z) = conversa'.parcial
      BY <2>1, <3>3 DEF Prossegue, Valido, Resta, Completo, Completa
    <3>5. n > 0 /\ n # 0
      BY <1>6, <1>9, <3>1
    <3>6. Final(e, n)'
      BY <3>1, <3>3, <3>4, <3>5 DEF Final
    <3> QED BY <3>1, <3>6
  <2>7. Situacao(e, m + w)'
    BY <2>5, <2>6 DEF Situacao
  <2> QED BY <1>4, <2>4, <2>7
<1>11. CASE ~conversa.correta
  <2>1. ~conversa'.correta /\ emTransito' = emTransito
    BY <1>11 DEF Enviar
  <2>2. m > 0 /\ Derradeiro(g[m])
    BY <1>8, <1>9, <1>11 DEF Final, Derradeiro
  <2>3. Notas(h, g, m)
    <3>1. Len(h) \in Nat /\ m \in 0..Len(h)
      BY <1>6, <1>7, <1>9
    <3>2. \A k \in 1..m : h[k] = f[k]
      BY <1>7, <1>9
    <3> QED BY <1>3, <1>4, <2>2, <3>1, <3>2 DEF Notas
  <2>4. Lendo(g[1])' /\ g[1].fila = emTransito'
    BY <1>2, <1>8, <2>1, <2>2 DEF Lendo
  <2>5. Final(g, m)'
    BY <2>1, <2>2, <1>9 DEF Final, Derradeiro
  <2> QED BY <1>4, <2>3, <2>4, <2>5 DEF Situacao
<1> QED BY <1>10, <1>11

LEMMA FluxoNaLeitura ==
  ASSUME TiposDosBytes, MontagemInv, FluxoInv, Ler, leitura' # "fim"
  PROVE FluxoInv' /\ (NadaEntregue \/ Entregou)
<1>1. leitura # "fim" /\ recebido # <<>> /\ recebido' = Tail(recebido)
  BY DEF Ler, L!LerSemEntregar, L!LerCabecalho, L!LerExtensao, L!LerControle, L!LerForaDeOrdem,
         L!LerFragmento, L!LerErro, L!LerMensagem, L!Chegou, L!Falhar, L!Consumir
<1>2. UNCHANGED <<enviado, mao, conversa, copia>>
  BY DEF Ler, ponte
<1>3. PICK m, g : Notas(Fluxo, g, m) /\ Situacao(g, m)
  BY <1>1 DEF FluxoInv
<1>4. PICK f, h, a : f = Fluxo /\ h = Fluxo' /\ a = g[1]
  OBVIOUS
<1>5. /\ Len(f) \in Nat /\ Len(f) >= 1 /\ Len(h) = Len(f) - 1
      /\ f[1] = Head(recebido)
      /\ \A k \in 1..Len(h) : h[k] = f[k + 1]
  BY <1>1, <1>2, <1>4, FluxoAoLer
<1>6. m \in Nat /\ m > 0
  BY <1>3, <1>4, <1>5 DEF Notas
<1>7. a \in Nota /\ Trecho(a, Head(recebido)) /\ Lendo(a) /\ a.fila = emTransito
  BY <1>3, <1>4, <1>5, <1>6 DEF Notas, Situacao
<1>8. Passou(a) /\ (NadaEntregue \/ Entregou)
  <2>1. a.parte \in {"cabecalho", "extensao", "corpo"}
    BY <1>7 DEF Nota
  <2> QED BY <1>7, <2>1, LidoCabecalho, LidoExtensao, LidoCorpo
<1>9. ~Derradeiro(a)
  BY <1>8 DEF Passou, Derradeiro
<1> DEFINE n == m - 1
           e == [k \in 1..n |-> g[k + 1]]
<1>10. n \in Nat /\ Notas(h, e, n)
  BY <1>3, <1>4, <1>5, <1>6, <1>9, NotasAoLer
<1>11. \A k \in 1..n : e[k] = g[k + 1]
  OBVIOUS
<1>12. Situacao(e, n)'
  <2> HIDE DEF e
  <2>1. ASSUME n > 0 PROVE Lendo(e[1])' /\ e[1].fila = emTransito'
    <3>1. 1 \in 1..m /\ 1 + 1 <= m /\ 1 \in 1..n /\ 1 + 1 = 2
      BY <1>6, <2>1
    <3>2. PICK b, x : b = g[2] /\ x = e[1]
      OBVIOUS
    <3>3. Emenda(a, b)
      BY <1>3, <1>4, <3>1, <3>2 DEF Notas
    <3>4. x = b
      BY <1>11, <3>1, <3>2
    <3>5. b.parte = leitura' /\ b.antes = montagem' /\ b.fila = emTransito'
      BY <1>8, <3>3 DEF Passou, Emenda
    <3>6. EmLeitura(quadro', b.q, b.parte)
      <4>1. CASE a.parte = "corpo"
        BY <3>3, <4>1 DEF Emenda, Seguinte, EmLeitura
      <4>2. CASE a.parte # "corpo"
        BY <1>8, <3>3, <3>5, <4>2 DEF Emenda, Passou
      <4> QED BY <4>1, <4>2
    <3> QED BY <3>2, <3>4, <3>5, <3>6 DEF Lendo
  <2>2. ASSUME ~Cortado' PROVE Final(e, n)'
    <3>1. Final(g, m)
      BY <1>2, <1>3, <2>2 DEF Situacao, Cortado
    <3>2. CASE n = 0
      <4>1. m = 1
        BY <1>6, <3>2
      <4>2. a.parte = "corpo" /\ Prossegue(a)
        BY <1>4, <1>8, <3>1, <4>1 DEF Final, Passou
      <4>3. conversa.correta /\ Resta(a) = conversa.parcial /\ Sobra(a) = <<>>
        BY <1>4, <3>1, <4>1, <4>2 DEF Final
      <4>4. /\ conversa'.correta /\ leitura' = "cabecalho" /\ montagem' = conversa'.parcial
            /\ emTransito' = <<>>
        BY <1>2, <1>8, <4>2, <4>3 DEF Passou, Seguinte
      <4> QED BY <3>2, <4>4 DEF Final
    <3>3. CASE n # 0
      <4>1. n \in 1..n /\ n + 1 = m /\ n > 0 /\ m > 0
        BY <1>6, <1>10, <3>3
      <4>2. PICK z, k : z = g[m] /\ k = n
        OBVIOUS
      <4>3. e[k] = z /\ k > 0 /\ k # 0
        BY <1>11, <3>3, <4>1, <4>2
      <4>4. /\ z.parte = "corpo"
            /\ conversa.correta => Prossegue(z) /\ Resta(z) = conversa.parcial /\ Sobra(z) = <<>>
            /\ ~conversa.correta => ~Prossegue(z)
        BY <3>1, <4>1, <4>2 DEF Final
      <4>5. Final(e, k)'
        BY <1>2, <4>3, <4>4 DEF Final
      <4> QED BY <4>2, <4>5
    <3> QED BY <3>2, <3>3
  <2> QED BY <2>1, <2>2 DEF Situacao
<1> HIDE DEF e, n
<1>13. \E k, j : Notas(Fluxo', j, k) /\ Situacao(j, k)'
  BY <1>4, <1>10, <1>12
<1> QED BY <1>8, <1>13 DEF FluxoInv

LEMMA FluxoNoInicio ==
  ASSUME Init
  PROVE TiposDeFora /\ MontagemInv /\ FluxoInv
<1>1. TiposDeFora
  BY DEF Init, TiposDeFora
<1>2. MontagemInv
  <2>1. montagem = <<>> /\ entregue = <<>> /\ ~montando /\ montando \in BOOLEAN
    BY DEF Init
  <2>2. L!Soma(montagem) <= tamanhoMaximoMensagem /\ L!Soma(entregue) <= tamanhoMaximoMensagem
    BY <2>1, SomaVazia, CaminhoAssumption
  <2> QED BY <2>1, <2>2 DEF MontagemInv, MontagemLimitada, L!MontagemLimitada
<1>3. PICK f, g : f = Fluxo /\ g = [k \in 1..0 |-> f[k]]
  OBVIOUS
<1>4. f = <<>>
  BY <1>3 DEF Fluxo, Init, P!Init
<1>5. Notas(f, g, 0)
  BY <1>3, <1>4 DEF Notas
<1>6. Situacao(g, 0)
  BY DEF Init, Situacao, Final
<1> QED BY <1>1, <1>2, <1>3, <1>5, <1>6 DEF FluxoInv

\* What the bridge passes on it passes on whole and in order.
LEMMA FluxoNaPassagem ==
  ASSUME TiposDosBytes, TiposDosBytes', FluxoInv, leitura # "fim",
         Inteiro \/ Corte, UNCHANGED <<leitor, externo>>
  PROVE FluxoInv'
<1>1. PICK m, g : Notas(Fluxo, g, m) /\ Situacao(g, m)
  BY DEF FluxoInv
<1>2. PICK f, h : f = Fluxo /\ h = Fluxo'
  OBVIOUS
<1>3. UNCHANGED <<leitura, quadro, montagem, conversa, emTransito>>
  BY DEF leitor, externo
<1>4. CASE Inteiro
  <2>1. Notas(Fluxo', g, m)
    BY <1>1, <1>4 DEF Inteiro
  <2>2. Situacao(g, m)'
    BY <1>1, <1>3, <1>4 DEF Inteiro, Situacao, Final, Lendo
  <2> QED BY <2>1, <2>2 DEF FluxoInv
<1>5. CASE Corte
  <2>1. Len(h) \in Nat /\ Len(h) <= Len(f) /\ \A k \in 1..Len(h) : h[k] = f[k]
    <3>1. PICK r, b, d : r = recebido' /\ b = mao' /\ d = enviado'
      OBVIOUS
    <3>2. r \in Seq(Unidade) /\ b \in Seq(Unidade) /\ d \in Seq(Unidade)
      BY <3>1 DEF TiposDosBytes
    <3>3. r \o (b \o d) \in Seq(Unidade)
      BY <3>2, ConcatProperties
    <3>4. Len(Fluxo') \in Nat
      BY <3>1, <3>3 DEF Fluxo
    <3> QED BY <1>2, <1>5, <3>4 DEF Corte
  <2>2. Notas(f, g, m)
    BY <1>1, <1>2
  <2>3. PICK n \in 0..m : Notas(h, [k \in 1..n |-> g[k]], n)
    BY ONLY <2>1, <2>2, NotasAoCortar
  <2>4. PICK e : e = [k \in 1..n |-> g[k]]
    OBVIOUS
  <2>5. m \in Nat /\ (n > 0 => m > 0)
    BY <2>2, <2>3 DEF Notas
  <2>6. n > 0 => e[1] = g[1]
    BY <2>3, <2>4
  <2>7. n > 0 => Lendo(e[1])' /\ e[1].fila = emTransito'
    BY <1>1, <1>3, <2>5, <2>6 DEF Situacao, Lendo
  <2>8. Situacao(e, n)'
    BY <1>5, <2>7 DEF Corte, Situacao
  <2> QED BY <1>2, <2>3, <2>4, <2>8 DEF FluxoInv
<1> QED BY <1>4, <1>5

\* The length of the frame being read is a number within the limit.
LEMMA QuadroLido ==
  ASSUME TiposDosBytes, FluxoInv, leitura = "corpo", recebido # <<>>
  PROVE quadro.tam \in Nat /\ quadro.tam <= tamanhoMaximoMensagem
<1>1. PICK m, g : Notas(Fluxo, g, m) /\ Situacao(g, m)
  BY DEF FluxoInv
<1>2. Len(Fluxo) \in Nat /\ Len(Fluxo) > 0
  <2>1. Len(recebido) > 0 /\ Len(recebido) \in Nat /\ Len(mao \o enviado) \in Nat
    BY FluxoTipado DEF TiposDosBytes
  <2> QED BY <2>1, FluxoTipado
<1>3. m \in Nat /\ m > 0
  BY <1>1, <1>2 DEF Notas
<1>4. PICK a : a = g[1]
  OBVIOUS
<1>5. a \in Nota /\ Lendo(a)
  BY <1>1, <1>3, <1>4 DEF Notas, Situacao
<1>6. a.q.tam \in Nat
  BY <1>5, CaminhoAssumption DEF Nota
<1> QED BY <1>5, <1>6 DEF Lendo, EmLeitura

\* A read that fails hands nothing over and leaves the assembly as it was.
LEMMA LeituraNoFim ==
  ASSUME Ler \/ InterromperLeitura, leitura' = "fim"
  PROVE entregue' = <<>> /\ UNCHANGED <<montagem, montando, conversa, emTransito>>
<1>1. CASE Ler
  <2>1. ~L!LerMensagem
    BY DEF L!LerMensagem, L!Proximo
  <2>2. L!LerSemEntregar /\ UNCHANGED <<conversa, emTransito>>
    BY <1>1, <2>1 DEF Ler
  <2>3. L!Falhar
    BY <2>2 DEF L!LerSemEntregar, L!LerCabecalho, L!LerExtensao, L!LerControle, L!LerForaDeOrdem,
                L!LerFragmento, L!LerErro, L!AceitarTamanho, L!Proximo
  <2> QED BY <2>2, <2>3 DEF L!Falhar, L!fragmentos
<1>2. CASE InterromperLeitura
  BY <1>2 DEF InterromperLeitura, L!Interromper, L!Falhar, L!fragmentos, externo
<1> QED BY <1>1, <1>2

LEMMA MontagemAoFalhar ==
  ASSUME MontagemInv, entregue' = <<>>, UNCHANGED <<montagem, montando>>
  PROVE MontagemInv'
<1>1. montagem' \in Seq(Nat) /\ entregue' \in Seq(Nat) /\ montando' \in BOOLEAN
  BY DEF MontagemInv
<1>2. L!Soma(entregue') = 0 /\ 0 <= tamanhoMaximoMensagem
  BY SomaVazia, CaminhoAssumption
<1>3. L!Soma(montagem') <= tamanhoMaximoMensagem /\ (montando' <=> montagem' # <<>>)
  BY DEF MontagemInv, MontagemLimitada, L!MontagemLimitada
<1> QED BY <1>1, <1>2, <1>3, CaminhoAssumption DEF MontagemInv, MontagemLimitada, L!MontagemLimitada

\* What is assembled with a frame that may come here is within the limit.
LEMMA MontadaNoLimite ==
  ASSUME TiposDosBytes, MontagemInv, FluxoInv, L!Chegou("corpo"),
         quadro.op \notin L!Controle, ~L!ForaDeOrdem
  PROVE /\ L!Montada \in Seq(Nat) /\ L!Montada # <<>>
        /\ L!Soma(L!Montada) <= tamanhoMaximoMensagem
<1>1. PICK t, r : t = quadro.tam /\ r = montagem
  OBVIOUS
<1>2. t \in Nat /\ t <= tamanhoMaximoMensagem
  BY <1>1, QuadroLido DEF L!Chegou
<1>3. r \in Seq(Nat) /\ tamanhoMaximoMensagem \in Nat
  BY <1>1, CaminhoAssumption DEF MontagemInv
<1>4. CASE quadro.op = "texto"
  <2>1. L!Montada = Append(<<>>, t)
    <3>1. Append(<<>>, t) = <<t>>
      OBVIOUS
    <3> QED BY <1>1, <1>4, <3>1 DEF L!Montada
  <2>2. L!Soma(Append(<<>>, t)) = t
    <3>1. <<>> \in Seq(Nat)
      OBVIOUS
    <3>2. L!Soma(Append(<<>>, t)) = L!Soma(<<>>) + t
      BY <1>2, <3>1, SomaMais
    <3> QED BY <1>2, <3>2, SomaVazia
  <2> QED BY <1>2, <2>1, <2>2
<1>5. CASE quadro.op # "texto"
  <2>1. L!Montada = Append(r, t)
    BY <1>1, <1>5 DEF L!Montada
  <2>2. ~(L!Soma(r) + t > tamanhoMaximoMensagem)
    BY <1>1, <1>5 DEF L!ForaDeOrdem, L!PassaDoLimite, L!Dados
  <2>3. L!Soma(Append(r, t)) = L!Soma(r) + t /\ L!Soma(r) \in Nat
    BY <1>2, <1>3, SomaMais, SomaNatural
  <2>4. Append(r, t) \in Seq(Nat) /\ Append(r, t) # <<>>
    BY <1>2, <1>3
  <2> QED BY <1>2, <1>3, <2>1, <2>2, <2>3, <2>4
<1> QED BY <1>4, <1>5

LEMMA MontagemNaLeitura ==
  ASSUME TiposDosBytes, MontagemInv, FluxoInv, Ler
  PROVE MontagemInv'
<1>1. CASE leitura' = "fim"
  BY <1>1, LeituraNoFim, MontagemAoFalhar
<1>2. CASE leitura' # "fim"
  <2>1. CASE L!LerMensagem
    <3>1. /\ L!Montada \in Seq(Nat) /\ L!Soma(L!Montada) <= tamanhoMaximoMensagem
      BY <2>1, MontadaNoLimite DEF L!LerMensagem
    <3>2. entregue' = L!Montada /\ montagem' = <<>> /\ montando' = FALSE
      BY <2>1 DEF L!LerMensagem
    <3>3. L!Soma(montagem') <= tamanhoMaximoMensagem /\ montagem' \in Seq(Nat)
      BY <3>2, SomaVazia, CaminhoAssumption
    <3>4. L!Soma(entregue') <= tamanhoMaximoMensagem /\ entregue' \in Seq(Nat)
      BY <3>1, <3>2
    <3>5. montando' \in BOOLEAN /\ (montando' <=> montagem' # <<>>)
      BY <3>2
    <3> QED BY <3>3, <3>4, <3>5 DEF MontagemInv, MontagemLimitada, L!MontagemLimitada
  <2>2. CASE L!LerFragmento
    <3>1. /\ L!Montada \in Seq(Nat) /\ L!Montada # <<>> /\ L!Soma(L!Montada) <= tamanhoMaximoMensagem
      BY <2>2, MontadaNoLimite DEF L!LerFragmento
    <3>2. montagem' = L!Montada /\ montando' = TRUE /\ entregue' = entregue
      BY <2>2 DEF L!LerFragmento
    <3>3. L!Soma(entregue') <= tamanhoMaximoMensagem /\ entregue' \in Seq(Nat)
      BY <3>2 DEF MontagemInv, MontagemLimitada, L!MontagemLimitada
    <3>4. L!Soma(montagem') <= tamanhoMaximoMensagem /\ montagem' \in Seq(Nat)
      BY <3>1, <3>2
    <3>5. montando' \in BOOLEAN /\ (montando' <=> montagem' # <<>>)
      BY <3>1, <3>2
    <3> QED BY <3>3, <3>4, <3>5 DEF MontagemInv, MontagemLimitada, L!MontagemLimitada
  <2>3. CASE L!LerControle
    <3>1. UNCHANGED <<montagem, montando, entregue>>
      BY <1>2, <2>3 DEF L!LerControle, L!Falhar, L!fragmentos
    <3> QED BY <3>1 DEF MontagemInv, MontagemLimitada, L!MontagemLimitada
  <2>4. CASE L!LerCabecalho \/ L!LerExtensao
    <3>1. entregue' = <<>> /\ UNCHANGED <<montagem, montando>>
      BY <2>4 DEF L!LerCabecalho, L!LerExtensao, L!AceitarTamanho, L!Falhar, L!fragmentos
    <3> QED BY <3>1, MontagemAoFalhar
  <2>5. \/ L!LerMensagem \/ L!LerFragmento \/ L!LerControle \/ L!LerCabecalho \/ L!LerExtensao
    BY <1>2 DEF Ler, L!LerSemEntregar, L!LerForaDeOrdem, L!LerErro, L!Falhar
  <2> QED BY <2>1, <2>2, <2>3, <2>4, <2>5
<1> QED BY <1>1, <1>2

LEMMA TiposAoEnviar ==
  ASSUME TiposDeFora, NEW q \in Quadros, Enviar(q)
  PROVE TiposDeFora'
<1>1. q.tam \in Nat /\ conversa.quadros \in Nat /\ conversa.parcial \in Seq(Nat)
      /\ emTransito \in Seq(Seq(Nat))
  BY CaminhoAssumption DEF TiposDeFora
<1>2. PICK t : t = Append(conversa.parcial, q.tam)
  OBVIOUS
<1>3. t \in Seq(Nat)
  BY <1>1, <1>2
<1>4. PICK n, p, b : conversa' = [quadros |-> n, correta |-> b, parcial |-> p]
                     /\ n = conversa.quadros + 1 /\ b \in BOOLEAN
                     /\ (p = <<>> \/ p = t \/ p = conversa.parcial)
  BY <1>2 DEF Enviar
<1>5. conversa' \in [quadros : Nat, parcial : Seq(Nat), correta : BOOLEAN]
  <2>1. n \in Nat /\ p \in Seq(Nat)
    <3>1. <<>> \in Seq(Nat)
      OBVIOUS
    <3>2. p \in Seq(Nat)
      BY ONLY <1>1, <1>3, <1>4, <3>1
    <3>3. n \in Nat
      BY <1>1, <1>4
    <3> QED BY <3>2, <3>3
  <2> QED BY <1>4, <2>1
<1>6. emTransito' = emTransito \/ emTransito' = Append(emTransito, t)
  BY <1>2 DEF Enviar
<1>7. emTransito' \in Seq(Seq(Nat))
  <2>1. PICK e : e = emTransito
    OBVIOUS
  <2>2. Append(e, t) \in Seq(Seq(Nat))
    BY ONLY <1>1, <1>3, <2>1, AppendProperties
  <2> QED BY <1>1, <1>6, <2>1, <2>2
<1> QED BY <1>5, <1>7 DEF TiposDeFora

-----------------------------------------------------------------------------
(***************************************************************************)
(* The whole way.                                                          *)
(***************************************************************************)
CaminhoInv == ContasInv /\ PonteInv /\ TiposDeFora /\ MontagemInv /\ FluxoInv

LEMMA CaminhoNoInicio == Init => CaminhoInv
BY ContasNoInicio, PonteNoInicio, FluxoNoInicio DEF CaminhoInv

LEMMA CaminhoNoPasso == CaminhoInv /\ [Next]_vars => CaminhoInv'
<1> SUFFICES ASSUME CaminhoInv, [Next]_vars PROVE CaminhoInv'
  OBVIOUS
<1>1. ContasInv /\ PonteInv /\ TiposDeFora /\ MontagemInv /\ FluxoInv
  BY DEF CaminhoInv
<1>2. ContasInv' /\ PonteInv'
  BY <1>1, ContasNoPasso, PonteNoPasso
<1> SUFFICES TiposDeFora' /\ MontagemInv' /\ FluxoInv'
  BY <1>2 DEF CaminhoInv
<1>3. TiposDosBytes /\ TiposDosBytes'
  BY <1>1, <1>2 DEF PonteInv
<1>4. ASSUME UNCHANGED <<leitor, externo>>
      PROVE  /\ TiposDeFora' /\ MontagemInv'
             /\ UNCHANGED leitura
  BY <1>1, <1>4 DEF leitor, externo, TiposDeFora, MontagemInv, MontagemLimitada, L!MontagemLimitada
<1>5. ASSUME NEW c \in Ligacao, PassoDaPonte(c) \/ PassoDaCopia(c) \/ Ambiente(c)
      PROVE  TiposDeFora' /\ MontagemInv' /\ FluxoInv'
  <2>1. UNCHANGED <<leitor, externo>>
    BY <1>5 DEF PassoDaPonte, PassoDaCopia, Ambiente
  <2>2. TiposDeFora' /\ MontagemInv' /\ UNCHANGED leitura
    BY <1>4, <2>1
  <2>3. CASE leitura = "fim"
    BY <2>2, <2>3 DEF FluxoInv
  <2>4. CASE leitura # "fim"
    <3>1. Inteiro \/ Corte
      BY <1>1, <1>5, <2>4, FluxoNaPonte
    <3> QED BY <1>1, <1>3, <2>1, <2>2, <2>4, <3>1, FluxoNaPassagem
  <2> QED BY <2>2, <2>3, <2>4
<1>6. ASSUME NEW q \in Quadros, Enviar(q)
      PROVE  TiposDeFora' /\ MontagemInv' /\ FluxoInv'
  <2>1. UNCHANGED <<montagem, entregue, montando>>
    BY <1>6 DEF Enviar, leitor
  <2>2. MontagemInv'
    BY <1>1, <2>1 DEF MontagemInv, MontagemLimitada, L!MontagemLimitada
  <2> QED BY <1>1, <1>3, <1>6, <2>2, FluxoNoEnvio, TiposAoEnviar
<1>7. CASE Ler
  <2>1. MontagemInv'
    BY <1>1, <1>3, <1>7, MontagemNaLeitura
  <2>2. CASE leitura' = "fim"
    <3>1. UNCHANGED <<conversa, emTransito>>
      BY <1>7, <2>2, LeituraNoFim
    <3>2. TiposDeFora'
      BY <1>1, <3>1 DEF TiposDeFora
    <3> QED BY <2>1, <2>2, <3>2 DEF FluxoInv
  <2>3. CASE leitura' # "fim"
    <3>1. FluxoInv' /\ (NadaEntregue \/ Entregou)
      BY <1>1, <1>3, <1>7, <2>3, FluxoNaLeitura
    <3>2. conversa' = conversa
      BY <1>7 DEF Ler
    <3>3. PICK e : e = emTransito
      OBVIOUS
    <3>4. e \in Seq(Seq(Nat)) /\ (e # <<>> => Tail(e) \in Seq(Seq(Nat)))
      <4>1. e \in Seq(Seq(Nat))
        BY <1>1, <3>3 DEF TiposDeFora
      <4> QED BY ONLY <4>1, HeadTailProperties
    <3>5. emTransito' \in Seq(Seq(Nat))
      BY <3>1, <3>3, <3>4 DEF NadaEntregue, Entregou
    <3>6. TiposDeFora'
      BY <1>1, <3>2, <3>5 DEF TiposDeFora
    <3> QED BY <2>1, <3>1, <3>6
  <2> QED BY <2>2, <2>3
<1>8. CASE InterromperLeitura
  <2>1. leitura' = "fim"
    BY <1>8 DEF InterromperLeitura, L!Interromper, L!Falhar
  <2>2. entregue' = <<>> /\ UNCHANGED <<montagem, montando, conversa, emTransito>>
    BY <1>8, <2>1, LeituraNoFim
  <2> QED BY <1>1, <2>1, <2>2, MontagemAoFalhar DEF FluxoInv, TiposDeFora
<1>9. CASE ServidorDesiste
  <2>1. UNCHANGED <<leitor, externo>> /\ leitura = "fim"
    BY <1>9 DEF ServidorDesiste
  <2> QED BY <1>4, <2>1 DEF FluxoInv
<1>10. CASE UNCHANGED vars
  <2>1. UNCHANGED <<leitor, externo>>
    BY <1>10 DEF vars
  <2>2. TiposDeFora' /\ MontagemInv' /\ UNCHANGED leitura
    BY <1>4, <2>1
  <2>3. Inteiro
    BY <1>10 DEF vars, Inteiro, Fluxo, Cortado, ponte
  <2> QED BY <1>1, <1>3, <2>1, <2>2, <2>3, FluxoNaPassagem DEF FluxoInv
<1> QED BY <1>5, <1>6, <1>7, <1>8, <1>9, <1>10 DEF Next

LEMMA CaminhoSempre == Spec => []CaminhoInv
BY CaminhoNoInicio, CaminhoNoPasso, PTL DEF Spec

\* What is inductive of the sockets: at which stages of atender each of them is open, and
\* that a connection whose goroutines started is past the stages before, and has closed
\* what the stage it is at says is closed.
SocketsInv ==
  /\ aqui \in [Ligacao -> {"nenhum", "aberto", "fechado"}]
  /\ \A c \in Ligacao :
       /\ aqui[c] = "aberto" <=> etapa[c] \in {"pedir", "esvaziar", "copiar", "fecharAqui"}
       /\ la[c] = "aberto" <=> etapa[c] \in {"sequestrar", "pedir", "esvaziar", "copiar",
                                             "fecharAqui", "fecharLa"}
       /\ \A l \in P!Lado : copia[c][l] # "nada" =>
            /\ etapa[c] \in {"copiar", "fecharAqui", "fecharLa", "devolver", "fim"}
            /\ etapa[c] \in {"fecharLa", "devolver", "fim"} => aqui[c] = "fechado"
            /\ etapa[c] \in {"devolver", "fim"} => la[c] = "fechado"

LEMMA SocketsNoInicio == Init => SocketsInv
BY DEF Init, P!Init, SocketsInv, P!Lado

\* A step that opens, closes and starts nothing, and does not move the handler.
LEMMA SocketsNoMesmo ==
  ASSUME SocketsInv, UNCHANGED <<aqui, la, etapa>>,
         \A c \in Ligacao : \A l \in P!Lado : copia'[c][l] # "nada" => copia[c][l] # "nada"
  PROVE  SocketsInv'
BY DEF SocketsInv

LEMMA SocketsNoPasso ==
  ASSUME CaminhoInv, SocketsInv, [Next]_vars
  PROVE  SocketsInv'
<1>a. etapa \in [Ligacao -> Etapa] /\ TiposDosBytes /\ Observada \in Ligacao
  BY CaminhoAssumption DEF CaminhoInv, ContasInv, PonteInv
<1> USE DEF P!contas, P!sockets, P!bytes, ponte
<1>1. ASSUME NEW c \in Ligacao, PassoDaPonte(c) PROVE SocketsInv'
  <2>1. CASE P!Discar(c)
    BY <1>a, <2>1 DEF P!Discar, P!Ir, SocketsInv, TiposDosBytes, Etapa
  <2>2. CASE P!FalharDiscagem(c)
    BY <1>a, <2>2 DEF P!FalharDiscagem, P!Ir, SocketsInv, Etapa
  <2>3. CASE P!Sequestrar(c)
    BY <1>a, <2>3 DEF P!Sequestrar, P!Ir, SocketsInv, Etapa
  <2>4. CASE P!FalharSequestro(c)
    BY <1>a, <2>4 DEF P!FalharSequestro, P!Ir, SocketsInv, Etapa
  <2>5. CASE P!EscreverPedido(c)
    BY <1>a, <2>5 DEF P!EscreverPedido, P!Ir, SocketsInv, Etapa
  <2>6. CASE P!PassarBuffer(c)
    <3>1. /\ UNCHANGED <<aqui, la>>
          /\ etapa[c] = "esvaziar"
          /\ etapa' = [etapa EXCEPT ![c] = "copiar"] \/ etapa' = [etapa EXCEPT ![c] = "fecharAqui"]
          /\ \A d \in Ligacao \ {c} : copia'[d] = copia[d]
      BY <1>a, <2>6 DEF P!PassarBuffer, P!Ir, TiposDosBytes
    <3> QED BY <1>a, <3>1 DEF SocketsInv
  <2>7. CASE P!TerminarCopia(c)
    BY <1>a, <2>7 DEF P!TerminarCopia, P!Ir, SocketsInv, Etapa
  <2>8. CASE P!FecharAqui(c)
    BY <1>a, <2>8 DEF P!FecharAqui, P!Ir, SocketsInv, Etapa
  <2>9. CASE P!FecharLa(c)
    BY <1>a, <2>9 DEF P!FecharLa, P!Ir, SocketsInv, TiposDosBytes, Etapa
  <2>10. CASE P!Devolver(c)
    BY <1>a, <2>10 DEF P!Devolver, P!Ir, SocketsInv, Etapa
  <2> QED BY <1>1, <2>1, <2>2, <2>3, <2>4, <2>5, <2>6, <2>7, <2>8, <2>9, <2>10 DEF PassoDaPonte, P!Atender
\* Only a goroutine that was started reads, writes or ends.
<1>2. ASSUME NEW c \in Ligacao, NEW l \in P!Lado, NEW v,
             copia[c][l] # "nada", copia' = [copia EXCEPT ![c][l] = v], UNCHANGED <<aqui, la, etapa>>
      PROVE  SocketsInv'
  <2>1. \A d \in Ligacao : \A m \in P!Lado : copia'[d][m] # "nada" => copia[d][m] # "nada"
    BY <1>a, <1>2 DEF TiposDosBytes
  <2> QED BY <1>2, <2>1, SocketsNoMesmo
<1>3. ASSUME NEW c \in Ligacao, PassoDaCopia(c) PROVE SocketsInv'
  <2>1. PICK l \in P!Lado, v \in Copia : copia[c][l] # "nada" /\ copia' = [copia EXCEPT ![c][l] = v]
    BY <1>3 DEF PassoDaCopia, P!Copiar, P!LerOrigem, P!EscreverDestino, P!AcabarCopia, P!Lado, Copia
  <2>2. UNCHANGED <<aqui, la, etapa>>
    BY <1>3 DEF PassoDaCopia, P!Copiar, P!LerOrigem, P!EscreverDestino, P!AcabarCopia
  <2> QED BY <1>2, <2>1, <2>2
<1>4. ASSUME NEW c \in Ligacao, Ambiente(c) PROVE SocketsInv'
  <2>1. CASE P!Recusar(c) \/ \E i \in Endereco : P!RecusarExcesso(c, i)
    BY <1>a, <2>1 DEF P!Recusar, P!RecusarExcesso, P!Ir, SocketsInv, Etapa
  <2>2. CASE \E i \in Endereco : P!Reservar(c, i)
    BY <1>a, <2>2 DEF P!Reservar, P!Ir, SocketsInv, Etapa
  <2>3. CASE P!ClienteFecha(c) \/ P!ServidorFecha(c)
    BY <2>3, SocketsNoMesmo DEF P!ClienteFecha, P!ServidorFecha
  <2>4. CASE \E l \in P!Lado : P!InterromperCopia(c, l)
    BY <2>4, <1>2 DEF P!InterromperCopia
  <2> QED BY <1>4, <2>1, <2>2, <2>3, <2>4 DEF Ambiente
<1>5. CASE (\E q \in Quadros : Enviar(q)) \/ Ler \/ InterromperLeitura \/ ServidorDesiste \/ UNCHANGED vars
  <2>1. UNCHANGED <<aqui, la, etapa, copia>>
    BY <1>5 DEF Enviar, Ler, InterromperLeitura, ServidorDesiste, P!ServidorFecha, vars
  <2> QED BY <2>1, SocketsNoMesmo
<1> QED BY <1>1, <1>3, <1>4, <1>5 DEF Next

\* The limits of the bridge bound its sockets and what can wait on them: none is open
\* without a place, on whatever way a handler goes out, and no goroutine of copiar is left
\* waiting when the place is given back (atender and its deferred calls, copiar).
THEOREM SocketsSempreContados == Spec => []SocketsContados
<1>1. CaminhoInv /\ SocketsInv => SocketsContados
  <2> SUFFICES ASSUME CaminhoInv, SocketsInv, NEW c \in Ligacao
               PROVE  /\ aqui[c] = "aberto" \/ la[c] = "aberto" =>
                           etapa[c] \notin {"nova", "devolver", "fim"}
                      /\ (\E l \in P!Lado : copia[c][l] \in {"lendo", "escrevendo"}) =>
                           \/ etapa[c] \in {"copiar", "fecharAqui", "fecharLa"}
                           \/ aqui[c] = "fechado" /\ la[c] = "fechado"
    BY DEF SocketsContados, P!SocketsContados
  <2> QED BY DEF SocketsInv
<1> QED BY <1>1, SocketsNoInicio, SocketsNoPasso, CaminhoSempre, PTL DEF Spec

\* No message takes more memory than the limit, while it is assembled or when the handler
\* has it, whatever the client sends and however the bridge cuts it (Ler, websocket.go).
THEOREM MontagemSempreLimitada == Spec => []MontagemLimitada
<1>1. CaminhoInv => MontagemLimitada
  BY DEF CaminhoInv, MontagemInv
<1> QED BY <1>1, CaminhoSempre, PTL

\* What each step is for the client and the handler.
LEMMA PassoDasMensagens ==
  ASSUME CaminhoInv, [Next]_vars
  PROVE [M!Next]_M!vars
<1>a. TiposDosBytes /\ TiposDeFora /\ MontagemInv /\ FluxoInv
  BY DEF CaminhoInv, PonteInv
<1> USE DEF M!vars
<1>1. ASSUME UNCHANGED <<leitor, externo>> PROVE UNCHANGED M!vars
  BY <1>1 DEF leitor, externo
<1>2. ASSUME NEW c \in Ligacao, PassoDaPonte(c) \/ PassoDaCopia(c) \/ Ambiente(c)
      PROVE  UNCHANGED M!vars
  BY <1>1, <1>2 DEF PassoDaPonte, PassoDaCopia, Ambiente
<1>3. ASSUME NEW q \in Quadros, Enviar(q) PROVE M!Completar \/ UNCHANGED M!vars
  <2>1. UNCHANGED <<entregue, leitura>>
    BY <1>3 DEF Enviar, leitor
  <2>2. PICK e, t : e = emTransito /\ t = Append(conversa.parcial, q.tam)
    OBVIOUS
  <2>3. e \in Seq(Seq(Nat)) /\ t \in Seq(Nat)
    BY <1>a, <2>2, CaminhoAssumption DEF TiposDeFora
  <2>4. emTransito' = emTransito \/ emTransito' = Append(e, t)
    BY <1>3, <2>2 DEF Enviar
  <2>5. Append(e, t) # <<>> /\ e = SubSeq(Append(e, t), 1, Len(Append(e, t)) - 1)
    <3>1. /\ Append(e, t) \in Seq(Seq(Nat)) /\ Append(e, t) # <<>>
          /\ Len(Append(e, t)) = Len(e) + 1 /\ Len(e) \in Nat
          /\ \A i \in 1..Len(e) : Append(e, t)[i] = e[i]
      BY ONLY <2>3, AppendProperties
    <3>2. PICK a : a = Append(e, t)
      OBVIOUS
    <3>3. Len(a) - 1 = Len(e) /\ \A i \in 1..Len(e) : e[i] = a[i]
      BY <3>1, <3>2
    <3>4. PICK b : b = SubSeq(a, 1, Len(e))
      OBVIOUS
    <3>5. b \in Seq(Seq(Nat)) /\ Len(b) = Len(e) /\ \A i \in 1..Len(e) : b[i] = a[i]
      BY ONLY <2>3, <3>1, <3>2, <3>4
    <3>6. b = e
      BY ONLY <2>3, <3>3, <3>5, SeqEqual, SMTT(30)
    <3> QED BY <3>1, <3>2, <3>3, <3>4, <3>6
  <2>6. CASE emTransito' = Append(e, t)
    BY <2>1, <2>2, <2>5, <2>6, Zenon DEF M!Completar, M!Front
  <2> QED BY <2>1, <2>4, <2>6
<1>4. CASE (Ler \/ InterromperLeitura) /\ leitura' = "fim"
  BY <1>4, LeituraNoFim DEF M!Next, M!Encerrar
<1>5. CASE Ler /\ leitura' # "fim"
  <2>1. NadaEntregue \/ Entregou
    BY <1>a, <1>5, FluxoNaLeitura
  <2>2. leitura # "fim"
    BY <1>5 DEF Ler, L!LerSemEntregar, L!LerCabecalho, L!LerExtensao, L!LerControle, L!LerForaDeOrdem,
                L!LerFragmento, L!LerErro, L!LerMensagem, L!Chegou
  <2>3. (leitura = "fim")' = (leitura = "fim")
    BY <1>5, <2>2
  <2>4. CASE NadaEntregue
    BY <2>3, <2>4 DEF NadaEntregue, M!Next, M!Tratada
  <2>5. CASE Entregou
    BY <2>2, <2>3, <2>5 DEF Entregou, M!Next, M!Entregar
  <2> QED BY <2>1, <2>4, <2>5
<1>6. CASE InterromperLeitura
  <2>1. leitura' = "fim"
    BY <1>6 DEF InterromperLeitura, L!Interromper, L!Falhar
  <2> QED BY <1>4, <1>6, <2>1
<1>7. CASE ServidorDesiste \/ UNCHANGED vars
  BY <1>1, <1>7 DEF ServidorDesiste, vars
<1> QED BY <1>2, <1>3, <1>4, <1>5, <1>6, <1>7 DEF Next, M!Next

\* The messages that the client completed are handed over whole, once, in order and
\* without a gap, until the connection ends, and none is that the client did not complete:
\* lerQuadro and Ler behind the bridge, for frames of any length and any number of
\* messages and connections, implement module Mensagens.
THEOREM MensagensInteiras == Spec => ImplementaMensagens
<1>1. Init => M!Init
  BY DEF Init, M!Init
<1>2. CaminhoInv /\ [Next]_vars => [M!Next]_M!vars
  BY PassoDasMensagens
<1> QED BY <1>1, <1>2, CaminhoSempre, PTL DEF Spec, M!Spec, ImplementaMensagens
=============================================================================
