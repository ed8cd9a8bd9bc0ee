---------------------------- MODULE PortaoProofs ----------------------------
(***************************************************************************)
(* For any number of rooms, visits and offers (module Portao): `joined`    *)
(* precedes what the media relay says (PortaoInv), no message is lost,     *)
(* doubled or left behind in the gate, and the offers of a session arrive  *)
(* in order (LugarInv).                                                    *)
(***************************************************************************)
EXTENDS Portao, TLAPS

Mensagem == DoSFU \cup DoHub

\* The participant was told of its visit k, and that the relay is on.
Anunciado(k) == \E j \in DOMAIN fila : fila[j] = Joined(k, TRUE)

Tipos ==
  /\ visita \in 0..MaxVisitas
  /\ fase # "fora" => visita \in Visita
  /\ feitas \in [Visita -> 0..MaxOfertas]
  /\ fase \in {"enviar", "reenviar"} => feitas[visita] > 0
  /\ liberado \in [Visita -> BOOLEAN]
  /\ retidas \in [Visita -> Seq(DoSFU)]
  /\ pendentes \in Seq(DoSFU)
  /\ emissor \in [Emissor -> {Parado} \cup [passo : {"enviar", "entregar"}, msg : DoSFU]]
  /\ fila \in Seq(Mensagem)

\* Why JoinedPrimeiro holds: the gate of a visit opens after its `joined`, so what the
\* reader took out of it, and what a goroutine carries past it, comes later.
PortaoInv ==
  /\ Tipos
  /\ JoinedPrimeiro
  /\ fase = "liberar" => Anunciado(visita)
  /\ \A k \in Visita : liberado[k] => Anunciado(k)
  /\ \A k \in Visita : \A i \in DOMAIN retidas[k] : retidas[k][i].visita = k
  /\ \A i \in DOMAIN pendentes : Anunciado(pendentes[i].visita)
  /\ \A g \in Emissor : emissor[g].passo = "entregar" => Anunciado(emissor[g].msg.visita)

-----------------------------------------------------------------------------
\* A message of the relay belongs to a visit and is none of the hub's.
LEMMA MensagemDoSFU ==
  ASSUME NEW m \in DoSFU
  PROVE m.visita \in Visita /\ m.tipo # "joined"
BY DEF DoSFU

LEMMA Acrescentar ==
  ASSUME NEW S, NEW s \in Seq(S), NEW x \in S
  PROVE /\ Append(s, x) \in Seq(S)
        /\ Len(s) \in Nat /\ DOMAIN s = 1..Len(s) /\ DOMAIN Append(s, x) = 1..(Len(s) + 1)
        /\ \A j \in 1..Len(s) : Append(s, x)[j] = s[j]
        /\ Append(s, x)[Len(s) + 1] = x
OBVIOUS

\* The queue only grows: who was told stays told.
LEMMA AnunciadoFica ==
  ASSUME fila \in Seq(Mensagem), NEW m \in Mensagem, Enfileirar(m), NEW k, Anunciado(k)
  PROVE Anunciado(k)'
<1>1. PICK j \in DOMAIN fila : fila[j] = Joined(k, TRUE)
  BY DEF Anunciado
<1>2. j \in DOMAIN fila' /\ fila'[j] = fila[j]
  <2>1. fila' = Append(fila, m)
    BY DEF Enfileirar
  <2>2. /\ Len(fila) \in Nat /\ DOMAIN fila = 1..Len(fila) /\ DOMAIN fila' = 1..(Len(fila) + 1)
        /\ \A l \in 1..Len(fila) : fila'[l] = fila[l]
    BY <2>1, Acrescentar
  <2>3. j \in 1..Len(fila)
    BY <1>1, <2>2
  <2> QED BY <2>2, <2>3
<1> QED BY <1>1, <1>2 DEF Anunciado, Joined

\* A message enters the queue after its `joined`.
LEMMA OrdemFica ==
  ASSUME fila \in Seq(Mensagem), JoinedPrimeiro, NEW m \in Mensagem, Enfileirar(m),
         m.tipo # "joined" => Anunciado(m.visita)
  PROVE JoinedPrimeiro' /\ fila' \in Seq(Mensagem)
<1>1. /\ fila' \in Seq(Mensagem)
      /\ Len(fila) \in Nat /\ DOMAIN fila = 1..Len(fila) /\ DOMAIN fila' = 1..(Len(fila) + 1)
      /\ \A j \in 1..Len(fila) : fila'[j] = fila[j]
      /\ fila'[Len(fila) + 1] = m
  BY Acrescentar DEF Enfileirar
<1>2. ASSUME NEW i \in DOMAIN fila', fila'[i].tipo # "joined"
      PROVE \E j \in 1..(i - 1) : fila'[j] = Joined(fila'[i].visita, TRUE)
  <2>1. CASE i \in DOMAIN fila
    <3>1. fila'[i] = fila[i] /\ i \in 1..Len(fila)
      BY <1>1, <2>1
    <3>2. PICK j \in 1..(i - 1) : fila[j] = Joined(fila[i].visita, TRUE)
      BY <1>2, <2>1, <3>1 DEF JoinedPrimeiro
    <3>3. j \in 1..Len(fila)
      BY <1>1, <3>1, <3>2
    <3>4. fila'[j] = fila[j]
      BY <1>1, <3>3
    <3> QED BY <3>1, <3>2, <3>4
  <2>2. CASE i = Len(fila) + 1
    <3>1. fila'[i] = m
      BY <1>1, <2>2
    <3>2. PICK j \in DOMAIN fila : fila[j] = Joined(m.visita, TRUE)
      BY <1>2, <3>1 DEF Anunciado
    <3>3. j \in 1..Len(fila) /\ j \in 1..(i - 1)
      BY <1>1, <2>2, <3>2
    <3>4. fila'[j] = fila[j]
      BY <1>1, <3>3
    <3> QED BY <3>1, <3>2, <3>3, <3>4
  <2>3. i \in DOMAIN fila \/ i = Len(fila) + 1
    BY <1>1
  <2> QED BY <2>1, <2>2, <2>3
<1> QED BY <1>1, <1>2 DEF JoinedPrimeiro

\* Steps that touch neither the queue nor what waits to enter it.
LEMMA ForaDoPortao ==
  ASSUME PortaoInv, UNCHANGED <<liberado, retidas, pendentes, emissor, fila>>,
         Tipos', fase' # "liberar"
  PROVE PortaoInv'
BY DEF PortaoInv, JoinedPrimeiro, Anunciado

LEMMA SemPassarPeloPortao ==
  ASSUME PortaoInv,
         UNCHANGED <<visita, feitas, liberado, retidas, pendentes, emissor, fila>>,
         fase # "fora" \/ fase' = "fora", fase' \notin {"enviar", "reenviar", "liberar"}
  PROVE PortaoInv'
<1>1. Tipos'
  BY DEF PortaoInv, Tipos
<1> QED BY <1>1, ForaDoPortao

LEMMA InvNoInicio == Init => PortaoInv
<1> SUFFICES ASSUME Init PROVE PortaoInv
  OBVIOUS
<1>1. Tipos
  BY PortaoAssumption DEF Init, Tipos, Visita, Emissor
<1>2. \A g \in Emissor : emissor[g].passo # "entregar"
  BY DEF Init, Parado
<1> QED BY <1>1, <1>2 DEF Init, PortaoInv, JoinedPrimeiro

LEMMA InvNoLeitor ==
  ASSUME PortaoInv, Leitor \/ Entrar \/ Sair \/ Responder \/ ResponderPing
  PROVE PortaoInv'
<1> USE PortaoAssumption DEF Visita
<1>1. CASE Entrar
  <2>1. /\ UNCHANGED <<feitas, liberado, retidas, pendentes, emissor, fila>>
        /\ fase' = "abrir" /\ visita' = visita + 1 /\ visita < MaxVisitas
    BY <1>1 DEF Entrar, sessoes, portao
  <2>2. visita' \in 0..MaxVisitas /\ visita' \in Visita
    BY <2>1 DEF PortaoInv, Tipos
  <2>3. Tipos'
    BY <2>1, <2>2 DEF PortaoInv, Tipos
  <2> QED BY <2>1, <2>3, ForaDoPortao
<1>2. CASE Registrar
  <2>1. /\ UNCHANGED <<visita, feitas, liberado, retidas, pendentes, emissor, fila>>
        /\ fase # "fora" /\ fase' \notin {"enviar", "reenviar", "liberar"}
    BY <1>2 DEF Registrar, sessoes, portao
  <2> QED BY <2>1, SemPassarPeloPortao
<1>3. CASE NaoAbrir
  <2>1. /\ UNCHANGED <<visita, feitas, liberado, retidas, pendentes, emissor, fila>>
        /\ fase # "fora" /\ fase' \notin {"enviar", "reenviar", "liberar"}
    BY <1>3 DEF NaoAbrir, sessoes, portao
  <2> QED BY <2>1, SemPassarPeloPortao
<1>4. CASE Oferecer
  <2>1. visita \in Visita /\ feitas[visita] \in 0..MaxOfertas /\ feitas[visita] < MaxOfertas
    BY <1>4 DEF Oferecer, FazerOferta, PodeOferecer, CabeOferta, Tipos, PortaoInv
  <2>2. feitas' = [feitas EXCEPT ![visita] = @ + 1] /\ fase' \in {"enviar", "reenviar"}
    BY <1>4 DEF Oferecer, FazerOferta
  <2>3. UNCHANGED <<visita, liberado, retidas, pendentes, emissor, fila>>
    BY <1>4 DEF Oferecer, portao
  <2>4. feitas' \in [Visita -> 0..MaxOfertas] /\ feitas'[visita] > 0
    <3>1. feitas \in [Visita -> 0..MaxOfertas]
      BY DEF PortaoInv, Tipos
    <3>2. feitas[visita] + 1 \in 0..MaxOfertas /\ feitas[visita] + 1 > 0
      BY <2>1
    <3>3. feitas'[visita] = feitas[visita] + 1
      BY <2>1, <2>2, <3>1
    <3> QED BY <2>1, <2>2, <3>1, <3>2, <3>3
  <2>5. Tipos'
    BY <2>1, <2>2, <2>3, <2>4 DEF PortaoInv, Tipos
  <2> QED BY <2>2, <2>3, <2>5, ForaDoPortao
<1>5. CASE Adiar
  <2>1. /\ UNCHANGED <<visita, feitas, liberado, retidas, pendentes, emissor, fila>>
        /\ fase # "fora" /\ fase' \notin {"enviar", "reenviar", "liberar"}
    BY <1>5 DEF Adiar, sessoes, portao
  <2> QED BY <2>1, SemPassarPeloPortao
<1>6. CASE FalharOferta
  <2>1. /\ UNCHANGED <<visita, feitas, liberado, retidas, pendentes, emissor, fila>>
        /\ fase # "fora" /\ fase' \notin {"enviar", "reenviar", "liberar"}
    BY <1>6 DEF FalharOferta, sessoes, portao
  <2> QED BY <2>1, SemPassarPeloPortao
<1>7. CASE EnviarOferta
  <2> DEFINE m == Oferta(visita, feitas[visita])
  <2>1. m \in DoSFU /\ m.visita = visita /\ visita \in Visita
    BY <1>7 DEF EnviarOferta, Oferta, DoSFU, PortaoInv, Tipos
  <2>2. /\ fase' \in {"apresentar", "dentro"}
        /\ UNCHANGED <<visita, feitas, liberado, pendentes, emissor>>
    BY <1>7 DEF EnviarOferta, sessoes
  <2>3. CASE ~liberado[visita]
    <3>1. retidas' = [retidas EXCEPT ![visita] = Append(@, m)] /\ UNCHANGED fila
      BY <1>7, <2>3 DEF EnviarOferta, Reter
    <3> HIDE DEF m
    <3>2. retidas' \in [Visita -> Seq(DoSFU)]
      BY <2>1, <3>1 DEF PortaoInv, Tipos
    <3>3. Tipos'
      BY <2>1, <2>2, <3>1, <3>2 DEF PortaoInv, Tipos
    <3>4. \A k \in Visita : \A i \in DOMAIN retidas'[k] : retidas'[k][i].visita = k
      <4>1. retidas \in [Visita -> Seq(DoSFU)]
        BY DEF PortaoInv, Tipos
      <4>2. \A k \in Visita : \A i \in DOMAIN retidas[k] : retidas[k][i].visita = k
        BY DEF PortaoInv
      <4>3. \A k \in Visita : k # visita => retidas'[k] = retidas[k]
        BY <3>1, <4>1
      <4>4. retidas'[visita] = Append(retidas[visita], m)
        BY <2>1, <3>1, <4>1
      <4>5. \A i \in DOMAIN retidas'[visita] : retidas'[visita][i].visita = visita
        BY <2>1, <4>1, <4>2, <4>4
      <4> QED BY <4>2, <4>3, <4>5
    <3> QED BY <2>2, <3>1, <3>3, <3>4 DEF PortaoInv, JoinedPrimeiro, Anunciado
  <2>4. CASE liberado[visita]
    <3>1. Enfileirar(m) /\ UNCHANGED retidas
      BY <1>7, <2>4 DEF EnviarOferta
    <3>2. Anunciado(m.visita)
      BY <2>1, <2>4 DEF PortaoInv
    <3> HIDE DEF m
    <3>3. m \in Mensagem
      BY <2>1 DEF Mensagem
    <3>4. JoinedPrimeiro' /\ fila' \in Seq(Mensagem)
      BY <3>1, <3>2, <3>3, OrdemFica DEF PortaoInv, Tipos
    <3>5. \A k : Anunciado(k) => Anunciado(k)'
      BY <3>1, <3>3, AnunciadoFica DEF PortaoInv, Tipos
    <3>6. Tipos'
      BY <2>1, <2>2, <3>1, <3>4 DEF PortaoInv, Tipos
    <3> QED BY <2>2, <3>1, <3>4, <3>5, <3>6 DEF PortaoInv
  <2> QED BY <2>3, <2>4
<1>8. CASE Apresentar
  <2>1. PICK sfu \in BOOLEAN :
          /\ Enfileirar(Joined(visita, sfu))
          /\ fase' = IF sfu THEN "liberar" ELSE "anunciar"
    BY <1>8 DEF Apresentar
  <2> DEFINE m == Joined(visita, sfu)
  <2>2. m \in Mensagem /\ m.tipo = "joined"
    BY <1>8 DEF Apresentar, Joined, Mensagem, DoHub, PortaoInv, Tipos
  <2>3. Enfileirar(m)
    BY <2>1
  <2>4. UNCHANGED <<visita, feitas, liberado, retidas, pendentes, emissor>>
    BY <1>8 DEF Apresentar, sessoes, portao
  <2>5. sfu => Anunciado(visita)'
    <3>1. fila' = Append(fila, m) /\ fila \in Seq(Mensagem)
      BY <2>3 DEF Enfileirar, PortaoInv, Tipos
    <3>2. Len(fila) + 1 \in DOMAIN fila' /\ fila'[Len(fila) + 1] = m
      BY <2>2, <3>1
    <3> QED BY <2>4, <3>2 DEF Anunciado, Joined
  <2> HIDE DEF m
  <2>6. JoinedPrimeiro' /\ fila' \in Seq(Mensagem)
    BY <2>2, <2>3, OrdemFica DEF PortaoInv, Tipos
  <2>7. \A k : Anunciado(k) => Anunciado(k)'
    BY <2>2, <2>3, AnunciadoFica DEF PortaoInv, Tipos
  <2>8. Tipos'
    BY <1>8, <2>1, <2>4, <2>6 DEF Apresentar, PortaoInv, Tipos
  <2> QED BY <2>1, <2>4, <2>5, <2>6, <2>7, <2>8 DEF PortaoInv
<1>9. CASE Liberar
  <2>1. Tipos'
    BY <1>9 DEF Liberar, sessoes, PortaoInv, Tipos
  <2>2. Anunciado(visita) /\ \A k : Anunciado(k)' <=> Anunciado(k)
    BY <1>9 DEF Liberar, PortaoInv, Anunciado
  <2>3. \A i \in DOMAIN pendentes' : pendentes'[i].visita = visita
    BY <1>9 DEF Liberar, PortaoInv, Tipos
  <2>4. \A k \in Visita : \A i \in DOMAIN retidas'[k] : retidas'[k][i].visita = k
    BY <1>9 DEF Liberar, PortaoInv, Tipos
  <2>5. \A k \in Visita : liberado'[k] => Anunciado(k)'
    BY <1>9, <2>2 DEF Liberar, PortaoInv, Tipos
  <2> QED BY <1>9, <2>1, <2>2, <2>3, <2>4, <2>5 DEF Liberar, PortaoInv, JoinedPrimeiro
<1>10. CASE Despejar
  <2>1. CASE pendentes = <<>>
    <3>1. /\ UNCHANGED <<visita, feitas, liberado, retidas, pendentes, emissor, fila>>
          /\ fase # "fora" /\ fase' \notin {"enviar", "reenviar", "liberar"}
      BY <1>10, <2>1 DEF Despejar, sessoes, portao
    <3> QED BY <3>1, SemPassarPeloPortao
  <2>2. CASE pendentes # <<>>
    <3> DEFINE m == Head(pendentes)
    <3>1. m \in DoSFU /\ Anunciado(m.visita)
      BY <2>2 DEF PortaoInv, Tipos
    <3>2. Enfileirar(m) /\ pendentes' = Tail(pendentes)
      BY <1>10, <2>2 DEF Despejar
    <3>3. UNCHANGED <<fase, visita, feitas, liberado, retidas, emissor>> /\ fase = "despejar"
      BY <1>10, <2>2 DEF Despejar, sessoes, portao
    <3> HIDE DEF m
    <3>4. m \in Mensagem
      BY <3>1 DEF Mensagem
    <3>5. JoinedPrimeiro' /\ fila' \in Seq(Mensagem)
      BY <3>1, <3>2, <3>4, OrdemFica DEF PortaoInv, Tipos
    <3>6. \A k : Anunciado(k) => Anunciado(k)'
      BY <3>2, <3>4, AnunciadoFica DEF PortaoInv, Tipos
    <3>7. /\ pendentes' \in Seq(DoSFU)
          /\ \A i \in DOMAIN pendentes' : i + 1 \in DOMAIN pendentes /\ pendentes'[i] = pendentes[i + 1]
      BY <2>2, <3>2 DEF PortaoInv, Tipos
    <3>8. Tipos'
      BY <3>3, <3>5, <3>7 DEF PortaoInv, Tipos
    <3>9. (\A i \in DOMAIN pendentes : Anunciado(pendentes[i].visita))'
      <4> SUFFICES ASSUME NEW i \in DOMAIN pendentes'
                   PROVE \E j \in DOMAIN fila' : fila'[j] = Joined(pendentes'[i].visita, TRUE)
        BY DEF Anunciado
      <4>1. PICK k : k = pendentes'[i].visita
        OBVIOUS
      <4>2. Anunciado(k)
        BY <4>1, <3>7 DEF PortaoInv
      <4> QED BY <4>1, <4>2, <3>6 DEF Anunciado
    <3> QED BY <3>3, <3>5, <3>6, <3>8, <3>9 DEF PortaoInv
  <2> QED BY <2>1, <2>2
<1>11. CASE Anunciar
  <2>1. /\ UNCHANGED <<visita, feitas, liberado, retidas, pendentes, emissor, fila>>
        /\ fase # "fora" /\ fase' \notin {"enviar", "reenviar", "liberar"}
    BY <1>11 DEF Anunciar, sessoes, portao
  <2> QED BY <2>1, SemPassarPeloPortao
<1>12. CASE MarcarPings
  <2>1. /\ UNCHANGED <<visita, feitas, liberado, retidas, pendentes, emissor, fila>>
        /\ fase # "fora" /\ fase' \notin {"enviar", "reenviar", "liberar"}
    BY <1>12 DEF MarcarPings, sessoes, portao
  <2> QED BY <2>1, SemPassarPeloPortao
<1>13. CASE SairDoSFU
  <2>1. /\ UNCHANGED <<visita, feitas, liberado, retidas, pendentes, emissor, fila>>
        /\ fase # "fora" /\ fase' \notin {"enviar", "reenviar", "liberar"}
    BY <1>13 DEF SairDoSFU, sessoes, portao
  <2> QED BY <2>1, SemPassarPeloPortao
<1>14. CASE Despedir
  <2>1. /\ UNCHANGED <<visita, feitas, liberado, retidas, pendentes, emissor, fila>>
        /\ fase # "fora" /\ fase' \notin {"enviar", "reenviar", "liberar"}
    BY <1>14 DEF Despedir, sessoes, portao
  <2> QED BY <2>1, SemPassarPeloPortao
<1>15. CASE Sair
  <2>1. /\ UNCHANGED <<visita, feitas, liberado, retidas, pendentes, emissor, fila>>
        /\ fase # "fora" /\ fase' \notin {"enviar", "reenviar", "liberar"}
    BY <1>15 DEF Sair, sessoes, portao
  <2> QED BY <2>1, SemPassarPeloPortao
<1>16. CASE Responder
  <2>1. /\ UNCHANGED <<visita, feitas, liberado, retidas, pendentes, emissor, fila>>
        /\ fase # "fora" /\ fase' \notin {"enviar", "reenviar", "liberar"}
    BY <1>16 DEF Responder, sessoes, portao
  <2> QED BY <2>1, SemPassarPeloPortao
<1>17. CASE ResponderPing
  <2>1. /\ UNCHANGED <<visita, feitas, liberado, retidas, pendentes, emissor, fila>>
        /\ fase # "fora" \/ fase' = "fora"
        /\ fase' \notin {"enviar", "reenviar", "liberar"}
    BY <1>17 DEF ResponderPing, sessoes, portao
  <2> QED BY <2>1, SemPassarPeloPortao
<1> QED BY <1>1, <1>2, <1>3, <1>4, <1>5, <1>6, <1>7, <1>8, <1>9, <1>10, <1>11, <1>12,
           <1>13, <1>14, <1>15, <1>16, <1>17 DEF Leitor

LEMMA InvNaFaixa ==
  ASSUME PortaoInv, NEW k \in Visita, OferecerFaixa(k)
  PROVE PortaoInv'
<1> DEFINE m == Oferta(k, feitas[k] + 1)
<1>1. /\ feitas[k] \in 0..MaxOfertas /\ feitas[k] < MaxOfertas
      /\ feitas' = [feitas EXCEPT ![k] = @ + 1]
      /\ emissor' = [emissor EXCEPT ![Faixa(k)] = [passo |-> "enviar", msg |-> m]]
      /\ UNCHANGED <<fase, visita, liberado, retidas, pendentes, fila>>
  BY DEF OferecerFaixa, FazerOferta, PodeOferecer, CabeOferta, portao, PortaoInv, Tipos
<1>2. m \in DoSFU
  BY <1>1, PortaoAssumption DEF Oferta, DoSFU
<1> HIDE DEF m
<1>3. Tipos'
  BY <1>1, <1>2, PortaoAssumption DEF PortaoInv, Tipos, Emissor
<1>4. \A g \in Emissor : emissor'[g].passo = "entregar" => emissor'[g] = emissor[g]
  BY <1>1 DEF PortaoInv, Tipos, Emissor
<1> QED BY <1>1, <1>3, <1>4, ZenonT(60) DEF PortaoInv, JoinedPrimeiro, Anunciado

LEMMA InvNoCandidato ==
  ASSUME PortaoInv, NEW k \in Visita, AcharCandidato(k)
  PROVE PortaoInv'
<1> DEFINE m == Candidato(k)
<1>1. /\ emissor' = [emissor EXCEPT ![Ice(k)] = [passo |-> "enviar", msg |-> m]]
      /\ UNCHANGED <<fase, visita, feitas, liberado, retidas, pendentes, fila>>
  BY DEF AcharCandidato, portao, sessoes
<1>2. m \in DoSFU
  BY PortaoAssumption DEF Candidato, DoSFU
<1> HIDE DEF m
<1>3. Tipos'
  BY <1>1, <1>2 DEF PortaoInv, Tipos, Emissor
<1>4. \A g \in Emissor : emissor'[g].passo = "entregar" => emissor'[g] = emissor[g]
  BY <1>1 DEF PortaoInv, Tipos, Emissor
<1> QED BY <1>1, <1>3, <1>4 DEF PortaoInv, JoinedPrimeiro, Anunciado

LEMMA InvAoPassar ==
  ASSUME PortaoInv, NEW g \in Emissor, Passar(g)
  PROVE PortaoInv'
<1> DEFINE m == emissor[g].msg
<1>1. /\ emissor[g] \in [passo : {"enviar", "entregar"}, msg : DoSFU]
      /\ m \in DoSFU /\ m.visita \in Visita
      /\ UNCHANGED <<fase, visita, feitas, liberado, pendentes, fila>>
  <2>1. emissor[g] # Parado
    BY DEF Passar, Parado
  <2>2. m \in DoSFU
    BY <2>1 DEF PortaoInv, Tipos
  <2> QED BY <2>1, <2>2, MensagemDoSFU DEF Passar, PortaoInv, Tipos, sessoes
<1>2. CASE Reter(m.visita, m) /\ emissor' = [emissor EXCEPT ![g] = Parado]
  <2>1. retidas' = [retidas EXCEPT ![m.visita] = Append(@, m)]
    BY <1>2 DEF Reter
  <2>2. Tipos'
    BY <1>1, <1>2, <2>1 DEF PortaoInv, Tipos
  <2>3. \A k \in Visita : \A i \in DOMAIN retidas'[k] : retidas'[k][i].visita = k
    BY <1>1, <2>1 DEF PortaoInv, Tipos
  <2>4. \A e \in Emissor : emissor'[e].passo = "entregar" => emissor'[e] = emissor[e]
    BY <1>2 DEF PortaoInv, Tipos, Parado
  <2>5. \A e \in Emissor : emissor'[e].passo = "entregar" => Anunciado(emissor'[e].msg.visita)
    BY <2>4 DEF PortaoInv
  <2> QED BY <1>1, <2>2, <2>3, <2>5 DEF PortaoInv, JoinedPrimeiro, Anunciado
<1>3. CASE liberado[m.visita] /\ emissor' = [emissor EXCEPT ![g].passo = "entregar"] /\ UNCHANGED retidas
  <2>1. emissor'[g] = [passo |-> "entregar", msg |-> m]
    BY <1>1, <1>3 DEF PortaoInv, Tipos
  <2>2. Tipos'
    BY <1>1, <1>3, <2>1 DEF PortaoInv, Tipos
  <2>3. Anunciado(m.visita)
    BY <1>1, <1>3 DEF PortaoInv
  <2>4. \A e \in Emissor : e # g => emissor'[e] = emissor[e]
    BY <1>3 DEF PortaoInv, Tipos
  <2>5. \A e \in Emissor : emissor'[e].passo = "entregar" => Anunciado(emissor'[e].msg.visita)
    BY <2>1, <2>3, <2>4 DEF PortaoInv
  <2> QED BY <1>1, <1>3, <2>2, <2>5 DEF PortaoInv, JoinedPrimeiro, Anunciado
<1> QED BY <1>2, <1>3 DEF Passar

LEMMA InvAoEntregar ==
  ASSUME PortaoInv, NEW g \in Emissor, Entregar(g)
  PROVE PortaoInv'
<1> DEFINE m == emissor[g].msg
<1>1. emissor[g] # Parado /\ emissor[g].passo = "entregar"
  BY DEF Entregar, Parado
<1>2. m \in DoSFU /\ Anunciado(m.visita)
  BY <1>1 DEF PortaoInv, Tipos
<1>3. /\ Enfileirar(m)
      /\ emissor' = [emissor EXCEPT ![g] = Parado]
      /\ UNCHANGED <<fase, visita, feitas, liberado, retidas, pendentes>>
  BY DEF Entregar, sessoes, portao
<1> HIDE DEF m
<1>4. m \in Mensagem
  BY <1>2 DEF Mensagem
<1>5. JoinedPrimeiro' /\ fila' \in Seq(Mensagem)
  BY <1>2, <1>3, <1>4, OrdemFica DEF PortaoInv, Tipos
<1>6. \A k : Anunciado(k) => Anunciado(k)'
  BY <1>3, <1>4, AnunciadoFica DEF PortaoInv, Tipos
<1>7. Tipos'
  BY <1>3, <1>5 DEF PortaoInv, Tipos
<1>8. \A e \in Emissor : emissor'[e].passo = "entregar" => emissor'[e] = emissor[e]
  BY <1>3 DEF PortaoInv, Tipos, Parado
<1> QED BY <1>3, <1>5, <1>6, <1>7, <1>8 DEF PortaoInv

LEMMA InvNoPasso == PortaoInv /\ [Next]_vars => PortaoInv'
<1> SUFFICES ASSUME PortaoInv, [Next]_vars PROVE PortaoInv'
  OBVIOUS
<1>1. CASE Leitor \/ Entrar \/ Sair \/ Responder \/ ResponderPing
  BY <1>1, InvNoLeitor
<1>2. ASSUME NEW k \in Visita, OferecerFaixa(k) \/ AcharCandidato(k) PROVE PortaoInv'
  BY <1>2, InvNaFaixa, InvNoCandidato
<1>5. ASSUME NEW k \in Visita, MarcarOferta(k) \/ FalharFaixa(k) PROVE PortaoInv'
  <2>1. UNCHANGED <<fase, visita, feitas, liberado, retidas, pendentes, emissor, fila>>
    BY <1>5 DEF MarcarOferta, FalharFaixa, portao
  <2> QED BY <2>1 DEF PortaoInv, Tipos, JoinedPrimeiro, Anunciado
<1>3. CASE \E g \in Emissor : Passar(g) \/ Entregar(g)
  BY <1>3, InvAoPassar, InvAoEntregar
<1>4. CASE AoMudarEstado \/ Tique \/ ListarMembros \/ Transmitir \/ UNCHANGED vars
  BY <1>4 DEF AoMudarEstado, Tique, ListarMembros, Transmitir, vars, sessoes, portao,
              PortaoInv, Tipos, JoinedPrimeiro, Anunciado
<1> QED BY <1>1, <1>2, <1>3, <1>4, <1>5 DEF Next

\* No message of the media relay enters the queue of a participant before the `joined`
\* of the same visit that announces the relay (hub.go:234-240).
THEOREM JoinedSemprePrimeiro == Spec => []JoinedPrimeiro
<1>1. PortaoInv => JoinedPrimeiro
  BY DEF PortaoInv
<1> QED BY InvNoInicio, InvNoPasso, <1>1, PTL DEF Spec
-----------------------------------------------------------------------------
(***************************************************************************)
(* Where the messages of the relay are, and the order of the offers.       *)
(***************************************************************************)
Tem(lista, m) == \E i \in DOMAIN lista : lista[i] = m
UmaVez(lista, m) == \A i, j \in DOMAIN lista : lista[i] = m /\ lista[j] = m => i = j

NaMao(m) == \E g \in Emissor : emissor[g] # Parado /\ emissor[g].msg = m
NoLeitor(m) == fase \in {"enviar", "reenviar"} /\ m = Oferta(visita, feitas[visita])
Retida(m) == Tem(retidas[m.visita], m)
Pendente(m) == Tem(pendentes, m)
NaFila(m) == Tem(fila, m)

\* A message that has not been queued, and one that is anywhere.
PorEntregar(m) == NaMao(m) \/ NoLeitor(m) \/ Retida(m) \/ Pendente(m)
Presente(m) == PorEntregar(m) \/ NaFila(m)

EmUmLugar(m) ==
  /\ UmaVez(retidas[m.visita], m) /\ UmaVez(pendentes, m) /\ UmaVez(fila, m)
  /\ NaFila(m) => ~PorEntregar(m)
  /\ Pendente(m) => ~Retida(m) /\ ~NoLeitor(m) /\ ~NaMao(m)
  /\ Retida(m) => ~NoLeitor(m) /\ ~NaMao(m)
  /\ NoLeitor(m) => ~NaMao(m)

\* An offer that was made is somewhere, and one that is not queued is the last of its
\* session, which waits for its answer: so no other can be made meanwhile.
OfertaCerta(m) ==
  m.tipo = "oferta" =>
    /\ Presente(m) => m.n <= feitas[m.visita]
    /\ m.n <= feitas[m.visita] => Presente(m)
    /\ PorEntregar(m) => m.n = feitas[m.visita] /\ esperando[m.visita]

\* The goroutine of a track has offers of its session in its hands, and the callback of
\* pion candidates.
MaosCertas ==
  \A g \in Emissor : emissor[g] # Parado =>
    g = IF emissor[g].msg.tipo = "oferta" THEN Faixa(emissor[g].msg.visita)
                                          ELSE Ice(emissor[g].msg.visita)

LugarInv ==
  /\ PortaoInv
  /\ esperando \in [Visita -> BOOLEAN]
  /\ fase # "despejar" => pendentes = <<>>
  /\ \A k \in Visita : liberado[k] => retidas[k] = <<>>
  /\ MaosCertas
  /\ \A m \in DoSFU : EmUmLugar(m) /\ OfertaCerta(m)
  /\ OfertasEmOrdem

\* A list that grows by one, and one that loses its head.
LEMMA TemFim ==
  ASSUME NEW S, NEW s \in Seq(S), NEW x \in S, NEW m
  PROVE  /\ Tem(Append(s, x), m) => Tem(s, m) \/ m = x
         /\ Tem(s, m) => Tem(Append(s, x), m)
         /\ Tem(Append(s, x), x)
         /\ UmaVez(s, m) /\ ~(m = x /\ Tem(s, m)) => UmaVez(Append(s, x), m)
<1> DEFINE t == Append(s, x)
           n == Len(s) + 1
<1>1. /\ Len(s) \in Nat /\ DOMAIN s = 1..Len(s) /\ DOMAIN t = 1..n
      /\ \A j \in 1..Len(s) : t[j] = s[j]
      /\ t[n] = x
  BY Acrescentar
<1> HIDE DEF t
<1>2. \A j \in DOMAIN t : j = n \/ (j \in DOMAIN s /\ t[j] = s[j])
  BY <1>1
<1>3. Tem(t, m) => Tem(s, m) \/ m = x
  BY <1>1, <1>2 DEF Tem
<1>4. Tem(s, m) => Tem(t, m)
  <2> SUFFICES ASSUME NEW j \in DOMAIN s, s[j] = m PROVE j \in DOMAIN t /\ t[j] = m
    BY DEF Tem
  <2> QED BY <1>1
<1>5. Tem(t, x)
  BY <1>1 DEF Tem
<1>6. UmaVez(s, m) /\ ~(m = x /\ Tem(s, m)) => UmaVez(t, m)
  BY <1>1, <1>2 DEF UmaVez, Tem
<1> QED BY <1>3, <1>4, <1>5, <1>6 DEF t

LEMMA TemResto ==
  ASSUME NEW S, NEW s \in Seq(S), s # <<>>, NEW m
  PROVE  /\ Tem(s, Head(s)) /\ Head(s) \in S
         /\ Tem(Tail(s), m) => Tem(s, m)
         /\ Tem(s, m) => Tem(Tail(s), m) \/ m = Head(s)
         /\ UmaVez(s, m) => UmaVez(Tail(s), m)
         /\ UmaVez(s, Head(s)) => ~Tem(Tail(s), Head(s))
<1> DEFINE t == Tail(s)
           x == Head(s)
<1>1. /\ Len(s) \in Nat /\ Len(s) >= 1 /\ DOMAIN s = 1..Len(s) /\ s[1] = x /\ x \in S
      /\ DOMAIN t = 1..(Len(s) - 1)
      /\ \A i \in 1..(Len(s) - 1) : t[i] = s[i + 1]
  OBVIOUS
<1> HIDE DEF t, x
<1>2. 1 \in DOMAIN s /\ \A i \in DOMAIN t : i + 1 \in DOMAIN s /\ i + 1 # 1 /\ t[i] = s[i + 1]
  BY <1>1
<1>3. \A i \in DOMAIN s : i = 1 \/ (i - 1 \in DOMAIN t /\ t[i - 1] = s[i])
  BY <1>1
<1>4. Tem(s, x) /\ (Tem(t, m) => Tem(s, m))
  BY <1>1, <1>2 DEF Tem
<1>5. Tem(s, m) => Tem(t, m) \/ m = x
  BY <1>1, <1>3 DEF Tem
<1>6. UmaVez(s, m) => UmaVez(t, m)
  <2> SUFFICES ASSUME UmaVez(s, m), NEW i \in DOMAIN t, NEW j \in DOMAIN t, t[i] = m, t[j] = m
               PROVE  i = j
    BY DEF UmaVez
  <2>1. i + 1 = j + 1
    BY <1>2 DEF UmaVez
  <2> QED BY <1>1, <2>1
<1>7. UmaVez(s, x) => ~Tem(t, x)
  BY <1>1, <1>2 DEF UmaVez, Tem
<1> QED BY <1>1, <1>4, <1>5, <1>6, <1>7 DEF t, x

LEMMA TemEmenda ==
  ASSUME NEW S, NEW s \in Seq(S), NEW t \in Seq(S), NEW m
  PROVE  (Tem(s, m) => Tem(s \o t, m)) /\ (Tem(t, m) => Tem(s \o t, m))
<1>1. \A i \in DOMAIN s : i \in DOMAIN (s \o t) /\ (s \o t)[i] = s[i]
  OBVIOUS
<1>2. \A i \in DOMAIN t : i + Len(s) \in DOMAIN (s \o t) /\ (s \o t)[i + Len(s)] = t[i]
  OBVIOUS
<1> QED BY <1>1, <1>2 DEF Tem

\* An offer is known by its session and its number.
LEMMA OfertaIgual ==
  ASSUME NEW m \in DoSFU, m.tipo = "oferta"
  PROVE  m = Oferta(m.visita, m.n)
  BY DEF DoSFU, Oferta

LEMMA Tipado ==
  ASSUME LugarInv
  PROVE  /\ Tipos /\ esperando \in [Visita -> BOOLEAN]
         /\ \A k \in Visita : feitas[k] \in Nat
         /\ \A m \in DoSFU : m.visita \in Visita /\ m.n \in Nat /\ m.tipo # "joined"
         /\ \A k \in Visita : Candidato(k) \in DoSFU
<1>1. Tipos /\ esperando \in [Visita -> BOOLEAN]
  BY DEF LugarInv, PortaoInv
<1>2. \A k \in Visita : feitas[k] \in Nat
  BY <1>1, PortaoAssumption DEF Tipos
<1>3. \A m \in DoSFU : m.visita \in Visita /\ m.n \in Nat /\ m.tipo # "joined"
  BY PortaoAssumption DEF DoSFU
<1>4. \A k \in Visita : Candidato(k) \in DoSFU
  BY PortaoAssumption DEF DoSFU, Candidato
<1> QED BY <1>1, <1>2, <1>3, <1>4

\* A message that is where it was, or is not anywhere still.
LEMMA MesmoLugar ==
  ASSUME NEW m, EmUmLugar(m), OfertaCerta(m),
         UmaVez(retidas[m.visita], m)', UmaVez(pendentes, m)', UmaVez(fila, m)',
         NaMao(m)' = NaMao(m), NoLeitor(m)' = NoLeitor(m), Retida(m)' = Retida(m),
         Pendente(m)' = Pendente(m), NaFila(m)' = NaFila(m),
         feitas'[m.visita] = feitas[m.visita],
         esperando[m.visita] => esperando'[m.visita]
  PROVE  EmUmLugar(m)' /\ OfertaCerta(m)'
  BY DEF EmUmLugar, OfertaCerta, Presente, PorEntregar

\* Steps that move no message.
LEMMA LugarParado ==
  ASSUME LugarInv, PortaoInv',
         UNCHANGED <<feitas, esperando, liberado, retidas, pendentes, emissor, fila>>,
         UNCHANGED <<fase, visita>> \/ {fase, fase'} \cap {"enviar", "reenviar"} = {},
         fase' # "despejar" => pendentes = <<>>
  PROVE  LugarInv'
<1>1. ASSUME NEW m \in DoSFU PROVE EmUmLugar(m)' /\ OfertaCerta(m)'
  <2>1. EmUmLugar(m) /\ OfertaCerta(m)
    BY DEF LugarInv
  <2>2. NoLeitor(m)' = NoLeitor(m)
    BY DEF NoLeitor
  <2>3. NaMao(m)' = NaMao(m) /\ Retida(m)' = Retida(m)
    BY DEF NaMao, Retida
  <2>4. Pendente(m)' = Pendente(m) /\ NaFila(m)' = NaFila(m)
    BY DEF Pendente, NaFila
  <2>5. UmaVez(retidas[m.visita], m)' /\ UmaVez(pendentes, m)' /\ UmaVez(fila, m)'
    BY <2>1 DEF EmUmLugar
  <2> QED BY <2>1, <2>2, <2>3, <2>4, <2>5, MesmoLugar
<1>2. OfertasEmOrdem' /\ MaosCertas'
  BY DEF LugarInv, OfertasEmOrdem, MaosCertas
<1> QED BY <1>1, <1>2 DEF LugarInv

\* What enters the queue, and what is retained.
LEMMA AoEnfileirar ==
  ASSUME LugarInv, NEW x \in Mensagem, Enfileirar(x), NEW m \in DoSFU
  PROVE  /\ NaFila(m)' => NaFila(m) \/ m = x
         /\ NaFila(m) => NaFila(m)'
         /\ m = x => NaFila(m)'
         /\ ~(m = x /\ NaFila(m)) => UmaVez(fila, m)'
<1>1. fila \in Seq(Mensagem) /\ fila' = Append(fila, x) /\ UmaVez(fila, m)
  BY Tipado DEF Tipos, Enfileirar, LugarInv, EmUmLugar
<1> QED BY <1>1, TemFim DEF NaFila

LEMMA AoReter ==
  ASSUME LugarInv, NEW x \in DoSFU, Reter(x.visita, x), NEW m \in DoSFU
  PROVE  /\ Retida(m)' => Retida(m) \/ m = x
         /\ Retida(m) => Retida(m)'
         /\ m = x => Retida(m)'
         /\ ~(m = x /\ Retida(m)) => UmaVez(retidas[m.visita], m)'
         /\ \A k \in Visita : liberado[k] => retidas'[k] = <<>>
<1>1. /\ retidas \in [Visita -> Seq(DoSFU)] /\ x.visita \in Visita /\ m.visita \in Visita
      /\ retidas' = [retidas EXCEPT ![x.visita] = Append(@, x)] /\ ~liberado[x.visita]
      /\ UmaVez(retidas[m.visita], m)
  BY Tipado DEF Tipos, Reter, LugarInv, EmUmLugar
<1>2. CASE m.visita = x.visita
  <2>1. retidas'[m.visita] = Append(retidas[m.visita], x) /\ retidas[m.visita] \in Seq(DoSFU)
    BY <1>1, <1>2
  <2> QED BY <1>1, <2>1, TemFim DEF Retida, LugarInv
<1>3. CASE m.visita # x.visita
  <2>1. retidas'[m.visita] = retidas[m.visita] /\ m # x
    BY <1>1, <1>3
  <2> QED BY <1>1, <2>1 DEF Retida, LugarInv
<1> QED BY <1>2, <1>3

\* An offer goes to the queue after those of its session that are there, because it is
\* the last that was made.
LEMMA OrdemDeOfertas ==
  ASSUME LugarInv, NEW x \in Mensagem, Enfileirar(x),
         x.tipo = "joined" \/ (x \in DoSFU /\ PorEntregar(x))
  PROVE  OfertasEmOrdem'
<1>1. /\ fila \in Seq(Mensagem) /\ OfertasEmOrdem
      /\ Len(fila) \in Nat /\ DOMAIN fila = 1..Len(fila) /\ DOMAIN fila' = 1..(Len(fila) + 1)
      /\ \A j \in 1..Len(fila) : fila'[j] = fila[j]
      /\ fila'[Len(fila) + 1] = x
  BY Acrescentar, Tipado DEF Enfileirar, LugarInv, Tipos
<1>2. ASSUME NEW i \in DOMAIN fila, fila[i].tipo = "oferta", x.tipo = "oferta",
             fila[i].visita = x.visita
      PROVE  fila[i].n < x.n
  <2>1. x \in DoSFU /\ PorEntregar(x)
    BY <1>2
  <2>2. fila[i] \in DoSFU
    BY <1>1, <1>2 DEF Mensagem, DoHub
  <2>3. x.n = feitas[x.visita] /\ ~NaFila(x)
    BY <1>2, <2>1 DEF LugarInv, OfertaCerta, EmUmLugar
  <2>4. NaFila(fila[i])
    BY DEF NaFila, Tem
  <2>5. fila[i].n <= feitas[x.visita]
    BY <1>2, <2>2, <2>4 DEF LugarInv, OfertaCerta, Presente
  <2>6. fila[i].n # x.n
    BY <1>2, <2>1, <2>2, <2>3, <2>4, OfertaIgual
  <2> QED BY <2>1, <2>2, <2>3, <2>5, <2>6, Tipado
<1>3. ASSUME NEW i \in DOMAIN fila', NEW j \in DOMAIN fila',
             fila'[i].tipo = "oferta", fila'[j].tipo = "oferta",
             fila'[i].visita = fila'[j].visita, i < j
      PROVE  fila'[i].n < fila'[j].n
  <2>1. i \in DOMAIN fila /\ fila'[i] = fila[i]
    BY <1>1, <1>3
  <2>2. CASE j \in DOMAIN fila
    <3>1. fila'[j] = fila[j]
      BY <1>1, <2>2
    <3> QED BY <1>1, <1>3, <2>1, <2>2, <3>1 DEF OfertasEmOrdem
  <2>3. CASE j = Len(fila) + 1
    BY <1>1, <1>2, <1>3, <2>1, <2>3
  <2> QED BY <1>1, <2>2, <2>3
<1> QED BY <1>3 DEF OfertasEmOrdem

\* A goroutine that lets go of its message was the only one that had it.
LEMMA AoLargar ==
  ASSUME LugarInv, NEW g \in Emissor, emissor[g] # Parado,
         emissor' = [emissor EXCEPT ![g] = Parado]
  PROVE  /\ MaosCertas'
         /\ NaMao(emissor[g].msg)
         /\ \A m : NaMao(m)' => NaMao(m) /\ m # emissor[g].msg
         /\ \A m : NaMao(m) /\ m # emissor[g].msg => NaMao(m)'
<1>1. \A e \in Emissor : emissor'[e] = IF e = g THEN Parado ELSE emissor[e]
  BY Tipado DEF Tipos
<1>2. \A e \in Emissor : e # g /\ emissor[e] # Parado => emissor[e].msg # emissor[g].msg
  BY DEF LugarInv, MaosCertas
<1>3. ASSUME NEW m, NaMao(m)' PROVE NaMao(m) /\ m # emissor[g].msg
  <2>1. PICK e \in Emissor : emissor'[e] # Parado /\ emissor'[e].msg = m
    BY <1>3 DEF NaMao
  <2>2. e # g /\ emissor[e] # Parado /\ emissor[e].msg = m
    BY <1>1, <2>1
  <2> QED BY <1>2, <2>2 DEF NaMao
<1>4. ASSUME NEW m, NaMao(m), m # emissor[g].msg PROVE NaMao(m)'
  BY <1>1, <1>4 DEF NaMao
<1>5. NaMao(emissor[g].msg)
  BY DEF NaMao
<1>6. MaosCertas'
  BY <1>1 DEF LugarInv, MaosCertas
<1> QED BY <1>3, <1>4, <1>5, <1>6

LEMMA AoPegar ==
  ASSUME LugarInv, NEW g \in Emissor, emissor[g] = Parado, NEW x \in DoSFU,
         emissor' = [emissor EXCEPT ![g] = [passo |-> "enviar", msg |-> x]]
  PROVE  /\ NaMao(x)'
         /\ \A m : NaMao(m)' => NaMao(m) \/ m = x
         /\ \A m : NaMao(m) => NaMao(m)'
<1> DEFINE nova == [passo |-> "enviar", msg |-> x]
<1>1. \A e \in Emissor : emissor'[e] = IF e = g THEN nova ELSE emissor[e]
  BY Tipado DEF Tipos
<1>2. nova # Parado /\ nova.msg = x
  <2>1. nova.msg = x /\ DOMAIN nova = {"passo", "msg"} /\ DOMAIN Parado = {"passo"}
    BY DEF Parado
  <2> QED BY <2>1
<1> HIDE DEF nova
<1>3. ASSUME NEW m, NaMao(m)' PROVE NaMao(m) \/ m = x
  BY <1>1, <1>2, <1>3 DEF NaMao
<1>4. ASSUME NEW m, NaMao(m) PROVE NaMao(m)'
  BY <1>1, <1>4 DEF NaMao
<1>5. NaMao(x)'
  <2>1. emissor'[g] # Parado /\ emissor'[g].msg = x
    BY <1>1, <1>2
  <2> QED BY <2>1 DEF NaMao
<1> QED BY <1>3, <1>4, <1>5

\* A session that may make an offer has delivered those it made.
LEMMA AoOfertar ==
  ASSUME LugarInv, NEW k \in Visita, FazerOferta(k)
  PROVE  /\ Oferta(k, feitas[k] + 1) \in DoSFU
         /\ \A j \in Visita : feitas'[j] = IF j = k THEN feitas[k] + 1 ELSE feitas[j]
         /\ \A j \in Visita : esperando'[j] = (j = k \/ esperando[j])
         /\ esperando' \in [Visita -> BOOLEAN]
         /\ ~Presente(Oferta(k, feitas[k] + 1))
         /\ \A m \in DoSFU : m.tipo = "oferta" /\ m.visita = k => ~PorEntregar(m)
<1> DEFINE x == Oferta(k, feitas[k] + 1)
<1>1. /\ feitas \in [Visita -> 0..MaxOfertas] /\ esperando \in [Visita -> BOOLEAN]
      /\ feitas[k] < MaxOfertas /\ ~esperando[k] /\ feitas[k] \in Nat
      /\ feitas' = [feitas EXCEPT ![k] = @ + 1] /\ esperando' = [esperando EXCEPT ![k] = TRUE]
  BY Tipado DEF Tipos, FazerOferta, PodeOferecer, CabeOferta
<1>2. feitas[k] + 1 \in 1..MaxOfertas
  BY <1>1, PortaoAssumption
<1>3. x \in DoSFU /\ x.tipo = "oferta" /\ x.visita = k /\ x.n = feitas[k] + 1
  BY <1>2 DEF DoSFU, Oferta
<1>4. ~Presente(x)
  <2>1. OfertaCerta(x) /\ ~(feitas[k] + 1 <= feitas[k])
    BY <1>1, <1>3 DEF LugarInv
  <2> HIDE DEF x
  <2> QED BY <1>3, <2>1 DEF OfertaCerta
<1>5. \A m \in DoSFU : m.tipo = "oferta" /\ m.visita = k => ~PorEntregar(m)
  BY <1>1 DEF LugarInv, OfertaCerta
<1> QED BY <1>1, <1>3, <1>4, <1>5

\* What the new offer leaves as it was: all that was known of the other messages.
LEMMA OfertaNova ==
  ASSUME LugarInv, NEW k \in Visita, FazerOferta(k), UNCHANGED <<retidas, pendentes, fila>>,
         NEW m \in DoSFU,
         LET x == Oferta(k, feitas[k] + 1)
         IN /\ m # x => NaMao(m)' = NaMao(m) /\ NoLeitor(m)' = NoLeitor(m)
            /\ m = x => \/ NaMao(m)' /\ ~NoLeitor(m)'
                        \/ NoLeitor(m)' /\ ~NaMao(m)'
  PROVE  EmUmLugar(m)' /\ OfertaCerta(m)'
<1> DEFINE x == Oferta(k, feitas[k] + 1)
<1>1. /\ x \in DoSFU /\ ~Presente(x)
      /\ \A j \in Visita : feitas'[j] = IF j = k THEN feitas[k] + 1 ELSE feitas[j]
      /\ \A j \in Visita : esperando'[j] = (j = k \/ esperando[j])
      /\ m.tipo = "oferta" /\ m.visita = k => ~PorEntregar(m)
      /\ m.visita \in Visita /\ m.n \in Nat /\ feitas[k] \in Nat
  BY AoOfertar, Tipado
<1>2. /\ Retida(m)' = Retida(m) /\ Pendente(m)' = Pendente(m) /\ NaFila(m)' = NaFila(m)
      /\ EmUmLugar(m) /\ OfertaCerta(m)
  BY DEF Retida, Pendente, NaFila, LugarInv
<1>3. UmaVez(retidas[m.visita], m)' /\ UmaVez(pendentes, m)' /\ UmaVez(fila, m)'
  BY <1>2 DEF EmUmLugar
<1>4. CASE m = x
  <2>1. m.tipo = "oferta" /\ m.visita = k /\ m.n = feitas[k] + 1
    BY <1>4 DEF Oferta
  <2>2. ~Retida(m) /\ ~Pendente(m) /\ ~NaFila(m)
    BY <1>1, <1>4 DEF Presente, PorEntregar
  <2>3. m.n = feitas'[m.visita] /\ esperando'[m.visita]
    BY <1>1, <2>1
  <2>4. \/ NaMao(m)' /\ ~NoLeitor(m)'
        \/ NoLeitor(m)' /\ ~NaMao(m)'
    BY <1>4
  <2>5. EmUmLugar(m)'
    BY <1>2, <1>3, <2>2, <2>4 DEF EmUmLugar, PorEntregar
  <2>6. OfertaCerta(m)'
    BY <1>1, <2>3, <2>4 DEF OfertaCerta, Presente, PorEntregar
  <2> QED BY <2>5, <2>6
<1>5. CASE m # x
  <2>1. NaMao(m)' = NaMao(m) /\ NoLeitor(m)' = NoLeitor(m)
    BY <1>5
  <2>2. CASE m.tipo = "oferta" /\ m.visita = k
    <3>1. m.n # feitas[k] + 1
      BY <1>5, <2>2, OfertaIgual
    <3>2. ~PorEntregar(m)' /\ Presente(m)' = Presente(m) /\ EmUmLugar(m)'
      BY <1>1, <1>2, <1>3, <2>1, <2>2 DEF PorEntregar, Presente, EmUmLugar
    <3>3. (m.n <= feitas[k] => Presente(m)) /\ (Presente(m) => m.n <= feitas[k])
      BY <1>2, <2>2 DEF OfertaCerta
    <3>4. feitas'[m.visita] = feitas[k] + 1
      BY <1>1, <2>2
    <3>5. (m.n <= feitas'[m.visita] => Presente(m)') /\ (Presente(m)' => m.n <= feitas'[m.visita])
      BY <1>1, <3>1, <3>2, <3>3, <3>4
    <3> QED BY <3>2, <3>5 DEF OfertaCerta
  <2>3. CASE m.tipo # "oferta"
    BY <1>2, <1>3, <2>1, <2>3 DEF EmUmLugar, OfertaCerta, PorEntregar
  <2>4. CASE m.visita # k
    <3>1. feitas'[m.visita] = feitas[m.visita] /\ (esperando[m.visita] => esperando'[m.visita])
      BY <1>1, <2>4
    <3> QED BY <1>2, <1>3, <2>1, <3>1, MesmoLugar
  <2> QED BY <2>2, <2>3, <2>4
<1> QED BY <1>4, <1>5

LEMMA LugarNoLeitor ==
  ASSUME LugarInv, PortaoInv', Leitor \/ Entrar \/ Sair \/ Responder \/ ResponderPing
  PROVE  LugarInv'
<1> USE DEF sessoes, portao, pings
<1>0. Tipos /\ MaosCertas /\ OfertasEmOrdem /\ esperando \in [Visita -> BOOLEAN]
      /\ \A m \in DoSFU : EmUmLugar(m) /\ OfertaCerta(m)
  BY Tipado DEF LugarInv
<1>1. CASE Entrar \/ Registrar \/ NaoAbrir \/ Adiar \/ FalharOferta
  BY <1>1, LugarParado DEF Entrar, Registrar, NaoAbrir, Adiar, FalharOferta, LugarInv
<1>2. CASE Anunciar \/ MarcarPings \/ SairDoSFU \/ Despedir \/ Sair \/ ResponderPing
  BY <1>2, LugarParado DEF Anunciar, MarcarPings, SairDoSFU, Despedir, Sair, ResponderPing, LugarInv
<1>3. CASE Oferecer
  <2> DEFINE x == Oferta(visita, feitas[visita] + 1)
  <2>1. /\ visita \in Visita /\ fase \in {"oferecer", "renegociar"} /\ FazerOferta(visita)
        /\ fase' \in {"enviar", "reenviar"}
        /\ UNCHANGED <<visita, liberado, retidas, pendentes, emissor, fila>>
    BY <1>0, <1>3 DEF Oferecer, Tipos
  <2>2. feitas'[visita] = feitas[visita] + 1 /\ ~Presente(x) /\ esperando' \in [Visita -> BOOLEAN]
    BY <2>1, AoOfertar
  <2>3. \A m : NaMao(m)' = NaMao(m)
    BY <2>1 DEF NaMao
  <2>4. ASSUME NEW m \in DoSFU PROVE EmUmLugar(m)' /\ OfertaCerta(m)'
    <3>1. m # x => NaMao(m)' = NaMao(m) /\ NoLeitor(m)' = NoLeitor(m)
      BY <2>1, <2>2, <2>3 DEF NoLeitor
    <3>2. m = x => NoLeitor(m)' /\ ~NaMao(m)'
      <4>1. m = x => NoLeitor(m)'
        BY <2>1, <2>2 DEF NoLeitor
      <4>2. m = x => ~NaMao(m)'
        BY <2>2, <2>3 DEF Presente, PorEntregar
      <4> QED BY <4>1, <4>2
    <3>3. FazerOferta(visita) /\ UNCHANGED <<retidas, pendentes, fila>>
      BY <2>1
    <3> QED BY <2>1, <3>1, <3>2, <3>3, OfertaNova
  <2>5. MaosCertas' /\ OfertasEmOrdem'
    BY <1>0, <2>1 DEF MaosCertas, OfertasEmOrdem
  <2> QED BY <2>1, <2>2, <2>4, <2>5 DEF LugarInv
<1>4. CASE EnviarOferta
  <2> DEFINE x == Oferta(visita, feitas[visita])
  <2>1. /\ fase \in {"enviar", "reenviar"} /\ fase' \in {"apresentar", "dentro"}
        /\ UNCHANGED <<visita, feitas, esperando, liberado, pendentes, emissor>>
    BY <1>4 DEF EnviarOferta
  <2>2. x \in DoSFU /\ x.visita = visita
    <3>1. visita \in Visita /\ feitas[visita] \in 1..MaxOfertas
      BY <1>0, <2>1, PortaoAssumption DEF Tipos
    <3> QED BY <3>1 DEF Oferta, DoSFU
  <2>3. \/ ~liberado[visita] /\ Reter(x.visita, x) /\ UNCHANGED fila
        \/ Enfileirar(x) /\ UNCHANGED retidas
    BY <1>4, <2>2 DEF EnviarOferta
  <2>4. \A m : (NoLeitor(m) <=> m = x) /\ ~NoLeitor(m)'
    BY <2>1 DEF NoLeitor
  <2> HIDE DEF x
  <2>5. \A m : NaMao(m)' = NaMao(m) /\ Pendente(m)' = Pendente(m)
    BY <2>1 DEF NaMao, Pendente
  <2>6. ASSUME NEW m \in DoSFU
        PROVE  /\ EmUmLugar(m) /\ OfertaCerta(m) /\ UmaVez(pendentes, m)'
               /\ m = x => ~Retida(m) /\ ~Pendente(m) /\ ~NaMao(m) /\ ~NaFila(m)
    <3>1. EmUmLugar(m) /\ OfertaCerta(m)
      BY <1>0
    <3>2. UmaVez(pendentes, m)'
      BY <2>1, <3>1 DEF EmUmLugar
    <3>3. m = x => NoLeitor(m)
      BY <2>4
    <3> QED BY <3>1, <3>2, <3>3 DEF EmUmLugar, PorEntregar
  \* It is retained ...
  <2>7. CASE ~liberado[visita] /\ Reter(x.visita, x) /\ UNCHANGED fila
    <3>1. ASSUME NEW m \in DoSFU PROVE EmUmLugar(m)' /\ OfertaCerta(m)'
      <4>1. NaFila(m)' = NaFila(m) /\ UmaVez(fila, m)'
        BY <2>6, <2>7 DEF NaFila, EmUmLugar
      <4>2. /\ Retida(m)' => Retida(m) \/ m = x
            /\ Retida(m) => Retida(m)'
            /\ m = x => Retida(m)'
            /\ UmaVez(retidas[m.visita], m)'
        BY <2>2, <2>6, <2>7, AoReter
      <4>3. EmUmLugar(m)'
        BY <2>4, <2>5, <2>6, <4>1, <4>2 DEF EmUmLugar, PorEntregar
      <4>4. PorEntregar(m)' = PorEntregar(m) /\ Presente(m)' = Presente(m)
        BY <2>4, <2>5, <4>1, <4>2 DEF PorEntregar, Presente
      <4>5. OfertaCerta(m)'
        BY <2>1, <2>6, <4>4 DEF OfertaCerta
      <4> QED BY <4>3, <4>5
    <3>2. OfertasEmOrdem'
      BY <1>0, <2>7 DEF OfertasEmOrdem
    <3>3. \A k \in Visita : liberado'[k] => retidas'[k] = <<>>
      BY <2>1, <2>2, <2>7, AoReter
    <3>4. MaosCertas' /\ pendentes' = <<>>
      BY <1>0, <2>1 DEF MaosCertas, LugarInv
    <3> QED BY <1>0, <2>1, <3>1, <3>2, <3>3, <3>4 DEF LugarInv
  \* ... or queued at once.
  <2>8. CASE Enfileirar(x) /\ UNCHANGED retidas
    <3>1. x \in Mensagem /\ PorEntregar(x)
      BY <2>2, <2>4 DEF Mensagem, PorEntregar
    <3>2. ASSUME NEW m \in DoSFU PROVE EmUmLugar(m)' /\ OfertaCerta(m)'
      <4>1. Retida(m)' = Retida(m) /\ UmaVez(retidas[m.visita], m)'
        BY <2>6, <2>8 DEF Retida, EmUmLugar
      <4>2. /\ NaFila(m)' => NaFila(m) \/ m = x
            /\ NaFila(m) => NaFila(m)'
            /\ m = x => NaFila(m)'
            /\ UmaVez(fila, m)'
        BY <2>6, <2>8, <3>1, AoEnfileirar
      <4>3. EmUmLugar(m)'
        BY <2>4, <2>5, <2>6, <4>1, <4>2 DEF EmUmLugar, PorEntregar
      <4>4. Presente(m)' = Presente(m) /\ (PorEntregar(m)' => PorEntregar(m))
        BY <2>4, <2>5, <4>1, <4>2 DEF PorEntregar, Presente
      <4>5. OfertaCerta(m)'
        BY <2>1, <2>6, <4>4 DEF OfertaCerta
      <4> QED BY <4>3, <4>5
    <3>3. OfertasEmOrdem'
      BY <2>2, <2>8, <3>1, OrdemDeOfertas
    <3>4. MaosCertas' /\ pendentes' = <<>> /\ \A k \in Visita : liberado'[k] => retidas'[k] = <<>>
      BY <1>0, <2>1, <2>8 DEF MaosCertas, LugarInv
    <3> QED BY <1>0, <2>1, <3>2, <3>3, <3>4 DEF LugarInv
  <2> QED BY <2>3, <2>7, <2>8
<1>5. CASE Apresentar
  <2>1. PICK x : Enfileirar(x) /\ x \in {Joined(visita, TRUE), Joined(visita, FALSE)}
    BY <1>5 DEF Apresentar
  <2>2. /\ fase \in {"apresentar", "apresentarSemSfu"} /\ fase' \in {"liberar", "anunciar"}
        /\ UNCHANGED <<visita, feitas, esperando, liberado, retidas, pendentes, emissor>>
    BY <1>5 DEF Apresentar
  <2>3. x \in Mensagem /\ x.tipo = "joined"
    BY <1>0, <2>1, <2>2 DEF Joined, Mensagem, DoHub, Tipos
  <2>4. ASSUME NEW m \in DoSFU PROVE EmUmLugar(m)' /\ OfertaCerta(m)'
    <3>1. m # x
      BY <2>3, Tipado
    <3>2. NaFila(m)' = NaFila(m) /\ UmaVez(fila, m)'
      <4>1. /\ NaFila(m)' => NaFila(m) \/ m = x
            /\ NaFila(m) => NaFila(m)'
            /\ ~(m = x /\ NaFila(m)) => UmaVez(fila, m)'
        BY <2>1, <2>3, AoEnfileirar
      <4>2. (NaFila(m)' => NaFila(m)) /\ (NaFila(m) => NaFila(m)')
        BY <3>1, <4>1
      <4> QED BY <3>1, <4>1, <4>2 DEF NaFila, Tem
    <3>3. NaMao(m)' = NaMao(m) /\ Pendente(m)' = Pendente(m) /\ Retida(m)' = Retida(m)
      BY <2>2 DEF NaMao, Pendente, Retida
    <3>4. NoLeitor(m)' = NoLeitor(m)
      BY <2>2 DEF NoLeitor
    <3>5. UmaVez(retidas[m.visita], m)' /\ UmaVez(pendentes, m)'
      BY <1>0, <2>2 DEF EmUmLugar
    <3> QED BY <1>0, <2>2, <3>2, <3>3, <3>4, <3>5, MesmoLugar
  <2>5. OfertasEmOrdem' /\ MaosCertas'
    BY <1>0, <2>1, <2>2, <2>3, OrdemDeOfertas DEF MaosCertas
  <2> QED BY <1>0, <2>2, <2>4, <2>5 DEF LugarInv
<1>6. CASE Liberar
  <2>1. /\ fase = "liberar" /\ fase' = "despejar" /\ visita \in Visita
        /\ liberado' = [liberado EXCEPT ![visita] = TRUE]
        /\ pendentes' = retidas[visita] /\ pendentes = <<>>
        /\ retidas' = [retidas EXCEPT ![visita] = <<>>]
        /\ UNCHANGED <<visita, feitas, esperando, emissor, fila>>
    BY <1>0, <1>6 DEF Liberar, Tipos, LugarInv
  <2>2. \A k \in Visita : \A i \in DOMAIN retidas[k] : retidas[k][i].visita = k
    BY DEF LugarInv, PortaoInv
  <2>3. ASSUME NEW m \in DoSFU PROVE EmUmLugar(m)' /\ OfertaCerta(m)'
    <3>1. NaMao(m)' = NaMao(m) /\ NaFila(m)' = NaFila(m) /\ ~NoLeitor(m) /\ ~NoLeitor(m)' /\ ~Pendente(m)
      BY <2>1 DEF NaMao, NaFila, NoLeitor, Pendente, Tem
    <3>2. EmUmLugar(m) /\ OfertaCerta(m) /\ UmaVez(fila, m)' /\ m.visita \in Visita
      BY <1>0, <2>1, Tipado DEF EmUmLugar
    <3>3. CASE m.visita = visita
      <4>1. retidas'[m.visita] = <<>>
        BY <1>0, <2>1, <3>3 DEF Tipos
      <4>2. ~Retida(m)' /\ UmaVez(retidas[m.visita], m)'
        BY <4>1 DEF Retida, Tem, UmaVez
      <4>3. Pendente(m)' = Retida(m) /\ UmaVez(pendentes, m)'
        BY <2>1, <3>2, <3>3 DEF Pendente, Retida, EmUmLugar
      <4>4. EmUmLugar(m)'
        BY <3>1, <3>2, <4>2, <4>3 DEF EmUmLugar, PorEntregar
      <4>5. PorEntregar(m)' = PorEntregar(m) /\ Presente(m)' = Presente(m)
        BY <3>1, <4>2, <4>3 DEF PorEntregar, Presente
      <4> QED BY <2>1, <3>2, <4>4, <4>5 DEF OfertaCerta
    <3>4. CASE m.visita # visita
      <4>1. retidas'[m.visita] = retidas[m.visita]
        BY <1>0, <2>1, <3>2, <3>4 DEF Tipos
      <4>2. ~Pendente(m)' /\ UmaVez(pendentes, m)'
        BY <2>1, <2>2, <3>4 DEF Pendente, Tem, UmaVez
      <4>3. Retida(m)' = Retida(m) /\ UmaVez(retidas[m.visita], m)'
        BY <3>2, <4>1 DEF Retida, EmUmLugar
      <4>4. Pendente(m)' = Pendente(m) /\ NoLeitor(m)' = NoLeitor(m)
        BY <3>1, <4>2 DEF Pendente, Tem, NoLeitor
      <4> QED BY <2>1, <3>1, <3>2, <4>2, <4>3, <4>4, MesmoLugar
    <3> QED BY <3>3, <3>4
  <2>4. MaosCertas' /\ OfertasEmOrdem'
    BY <1>0, <2>1 DEF MaosCertas, OfertasEmOrdem
  <2>5. \A k \in Visita : liberado'[k] => retidas'[k] = <<>>
    BY <1>0, <2>1 DEF LugarInv, Tipos
  <2> QED BY <1>0, <2>1, <2>3, <2>4, <2>5 DEF LugarInv
<1>7. CASE Despejar
  <2>1. CASE pendentes = <<>>
    BY <1>7, <2>1, LugarParado DEF Despejar
  <2>2. CASE pendentes # <<>>
    <3> DEFINE x == Head(pendentes)
    <3>1. /\ fase = "despejar" /\ Enfileirar(x) /\ pendentes' = Tail(pendentes)
          /\ pendentes \in Seq(DoSFU)
          /\ UNCHANGED <<fase, visita, feitas, esperando, liberado, retidas, emissor>>
      BY <1>0, <1>7, <2>2 DEF Despejar, Tipos
    <3>2. x \in DoSFU /\ Pendente(x)
      BY <2>2, <3>1, TemResto DEF Pendente
    <3>3. x \in Mensagem
      BY <3>2 DEF Mensagem
    <3>9. UmaVez(pendentes, x)
      BY <1>0, <3>2 DEF EmUmLugar
    <3>10. ~Tem(pendentes', x)
      BY <2>2, <3>1, <3>9, TemResto
    <3>4. ASSUME NEW m \in DoSFU PROVE EmUmLugar(m)' /\ OfertaCerta(m)'
      <4>1. EmUmLugar(m) /\ OfertaCerta(m) /\ UmaVez(retidas[m.visita], m)'
        BY <1>0, <3>1 DEF EmUmLugar
      <4>2. NaMao(m)' = NaMao(m) /\ Retida(m)' = Retida(m) /\ ~NoLeitor(m) /\ ~NoLeitor(m)'
        BY <3>1 DEF NaMao, Retida, NoLeitor
      <4>3. /\ Pendente(m)' => Pendente(m)
            /\ Pendente(m) => Pendente(m)' \/ m = x
            /\ UmaVez(pendentes, m)'
            /\ m = x => ~Pendente(m)'
        BY <2>2, <3>1, <3>10, <4>1, TemResto DEF Pendente, EmUmLugar
      <4> HIDE DEF x
      <4>4. m = x => Pendente(m) /\ ~NaFila(m)
        BY <3>2, <4>1 DEF EmUmLugar, PorEntregar
      <4>5. /\ NaFila(m)' => NaFila(m) \/ m = x
            /\ NaFila(m) => NaFila(m)'
            /\ m = x => NaFila(m)'
            /\ UmaVez(fila, m)'
        BY <3>1, <3>3, <4>4, AoEnfileirar
      <4>6. EmUmLugar(m)'
        BY <4>1, <4>2, <4>3, <4>4, <4>5 DEF EmUmLugar, PorEntregar
      <4>7. Presente(m)' = Presente(m) /\ (PorEntregar(m)' => PorEntregar(m))
        BY <4>2, <4>3, <4>4, <4>5 DEF PorEntregar, Presente
      <4>8. OfertaCerta(m)'
        BY <3>1, <4>1, <4>7 DEF OfertaCerta
      <4> QED BY <4>6, <4>8
    <3> HIDE DEF x
    <3>5. OfertasEmOrdem'
      BY <3>1, <3>2, <3>3, OrdemDeOfertas DEF PorEntregar
    <3>6. MaosCertas' /\ \A k \in Visita : liberado'[k] => retidas'[k] = <<>>
      BY <1>0, <3>1 DEF MaosCertas, LugarInv
    <3> QED BY <1>0, <3>1, <3>4, <3>5, <3>6 DEF LugarInv
  <2> QED BY <2>1, <2>2
<1>8. CASE Responder
  <2> DEFINE x == Oferta(visita, feitas[visita])
  <2>1. /\ fase = "dentro" /\ visita \in Visita /\ x \in Range(fila)
        /\ esperando' = [esperando EXCEPT ![visita] = FALSE]
        /\ fase' \in {"dentro", "renegociar"}
        /\ UNCHANGED <<visita, feitas, liberado, retidas, pendentes, emissor, fila>>
    BY <1>0, <1>8 DEF Responder, Tipos
  <2>2. NaFila(x)
    BY <2>1 DEF NaFila, Tem, Range
  <2>3. ASSUME NEW m \in DoSFU PROVE EmUmLugar(m)' /\ OfertaCerta(m)'
    <3>1. /\ NaMao(m)' = NaMao(m) /\ NoLeitor(m)' = NoLeitor(m) /\ Retida(m)' = Retida(m)
          /\ Pendente(m)' = Pendente(m) /\ NaFila(m)' = NaFila(m)
      BY <2>1 DEF NaMao, NoLeitor, Retida, Pendente, NaFila
    <3>2. UmaVez(retidas[m.visita], m)' /\ UmaVez(pendentes, m)' /\ UmaVez(fila, m)'
      BY <1>0, <2>1 DEF EmUmLugar
    <3>3. EmUmLugar(m)' /\ PorEntregar(m)' = PorEntregar(m) /\ Presente(m)' = Presente(m)
      BY <1>0, <3>1, <3>2 DEF EmUmLugar, PorEntregar, Presente
    <3>4. m.tipo = "oferta" /\ PorEntregar(m) => m.visita # visita
      <4> SUFFICES ASSUME m.tipo = "oferta", PorEntregar(m), m.visita = visita PROVE FALSE
        OBVIOUS
      <4>1. m = x
        BY <1>0, OfertaIgual DEF OfertaCerta
      <4> QED BY <1>0, <2>2, <4>1 DEF EmUmLugar
    <3>5. m.visita # visita => esperando'[m.visita] = esperando[m.visita]
      BY <1>0, <2>1, Tipado
    <3>6. OfertaCerta(m)'
      BY <1>0, <2>1, <3>3, <3>4, <3>5 DEF OfertaCerta
    <3> QED BY <3>3, <3>6
  <2>4. esperando' \in [Visita -> BOOLEAN]
    BY <1>0, <2>1
  <2>5. /\ MaosCertas' /\ OfertasEmOrdem' /\ (fase' # "despejar" => pendentes' = <<>>)
        /\ \A k \in Visita : liberado'[k] => retidas'[k] = <<>>
    BY <1>0, <2>1 DEF MaosCertas, OfertasEmOrdem, LugarInv
  <2> QED BY <2>3, <2>4, <2>5 DEF LugarInv
<1> QED BY <1>1, <1>2, <1>3, <1>4, <1>5, <1>6, <1>7, <1>8 DEF Leitor

LEMMA LugarNaFaixa ==
  ASSUME LugarInv, PortaoInv', NEW k \in Visita, OferecerFaixa(k)
  PROVE  LugarInv'
<1>0. PICK x : x = Oferta(k, feitas[k] + 1)
  OBVIOUS
<1>1. /\ emissor[Faixa(k)] = Parado /\ FazerOferta(k)
      /\ emissor' = [emissor EXCEPT ![Faixa(k)] = [passo |-> "enviar", msg |-> x]]
      /\ UNCHANGED <<fase, visita, liberado, retidas, pendentes, fila>>
  <2>1. /\ FazerOferta(k)
        /\ emissor' = [emissor EXCEPT ![Faixa(k)] = [passo |-> "enviar", msg |-> x]]
        /\ UNCHANGED <<fase, visita, liberado, retidas, pendentes, fila>>
    BY <1>0 DEF OferecerFaixa, portao
  \* It has sent the one before, for that was answered.
  <2>2. SUFFICES ASSUME emissor[Faixa(k)] # Parado PROVE FALSE
    BY <2>1
  <2>3. Faixa(k) \in Emissor
    BY DEF Emissor
  <2>4. PICK y \in DoSFU : y = emissor[Faixa(k)].msg
    BY <2>2, <2>3, Tipado DEF Tipos
  <2>5. y.tipo = "oferta" /\ y.visita = k
    BY <2>2, <2>3, <2>4 DEF LugarInv, MaosCertas, Faixa, Ice
  <2>6. PorEntregar(y)
    BY <2>2, <2>3, <2>4 DEF PorEntregar, NaMao
  <2> QED BY <2>1, <2>5, <2>6, AoOfertar
<1>2. /\ x \in DoSFU /\ ~Presente(x) /\ esperando' \in [Visita -> BOOLEAN]
      /\ \A j \in Visita : feitas'[j] = IF j = k THEN feitas[k] + 1 ELSE feitas[j]
  BY <1>0, <1>1, AoOfertar
<1>3. x.tipo = "oferta" /\ x.visita = k
  BY <1>0 DEF Oferta
<1>4. MaosCertas'
  <2>1. \A e \in Emissor : emissor'[e] = IF e = Faixa(k) THEN [passo |-> "enviar", msg |-> x] ELSE emissor[e]
    BY <1>1, Tipado DEF Tipos
  <2> QED BY <1>3, <2>1 DEF LugarInv, MaosCertas
\* The reader has the last offer of its visit in its hands, so another one cannot be made.
<1>5. fase \in {"enviar", "reenviar"} => visita # k /\ visita \in Visita
  <2> DEFINE y == Oferta(visita, feitas[visita])
  <2> SUFFICES ASSUME fase \in {"enviar", "reenviar"} PROVE visita # k /\ visita \in Visita
    OBVIOUS
  <2>1. visita \in Visita /\ feitas[visita] \in 1..MaxOfertas
    BY Tipado, PortaoAssumption DEF Tipos
  <2>2. y \in DoSFU /\ y.tipo = "oferta" /\ y.visita = visita
    BY <2>1 DEF Oferta, DoSFU
  <2>3. PorEntregar(y)
    BY DEF PorEntregar, NoLeitor
  <2> HIDE DEF y
  <2>4. esperando[visita]
    BY <2>2, <2>3 DEF LugarInv, OfertaCerta
  <2> QED BY <1>1, <2>1, <2>4 DEF FazerOferta, PodeOferecer, CabeOferta
<1>6. \A m : NoLeitor(m)' = NoLeitor(m)
  BY <1>1, <1>2, <1>5 DEF NoLeitor
<1>7. /\ NaMao(x)'
      /\ \A m : NaMao(m)' => NaMao(m) \/ m = x
      /\ \A m : NaMao(m) => NaMao(m)'
  <2>1. /\ emissor[Faixa(k)] = Parado /\ Faixa(k) \in Emissor /\ x \in DoSFU
        /\ emissor' = [emissor EXCEPT ![Faixa(k)] = [passo |-> "enviar", msg |-> x]]
    BY <1>1, <1>2 DEF Emissor
  <2> QED BY <2>1, AoPegar
<1>8. ASSUME NEW m \in DoSFU PROVE EmUmLugar(m)' /\ OfertaCerta(m)'
  <2>1. m # x => NaMao(m)' = NaMao(m)
    BY <1>7 DEF NaMao
  <2>2. ~NoLeitor(x)
    BY <1>2 DEF Presente, PorEntregar
  <2>3. m = x => NaMao(m)' /\ ~NoLeitor(m)'
    <3>1. m = x => NaMao(m)'
      BY <1>7
    <3>2. m = x => ~NoLeitor(m)'
      BY <1>6, <2>2 DEF NoLeitor
    <3> QED BY <3>1, <3>2
  <2>4. UNCHANGED <<retidas, pendentes, fila>>
    BY <1>1
  <2> QED BY <1>0, <1>1, <1>6, <2>1, <2>3, <2>4, OfertaNova
<1>9. OfertasEmOrdem' /\ (fase' # "despejar" => pendentes' = <<>>)
  BY <1>1 DEF LugarInv, OfertasEmOrdem
<1>10. \A j \in Visita : liberado'[j] => retidas'[j] = <<>>
  BY <1>1 DEF LugarInv
<1> QED BY <1>2, <1>4, <1>8, <1>9, <1>10 DEF LugarInv

LEMMA LugarNoCandidato ==
  ASSUME LugarInv, PortaoInv', NEW k \in Visita, AcharCandidato(k)
  PROVE  LugarInv'
<1> DEFINE x == Candidato(k)
<1>1. /\ emissor[Ice(k)] = Parado
      /\ emissor' = [emissor EXCEPT ![Ice(k)] = [passo |-> "enviar", msg |-> x]]
      /\ UNCHANGED <<fase, visita, feitas, esperando, liberado, retidas, pendentes, fila>>
  BY DEF AcharCandidato, portao, sessoes
<1>2. x \in DoSFU /\ x.tipo = "candidato" /\ x.visita = k
  BY Tipado DEF Candidato
<1>3. MaosCertas'
  <2>1. \A e \in Emissor : emissor'[e] = IF e = Ice(k) THEN [passo |-> "enviar", msg |-> x] ELSE emissor[e]
    BY <1>1, Tipado DEF Tipos
  <2> QED BY <1>2, <2>1 DEF LugarInv, MaosCertas
<1>4. ~Presente(x)
  <2>1. ~Tem(fila, x) /\ ~Tem(pendentes, x) /\ ~Tem(retidas[k], x)
    <3> DEFINE fp == fila \o pendentes
               t == fp \o retidas[k]
    <3>1. fila \in Seq(Mensagem) /\ pendentes \in Seq(Mensagem) /\ retidas[k] \in Seq(Mensagem)
      <4>1. fila \in Seq(Mensagem) /\ pendentes \in Seq(DoSFU) /\ retidas[k] \in Seq(DoSFU)
        BY Tipado DEF Tipos
      <4> QED BY <4>1 DEF Mensagem
    <3>2. fp \in Seq(Mensagem) /\ t \in Seq(Mensagem)
      BY <3>1
    <3>3. ~\E i \in DOMAIN t : t[i] = x
      BY DEF AcharCandidato, Range
    <3>4. (Tem(fila, x) => Tem(fp, x)) /\ (Tem(pendentes, x) => Tem(fp, x))
      BY <3>1, TemEmenda
    <3> HIDE DEF fp
    <3>5. (Tem(fp, x) => Tem(t, x)) /\ (Tem(retidas[k], x) => Tem(t, x))
      BY <3>1, <3>2, TemEmenda
    <3> QED BY <3>3, <3>4, <3>5 DEF Tem
  <2>2. ~NaMao(x)
    <3> SUFFICES ASSUME NEW e \in Emissor, emissor[e] # Parado, emissor[e].msg = x PROVE FALSE
      BY DEF NaMao
    <3> QED BY <1>1, <1>2 DEF LugarInv, MaosCertas
  <2>3. ~NoLeitor(x)
    BY DEF NoLeitor, Candidato, Oferta
  <2> QED BY <1>2, <2>1, <2>2, <2>3 DEF Presente, PorEntregar, Retida, Pendente, NaFila
<1> HIDE DEF x
<1>5. /\ NaMao(x)'
      /\ \A m : NaMao(m)' => NaMao(m) \/ m = x
      /\ \A m : NaMao(m) => NaMao(m)'
  BY <1>1, <1>2, AoPegar DEF Emissor
<1>6. ASSUME NEW m \in DoSFU PROVE EmUmLugar(m)' /\ OfertaCerta(m)'
  <2>1. /\ EmUmLugar(m) /\ OfertaCerta(m)
        /\ UmaVez(retidas[m.visita], m)' /\ UmaVez(pendentes, m)' /\ UmaVez(fila, m)'
    BY <1>1 DEF LugarInv, EmUmLugar
  <2>2. /\ NoLeitor(m)' = NoLeitor(m) /\ Retida(m)' = Retida(m)
        /\ Pendente(m)' = Pendente(m) /\ NaFila(m)' = NaFila(m)
    BY <1>1 DEF NoLeitor, Retida, Pendente, NaFila
  <2>3. CASE m = x
    <3>1. ~NoLeitor(m) /\ ~Retida(m) /\ ~Pendente(m) /\ ~NaFila(m) /\ m.tipo # "oferta"
      BY <1>2, <1>4, <2>3 DEF Presente, PorEntregar
    <3> QED BY <2>1, <2>2, <3>1 DEF EmUmLugar, OfertaCerta, PorEntregar
  <2>4. CASE m # x
    <3>1. NaMao(m)' = NaMao(m)
      BY <1>5, <2>4 DEF NaMao
    <3> QED BY <1>1, <2>1, <2>2, <3>1, MesmoLugar
  <2> QED BY <2>3, <2>4
<1>7. OfertasEmOrdem' /\ (fase' # "despejar" => pendentes' = <<>>) /\ esperando' \in [Visita -> BOOLEAN]
  BY <1>1 DEF LugarInv, OfertasEmOrdem
<1>8. \A j \in Visita : liberado'[j] => retidas'[j] = <<>>
  BY <1>1 DEF LugarInv
<1> QED BY <1>3, <1>6, <1>7, <1>8 DEF LugarInv

LEMMA LugarAoPassar ==
  ASSUME LugarInv, PortaoInv', NEW g \in Emissor, Passar(g)
  PROVE  LugarInv'
<1>0. PICK x : x = emissor[g].msg
  OBVIOUS
<1>1. /\ emissor[g] # Parado /\ x \in DoSFU
      /\ UNCHANGED <<fase, visita, feitas, esperando, liberado, pendentes, fila>>
  <2>1. emissor[g] # Parado
    BY DEF Passar, Parado
  <2> QED BY <1>0, <2>1, Tipado DEF Passar, Tipos, sessoes
<1>2. OfertasEmOrdem' /\ (fase' # "despejar" => pendentes' = <<>>) /\ esperando' \in [Visita -> BOOLEAN]
  BY <1>1 DEF LugarInv, OfertasEmOrdem
<1>3. CASE Reter(x.visita, x) /\ emissor' = [emissor EXCEPT ![g] = Parado]
  <2>1. /\ MaosCertas' /\ NaMao(x)
        /\ \A m : NaMao(m)' => NaMao(m) /\ m # x
        /\ \A m : NaMao(m) /\ m # x => NaMao(m)'
    BY <1>0, <1>1, <1>3, AoLargar
  <2>2. ASSUME NEW m \in DoSFU PROVE EmUmLugar(m)' /\ OfertaCerta(m)'
    <3>1. /\ EmUmLugar(m) /\ OfertaCerta(m) /\ UmaVez(pendentes, m)' /\ UmaVez(fila, m)'
      BY <1>1 DEF LugarInv, EmUmLugar
    <3>2. Pendente(m)' = Pendente(m) /\ NaFila(m)' = NaFila(m) /\ NoLeitor(m)' = NoLeitor(m)
      BY <1>1 DEF NoLeitor, Pendente, NaFila
    <3>3. m = x => NaMao(m) /\ ~Retida(m) /\ ~NoLeitor(m) /\ ~Pendente(m) /\ ~NaFila(m)
      BY <2>1, <3>1 DEF EmUmLugar, PorEntregar
    <3>4. /\ Retida(m)' => Retida(m) \/ m = x
          /\ Retida(m) => Retida(m)'
          /\ m = x => Retida(m)'
          /\ UmaVez(retidas[m.visita], m)'
      BY <1>1, <1>3, <3>3, AoReter
    <3>5. (NaMao(m)' => NaMao(m) /\ m # x) /\ (NaMao(m) => NaMao(m)' \/ m = x)
      BY <2>1
    <3>6. EmUmLugar(m)'
      BY <3>1, <3>2, <3>3, <3>4, <3>5 DEF EmUmLugar, PorEntregar
    <3>7. PorEntregar(m)' = PorEntregar(m) /\ Presente(m)' = Presente(m)
      BY <3>2, <3>3, <3>4, <3>5 DEF PorEntregar, Presente
    <3>8. OfertaCerta(m)'
      BY <1>1, <3>1, <3>7 DEF OfertaCerta
    <3> QED BY <3>6, <3>8
  <2>3. \A k \in Visita : liberado'[k] => retidas'[k] = <<>>
    BY <1>1, <1>3, AoReter
  <2> QED BY <1>2, <2>1, <2>2, <2>3 DEF LugarInv
<1>4. CASE emissor' = [emissor EXCEPT ![g].passo = "entregar"] /\ UNCHANGED retidas
  <2>1. /\ \A e \in Emissor : e # g => emissor'[e] = emissor[e]
        /\ emissor'[g] = [passo |-> "entregar", msg |-> x] /\ emissor[g].msg = x
    <3>1. emissor \in [Emissor -> {Parado} \cup [passo : {"enviar", "entregar"}, msg : DoSFU]]
      BY Tipado DEF Tipos
    <3>2. emissor[g] \in [passo : {"enviar", "entregar"}, msg : DoSFU]
      BY <1>1, <3>1
    <3> QED BY <1>0, <1>4, <3>1, <3>2
  <2>2. [passo |-> "entregar", msg |-> x] # Parado
    <3> DEFINE nova == [passo |-> "entregar", msg |-> x]
    <3>1. DOMAIN nova = {"passo", "msg"} /\ DOMAIN Parado = {"passo"}
      BY DEF Parado
    <3> QED BY <3>1
  <2>3. emissor'[g] # Parado /\ emissor'[g].msg = x
    BY <2>1, <2>2
  <2>4. MaosCertas'
    <3>1. \A e \in Emissor : (emissor'[e] # Parado => emissor[e] # Parado) /\ emissor'[e].msg = emissor[e].msg
      BY <1>1, <2>1, <2>3
    <3> QED BY <3>1 DEF LugarInv, MaosCertas
  <2>5. ASSUME NEW m \in DoSFU PROVE EmUmLugar(m)' /\ OfertaCerta(m)'
    <3>1. NaMao(m)' = NaMao(m)
      BY <1>1, <2>1, <2>3 DEF NaMao
    <3>2. /\ NoLeitor(m)' = NoLeitor(m) /\ Retida(m)' = Retida(m)
          /\ Pendente(m)' = Pendente(m) /\ NaFila(m)' = NaFila(m)
      BY <1>1, <1>4 DEF NoLeitor, Retida, Pendente, NaFila
    <3>3. /\ EmUmLugar(m) /\ OfertaCerta(m)
          /\ UmaVez(retidas[m.visita], m)' /\ UmaVez(pendentes, m)' /\ UmaVez(fila, m)'
      BY <1>1, <1>4 DEF LugarInv, EmUmLugar
    <3> QED BY <1>1, <3>1, <3>2, <3>3, MesmoLugar
  <2>6. \A k \in Visita : liberado'[k] => retidas'[k] = <<>>
    BY <1>1, <1>4 DEF LugarInv
  <2> QED BY <1>2, <2>4, <2>5, <2>6 DEF LugarInv
<1> QED BY <1>0, <1>3, <1>4 DEF Passar

LEMMA LugarAoEntregar ==
  ASSUME LugarInv, PortaoInv', NEW g \in Emissor, Entregar(g)
  PROVE  LugarInv'
<1>0. PICK x : x = emissor[g].msg
  OBVIOUS
<1>1. /\ emissor[g] # Parado /\ x \in DoSFU /\ Enfileirar(x)
      /\ emissor' = [emissor EXCEPT ![g] = Parado]
      /\ UNCHANGED <<fase, visita, feitas, esperando, liberado, retidas, pendentes>>
  <2>1. emissor[g] # Parado
    BY DEF Entregar, Parado
  <2> QED BY <1>0, <2>1, Tipado DEF Entregar, Tipos, sessoes, portao
<1>2. x \in Mensagem
  BY <1>1 DEF Mensagem
<1>3. /\ MaosCertas' /\ NaMao(x)
      /\ \A m : NaMao(m)' => NaMao(m) /\ m # x
      /\ \A m : NaMao(m) /\ m # x => NaMao(m)'
  BY <1>0, <1>1, AoLargar
<1>4. ASSUME NEW m \in DoSFU PROVE EmUmLugar(m)' /\ OfertaCerta(m)'
  <2>1. /\ EmUmLugar(m) /\ OfertaCerta(m)
        /\ UmaVez(retidas[m.visita], m)' /\ UmaVez(pendentes, m)'
    BY <1>1 DEF LugarInv, EmUmLugar
  <2>2. NoLeitor(m)' = NoLeitor(m) /\ Pendente(m)' = Pendente(m) /\ Retida(m)' = Retida(m)
    BY <1>1 DEF NoLeitor, Pendente, Retida
  <2>3. m = x => NaMao(m) /\ ~Retida(m) /\ ~NoLeitor(m) /\ ~Pendente(m) /\ ~NaFila(m)
    BY <1>3, <2>1 DEF EmUmLugar, PorEntregar
  <2>4. /\ NaFila(m)' => NaFila(m) \/ m = x
        /\ NaFila(m) => NaFila(m)'
        /\ m = x => NaFila(m)'
        /\ UmaVez(fila, m)'
    BY <1>1, <1>2, <2>3, AoEnfileirar
  <2>5. (NaMao(m)' => NaMao(m) /\ m # x) /\ (NaMao(m) => NaMao(m)' \/ m = x)
    BY <1>3
  <2>6. EmUmLugar(m)'
    BY <2>1, <2>2, <2>3, <2>4, <2>5 DEF EmUmLugar, PorEntregar
  <2>7. Presente(m)' = Presente(m) /\ (PorEntregar(m)' => PorEntregar(m))
    BY <2>2, <2>3, <2>4, <2>5 DEF PorEntregar, Presente
  <2>8. OfertaCerta(m)'
    BY <1>1, <2>1, <2>7 DEF OfertaCerta
  <2> QED BY <2>6, <2>8
<1>5. OfertasEmOrdem'
  BY <1>1, <1>2, <1>3, OrdemDeOfertas DEF PorEntregar
<1>6. /\ \A k \in Visita : liberado'[k] => retidas'[k] = <<>>
      /\ fase' # "despejar" => pendentes' = <<>>
      /\ esperando' \in [Visita -> BOOLEAN]
  BY <1>1 DEF LugarInv
<1> QED BY <1>3, <1>4, <1>5, <1>6 DEF LugarInv

LEMMA LugarNoInicio == Init => LugarInv
<1> SUFFICES ASSUME Init PROVE LugarInv
  OBVIOUS
<1>1. PortaoInv
  BY InvNoInicio
<1>2. /\ \A k \in Visita : retidas[k] = <<>> /\ feitas[k] = 0
      /\ pendentes = <<>> /\ fila = <<>> /\ fase = "fora"
      /\ \A g \in Emissor : emissor[g] = Parado
      /\ esperando \in [Visita -> BOOLEAN]
  BY DEF Init
<1>3. MaosCertas /\ OfertasEmOrdem
  BY <1>2 DEF MaosCertas, OfertasEmOrdem
<1>4. ASSUME NEW m \in DoSFU PROVE EmUmLugar(m) /\ OfertaCerta(m)
  <2>1. m.visita \in Visita /\ m.n \in Nat /\ m.n # 0
    BY PortaoAssumption DEF DoSFU
  <2>2. ~Presente(m)
    BY <1>2, <2>1 DEF Presente, PorEntregar, NaMao, NoLeitor, Retida, Pendente, NaFila, Tem
  <2>3. UmaVez(retidas[m.visita], m) /\ UmaVez(pendentes, m) /\ UmaVez(fila, m)
    BY <1>2, <2>1 DEF UmaVez
  <2>4. ~(m.n <= feitas[m.visita])
    BY <1>2, <2>1
  <2> QED BY <2>2, <2>3, <2>4 DEF EmUmLugar, OfertaCerta, Presente, PorEntregar
<1> QED BY <1>1, <1>2, <1>3, <1>4 DEF LugarInv

LEMMA LugarNoPasso == LugarInv /\ [Next]_vars => LugarInv'
<1> SUFFICES ASSUME LugarInv, [Next]_vars PROVE LugarInv'
  OBVIOUS
<1>0. PortaoInv'
  BY InvNoPasso DEF LugarInv
<1>1. CASE Leitor \/ Entrar \/ Sair \/ Responder \/ ResponderPing
  BY <1>0, <1>1, LugarNoLeitor
<1>2. ASSUME NEW k \in Visita, OferecerFaixa(k) \/ AcharCandidato(k) PROVE LugarInv'
  BY <1>0, <1>2, LugarNaFaixa, LugarNoCandidato
<1>3. CASE \E g \in Emissor : Passar(g) \/ Entregar(g)
  BY <1>0, <1>3, LugarAoPassar, LugarAoEntregar
<1>4. CASE AoMudarEstado \/ Tique \/ ListarMembros \/ Transmitir \/ UNCHANGED vars
  <2>1. UNCHANGED <<fase, visita, feitas, esperando, liberado, retidas, pendentes, emissor, fila>>
    BY <1>4 DEF AoMudarEstado, Tique, ListarMembros, Transmitir, vars, sessoes, portao
  <2>2. fase' # "despejar" => pendentes = <<>>
    BY <2>1 DEF LugarInv
  <2> QED BY <1>0, <2>1, <2>2, LugarParado
<1>5. ASSUME NEW k \in Visita, MarcarOferta(k) \/ FalharFaixa(k) PROVE LugarInv'
  <2>1. UNCHANGED <<fase, visita, feitas, esperando, liberado, retidas, pendentes, emissor, fila>>
    BY <1>5 DEF MarcarOferta, FalharFaixa, portao
  <2>2. fase' # "despejar" => pendentes = <<>>
    BY <2>1 DEF LugarInv
  <2> QED BY <1>0, <2>1, <2>2, LugarParado
<1> QED BY <1>1, <1>2, <1>3, <1>4, <1>5 DEF Next

LEMMA LugarSempre == Spec => []LugarInv
BY LugarNoInicio, LugarNoPasso, PTL DEF Spec

\* A message that is in one place occupies one of the places of NadaRetidoParaTras.
LEMMA UmLugar ==
  ASSUME LugarInv, NEW m \in DoSFU, NEW l \in Lugares(m), NEW o \in Lugares(m)
  PROVE  l = o
<1>1. /\ EmUmLugar(m) /\ m.visita \in Visita /\ MaosCertas
  BY Tipado DEF LugarInv
<1>2. ASSUME NEW p \in Lugares(m)
      PROVE  \/ \E g \in Emissor : p = <<"mao", g>> /\ emissor[g] # Parado /\ emissor[g].msg = m
             \/ \E k \in Visita : p = <<"leitor", k>> /\ k = visita /\ NoLeitor(m)
             \/ \E i \in DOMAIN retidas[m.visita] : p = <<"retida", i>> /\ retidas[m.visita][i] = m
             \/ \E i \in DOMAIN pendentes : p = <<"pendente", i>> /\ pendentes[i] = m
             \/ \E i \in DOMAIN fila : p = <<"fila", i>> /\ fila[i] = m
  BY <1>2 DEF Lugares, Posicoes, NoLeitor
<1>3. ASSUME NEW p \in Lugares(m)
      PROVE  \/ p[1] = "mao" /\ NaMao(m)
             \/ p[1] = "leitor" /\ NoLeitor(m)
             \/ p[1] = "retida" /\ Retida(m)
             \/ p[1] = "pendente" /\ Pendente(m)
             \/ p[1] = "fila" /\ NaFila(m)
  BY <1>2, <1>3 DEF NaMao, Retida, Pendente, NaFila, Tem
<1>4. l[1] = o[1]
  BY <1>1, <1>3 DEF EmUmLugar, PorEntregar
<1>5. ASSUME NEW g \in Emissor, NEW h \in Emissor,
             emissor[g] # Parado, emissor[g].msg = m, emissor[h] # Parado, emissor[h].msg = m
      PROVE  g = h
  BY <1>1, <1>5 DEF MaosCertas
<1>9. ASSUME NEW p \in Lugares(m)
      PROVE  /\ p[1] = "mao" => \E g \in Emissor : p = <<"mao", g>> /\ emissor[g] # Parado /\ emissor[g].msg = m
             /\ p[1] = "leitor" => p[2] = visita
             /\ p[1] = "retida" => \E i \in DOMAIN retidas[m.visita] : p = <<"retida", i>> /\ retidas[m.visita][i] = m
             /\ p[1] = "pendente" => \E i \in DOMAIN pendentes : p = <<"pendente", i>> /\ pendentes[i] = m
             /\ p[1] = "fila" => \E i \in DOMAIN fila : p = <<"fila", i>> /\ fila[i] = m
  <2>1. CASE \E g \in Emissor : p = <<"mao", g>> /\ emissor[g] # Parado /\ emissor[g].msg = m
    BY <2>1
  <2>2. CASE \E k \in Visita : p = <<"leitor", k>> /\ k = visita /\ NoLeitor(m)
    BY <2>2
  <2>3. CASE \E i \in DOMAIN retidas[m.visita] : p = <<"retida", i>> /\ retidas[m.visita][i] = m
    BY <2>3
  <2>4. CASE \E i \in DOMAIN pendentes : p = <<"pendente", i>> /\ pendentes[i] = m
    BY <2>4
  <2>5. CASE \E i \in DOMAIN fila : p = <<"fila", i>> /\ fila[i] = m
    BY <2>5
  <2> QED BY <1>2, <2>1, <2>2, <2>3, <2>4, <2>5
<1>6. l[2] = o[2]
  <2>1. CASE l[1] = "mao"
    <3>1. PICK g \in Emissor : l = <<"mao", g>> /\ emissor[g] # Parado /\ emissor[g].msg = m
      BY <1>9, <2>1
    <3>2. PICK h \in Emissor : o = <<"mao", h>> /\ emissor[h] # Parado /\ emissor[h].msg = m
      BY <1>9, <1>4, <2>1
    <3> QED BY <1>5, <3>1, <3>2
  <2>2. CASE l[1] = "leitor"
    <3>1. l[2] = visita /\ o[2] = visita
      BY <1>9, <1>4, <2>2
    <3> QED BY <3>1
  <2>3. CASE l[1] = "retida"
    <3>1. PICK i \in DOMAIN retidas[m.visita] : l = <<"retida", i>> /\ retidas[m.visita][i] = m
      BY <1>9, <2>3
    <3>2. PICK j \in DOMAIN retidas[m.visita] : o = <<"retida", j>> /\ retidas[m.visita][j] = m
      BY <1>9, <1>4, <2>3
    <3> QED BY <1>1, <3>1, <3>2 DEF EmUmLugar, UmaVez
  <2>4. CASE l[1] = "pendente"
    <3>1. PICK i \in DOMAIN pendentes : l = <<"pendente", i>> /\ pendentes[i] = m
      BY <1>9, <2>4
    <3>2. PICK j \in DOMAIN pendentes : o = <<"pendente", j>> /\ pendentes[j] = m
      BY <1>9, <1>4, <2>4
    <3> QED BY <1>1, <3>1, <3>2 DEF EmUmLugar, UmaVez
  <2>5. CASE l[1] = "fila"
    <3>1. PICK i \in DOMAIN fila : l = <<"fila", i>> /\ fila[i] = m
      BY <1>9, <2>5
    <3>2. PICK j \in DOMAIN fila : o = <<"fila", j>> /\ fila[j] = m
      BY <1>9, <1>4, <2>5
    <3> QED BY <1>1, <3>1, <3>2 DEF EmUmLugar, UmaVez
  <2> QED BY <1>3, <2>1, <2>2, <2>3, <2>4, <2>5
<1>7. \E a, b : l = <<a, b>>
  BY <1>2
<1>8. \E a, b : o = <<a, b>>
  BY <1>2
<1> QED BY <1>4, <1>6, <1>7, <1>8

LEMMA AlgumLugar ==
  ASSUME LugarInv, NEW m \in DoSFU, Presente(m)
  PROVE  \E l : l \in Lugares(m)
<1>1. CASE NaMao(m)
  <2>1. PICK g \in Emissor : emissor[g] # Parado /\ emissor[g].msg = m
    BY <1>1 DEF NaMao
  <2>2. <<"mao", g>> \in Lugares(m)
    BY <2>1 DEF Lugares
  <2> QED BY <2>2
<1>2. CASE NoLeitor(m)
  <2>1. visita \in Visita
    BY <1>2, Tipado DEF Tipos, NoLeitor
  <2>2. <<"leitor", visita>> \in Lugares(m)
    BY <1>2, <2>1 DEF Lugares, NoLeitor
  <2> QED BY <2>2
<1>3. CASE Retida(m)
  <2>1. PICK i \in DOMAIN retidas[m.visita] : retidas[m.visita][i] = m
    BY <1>3 DEF Retida, Tem
  <2>2. <<"retida", i>> \in Lugares(m)
    BY <2>1 DEF Lugares, Posicoes
  <2> QED BY <2>2
<1>4. CASE Pendente(m)
  <2>1. PICK i \in DOMAIN pendentes : pendentes[i] = m
    BY <1>4 DEF Pendente, Tem
  <2>2. <<"pendente", i>> \in Lugares(m)
    BY <2>1 DEF Lugares, Posicoes
  <2> QED BY <2>2
<1>5. CASE NaFila(m)
  <2>1. PICK i \in DOMAIN fila : fila[i] = m
    BY <1>5 DEF NaFila, Tem
  <2>2. <<"fila", i>> \in Lugares(m)
    BY <2>1 DEF Lugares, Posicoes
  <2> QED BY <2>2
<1> QED BY <1>1, <1>2, <1>3, <1>4, <1>5 DEF Presente, PorEntregar

\* Whatever goroutine is inside enviarDoSFU while the gate opens, every offer is in one
\* place until it is queued, and the list of an open gate is empty (hub.go:245-299).
THEOREM NadaFicaRetido == Spec => []NadaRetidoParaTras
<1>1. ASSUME LugarInv PROVE NadaRetidoParaTras
  <2>1. ASSUME NEW k \in Visita, NEW n \in 1..feitas[k]
        PROVE  \E l \in Lugares(Oferta(k, n)) : Lugares(Oferta(k, n)) = {l}
    <3>0. PICK m : m = Oferta(k, n)
      OBVIOUS
    <3>1. feitas[k] \in 0..MaxOfertas
      BY <1>1, Tipado DEF Tipos
    <3>2. n \in 1..MaxOfertas /\ n <= feitas[k]
      BY <3>1, PortaoAssumption
    <3>3. m \in DoSFU /\ m.tipo = "oferta" /\ m.visita = k /\ m.n = n
      BY <3>0, <3>2 DEF Oferta, DoSFU
    <3>4. Presente(m)
      BY <1>1, <3>2, <3>3 DEF LugarInv, OfertaCerta
    <3>5. PICK l : l \in Lugares(m)
      BY <1>1, <3>3, <3>4, AlgumLugar
    <3>6. \A o \in Lugares(m) : o = l
      BY <1>1, <3>3, <3>5, UmLugar
    <3> QED BY <3>0, <3>5, <3>6
  <2>2. ASSUME NEW k \in Visita, NEW l \in Lugares(Candidato(k)), NEW o \in Lugares(Candidato(k))
        PROVE  l = o
    <3>1. Candidato(k) \in DoSFU
      BY <1>1, Tipado
    <3> QED BY <1>1, <3>1, UmLugar
  <2> QED BY <1>1, <2>1, <2>2 DEF LugarInv, NadaRetidoParaTras
<1> QED BY <1>1, LugarSempre, PTL

\* The offers of a session are queued in the order they were made: the one that is not in
\* the queue is the last, and no other is made before it is answered (sfu.go, oferecer).
THEOREM OrdemSempre == Spec => []OfertasEmOrdem
<1>1. LugarInv => OfertasEmOrdem
  BY DEF LugarInv
<1> QED BY <1>1, LugarSempre, PTL
-----------------------------------------------------------------------------
(***************************************************************************)
(* The pings: at every moment somebody has a time that was stored and not  *)
(* broadcast.                                                              *)
(***************************************************************************)
PingTipado ==
  /\ visita \in 0..MaxVisitas /\ (fase # "fora" => visita > 0)
  /\ sala \in Seq(Sala) /\ Len(sala) = visita
  /\ pingMs \in Nat /\ divulgado \in Nat
  /\ sujas \subseteq Sala /\ difusao \in [salas : SUBSET Sala, sala : SUBSET Sala]

PingInv == PingTipado /\ PingACaminho

LEMMA PingNoInicio == Init => PingInv
<1> SUFFICES ASSUME Init PROVE PingInv
  OBVIOUS
<1>1. PingTipado
  BY PortaoAssumption DEF Init, PingTipado
<1> QED BY <1>1 DEF Init, PingInv, PingACaminho, NaSala

LEMMA PingTipadoNoPasso ==
  ASSUME PingTipado, [Next]_vars
  PROVE  PingTipado'
<1> USE DEF pings, portao, sessoes
<1>1. CASE Entrar
  <2>1. PICK s \in Sala : sala' = Append(sala, s)
    BY <1>1 DEF Entrar
  <2>2. sala' \in Seq(Sala) /\ Len(sala') = visita + 1
    BY <2>1 DEF PingTipado
  <2> QED BY <1>1, <2>2, PortaoAssumption DEF Entrar, PingTipado
<1>2. CASE ResponderPing
  BY <1>2 DEF ResponderPing, PingTipado
<1>3. CASE Tique
  <2>1. /\ UNCHANGED <<visita, fase, sala, pingMs, divulgado>> /\ sujas' = {}
        /\ difusao' = [salas |-> sujas, sala |-> {}]
    BY <1>3 DEF Tique
  <2> QED BY <2>1 DEF PingTipado
<1>4. CASE ListarMembros \/ Transmitir
  BY <1>4 DEF ListarMembros, Transmitir, PingTipado, NaSala
<1>5. CASE Anunciar \/ MarcarPings \/ Despedir
  <2>1. /\ UNCHANGED <<visita, sala, pingMs, divulgado, difusao>> /\ fase # "fora"
        /\ sujas' \subseteq sujas \cup {sala[visita]}
    BY <1>5 DEF Anunciar, MarcarPings, Despedir
  <2>2. sala[visita] \in Sala
    BY <2>1 DEF PingTipado
  <2> QED BY <2>1, <2>2 DEF PingTipado
<1>6. CASE Registrar \/ NaoAbrir \/ Oferecer \/ Adiar \/ FalharOferta \/ EnviarOferta
           \/ Apresentar \/ Liberar \/ Despejar \/ SairDoSFU \/ Responder \/ Sair \/ AoMudarEstado
  <2>1. UNCHANGED <<visita, sala, pings>> /\ (fase # "fora" \/ UNCHANGED fase)
    BY <1>6 DEF Registrar, NaoAbrir, Oferecer, Adiar, FalharOferta, EnviarOferta, Apresentar,
                Liberar, Despejar, SairDoSFU, Responder, Sair, AoMudarEstado
  <2> QED BY <2>1 DEF PingTipado
<1>7. CASE (\E k \in Visita : \/ MarcarOferta(k) \/ OferecerFaixa(k)
                            \/ FalharFaixa(k) \/ AcharCandidato(k))
           \/ (\E g \in Emissor : Passar(g) \/ Entregar(g)) \/ UNCHANGED vars
  <2>1. UNCHANGED <<visita, fase, sala, pings>>
    BY <1>7 DEF MarcarOferta, OferecerFaixa, FalharFaixa, AcharCandidato, Passar, Entregar, vars
  <2> QED BY <2>1 DEF PingTipado
<1> QED BY <1>1, <1>2, <1>3, <1>4, <1>5, <1>6, <1>7 DEF Next, Leitor

LEMMA PingNoPasso == PingInv /\ [Next]_vars => PingInv'
<1> SUFFICES ASSUME PingInv, [Next]_vars PROVE PingACaminho'
  BY PingTipadoNoPasso DEF PingInv
<1> USE DEF pings, portao, sessoes
<1> DEFINE ACaminho == sujas \cup difusao.salas \cup difusao.sala
<1>0. PingTipado /\ PingTipado' /\ PingACaminho
  BY PingTipadoNoPasso DEF PingInv
\* The reader on its way into the room: it marks the room at the end.
<1>1. CASE Entrar \/ Registrar \/ NaoAbrir \/ Apresentar \/ Liberar \/ Despejar
  <2>1. PorMarcar'
    BY <1>1 DEF Entrar, Registrar, NaoAbrir, Apresentar, Liberar, Despejar, PorMarcar
  <2> QED BY <2>1 DEF PingACaminho
<1>8. CASE ResponderPing
  <2>1. PorMarcar' \/ ~NaSala'
    BY <1>8 DEF ResponderPing, PorMarcar, NaSala
  <2> QED BY <2>1 DEF PingACaminho
\* The offers of the reader, on its way in or after an answer.
<1>9. CASE Oferecer \/ Adiar \/ FalharOferta \/ EnviarOferta \/ Responder
  <2>1. UNCHANGED <<visita, sala, pings>> /\ NaSala /\ (PorMarcar => PorMarcar')
    BY <1>9 DEF Oferecer, Adiar, FalharOferta, EnviarOferta, Responder, PorMarcar, NaSala
  <2> QED BY <1>0, <2>1 DEF PingACaminho
<1>2. CASE Anunciar \/ MarcarPings
  <2>1. sala'[visita'] \in sujas'
    BY <1>2 DEF Anunciar, MarcarPings
  <2> QED BY <2>1 DEF PingACaminho
\* Out of the table: nobody has to be told any more.
<1>3. CASE Sair \/ SairDoSFU \/ Despedir
  <2>1. ~NaSala'
    BY <1>3 DEF Sair, SairDoSFU, Despedir, NaSala
  <2> QED BY <2>1 DEF PingACaminho
<1>4. CASE Tique
  <2>1. /\ difusao'.salas = sujas /\ sujas' = {} /\ difusao.salas = {} /\ difusao.sala = {}
        /\ UNCHANGED <<fase, visita, sala, pingMs, divulgado>>
    BY <1>4 DEF Tique
  <2> QED BY <1>0, <2>1 DEF PingACaminho, PorMarcar, NaSala
<1>5. CASE ListarMembros
  <2>0. PICK s \in difusao.salas :
          difusao' = [salas |-> difusao.salas \ {s},
                      sala |-> IF NaSala /\ sala[visita] = s THEN {s} ELSE {}]
    BY <1>5 DEF ListarMembros
  <2>1. /\ difusao.sala = {}
        /\ difusao'.salas = difusao.salas \ {s}
        /\ difusao'.sala = IF NaSala /\ sala[visita] = s THEN {s} ELSE {}
    BY <1>5, <2>0 DEF ListarMembros
  <2>2. UNCHANGED <<fase, visita, sala, pingMs, sujas, divulgado>>
    BY <1>5 DEF ListarMembros
  <2> QED BY <1>0, <2>1, <2>2 DEF PingACaminho, PorMarcar, NaSala
<1>6. CASE Transmitir
  <2>1. divulgado' = pingMs /\ pingMs' = pingMs
    BY <1>6 DEF Transmitir
  <2> QED BY <1>0, <2>1 DEF PingACaminho, PingTipado
<1>7. CASE AoMudarEstado \/ (\E k \in Visita : \/ MarcarOferta(k) \/ OferecerFaixa(k)
                            \/ FalharFaixa(k) \/ AcharCandidato(k))
           \/ (\E g \in Emissor : Passar(g) \/ Entregar(g)) \/ UNCHANGED vars
  <2>1. UNCHANGED <<visita, fase, sala, pings>>
    BY <1>7 DEF AoMudarEstado, MarcarOferta, OferecerFaixa, FalharFaixa, AcharCandidato, Passar, Entregar, vars
  <2> QED BY <1>0, <2>1 DEF PingACaminho, PorMarcar, NaSala
<1> QED BY <1>1, <1>2, <1>3, <1>4, <1>5, <1>6, <1>7, <1>8, <1>9 DEF Next, Leitor

\* A round-trip time that was stored is broadcast, or somebody has still to do it: the
\* reader its mark, or the ticker the room (responderPing, marcarPings, esvaziarPings,
\* transmitirPings), for any number of rooms, visits and reports.
THEOREM PingSempreACaminho == Spec => []PingACaminho
<1>1. PingInv => PingACaminho
  BY DEF PingInv
<1> QED BY <1>1, PingNoInicio, PingNoPasso, PTL DEF Spec
=============================================================================
