# GreenLabs server: TLA+ models and proofs

The repository is a Go server for screen sharing: a WebSocket signalling server with
rooms (`src/src/hub.go`, `websocket.go`, `sinalizacao.go`), an optional media relay, the
SFU (`src/src/sfu.go`), and a stand-alone bridge (`src/cmd/ponte`). Nothing is persisted;
what is hard in it is concurrency. Handlers of different connections run at the same
time, take locks for short sections and send their messages after releasing them, and
callbacks of the WebRTC library (pion) enter the same state from goroutines of their own.

Names in the modules are those of the source (`entrar`, `Sair`, `renegociarDepois`, ...).
Operators that end in `ComDefeito` (and `RetirarSemFechar`, `RetirarApagando`,
`FecharConexaoEsperando` in `Sfu`, `PassarSemPortao` in `Portao`, `LerErroNoMeio` in
`Leitor`) are plausible mistakes in the definition that follows them; no specification uses
them. Replacing the definition by its faulty form must make the property named in
`PROJECT.json` fail.

## 1. Inventory

| Component | State | Operations | Interacts with | What is hard | Correct when |
|---|---|---|---|---|---|
| Hub (`hub.go`) | room table `salas`, `Peer.sala`, dirty rooms `pingSujas` | `entrar`, `Sair`, `Tratar` (relay), pings | writes to the connections, calls the SFU | sections under `h.mu`, messages after it; `p.mu` and `h.mu` are never held together | one room per peer, limit, no abandoned entry, members know of each other |
| Send side of a connection (`websocket.go`) | channel `saida`, `bytesNaFila`, `fechado` | `enfileirar`, `Rejeitar`, `Fechar`, `Escritor`, `drenar` | every sender; the reader through the closed socket | no lock: channel, atomic counter and close race | counter exact, limits, no gap in the stream, drains and ends |
| Receive side (`websocket.go`) | `montagem`, `montando` | `lerQuadro`, `Ler` | hands messages to `Tratar` | fragment assembly around control frames, length boundaries, a connection that ends inside a frame | a message comes out whole, in order and within the limit, or not at all |
| SFU sessions (`sfu.go`) | `salas`, `faixas`, `saidas`, senders | `Entrar`, `Sair`, `aoReceberFaixa`, `assinar`, `removerFaixa`, state callback | hub (calls), pion (callbacks) | snapshots used after `s.mu`; two callers of `Sair`; callbacks that arrive late | nobody misses a track, no connection is leaked, tracks of who left go off the air |
| SFU negotiation (`sfu.go`) | `oferecendo`, `renegociarDepois`, `candidatosPendentes`, signalling state | `oferecer`, `Descricao`, `Candidato` | client (messages), pion | check and change of the signalling state are not one section | one offer at a time, candidates applied, everything negotiated |
| SFU key frames (`sfu.go`) | `ultimaChave`, `repetindoChave` | `pedirChave`, `insistirNaChave`, `pedirChaveDeTudo`, `lerRTCPDaSaida` | publisher's session | sleeping series, rate limit, spectators that connect meanwhile | one series, whoever needs a key frame has one requested |
| Hub to SFU gate (`hub.go:241-299`) | `sfuLiberado`, `mensagensSFU` | `enviarDoSFU` | SFU, connection | three goroutines of a session in the gate while the reader opens it; the flush runs outside `sfuMu`; a session of a former visit still sends | `joined` before any offer, nothing left behind, offers in order |
| Server (`sinalizacao.go`, end of `main.go`) | `vagas`, `conexoes`, `encerrando` | `atenderWebSocket`, `baterCoracao`, `Fechar` | all of the above | handshakes that finish during a shutdown; goroutines per connection | places conserved, nobody escapes the shutdown |
| Ping coalescing | `pingSujas`, `pingMs` | `marcarPings`, `esvaziarPings` | hub | swap of the set against marks | a marked room is broadcast |
| Bridge (`cmd/ponte`) | `porIP`, `total`, two sockets and two goroutines per connection | `reservar`, `devolver`, `atender`, `copiar` | client, target server | counters on every way out; one direction ends and the other sleeps in a read; idle deadline per direction | counters conserved, everything comes back, bytes pass in order |
| Tunnel, download, console, configuration, status pages, load tool, packaging | little or none | | | start-up, text, external programs | |

`PROJECT.json` lists every component with its status and every hazard with its line.

## 2. Modules

| Module | Models | Correspondence |
|---|---|---|
| `Hub` | rooms, membership, relay, who has been told of whom | one reader goroutine per connection, `fase[p]` says where it is; each section under `p.mu` is an action (`Sair`, `Escolher`, `Esquecer`), each under `h.mu` another (`Remover`, `Inscrever`, `RecusarSalaCheia`), and each message sent after it one more (`Apresentar`, `Anunciar`, `Despedir`, `EntregarRepasse`). `Sair` of the code is `Sair` (the room recorded is cleared), `Remover`, `Despedir`*, `TerminarSaida`; `entrar` is `Entrar` (the `Sair` it starts with), `Escolher`, then `Inscrever`, `Apresentar`, `Anunciar`*, `TerminarEntrada`, or `RecusarSalaCheia`, `Esquecer`, `Rejeitar`. Between a section of `p.mu` and the one of `h.mu` that goes with it the recorded room and the table disagree: these windows are the stages "retirar", "inscrever" and "recusar". `visao[p]` is what the messages queued to `p` say about presence. |
| `Conexao` | abstract: what the server counts on a connection to do | accepted messages are written in order; told to close, it ends with everything written unless a write failed |
| `FilaSaida` | `enfileirar`, `Rejeitar`, `Fechar`, `Escritor`, `drenar` | every shared access is a step; implements `Conexao` (`ImplementaConexao`), `fluxo` mapped to itself and `pendente` to what the writer holds followed by the channel |
| `Sfu` | sessions, tracks, subscriptions in one room | readers (`fase`), one goroutine per track (`publicacao`) and one per state callback (`avisos`); sections under `s.mu` are `Entrar`, `Retirar`, `Publicar`, `RemoverFaixa`. A session is `<<participant, how many times it entered>>`. |
| `Negociacao` | one session and its client | `passo[g]` follows each goroutine through `oferecer` and `Descricao`: the reader, and one per track, which adds its transceiver (`Assinar`), drops it when the track ends (`Remover`, of `removerFaixa`) and calls `oferecer` both times; pion is its signalling state; `descida`, `subida` are the ordered messages to and from the client |
| `QuadroChave` | key-frame requests for one track | `passo` of each series and each feedback reader; pion starts a goroutine per state change, so a spectator may have several callbacks at work (`avisados`, `insistindo`); the track leaves the list by `removerFaixa` (`SairDoAr`) or with the last session of the room (`Sair`, `PublicadorSai`); time is relative (age of the last request, remaining sleep), so no clock is bounded |
| `Servidor` | admission, life of a handler and its goroutines, shutdown | `etapa[c]` follows `atenderWebSocket` and its defers in order; `passo` follows `Fechar` and the end of `main` |
| `Portao` | what one participant is sent as it moves through rooms: the gate `enviarDoSFU` and the pings of its room | `fase` follows the reader through `entrar` and `Sair`; visit `k` has its own session and its own gate (`liberado[k]`, `retidas[k]`), as each call of `entrar` has its own closure. `emissor` are the goroutine of a track and the ICE callback of each visit, which may be inside the gate when the visit ends and still be there in the next. The former takes the marker (`MarcarOferta`), then makes its offer or fails (`OferecerFaixa`, `FalharFaixa`); the reader makes the first offer and, after an answer, the one that was put off (phases "oferecer" and "renegociar"). `pingMs` and `sujas` are stored and marked in two steps, the ticker swaps the set in one (`Tique`). |
| `Mensagens` | abstract: what a handler counts on when it reads | completed messages are handed over whole, once, in order and without a gap until the connection ends |
| `Leitor` | `lerQuadro`, `Ler` | a frame is two or three units, one per blocking read; `LerCabecalho`, `LerExtensao` and the four cases of `Ler` consume them; `montagem` is the lengths of the fragments, with the 7, 16 and 64 bits a length takes on the wire |
| `Ponte` | `cmd/ponte`: `reservar`, `devolver`, `atender`, `copiar` | `etapa[c]` follows the handler and its deferred calls, `copia[c]` the two goroutines; the bytes of one observed connection pass through `enviado`, `mao`, `recebido` |
| `Caminho` | composition of `Ponte` and `Leitor` with a client | `INSTANCE Ponte`, and `INSTANCE Leitor` with its input substituted by what the bridge wrote; `Incorreto` judges frames by RFC 6455, apart from how the reader does it; implements `Mensagens` (`ImplementaMensagens`) |
| `HubProofs`, `FilaSaidaProofs`, `SfuProofs`, `NegociacaoProofs`, `QuadroChaveProofs`, `ServidorProofs`, `PortaoProofs`, `CaminhoProofs` | proofs | section 4 |
| `MC...` | definitions for TLC: symmetry, values | |

How they compose: `Servidor` is the life around a connection, whose reader is a process of
`Hub`, whose send side is `FilaSaida`; `Hub` uses a connection only as `Conexao` describes
it (open, told to close, ended). `Hub` calls `Sfu.Entrar` and `Sfu.Sair` (the reader of
`Sfu`), and what a session of `Sfu` says to its client is `Negociacao`. `QuadroChave` is the
part of `Sfu` that concerns the feedback of one track. `Portao` is where `Hub` and `Sfu` meet
on the way to one connection: it has the order of `entrar` from `Hub`, the offers of
`Negociacao` one at a time, and the late callback of `Sfu`. `Caminho` composes the bridge
and the receive side, and what comes out of it (`Mensagens`) is what the reader of `Hub`
takes in. Each module takes the others by the interface that the code uses.

## 3. Runs

Every configuration says `CHECK_DEADLOCK FALSE`: connections, goroutines and the server all
end, and what is bounded (calls, visits) runs out; a state without successor is normal.

| Run | Instance | Shows |
|---|---|---|
| `hub` | 2 connections, 2 rooms, 1 or 2 places per room, fair; 168,946 states | `TabelaCoerente` (outside the windows a peer is listed in the room it recorded and no other, inside them where `Lugar` says; empty rooms are gone), `LimiteRespeitado`, `Apresentados`, `RemetenteConhecido` (newcomers included), `Recolhida`, `JuncaoTermina` (in the room, or told to close) |
| `hub_fantasma` | 2 connections, 2 rooms | violation of `SemFantasma` |
| `filaSaida` | 2 senders, 2 calls each, sizes 0 and 1, queue of 2 frames and 1 byte, fair | `BytesConservados`, `FilaLimitada`, `SemLacuna`, `EncerraSozinha`, `ImplementaConexao` |
| `sfu` | publisher that enters twice with a new track id, one watcher | `SemConexaoOrfa`, `PublicadaNoAr`, `Assinados`, `FaixasDeVivas`, `SemBloqueio` |
| `sfu_conexao_perdida` | as `sfu`, with the same track id | violation of `MantemConexao` |
| `negociacao` | 2 tracks that come and go, 2 offers and 3 candidates of the client, of which 2 may wait, fair; 1,226,455 states | `SemOfertaSobreOferta`, `OfertaEmUmLugar`, `CandidatosAplicados`, `NenhumaEsquecida`, `NegociadaPermanece`, `NegociadasSemOferta` |
| `negociacao_esquecida` | 1 track, 1 offer of the client, fair | violation of `TodasNegociadas` |
| `quadroChave` | 2 spectators, 2 callbacks at a time, ticks of 500 ms; 2,404,049 states | `UmaSerie`, `IniciadorAtendido` |
| `quadroChave_sem_pedido` | 1 spectator, ticks of 250 ms, fair | violation of `TodosComChave` |
| `servidor` | 3 clients, 2 places, fair | `VagasConservadas`, `NenhumaEscapa`, `MidiaPorUltimo`, `FechoAssegurado`, `SemGoroutinePerdida`, `TudoLiberado` |
| `portao` | 1 participant, 2 visits to a room, 2 offers and 1 candidate per visit, 1 ping, fair; 944,445 states | `JoinedPrimeiro`, `NadaRetidoParaTras`, `OfertasEmOrdem`, `PingDivulgado` |
| `caminho` | 2 connections, 2 addresses, 2 places in all and 1 per address, up to 3 frames of 8 kinds, fair; 572,307 states | `ContasCertas`, `SocketsContados`, `MontagemLimitada`, `ImplementaMensagens`, `TudoDevolvido`, `MensagemChega` |

Why the bounds are enough. The hub's properties relate two peers and a room. The limit is a
variable fixed at the start to 1 or 2: with one place two peers compete for it, with two
they meet in a room, and the second room makes a move possible. That nothing depends on how
many there are is what the proofs add. In the queue, two senders that each send twice with a
queue of two frames reach every combination of full by count, full by bytes and closed while
another sender is between two of its steps; a zero-byte frame is a ping. In the SFU a
session of one participant interacts with another only through the list of tracks and the
registry, so one publisher and one watcher meet every order of snapshot, subscription and
removal, and the second visit of the publisher is what a late callback can hurt.
`FaixasDeVivas` is about the states in which no goroutine of the SFU is in the middle of its
work, and `SemBloqueio` about all the others: one of them can always move. Two tracks and
the reader are three concurrent callers of `oferecer`, and two offers of the client one that
is in the way and one more. Three candidates with a limit of two fill the list of those that
wait with more than one and overflow it; once the client has made an offer, it makes one
more or sends one candidate (`MaxIniciativas`), which is what their orders need. Three
clients for two places fill the server and leave one to be refused. Bounds that no code has
are named so where they are declared: `MaxEnvios`, `MaxSessoes`, `MaxOfertasCliente`,
`MaxCandidatos`, `MaxIniciativas`, `MaxVisitas`, `MaxOfertas`, `MaxJuntas`, `MaxPings`,
`MaxAvisos`, `MaxQuadros`. `MaxAvisos` is on the state callbacks of spectators that are at
work at the same time: with two, both may be of one spectator whose transport fell and came
back.

In `portao` two visits are what a message of a former session needs to come late, and two
offers per session what an order of offers needs; the one room is entered twice, which is
the harder case, since the late state callback acts on the same name. Each session has its
emitters, so the goroutines of both visits are in the gate together. The two sessions make
three offers together (`MaxJuntas`), so that either has an order to keep while the other is
at work. In `caminho` three frames make a start, a control frame and a continuation, in any
order; the eight kinds are chosen at the boundaries: payloads of 125, 126 and 65536 take the
three widths of a length, fragments of 125 + 1 and 125 + 2 meet the limit of 126 exactly and
pass it by one, and three frames break the protocol in three ways (too large, fragmented
control frame, no mask). The second connection takes the places the first one competes for:
from the same address it is refused by the limit per address. With two connections the limit
in all refuses nobody and no address holds two places; these cases are covered by the
theorem (`ContasSempre`). `Enviar` says which interleavings of the two are left out: a
connection that carries bytes touches no variable of another.

Fairness. Goroutines are scheduled (weak fairness on the steps of each goroutine), a read of
a closed socket fails, a client goes on handling what it is sent (`Negociacao`), time passes
(`QuadroChave`), the ticker of pings ticks (`Portao`), and while anything in the bridge or
the reader has work to do, one of them does it (`Caminho`). In `Portao` the reader and the
ticker alone are fair: pings wait for no goroutine of the session. Nothing that a person
decides is fair: nobody has to enter, leave, publish, answer, send or stop; no deadline has
to pass. In `FilaSaida` a write ends because it has a deadline of 10 s (`SetWriteDeadline`),
and the choice of `select` between a frame and `fechado` is fair as Go's is random: that is
a strong fairness. In `Hub` so is the error of a reader whose socket is gone, which may
first handle what its buffer still holds. In `Conexao` the abstract `Encerrar` is strongly
fair because frames may be accepted while it waits.

### What disagrees with the text of the repository

The four violation runs are findings (`PROJECT.json` quotes the lines):

1. `hub_fantasma`: a `peer-left` may be queued to a newcomer before the `joined` that
   lists the one who left, who then stays on the newcomer's screen.
2. `sfu_conexao_perdida`: the state callback closes by room and participant; a late
   "closed" of the former session takes down the new one.
3. `negociacao_esquecida`: a renegotiation that was put off is forgotten. The goroutine of a
   track holds the marker `oferecendo`; the reader's own first call of `oferecer` is put off
   by it and sets `renegociarDepois` (`sfu.go:454-456`). The reader then handles an offer of the
   client, which makes the state `have-remote-offer`, so the `SetLocalDescription` of the track's
   goroutine is refused (`sfu.go:472`) and it returns. The reader answers in the branch
   `sfu.go:796-806`, which does not consult the note (only `781-794` does, after an answer). No
   offer of the server is out, no answer will come, and the track is never negotiated,
   although `sfu.go:447-448` gives as the reason for the note that otherwise the participant
   "ficaria sem receber a faixa nova".
4. `quadroChave_sem_pedido`: a spectator that connects when a series started by
   somebody else is at its end gets no request that follows its connection.

Known deviations that the models reach and no run reports, so that no property claims more
than the code does:

- `Sfu`: the tracks that `Entrar` copied can be removed before it subscribes to them
  (`sfu.go:388-399`, `716-745`): the newcomer keeps a sender for a track off the air.
- `Sfu` with `IdEstavel = TRUE`: a participant that publishes again under the same id
  before `removerFaixa` has cleared the former entry is skipped by `assinar`
  (`sfu.go:580`). `Assinados` is checked with `IdEstavel = FALSE`, so it says nothing of
  this case.
- `Servidor`: `main` waits for no handler, so the media port is released while sessions
  may still be registered (`sfu.go:244` has it the other way round). `MidiaPorUltimo` is
  what does hold.
- `FilaSaida`: a frame accepted after `drenar` found the queue empty is never written.
- `Portao`: what was retained is flushed outside `sfuMu`, after the gate opened, so a
  candidate of the session may overtake it (`hub.go:290-299`). Offers do not: one is out at a
  time.
- `Portao`: a goroutine that passed the gate before the participant left queues its message
  after the `joined` of the next visit (`hub.go:256-257`). `JoinedPrimeiro` is therefore said of
  each visit, not of the stream.
- `Portao`: when the first offer fails, `Entrar` returns the error and leaves the session
  registered (`sfu.go:413`); the gate of that visit never opens, and what other goroutines
  send through it is retained until the participant leaves.
- `Portao`: `room-pings` are not held by the gate and may reach a newcomer before `joined`
  (`hub.go:434-468`); they carry no negotiation, and the model leaves them out of `fila`.
- `Ponte`: the idle deadline is that of one direction (`main.go:209`), although the flag is
  described as that of a connection without traffic (`main.go:57`). `InterromperCopia` lets it pass
  at any moment.

## 4. Proofs

All for every value of the constants that the assumptions admit (`HubAssumption` and so on;
they say that sets of goroutines are disjoint, that limits are natural numbers, positive where
the code needs it, and that `Peer`, `Conexoes`, `Faixa` and `Ligacao` are finite where something
is counted, and that the payload of a frame has a length).

- `HubProofs`: `IndInv == TypeOK /\ TabelaCoerente /\ FaseCoerente /\ Noticiados` is
  inductive. `TabelaCoerente` compares the table with `Lugar(p)`: the recorded room, but in the
  windows between a section of `p.mu` and its section of `h.mu` the room that is being left, or
  none. It is not inductive alone: a goroutine that inscribes itself must be known to have
  recorded the room it was asked for, and one that has left to have recorded none, which
  `FaseCoerente` says stage by stage. `Apresentados` and `RemetenteConhecido` need `Noticiados`:
  who has not heard of a fellow member is about to, from its own `joined` or from the other's
  `peer-joined`; with it a relay finds its recipient informed, or about to be sent the `joined`
  that lists the sender. `LimiteSempre` counts with the cardinality lemmas `MaisUm` and `MenosUm`.
- `SfuProofs`: four invariants on top of each other.
  - `RegistroInv` (types, `RegistroCoerente`, `SemConexaoOrfa`). An open connection is the
    registered one of its owner; that needs to know that a reader enters again only when its
    last session is out of the registry, and that a session not yet opened is in no state.
  - `VidaNoPasso`: from `RegistroInv`, the session that `Retirar` finds is a live one, so each
    goes once through its states and is closed by one caller (`SoAvanca`). With it
    `EsperaFundada` is inductive: the reader in `Sair` put its session out itself, and from
    there the session only goes on (`EsperaSempreFundada`).
  - `ListaInv`: a track is in the list only between the section of `aoReceberFaixa` and that
    of `removerFaixa`, and while its session lives it leaves the list in no other way.
    `SempreNoAr` and `SoFaixasDeVivas` follow.
  - `AssinaturaInv` adds `MaosInv` (what the goroutines hold is real: opened sessions,
    published tracks, one pair at a time) and `ParesInv`: of a live session and a track on the
    air, the session has a sender, or a goroutine is adding it, or one still has the pair before
    it; and who is turned away because the key is in `saidas` is turned away by one that has
    the sender or is adding it. `TodosAssinados` follows. Its hypothesis `ChavesDistintas` (two
    tracks have two ids) is what `IdEstavel = FALSE` gives in the run; without it the code
    does skip a track (section 3).
- `FilaSaidaProofs`: `FilaInv`. The frames written, held by the writer and in the channel are,
  while no write has failed, in the order of each sender's calls with none left out
  (`Completa`): a sender that was refused goes on to find the connection closed. `NuncaLacuna`
  follows for what was written. The same invariant gives the refinement: `SegurancaDaConexao`
  shows that every step maps to a step of `Conexao` or to a stutter. `ContaInv` adds the
  accounting: each frame is known by its sender and number, a frame in memory is in one place
  and is none that a sender still has to hand over (`Unicos`), and the frames a sender has
  been admitted with are within the limit (`Cabe`). The bytes counted are therefore the
  elements of a set, one for each frame and position in it, and `BytesSempreConservados` and
  `FilaSempreLimitada` follow by cardinality.
- `NegociacaoProofs`: `UmaPorVez`, the marker `oferecendo` admits one goroutine to the part
  of `oferecer` that makes an offer, and while that one has not set its offer nothing else
  makes the state `have-local-offer`. `SemOfertaSobreOferta` follows. `OfertaInv` counts the
  places an offer may be in; each action moves it from one to the next, and
  `OfertaSempreEmUmLugar` follows. `CandidatosInv` counts the candidates: applied, waiting and
  on their way are those the client sent, unless the limit was reached, and none waits once
  there is a remote description, except while the reader is in the two steps that set it. `CobreInv` compares
  the offers: one that is being made or is out covers every track that is negotiated and
  still sent. A goroutine adds its track once, so what CreateOffer did not see was never
  negotiated or was dropped since, and the marker lets nobody in with an older offer; an answer
  therefore never takes back a track that is sent (`AcordoSoCresce`, an action property).
  `LembradaInv` adds who has a change still to offer, be it a track that came or one that went. The step that matters is the one that leaves a goroutine
  at the marker or at a busy state: it sets `renegociarDepois`, and the owner of the marker or
  the reader with the answer consults it later (`ComMarca`: the marker is up only while some
  goroutine is in the offer). `Quieto` says what cannot be going on while the client makes no
  offer; `negociacao_esquecida` shows that the condition is needed.
- `PortaoProofs`: `PortaoInv`. The gate of a visit opens only after its `joined` was queued, so
  what the reader took out of it and what a goroutine carries past it come later. `LugarInv`
  adds that every message is in one place (a goroutine's hands, the reader's, the list of the
  gate, what was taken out of it, or the queue), and that an offer that is not queued is the
  last of its session and waits for its answer. `NadaFicaRetido` and `OrdemSempre` follow.
  `PingInv`, apart from the gate: the reader has still to mark the room of a stored ping, or the
  room is in one of the sets between the mark and the broadcast.
- `CaminhoProofs`, of the composition:
  - `ContasInv`: a handler that holds a place holds it under an address and leaves it by
    `Devolver` alone; the two counters follow by cardinality.
  - `SocketsInv`: at which stages of `atender` each socket is open, and that a connection whose
    goroutines started is past the stages before and has closed what its stage says;
    `SocketsSempreContados` follows.
  - `PonteInv`: only the observed connection carries bytes, its goroutine holds some between a
    `Read` and a `Write` alone and starts after the buffer was passed on, and the server is
    there while it reads.
  - `FluxoInv`: every unit on its way, from the client through the goroutine's hand to the
    reader, has a note: the frame it belongs to, the message the client was in the middle of
    when it sent it, and the messages completed from there on. The first note agrees with
    what the reader knows and with `emTransito`, each follows from the one before (`Emenda`),
    the last agrees with the client unless the connection was cut (`Final`), and nothing is
    noted past a frame that breaks the protocol or closes. The invariant says that such notes
    exist; `Enviar` appends to them, the reader consumes them from the front, the bridge
    leaves them or cuts them (a `Write` may also pass its deadline of 30 s with the server there). What the reader works out of a header and an extension is the
    length the client meant, for every length (`TamanhoLido`).
  - `MontagemInv`: what is assembled is within the limit; it needs `FluxoInv`, since the length
    of the frame being read is known to be one the header check let through.
  - `MontagemSempreLimitada` follows, and `MensagensInteiras`, which is the whole of
    `ImplementaMensagens`: initial states map to initial states, and every step to one of
    `Mensagens` or to a stutter.
  - The sum of the lengths of a message is a recursive function. What is needed of it
    (`SomaMais`: one more element adds its length) is proved from the well-foundedness of the
    naturals, in the form that a set of numbers which contains 0 and the successor of each of its
    members contains all (`Inducao`).
- `QuadroChaveProofs`: the types and `UmaSerie`, inductive together. `AtendidoInv`: who started
  a series is subscribed while the track is on the air, and it has been served, somebody is
  writing a request, or its second request is yet to come and will not be refused, since the
  second wait is not shorter than the interval (`QuadroChaveAssumption`: both are 500 ms in
  the code).
- `ServidorProofs`: `VagasInv` (places are the handlers that hold one), `EscapeCoberto`
  (what the loop of `Fechar` has yet to close is in its copy, and the flag is up before it),
  `MidiaRegistrada` (sessions belong to registered connections); `NenhumaEscapa` and
  `MidiaPorUltimo` follow. `FechoAssegurado` is inductive with the types alone: each of the ways by
  which a connection leaves a stage hands the closing on or does it.

Every safety invariant and action property that a run checks has its theorem except
`SemBloqueio`, which speaks of `ENABLED`. What it needs of the state is proved as
`EsperaSempreFundada`: the one guard that is about another goroutine, that of `TerminarSaida`,
waits for a session that `MarcarFechada` or `FecharConexao` can close; the others hold of what
the goroutine has in hand.

Some theorems state what no run lists, since a run would say little beside what it checks
already: the type invariants, `IndInv`, `SemAbandonado` (of which `Recolhida` is the stronger
form), `PingACaminho` (the safety part of `PingDivulgado`), `EsperaFundada` (that of
`SemBloqueio`) and `VidaDeSessao`. TLC finds them to hold on the instances of section 3, where
they can be added to the configuration. Only model-checked, then: `SemBloqueio`; liveness (`Recolhida`, `JuncaoTermina`,
`EncerraSozinha`, `NegociadasSemOferta`, `SemGoroutinePerdida`, `TudoLiberado`, `PingDivulgado`,
`TudoDevolvido`, `MensagemChega`); and the fairness of `ImplementaConexao`. All of these are out
of the prover's reach.

## 5. Not modelled

- Text: JSON, `comCampoFrom`, HTTP pages, `.env`, console, log. No property is about it.
- RTP payload and codecs: the relay copies packets; bindings that fail are pion's.
- pion and the client are external: `Falhar`, `FaixaChega`, `ClienteRecebe`,
  `ClienteOferta`, `ClienteCandidato` and the variable group `pion` state what the code
  relies on.
- In `Sfu`, several rooms: they share only the lock. Nor the errors before a session or a track
  is registered (`NewPeerConnection`, `AddTransceiverFromKind`, `NewTrackLocalStaticRTP`): they
  leave nothing behind and the `Sair` that follows finds no session, so that in the state the
  module keeps they are a stutter. `Portao`, where a failed entry changes what the participant
  is sent, has it (`NaoAbrir`).
- Locks, as objects: a section under a lock is one step. `SemBloqueio` therefore notices a
  wait for a session nobody is closing, not a lock held over `Close`.
- Start-up: STUN, the media port, the configuration. It runs once, before anything else
  does, and keeps no state that changes.
- The tunnel and the download of cloudflared: an external program, its log and the disk.
- The load tool and the packaging, which are not part of the server.
- In `Ponte`, the bytes from the server to the client, and the rules of `validar` (addresses and
  ports, no state); in `Leitor`, unmasking, the contents of a payload and UTF-8.
- The heartbeat's period and the read deadline: any connection may be closed at any
  moment (`LerErro`, `FecharPorFora`).

## 6. Plan

Written in this order, the most important behaviour first: `Hub`, `Conexao` and
`FilaSaida`, `Sfu`, `Negociacao`, `Servidor`, `QuadroChave`, then `Portao`, and `Leitor`, `Ponte`,
`Mensagens` with their composition `Caminho`; each with its proofs. What is left:

1. The forwarding of REMB.
2. A composition of `Negociacao` and `Portao`: `Portao` takes it from the interface of the other
   that one offer of a session is out at a time (proved there as `OfertaSempreEmUmLugar`).
