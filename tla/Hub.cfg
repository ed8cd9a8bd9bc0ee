SPECIFICATION FairSpec
CONSTANTS
  Peer = {p1, p2}
  Sala = {a, b}
  Nenhuma = Nenhuma
  Limites = {1, 2}
INVARIANTS TabelaCoerente LimiteRespeitado Apresentados RemetenteConhecido
PROPERTIES Recolhida JuncaoTermina
CHECK_DEADLOCK FALSE
