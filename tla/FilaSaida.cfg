SPECIFICATION FairSpec
CONSTANTS
  Remetente = {r1, r2}
  MaxEnvios = 2
  Tamanhos = {0, 1}
  tamanhoFilaSaida = 2
  bytesMaximosFilaSaida = 1
INVARIANTS BytesConservados FilaLimitada SemLacuna
PROPERTIES EncerraSozinha ImplementaConexao
CHECK_DEADLOCK FALSE
