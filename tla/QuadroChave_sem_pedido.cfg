SPECIFICATION FairSpec
CONSTANTS
  Espectador = {v1}
  publicacao = publicacao
  Intervalo = 2
  Esperas <- Ritmo
  MaxAvisos = 2
PROPERTY TodosComChave
CHECK_DEADLOCK FALSE
