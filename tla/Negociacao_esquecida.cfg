SPECIFICATION FairSpec
CONSTANTS
  Faixa = {f1}
  leitor = leitor
  MaxOfertasCliente = 1
  MaxCandidatos = 0
  MaxIniciativas = 1
  limiteCandidatos = 2
PROPERTIES TodasNegociadas
CHECK_DEADLOCK FALSE
