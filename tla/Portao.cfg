SPECIFICATION FairSpec
CONSTANTS
  Sala = {a}
  MaxVisitas = 2
  MaxOfertas = 2
  MaxJuntas = 3
  MaxPings = 1
INVARIANTS JoinedPrimeiro NadaRetidoParaTras OfertasEmOrdem
PROPERTY PingDivulgado
CHECK_DEADLOCK FALSE
