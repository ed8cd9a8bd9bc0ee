SPECIFICATION FairSpec
CONSTANTS
  Faixa = {f1, f2}
  leitor = leitor
  MaxOfertasCliente = 2
  MaxCandidatos = 3
  MaxIniciativas = 2
  limiteCandidatos = 2
INVARIANTS SemOfertaSobreOferta OfertaEmUmLugar CandidatosAplicados NenhumaEsquecida
PROPERTIES NegociadaPermanece NegociadasSemOferta
CHECK_DEADLOCK FALSE
