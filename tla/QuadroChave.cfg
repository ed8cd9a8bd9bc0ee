SPECIFICATION Spec
CONSTANTS
  Espectador = {v1, v2}
  publicacao = publicacao
  Intervalo = 1
  Esperas <- RitmoLargo
  MaxAvisos = 2
SYMMETRY Simetria
INVARIANTS UmaSerie IniciadorAtendido
CHECK_DEADLOCK FALSE
