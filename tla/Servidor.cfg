SPECIFICATION FairSpec
CONSTANTS
  Conexoes = {c1, c2, c3}
  maximoConexoes = 2
INVARIANTS VagasConservadas NenhumaEscapa MidiaPorUltimo FechoAssegurado
PROPERTIES SemGoroutinePerdida TudoLiberado
CHECK_DEADLOCK FALSE
