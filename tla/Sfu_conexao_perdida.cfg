SPECIFICATION Spec
CONSTANTS
  Peer = {p1, p2}
  Publica = {p1}
  Volta = {p1}
  MaxSessoes = 2
  IdEstavel = TRUE
INVARIANT MantemConexao
CHECK_DEADLOCK FALSE
