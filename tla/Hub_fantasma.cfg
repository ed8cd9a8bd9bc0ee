SPECIFICATION Spec
CONSTANTS
  Peer = {p1, p2}
  Sala = {a, b}
  Nenhuma = Nenhuma
  Limites = {2}
INVARIANT SemFantasma
CHECK_DEADLOCK FALSE
