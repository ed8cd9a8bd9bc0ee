SPECIFICATION Spec
CONSTANTS
  Peer = {p1, p2}
  Publica = {p1}
  Volta = {p1}
  MaxSessoes = 2
  IdEstavel = FALSE
INVARIANTS SemConexaoOrfa PublicadaNoAr Assinados FaixasDeVivas SemBloqueio
CHECK_DEADLOCK FALSE
