SPECIFICATION FairSpec
CONSTANTS
  c1 = c1 c2 = c2
  i = i j = j
  Ligacao = {c1, c2}
  Observada = c1
  Endereco = {i, j}
  Nenhum = Nenhum
  De <- MCDe
  totalMaximo = 2
  porLimite = 1
  tamanhoMaximoMensagem = 126
  Quadros <- Todos
  MaxQuadros = 3
INVARIANTS ContasCertas SocketsContados MontagemLimitada
PROPERTIES ImplementaMensagens TudoDevolvido MensagemChega
CHECK_DEADLOCK FALSE
