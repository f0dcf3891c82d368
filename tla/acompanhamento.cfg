SPECIFICATION SpecAcompanhamento
CONSTANTS
  MaxPareceres = 2
  MaxImagens = 1
  MaxRodadas = 2
  SaldoParecer = 1
  Clientes = {"c1"}
  Achados = {}
  MaxExclusoes = 2
  MaxPedidos = 2
  MaxPersonas = 1
  Itens = {"i1"}
  MaxEdicoes = 2
  MaxConsolidar = 2
  MaxConsultas = 2
INVARIANTS
  AcompanhamentoTypeOK
  ListaConfere
  IndiceSabido
  ChecklistConfere
PROPERTIES
  ParecerTermina
  IndiceConverge
  ConsolidacaoTermina
CHECK_DEADLOCK FALSE
