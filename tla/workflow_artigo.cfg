\* The graph of gerar_artigo under crashes, failures and diverged counters.
SPECIFICATION SpecJusta
CONSTANTS
  MaxRevisoes = 3
  MaxFeedback = 3
  CustoBase = 15
  CustoRevisao = 3
  CustoImagem = 5
  MaxTentativas = 3
INVARIANTS
  TetoSoNaDivergencia
  CustoCabeNaReserva
  VersaoRevisada
PROPERTIES
  PerguntaNova
  RespostaALida
  TerminaOuEspera
\* The graph stops when the article is done, failed or orphaned.
CHECK_DEADLOCK FALSE
