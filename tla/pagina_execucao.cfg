SPECIFICATION SpecExecucaoPagina
CONSTANTS
  Ferramentas = {"gerar_artigo", "inlinks_automaticos", "core_web_vitals"}
  MaxVersoes = 2
  MaxFalhas = 1
INVARIANTS
  VersaoMostrada
  VerdeComResultado
  PaginaConverge
CHECK_DEADLOCK FALSE
