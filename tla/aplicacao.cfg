SPECIFICATION SpecAplicacaoJusta
CONSTANTS
  Ferramentas <- MCFerramentas
  FerramentasBarra <- MCFerramentasBarra
  MaxVoltas = 1
  MaxFila = 2
  MaxQuedasConta = 1
  MaxQuedas = 1
  MaxPerdas = 1
  MaxVersoes = 1
  MaxFalhas = 0
  Urls = {"u1"}
  Alvos = {"u1"}
  ClientesF = {"c1"}
  ComIndice = {"c1"}
  LimiteUrls = 1
  MaxLista = 2
  MaxCriadas = 2
  MaxOrfas = 1
  MaxAuditorias = 2
  MaxPedidosSaude = 2
  MaxEnvios = 1
  MaxLeituras = 2
  Limite = 2
  MaxLinhas = 6
  MaxCliques = 3
  MaxTrocas = 3
INVARIANTS
  AplicacaoTypeOK
  BarraConfere
  BarraNaoAdianta
  CustoDaTela
  PagaUmaVez
  CwvConverge
  SeoConverge
  HistoricoConfere
PROPERTIES
  SaiPorSenha
  FatorAparece
CHECK_DEADLOCK FALSE
