SPECIFICATION SpecJusta
CONSTANTS
  NINGUEM = NINGUEM
  AGENDADOR = AGENDADOR
  e1 = e1
  e2 = e2
  r1 = r1
  r2 = r2
  r3 = r3
  j1 = j1
  j2 = j2
  j3 = j3
  j4 = j4
  Execucoes = {e1}
  Pedidos = {r1, r2}
  Jobs = {j1, j2}
  Reserva = 2
  Custos <- MCCusto
  SaldoInicial <- MCSaldoInicial
  MaxTentativas = 2
  Eventos <- MCVida
CHECK_DEADLOCK FALSE
PROPERTIES
  CancelamentoTermina
  JobTermina
