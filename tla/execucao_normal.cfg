SPECIFICATION Spec
CONSTANTS
  NINGUEM = NINGUEM
  AGENDADOR = AGENDADOR
  e1 = e1
  e2 = e2
  r1 = r1
  r2 = r2
  r3 = r3
  j1 = j1
  j2 = j2
  j3 = j3
  j4 = j4
  Execucoes = {e1, e2}
  Pedidos = {r1, r2, r3}
  Jobs = {j1, j2, j3, j4}
  Reserva = 2
  Custos <- MCCustos
  SaldoInicial <- MCSaldoNormal
  MaxTentativas = 2
  Eventos <- MCNormal
SYMMETRY MCSimetriaNormal
CHECK_DEADLOCK FALSE
PROPERTY ImplementaUso
