SPECIFICATION Spec
CONSTANTS
  Usos = {u1, u2}
  Compras = {p1, p2}
  Custos <- MCCustos
  Pacote = 2
  CreditosMes = 2
  MaxRenovacoes = 1
  SaldoInicial <- MCSaldoInicial
\* Every use, purchase and renewal ends: the bounded instance really stops.
CHECK_DEADLOCK FALSE
INVARIANT LivroConfere
