SPECIFICATION SpecJusta
CONSTANTS
  NINGUEM = NINGUEM
  Abas = {a1}
  Pedidos = {p1}
  Usuarios = {u1, u2}
  ComMfa = {u2}
  MaxSessoes = 3
  Eventos <- MCEventos
CHECK_DEADLOCK FALSE
INVARIANTS
  TypeOK
  IdentidadeDaTela
PROPERTIES
  SoSaiSemSessao
  CarregandoTermina
