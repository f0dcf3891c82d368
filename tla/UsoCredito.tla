----------------------------- MODULE UsoCredito -----------------------------
(***************************************************************************)
(* What the credit account promises of the paid tools of a user, whatever  *)
(* runs them: a use is reserved whole, once; then it is charged, once, at  *)
(* no more than it reserved, or its reservation comes back whole.  A step  *)
(* here is one transaction of an API request, a job or the scheduler.      *)
(* Execucao shows that gerar_artigo keeps the promise while nothing crashes *)
(* and nobody acts on an execution that is not at rest.                    *)
(***************************************************************************)
EXTENDS ContaCredito, FiniteSets

CONSTANTS
  Usos,        \* executions of a paid tool
  Reserva,     \* custo_maximo_estimado()
  Custos,      \* what calcular_custo_final may answer
  SaldoInicial \* the account's row, with what other tools have reserved in it

\* The tool never costs more than it reserves.
Parametros ==
  /\ IsFiniteSet(Usos)
  /\ Reserva \in Nat
  /\ Custos \subseteq 0..Reserva
  /\ SaldoInicial \in ContaValida

VARIABLES
  conta,  \* the row of contas_creditos
  uso,    \* where each use stands
  debitos \* rows of transacoes_creditos of each use

usoVars == <<conta, uso, debitos>>

InitUso ==
  /\ conta = SaldoInicial
  /\ uso = [e \in Usos |-> "nenhum"]
  /\ debitos = [e \in Usos |-> 0]

ReservarUso(e) ==
  /\ uso[e] = "nenhum"
  /\ Disponivel(conta) >= Reserva
  /\ conta' = [conta EXCEPT !.reservado = @ + Reserva]
  /\ uso' = [uso EXCEPT ![e] = "reservado"]
  /\ UNCHANGED debitos

\* The request is refused: nothing was reserved.
RecusarUso(e) ==
  /\ uso[e] = "nenhum"
  /\ uso' = [uso EXCEPT ![e] = "devolvido"]
  /\ UNCHANGED <<conta, debitos>>

\* How a charge is shared between the plan and the extras is left open.
CobrarUso(e, q) ==
  /\ uso[e] = "reservado"
  /\ \E doPlano \in 0..q :
       conta' = [plano |-> conta.plano - doPlano,
                 extras |-> conta.extras - (q - doPlano),
                 reservado |-> conta.reservado - Reserva]
  /\ conta' \in ContaValida
  /\ uso' = [uso EXCEPT ![e] = "debitado"]
  /\ debitos' = [debitos EXCEPT ![e] = @ + 1]

DevolverUso(e) ==
  /\ uso[e] = "reservado"
  /\ conta' = [conta EXCEPT !.reservado = @ - Reserva]
  /\ uso' = [uso EXCEPT ![e] = "devolvido"]
  /\ UNCHANGED debitos

NextUso ==
  \E e \in Usos :
    \/ ReservarUso(e)
    \/ RecusarUso(e)
    \/ \E q \in Custos : CobrarUso(e, q)
    \/ DevolverUso(e)

SpecUso == InitUso /\ [][NextUso]_usoVars

-----------------------------------------------------------------------------
Reservados == {e \in Usos : uso[e] = "reservado"}

UsoTypeOK ==
  /\ conta \in ContaValida
  /\ uso \in [Usos -> {"nenhum", "reservado", "debitado", "devolvido"}]
  /\ debitos \in [Usos -> Nat]

\* The account's reservation is exactly that of the uses still open, above
\* what other tools hold: no credit is stuck, none is promised twice.
ReservaExata ==
  conta.reservado = SaldoInicial.reservado + Reserva * Cardinality(Reservados)

\* A use that was charged has one row of transacoes_creditos, any other none.
UmDebito ==
  \A e \in Usos : debitos[e] = IF uso[e] = "debitado" THEN 1 ELSE 0

\* Nothing is promised that the account does not hold, if it starts so.
SemDescoberto == Disponivel(conta) >= 0

\* A use that was charged or given back is over: nothing charges it again, nor
\* opens it a second time.
UsoEncerrado ==
  [][\A e \in Usos : uso[e] \in {"debitado", "devolvido"} =>
       uso'[e] = uso[e] /\ debitos'[e] = debitos[e]]_usoVars
=============================================================================
