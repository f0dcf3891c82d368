---------------------------- MODULE ContaCredito ----------------------------
(***************************************************************************)
(* The row of contas_creditos and the arithmetic of credito_service.py on  *)
(* it, as operators on values.  The operators are the part of each service *)
(* function between its SELECT and its flush; which reads are locked, and  *)
(* when a transaction commits, belongs to the modules that use them.       *)
(***************************************************************************)
EXTENDS Integers

Menor(a, b) == IF a < b THEN a ELSE b
Maior(a, b) == IF a < b THEN b ELSE a

Conta == [plano : Int, extras : Int, reservado : Int]

\* The rows the CHECK constraints of migration 0013 admit.
ContaValida == [plano : Nat, extras : Nat, reservado : Nat]

Total(c) == c.plano + c.extras

Disponivel(c) == Total(c) - c.reservado

\* Mutant: the credits already promised to other uses are counted as free.
PodeReservar_SemReservas(c, q) == Total(c) >= q

PodeReservar(c, q) == Disponivel(c) >= q

Reservar(c, q) == [c EXCEPT !.reservado = @ + q]

\* Mutant: the release forgets the column.
Liberar_Esquecida(c, q) == c

\* liberar_reserva never takes the column below zero: it releases at most
\* what is reserved.
Liberar(c, q) == [c EXCEPT !.reservado = @ - Menor(@, q)]

\* Mutant: the guard looks at the free balance before the reservation is back.
PodeDebitar_SemDevolver(c, r, q) == Disponivel(c) >= q

\* The guard of confirmar_debito.  It is evaluated after the reservation has
\* been subtracted, and only a cost above the reservation can fail it.
PodeDebitar(c, r, q) ==
  LET falta == q - Menor(c.reservado, r)
  IN  falta <= 0 \/ Disponivel(Liberar(c, r)) >= falta

\* Mutant: the plan pays the whole cost on top of what the extras paid.
Debitar_PlanoPagaTudo(c, q) ==
  [c EXCEPT !.extras = @ - Menor(@, q), !.plano = @ - q]

\* Extras are spent first, then the plan's credits.
Debitar(c, q) ==
  [c EXCEPT !.extras = @ - Menor(@, q),
            !.plano  = @ - (q - Menor(c.extras, q))]

\* Mutant: the reservation outlives its debit.
Confirmar_SemLiberar(c, r, q) == Debitar(c, q)

Confirmar(c, r, q) == Debitar(Liberar(c, r), q)

RenovarPlano(c, q) == [c EXCEPT !.plano = q]
=============================================================================
