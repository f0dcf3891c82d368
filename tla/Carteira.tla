------------------------------ MODULE Carteira ------------------------------
(***************************************************************************)
(* One credit account under every writer it has: the tools that reserve,   *)
(* debit and release (credito_service.py, each under SELECT ... FOR        *)
(* UPDATE), the purchase of a package (billing_service.comprar_pacote) and *)
(* the nightly renewal of the plan (renovar_ciclos_vencidos).              *)
(*                                                                         *)
(* A locked operation holds the row from its SELECT to its commit, so it   *)
(* is one step.  A purchase and a renewal SELECT without a lock, compute   *)
(* in the ORM and UPDATE one column with the value computed: two steps,    *)
(* with anything in between.  The users of the account are disciplined     *)
(* here: each confirms or releases what it reserved, once.  Module         *)
(* Execucao drops that discipline.                                         *)
(***************************************************************************)
EXTENDS ContaCredito, FiniteSetsExt

CONSTANTS
  Usos,          \* uses of a tool, each with one reservation
  Compras,       \* purchases of a package
  Custos,        \* amounts a use may reserve
  Pacote,        \* credits of a package
  CreditosMes,   \* creditos_por_mes of the plan
  MaxRenovacoes, \* bound on renewals
  SaldoInicial   \* the account's row when the model starts

ASSUME CarteiraAssumption ==
  /\ IsFiniteSet(Usos)
  /\ Custos \subseteq Nat
  /\ Pacote \in Nat
  /\ CreditosMes \in Nat
  /\ MaxRenovacoes \in Nat
  /\ SaldoInicial \in ContaValida
  /\ SaldoInicial.reservado = 0

VARIABLES
  conta,      \* the row of contas_creditos
  reserva,    \* per use: what it holds reserved
  fase,       \* per use: livre, reservado, fim
  compra,     \* per purchase: nova, lida, paga
  leitura,    \* per purchase: saldo_extras as its SELECT saw it
  renovacao,  \* of the renewal job: parada, lida
  planoLido,  \* saldo_plano as the renewal job's SELECT saw it
  renovacoes, \* renewals done
  razao,      \* sum of transacoes_creditos.quantidade since the start
  ajuste      \* history: what renewals added to saldo_plano

vars == <<conta, reserva, fase, compra, leitura, renovacao, planoLido,
          renovacoes, razao, ajuste>>

compraVars == <<compra, leitura>>
renovacaoVars == <<renovacao, planoLido, renovacoes, ajuste>>

Init ==
  /\ conta = SaldoInicial
  /\ reserva = [u \in Usos |-> 0]
  /\ fase = [u \in Usos |-> "livre"]
  /\ compra = [p \in Compras |-> "nova"]
  /\ leitura = [p \in Compras |-> 0]
  /\ renovacao = "parada"
  /\ planoLido = 0
  /\ renovacoes = 0
  /\ razao = 0
  /\ ajuste = 0

-----------------------------------------------------------------------------
(* Locked operations of credito_service.py. *)

ReservarCreditos(u, q) ==
  /\ fase[u] = "livre"
  /\ PodeReservar(conta, q)
  /\ conta' = Reservar(conta, q)
  /\ reserva' = [reserva EXCEPT ![u] = q]
  /\ fase' = [fase EXCEPT ![u] = "reservado"]
  /\ UNCHANGED <<compraVars, renovacaoVars, razao>>

Encerrar(u) ==
  /\ fase[u] = "reservado"
  /\ reserva' = [reserva EXCEPT ![u] = 0]
  /\ fase' = [fase EXCEPT ![u] = "fim"]
  /\ UNCHANGED <<compraVars, renovacaoVars>>

\* Mutant: the CHECK constraint on saldo_plano is missing.
DebitoPassa_SemCheck(c, r, q) == PodeDebitar(c, r, q)

\* What the transaction of confirmar_debito must pass to commit: the guard of
\* the service and the CHECK constraint on saldo_plano.
DebitoPassa(c, r, q) == PodeDebitar(c, r, q) /\ Total(c) >= q

\* Every tool charges at most what it reserved: each cost formula of
\* ferramenta_service is capped by the one its router reserves with.
ConfirmarDebito(u, q) ==
  /\ Encerrar(u)
  /\ DebitoPassa(conta, reserva[u], q)
  /\ conta' = Confirmar(conta, reserva[u], q)
  /\ razao' = razao - q

\* ValueError of the guard or IntegrityError of the CHECK: the callers roll
\* back and release the reservation in its place.
ConfirmarRecusado(u, q) ==
  /\ Encerrar(u)
  /\ ~DebitoPassa(conta, reserva[u], q)
  /\ conta' = Liberar(conta, reserva[u])
  /\ UNCHANGED razao

LiberarReserva(u) ==
  /\ Encerrar(u)
  /\ conta' = Liberar(conta, reserva[u])
  /\ UNCHANGED razao

-----------------------------------------------------------------------------
(* Unlocked read-modify-writes. *)

ComprarLer(p) ==
  /\ compra[p] = "nova"
  /\ compra' = [compra EXCEPT ![p] = "lida"]
  /\ leitura' = [leitura EXCEPT ![p] = conta.extras]
  /\ UNCHANGED <<conta, reserva, fase, renovacaoVars, razao>>

\* The UPDATE carries the value computed from the read, whatever the column
\* holds by now.
ComprarGravar(p) ==
  /\ compra[p] = "lida"
  /\ compra' = [compra EXCEPT ![p] = "paga"]
  /\ conta' = [conta EXCEPT !.extras = leitura[p] + Pacote]
  /\ razao' = razao + Pacote
  /\ UNCHANGED <<leitura, reserva, fase, renovacaoVars>>

RenovarLer ==
  /\ renovacao = "parada"
  /\ renovacoes < MaxRenovacoes
  /\ renovacao' = "lida"
  /\ planoLido' = conta.plano
  /\ UNCHANGED <<conta, reserva, fase, compraVars, renovacoes, razao, ajuste>>

\* The plan replaces the balance, it does not add to it.  When the value read
\* already was the plan's, the ORM sees no change and leaves the column out of
\* the UPDATE.
PlanoRenovado == IF planoLido = CreditosMes THEN conta.plano ELSE CreditosMes

RenovarGravar ==
  /\ renovacao = "lida"
  /\ renovacao' = "parada"
  /\ conta' = RenovarPlano(conta, PlanoRenovado)
  /\ renovacoes' = renovacoes + 1
  /\ ajuste' = ajuste + PlanoRenovado - conta.plano
  /\ UNCHANGED <<planoLido, reserva, fase, compraVars, razao>>

-----------------------------------------------------------------------------
Usar(u) ==
  \/ \E q \in Custos : ReservarCreditos(u, q)
  \/ \E q \in 0..reserva[u] : ConfirmarDebito(u, q)
  \/ \E q \in 0..reserva[u] : ConfirmarRecusado(u, q)
  \/ LiberarReserva(u)

Next ==
  \/ \E u \in Usos : Usar(u)
  \/ \E p \in Compras : ComprarLer(p) \/ ComprarGravar(p)
  \/ RenovarLer
  \/ RenovarGravar

Spec == Init /\ [][Next]_vars

-----------------------------------------------------------------------------
(* Properties. *)

\* Types; no balance column is ever negative, as the CHECK constraints of
\* migration 0013 require.
TypeOK ==
  /\ conta \in ContaValida
  /\ reserva \in [Usos -> Nat]
  /\ fase \in [Usos -> {"livre", "reservado", "fim"}]
  /\ compra \in [Compras -> {"nova", "lida", "paga"}]
  /\ leitura \in [Compras -> Nat]
  /\ renovacao \in {"parada", "lida"}
  /\ planoLido \in Nat
  /\ renovacoes \in 0..MaxRenovacoes
  /\ razao \in Int
  /\ ajuste \in Int

\* saldo_reservado is, at every moment, the sum of the reservations that are
\* still open: no interleaving of tools, purchases and renewals loses one or
\* counts one twice.
ReservadoExato ==
  conta.reservado = MapThenSumSet(LAMBDA u : reserva[u], Usos)

\* A reservation is a promise kept: while the account is not overdrawn, every
\* open reservation can be debited up to its whole amount, by the guard of
\* confirmar_debito and by the CHECK on saldo_plano.
ReservaGarantida ==
  Disponivel(conta) >= 0 =>
    \A u \in Usos : \A q \in 0..reserva[u] : DebitoPassa(conta, reserva[u], q)

\* No tool overdraws the account: reserving, debiting and releasing never take
\* saldo_disponivel below zero, nor further down when it already is.  Only a
\* renewal that shrinks the plan's balance, or a purchase that writes a stale
\* one, can.
SemGastoADescoberto ==
  [][UNCHANGED <<compra, renovacao>> =>
        Disponivel(conta') >= Menor(0, Disponivel(conta))]_vars

Deriva == Total(conta) - Total(SaldoInicial) - razao - ajuste

\* The ledger follows the balances through every operation but one: the two
\* come apart only in a purchase whose read was stale when it wrote, and then
\* by exactly the difference between what it read and what was there.
DerivaSoPorLeituraVelha ==
  [][\/ Deriva' = Deriva
     \/ \E p \in Compras :
          /\ compra[p] = "lida" /\ compra'[p] = "paga"
          /\ Deriva' - Deriva = leitura[p] - conta.extras]_vars

\* SPEC_03_Creditos_Transacional.md 3.7: the sum of TransacaoCredito of the
\* account equals saldo_plano + saldo_extras, adjusted by the renewals.
LivroConfere == Deriva = 0
=============================================================================
