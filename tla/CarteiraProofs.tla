--------------------------- MODULE CarteiraProofs ---------------------------
(***************************************************************************)
(* Proofs about one account, for any finite set of uses, any set of        *)
(* purchases and any amounts.  Typing is inductive once it also says that  *)
(* the renewal job only reads while it has a renewal left.  The two action *)
(* properties then need nothing but typing: each locked operation carries  *)
(* in its own guard what keeps the account covered.  That saldo_reservado  *)
(* is the sum of the open reservations needs the lemmas on sums, and from  *)
(* it follows that every reservation can be debited.                       *)
(***************************************************************************)
EXTENDS Carteira, Lemas

\* A debit that passes the guard and the CHECK, for no more than was reserved,
\* leaves the free balance where it was or not below zero.
LEMMA DebitoCoberto ==
  ASSUME NEW c \in ContaValida, NEW r \in Nat, NEW q \in 0..r,
         DebitoPassa(c, r, q)
  PROVE  Disponivel(Confirmar(c, r, q)) >= Menor(0, Disponivel(c))
<1>1. Disponivel(Confirmar(c, r, q))
        = Disponivel(c) + Menor(c.reservado, r) - q
  BY Aritmetica
<1>2. CASE q <= c.reservado
  BY <1>1, <1>2 DEF Menor, ContaValida, Disponivel, Total
<1>3. CASE q > c.reservado
  BY <1>1, <1>3 DEF DebitoPassa, Menor, ContaValida, Disponivel, Total
<1> QED BY <1>2, <1>3 DEF ContaValida

-----------------------------------------------------------------------------
\* The inductive invariant behind TypeOK.
TipoIndutivo ==
  /\ TypeOK
  /\ renovacao = "lida" => renovacoes < MaxRenovacoes

LEMMA TipoInicial == Init => TipoIndutivo
BY CarteiraAssumption DEF Init, TipoIndutivo, TypeOK

LEMMA TipoPasso == TipoIndutivo /\ [Next]_vars => TipoIndutivo'
<1> SUFFICES ASSUME TipoIndutivo, [Next]_vars PROVE TipoIndutivo'
  OBVIOUS
<1> USE CarteiraAssumption DEF TipoIndutivo, TypeOK
<1>1. ASSUME NEW u \in Usos, NEW q \in Custos, ReservarCreditos(u, q)
      PROVE  TipoIndutivo'
  <2>1. conta' \in ContaValida
    BY <1>1, OperadoresTipados DEF ReservarCreditos
  <2> QED BY <1>1, <2>1 DEF ReservarCreditos, compraVars, renovacaoVars
<1>2. ASSUME NEW u \in Usos, NEW q \in 0..reserva[u], ConfirmarDebito(u, q)
      PROVE  TipoIndutivo'
  <2>1. conta' \in ContaValida
    BY <1>2, OperadoresTipados DEF ConfirmarDebito, DebitoPassa
  <2> QED BY <1>2, <2>1 DEF ConfirmarDebito, Encerrar, compraVars, renovacaoVars
<1>3. ASSUME NEW u \in Usos, NEW q \in 0..reserva[u], ConfirmarRecusado(u, q)
      PROVE  TipoIndutivo'
  <2>1. conta' \in ContaValida
    BY <1>3, OperadoresTipados DEF ConfirmarRecusado
  <2> QED BY <1>3, <2>1 DEF ConfirmarRecusado, Encerrar, compraVars, renovacaoVars
<1>4. ASSUME NEW u \in Usos, LiberarReserva(u) PROVE TipoIndutivo'
  <2>1. conta' \in ContaValida
    BY <1>4, OperadoresTipados DEF LiberarReserva
  <2> QED BY <1>4, <2>1 DEF LiberarReserva, Encerrar, compraVars, renovacaoVars
<1>5. ASSUME NEW p \in Compras, ComprarLer(p) PROVE TipoIndutivo'
  BY <1>5 DEF ComprarLer, ContaValida, renovacaoVars
<1>6. ASSUME NEW p \in Compras, ComprarGravar(p) PROVE TipoIndutivo'
  BY <1>6 DEF ComprarGravar, ContaValida, renovacaoVars
<1>7. CASE RenovarLer
  BY <1>7 DEF RenovarLer, ContaValida, compraVars
<1>8. CASE RenovarGravar
  BY <1>8 DEF RenovarGravar, RenovarPlano, PlanoRenovado, ContaValida, compraVars
<1>9. CASE UNCHANGED vars
  BY <1>9 DEF vars
<1> QED
  BY <1>1, <1>2, <1>3, <1>4, <1>5, <1>6, <1>7, <1>8, <1>9 DEF Next, Usar

LEMMA TipoSempre == Spec => []TipoIndutivo
<1> QED BY TipoInicial, TipoPasso, PTL DEF Spec

\* Typing of the specification.  Its content is the CHECK constraints of
\* migration 0013: no column of the account ever goes negative.
THEOREM TiposCorretos == Spec => []TypeOK
<1>1. TipoIndutivo => TypeOK
  BY DEF TipoIndutivo
<1> QED BY <1>1, TipoSempre, PTL

-----------------------------------------------------------------------------
\* Whatever the amounts and however many tools, purchases and renewals
\* interleave, no reservation, debit or release overdraws the account.
THEOREM NaoGastaADescoberto == Spec => SemGastoADescoberto
<1> DEFINE Coberto == UNCHANGED <<compra, renovacao>>
                        => Disponivel(conta') >= Menor(0, Disponivel(conta))
<1>1. TipoIndutivo /\ [Next]_vars => [Coberto]_vars
  <2> SUFFICES ASSUME TipoIndutivo, [Next]_vars, UNCHANGED <<compra, renovacao>>
               PROVE  Disponivel(conta') >= Menor(0, Disponivel(conta))
    OBVIOUS
  <2>0. /\ conta \in ContaValida
        /\ reserva \in [Usos -> Nat]
        /\ Disponivel(conta) \in Int
    BY DEF TipoIndutivo, TypeOK, ContaValida, Disponivel, Total
  <2>1. ASSUME NEW u \in Usos, NEW q \in Custos, ReservarCreditos(u, q)
        PROVE  Disponivel(conta') >= Menor(0, Disponivel(conta))
    <3>1. q \in Nat /\ conta' = Reservar(conta, q) /\ Disponivel(conta) >= q
      BY <2>1, CarteiraAssumption DEF ReservarCreditos, PodeReservar
    <3> QED BY <2>0, <3>1, Aritmetica DEF Menor
  <2>2. ASSUME NEW u \in Usos, NEW q \in 0..reserva[u], ConfirmarDebito(u, q)
        PROVE  Disponivel(conta') >= Menor(0, Disponivel(conta))
    BY <2>0, <2>2, DebitoCoberto DEF ConfirmarDebito
  <2>3. ASSUME NEW u \in Usos, conta' = Liberar(conta, reserva[u])
        PROVE  Disponivel(conta') >= Menor(0, Disponivel(conta))
    <3>1. Disponivel(conta') = Disponivel(conta) + Menor(conta.reservado, reserva[u])
      BY <2>0, <2>3, Aritmetica
    <3> QED BY <2>0, <3>1 DEF Menor, ContaValida
  <2>4. ASSUME NEW p \in Compras, ComprarLer(p) \/ ComprarGravar(p)
        PROVE  FALSE
    BY <2>4 DEF ComprarLer, ComprarGravar, TipoIndutivo, TypeOK
  <2>5. CASE RenovarLer \/ RenovarGravar
    BY <2>5 DEF RenovarLer, RenovarGravar
  <2>6. CASE UNCHANGED vars
    BY <2>0, <2>6 DEF vars, Menor
  <2> QED
    BY <2>1, <2>2, <2>3, <2>4, <2>5, <2>6
       DEF Next, Usar, ConfirmarRecusado, LiberarReserva
<1> QED BY <1>1, TipoSempre, PTL DEF Spec, SemGastoADescoberto

\* The ledger and the balances come apart only in a purchase with a stale
\* read, and by exactly how stale it was.
THEOREM DerivaExplicada == Spec => DerivaSoPorLeituraVelha
<1> DEFINE Explicada == \/ Deriva' = Deriva
                        \/ \E p \in Compras :
                             /\ compra[p] = "lida" /\ compra'[p] = "paga"
                             /\ Deriva' - Deriva = leitura[p] - conta.extras
<1>1. TipoIndutivo /\ [Next]_vars => [Explicada]_vars
  <2> SUFFICES ASSUME TipoIndutivo, [Next]_vars PROVE Explicada
    OBVIOUS
  <2>0. /\ conta \in ContaValida
        /\ reserva \in [Usos -> Nat]
        /\ leitura \in [Compras -> Nat]
        /\ razao \in Int /\ ajuste \in Int
        /\ Total(SaldoInicial) \in Int
    BY CarteiraAssumption DEF TipoIndutivo, TypeOK, ContaValida, Total
  <2>1. ASSUME NEW u \in Usos, NEW q \in Custos, ReservarCreditos(u, q)
        PROVE  Deriva' = Deriva
    <3>1. q \in Nat /\ Total(conta') = Total(conta)
      BY <2>0, <2>1, Aritmetica, CarteiraAssumption DEF ReservarCreditos
    <3> QED BY <2>1, <3>1 DEF Deriva, ReservarCreditos, renovacaoVars
  <2>2. ASSUME NEW u \in Usos, NEW q \in 0..reserva[u], ConfirmarDebito(u, q)
        PROVE  Deriva' = Deriva
    <3>1. /\ Total(conta') = Total(conta) - q /\ Total(conta) \in Int
          /\ razao' = razao - q /\ ajuste' = ajuste
      BY <2>0, <2>2, Aritmetica
         DEF ConfirmarDebito, Encerrar, renovacaoVars, ContaValida, Total
    <3> QED BY <2>0, <3>1 DEF Deriva
  <2>3. ASSUME NEW u \in Usos, NEW q \in 0..reserva[u],
               ConfirmarRecusado(u, q) \/ LiberarReserva(u)
        PROVE  Deriva' = Deriva
    <3>1. Total(conta') = Total(conta)
      BY <2>0, <2>3, Aritmetica DEF ConfirmarRecusado, LiberarReserva
    <3> QED
      BY <2>3, <3>1
         DEF Deriva, ConfirmarRecusado, LiberarReserva, Encerrar, renovacaoVars
  <2>4. ASSUME NEW p \in Compras, ComprarLer(p)
        PROVE  Deriva' = Deriva
    BY <2>4 DEF ComprarLer, Deriva, renovacaoVars
  <2>5. ASSUME NEW p \in Compras, ComprarGravar(p)
        PROVE  Explicada
    <3>1. /\ compra[p] = "lida" /\ compra'[p] = "paga"
          /\ Total(conta') = conta.plano + (leitura[p] + Pacote)
          /\ razao' = razao + Pacote /\ ajuste' = ajuste
      BY <2>0, <2>5
         DEF ComprarGravar, renovacaoVars, Total, ContaValida, TipoIndutivo, TypeOK
    <3>2. Deriva' - Deriva = leitura[p] - conta.extras
      BY <2>0, <3>1, CarteiraAssumption DEF Deriva, Total, ContaValida
    <3> QED BY <3>1, <3>2
  <2>6. CASE RenovarLer
    BY <2>6 DEF RenovarLer, Deriva
  <2>7. CASE RenovarGravar
    <3>1. /\ PlanoRenovado \in Int /\ razao' = razao
          /\ Total(conta') = PlanoRenovado + conta.extras
          /\ ajuste' = ajuste + PlanoRenovado - conta.plano
      BY <2>0, <2>7, CarteiraAssumption
         DEF RenovarGravar, RenovarPlano, PlanoRenovado, ContaValida, Total
    <3> QED BY <2>0, <3>1 DEF Deriva, Total, ContaValida
  <2>8. CASE UNCHANGED vars
    BY <2>8 DEF vars, Deriva
  <2>9. ASSUME NEW u \in Usos, LiberarReserva(u) PROVE Deriva' = Deriva
    <3>1. 0 \in 0..reserva[u]
      BY <2>0
    <3> QED BY <2>3, <2>9, <3>1
  <2> QED
    BY <2>1, <2>2, <2>3, <2>4, <2>5, <2>6, <2>7, <2>8, <2>9 DEF Next, Usar
<1> QED BY <1>1, TipoSempre, PTL DEF Spec, DerivaSoPorLeituraVelha

-----------------------------------------------------------------------------
\* The inductive invariant behind ReservadoExato: the column is the sum of
\* what the uses hold, and a use outside its reservation holds nothing.
ReservaIndutiva ==
  /\ TipoIndutivo
  /\ ReservadoExato
  /\ \A u \in Usos : fase[u] # "reservado" => reserva[u] = 0

LEMMA ReservadoSoma ==
  /\ ReservadoExato <=> conta.reservado = Soma(reserva, Usos)
  /\ ReservadoExato' <=> conta'.reservado = Soma(reserva', Usos)
BY DEF ReservadoExato, Soma, MapThenSumSet, MapThenFoldSet

\* One use changes what it holds, and the column moves by as much.
LEMMA UmaReservaMuda ==
  ASSUME TypeOK, ReservadoExato, NEW u \in Usos, NEW k \in Nat,
         reserva' = [reserva EXCEPT ![u] = k],
         conta'.reservado = conta.reservado - reserva[u] + k
  PROVE  ReservadoExato'
<1>1. reserva \in [Usos -> Nat] /\ IsFiniteSet(Usos)
  BY CarteiraAssumption DEF TypeOK
<1>2. Soma(reserva', Usos) = Soma(reserva, Usos) - reserva[u] + k
  BY <1>1, SomaTroca
<1> QED BY <1>2, ReservadoSoma

\* No use holds more than the column shows.
LEMMA ReservaCabe ==
  ASSUME TypeOK, ReservadoExato, NEW u \in Usos
  PROVE  reserva[u] \in Nat /\ reserva[u] <= conta.reservado
<1>1. reserva \in [Usos -> Nat] /\ IsFiniteSet(Usos)
  BY CarteiraAssumption DEF TypeOK
<1> QED BY <1>1, SomaLimita, ReservadoSoma

LEMMA ReservaInicial == Init => ReservaIndutiva
<1> SUFFICES ASSUME Init PROVE ReservaIndutiva
  OBVIOUS
<1>1. ReservadoExato
  BY SomaDeZeros, ReservadoSoma, CarteiraAssumption DEF Init
<1> QED BY <1>1, TipoInicial DEF ReservaIndutiva, Init

LEMMA ReservaPasso == ReservaIndutiva /\ [Next]_vars => ReservaIndutiva'
<1> SUFFICES ASSUME ReservaIndutiva, [Next]_vars PROVE ReservaIndutiva'
  OBVIOUS
<1> DEFINE SoReservado == \A u \in Usos : fase[u] # "reservado" => reserva[u] = 0
<1>0. TipoIndutivo /\ TypeOK /\ ReservadoExato /\ SoReservado /\ TipoIndutivo'
  BY TipoPasso DEF ReservaIndutiva, TipoIndutivo
<1>t. /\ conta \in ContaValida /\ reserva \in [Usos -> Nat]
      /\ fase \in [Usos -> {"livre", "reservado", "fim"}]
  BY <1>0 DEF TypeOK
<1>1. ASSUME NEW u \in Usos, NEW q \in Custos, ReservarCreditos(u, q)
      PROVE  ReservadoExato' /\ SoReservado'
  <2>1. /\ q \in Nat /\ reserva[u] = 0
        /\ conta'.reservado = conta.reservado - reserva[u] + q
    BY <1>0, <1>1, <1>t, CarteiraAssumption
       DEF ReservarCreditos, Reservar, ContaValida
  <2>2. ReservadoExato'
    BY <1>0, <1>1, <2>1, UmaReservaMuda DEF ReservarCreditos
  <2>3. SoReservado'
    BY <1>0, <1>1, <1>t DEF ReservarCreditos
  <2> QED BY <2>2, <2>3
<1>2. ASSUME NEW u \in Usos, NEW q \in 0..reserva[u],
             \/ ConfirmarDebito(u, q)
             \/ ConfirmarRecusado(u, q)
             \/ LiberarReserva(u)
      PROVE  ReservadoExato' /\ SoReservado'
  <2>1. Encerrar(u)
    BY <1>2 DEF ConfirmarDebito, ConfirmarRecusado, LiberarReserva
  <2>2. reserva[u] \in Nat /\ reserva[u] <= conta.reservado
    BY <1>0, ReservaCabe
  <2>3. conta'.reservado = conta.reservado - reserva[u] + 0
    <3>1. conta'.reservado = conta.reservado - Menor(conta.reservado, reserva[u])
      BY <1>2, <1>t
         DEF ConfirmarDebito, ConfirmarRecusado, LiberarReserva,
             Confirmar, Debitar, Liberar, ContaValida
    <3> QED BY <1>t, <2>2, <3>1 DEF Menor, ContaValida
  <2>4. ReservadoExato'
    BY <1>0, <2>1, <2>3, UmaReservaMuda DEF Encerrar
  <2>5. SoReservado'
    BY <1>0, <1>t, <2>1 DEF Encerrar
  <2> QED BY <2>4, <2>5
<1>3. ASSUME NEW u \in Usos, LiberarReserva(u)
      PROVE  ReservadoExato' /\ SoReservado'
  <2>1. 0 \in 0..reserva[u]
    BY <1>t
  <2> QED BY <1>2, <1>3, <2>1
<1>4. ASSUME conta'.reservado = conta.reservado, UNCHANGED <<reserva, fase>>
      PROVE  ReservadoExato' /\ SoReservado'
  BY <1>0, <1>4, ReservadoSoma
<1>5. ASSUME NEW p \in Compras, ComprarLer(p) \/ ComprarGravar(p)
      PROVE  conta'.reservado = conta.reservado /\ UNCHANGED <<reserva, fase>>
  BY <1>5, <1>t DEF ComprarLer, ComprarGravar, ContaValida
<1>6. ASSUME RenovarLer \/ RenovarGravar
      PROVE  conta'.reservado = conta.reservado /\ UNCHANGED <<reserva, fase>>
  BY <1>6, <1>t DEF RenovarLer, RenovarGravar, RenovarPlano, ContaValida
<1>7. UNCHANGED vars
        => conta'.reservado = conta.reservado /\ UNCHANGED <<reserva, fase>>
  BY DEF vars
<1>8. ReservadoExato' /\ SoReservado'
  BY <1>1, <1>2, <1>3, <1>4, <1>5, <1>6, <1>7 DEF Next, Usar
<1> QED BY <1>0, <1>8 DEF ReservaIndutiva

LEMMA ReservaSempre == Spec => []ReservaIndutiva
<1> QED BY ReservaInicial, ReservaPasso, PTL DEF Spec

\* However the tools, the purchases and the renewals interleave, saldo_reservado
\* is the sum of the reservations still open.
THEOREM ReservadoESoma == Spec => []ReservadoExato
<1>1. ReservaIndutiva => ReservadoExato
  BY DEF ReservaIndutiva
<1> QED BY <1>1, ReservaSempre, PTL

\* While the account is not overdrawn, confirmar_debito accepts every open
\* reservation, for any amount up to what was reserved.
THEOREM ReservaSempreDebitavel == Spec => []ReservaGarantida
<1>1. ReservaIndutiva => ReservaGarantida
  <2> SUFFICES ASSUME ReservaIndutiva, Disponivel(conta) >= 0,
                      NEW u \in Usos, NEW q \in 0..reserva[u]
               PROVE  DebitoPassa(conta, reserva[u], q)
    BY DEF ReservaGarantida
  <2>1. conta \in ContaValida /\ reserva[u] \in Nat /\ reserva[u] <= conta.reservado
    BY ReservaCabe DEF ReservaIndutiva, TipoIndutivo, TypeOK
  <2>2. PodeDebitar(conta, reserva[u], q)
    BY <2>1 DEF PodeDebitar, Menor, ContaValida
  <2>3. Total(conta) >= q
    BY <2>1 DEF Disponivel, Total, ContaValida
  <2> QED BY <2>2, <2>3 DEF DebitoPassa
<1> QED BY <1>1, ReservaSempre, PTL
=============================================================================
