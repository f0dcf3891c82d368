-------------------------- MODULE UsoCreditoProofs --------------------------
(* The invariants of UsoCredito, for every finite set of uses, every         *)
(* reservation and every account.  Execucao's proof of refinement cites the  *)
(* lemmas of a step, instantiated.                                           *)
EXTENDS UsoCredito, FiniteSetTheorems, TLAPS

\* What the invariants need of each other: the sum of the reservations is known
\* exactly, which is what keeps a subtraction from going below zero.
IndUso == UsoTypeOK /\ ReservaExata /\ UmDebito

-----------------------------------------------------------------------------
\* The set of open uses is finite and its size a natural number.
LEMMA ReservadosFinito ==
  ASSUME Parametros
  PROVE  IsFiniteSet(Reservados) /\ Cardinality(Reservados) \in Nat
<1>1. Reservados \subseteq Usos
  BY DEF Reservados
<1>2. IsFiniteSet(Reservados)
  BY <1>1, FS_Subset DEF Parametros
<1> QED
  BY <1>2, FS_CardinalityType

\* Opening a use makes the set of open uses grow by one.
LEMMA AbrirConta ==
  ASSUME Parametros, UsoTypeOK, NEW e \in Usos, uso[e] # "reservado",
         uso' = [uso EXCEPT ![e] = "reservado"]
  PROVE  Cardinality(Reservados') = Cardinality(Reservados) + 1
<1>1. Reservados' = Reservados \cup {e}
  BY DEF Reservados, UsoTypeOK
<1>2. e \notin Reservados
  BY DEF Reservados
<1> QED
  BY <1>1, <1>2, ReservadosFinito, FS_AddElement

\* Closing one makes it shrink by one.
LEMMA FecharConta ==
  ASSUME Parametros, UsoTypeOK, NEW e \in Usos, uso[e] = "reservado",
         NEW fim, fim # "reservado", uso' = [uso EXCEPT ![e] = fim]
  PROVE  /\ Cardinality(Reservados') = Cardinality(Reservados) - 1
         /\ Cardinality(Reservados) >= 1
<1>1. Reservados' = Reservados \ {e}
  BY DEF Reservados, UsoTypeOK
<1>2. e \in Reservados
  BY DEF Reservados
<1>3. Cardinality(Reservados') = Cardinality(Reservados) - 1
  BY <1>1, <1>2, ReservadosFinito, FS_RemoveElement
<1>4. Cardinality(Reservados) # 0
  BY <1>2, ReservadosFinito, FS_EmptySet
<1> QED
  BY <1>3, <1>4, ReservadosFinito

\* While a use is open the account holds its reservation.
LEMMA ReservaPresente ==
  ASSUME Parametros, UsoTypeOK, ReservaExata, Cardinality(Reservados) >= 1
  PROVE  conta.reservado - Reserva \in Nat
<1> DEFINE n == Cardinality(Reservados)
<1>1. n \in Nat /\ n >= 1
  BY ReservadosFinito
<1>2. SaldoInicial.reservado \in Nat /\ Reserva \in Nat
  BY DEF Parametros, ContaValida
<1>3. conta.reservado = SaldoInicial.reservado + Reserva * n
  BY DEF ReservaExata
<1> HIDE DEF n
<1>4. Reserva * n - Reserva \in Nat
  <2>1. PICK m \in Nat : n = m + 1
    BY <1>1
  <2>2. Reserva * n - Reserva = Reserva * m
    BY <1>2, <2>1
  <2>3. Reserva * m \in Nat
    BY <1>2, <2>1
  <2> QED
    BY <2>2, <2>3
<1>5. ASSUME NEW a \in Nat, NEW x \in Int, x - Reserva \in Nat
      PROVE  (a + x) - Reserva \in Nat
  BY <1>2, <1>5
<1>6. Reserva * n \in Int
  BY <1>1, <1>2
<1> QED
  BY <1>2, <1>3, <1>4, <1>5, <1>6

\* The same, of one open use.
LEMMA ReservaDoUso ==
  ASSUME Parametros, IndUso, NEW e \in Usos, uso[e] = "reservado"
  PROVE  conta.reservado - Reserva \in Nat
<1>1. e \in Reservados
  BY DEF Reservados
<1>2. Cardinality(Reservados) # 0
  BY <1>1, ReservadosFinito, FS_EmptySet
<1> QED
  BY <1>2, ReservadosFinito, ReservaPresente DEF IndUso

-----------------------------------------------------------------------------
LEMMA InitIndUso ==
  ASSUME Parametros, InitUso
  PROVE  IndUso
<1>1. Reservados = {}
  BY DEF Reservados, InitUso
<1>2. Cardinality(Reservados) = 0
  BY <1>1, FS_EmptySet
<1>3. UsoTypeOK /\ UmDebito
  BY DEF InitUso, UsoTypeOK, UmDebito, Parametros
<1>4. ReservaExata
  BY <1>2 DEF ReservaExata, InitUso, Parametros, ContaValida
<1> QED
  BY <1>3, <1>4 DEF IndUso

LEMMA ReservarMantem ==
  ASSUME Parametros, IndUso, NEW e \in Usos, ReservarUso(e)
  PROVE  IndUso'
<1> USE DEF IndUso
<1>1. conta' = [conta EXCEPT !.reservado = @ + Reserva] /\ Reserva \in Nat
  BY DEF ReservarUso, Parametros
<1>2. UsoTypeOK'
  BY <1>1 DEF UsoTypeOK, ReservarUso, ContaValida
<1>3. ReservaExata'
  <2>1. Cardinality(Reservados') = Cardinality(Reservados) + 1
    BY AbrirConta DEF ReservarUso
  <2>2. conta'.reservado = conta.reservado + Reserva
    BY <1>1 DEF UsoTypeOK, ContaValida
  <2>3. Cardinality(Reservados) \in Nat /\ SaldoInicial.reservado \in Nat
    BY ReservadosFinito DEF Parametros, ContaValida
  <2> QED
    BY <1>1, <2>1, <2>2, <2>3 DEF ReservaExata
<1>4. UmDebito'
  BY DEF UmDebito, UsoTypeOK, ReservarUso
<1> QED
  BY <1>2, <1>3, <1>4

LEMMA RecusarMantem ==
  ASSUME Parametros, IndUso, NEW e \in Usos, RecusarUso(e)
  PROVE  IndUso'
<1> USE DEF IndUso
<1>1. Reservados' = Reservados
  BY DEF Reservados, RecusarUso, UsoTypeOK
<1>2. UsoTypeOK' /\ UmDebito'
  BY DEF UsoTypeOK, UmDebito, RecusarUso
<1>3. ReservaExata'
  BY <1>1 DEF ReservaExata, RecusarUso
<1> QED
  BY <1>2, <1>3

\* Common to the two ways a use is closed.
LEMMA FecharMantem ==
  ASSUME Parametros, IndUso, NEW e \in Usos, uso[e] = "reservado",
         NEW fim, fim # "reservado", uso' = [uso EXCEPT ![e] = fim],
         conta'.reservado = conta.reservado - Reserva
  PROVE  ReservaExata' /\ conta'.reservado \in Nat
<1> USE DEF IndUso
<1> DEFINE n == Cardinality(Reservados)
<1>1. /\ Cardinality(Reservados') = n - 1
      /\ n >= 1
  BY FecharConta
<1>2. conta'.reservado \in Nat
  BY <1>1, ReservaPresente
<1>3. n \in Nat /\ SaldoInicial.reservado \in Nat /\ Reserva \in Nat
  BY ReservadosFinito DEF Parametros, ContaValida
<1>4. conta.reservado = SaldoInicial.reservado + Reserva * n
  BY DEF ReservaExata
<1>5. conta'.reservado = SaldoInicial.reservado + Reserva * Cardinality(Reservados')
  <2> HIDE DEF n
  <2>1. Reserva * (n - 1) = Reserva * n - Reserva
    BY <1>3
  <2> QED
    BY <1>1, <1>3, <1>4, <2>1
<1> QED
  BY <1>2, <1>5 DEF ReservaExata

LEMMA CobrarMantem ==
  ASSUME Parametros, IndUso, NEW e \in Usos, NEW q \in Custos, CobrarUso(e, q)
  PROVE  IndUso'
<1> USE DEF IndUso
<1>1. PICK doPlano \in 0..q :
        conta' = [plano |-> conta.plano - doPlano,
                  extras |-> conta.extras - (q - doPlano),
                  reservado |-> conta.reservado - Reserva]
  BY DEF CobrarUso
<1>2. ReservaExata'
  BY <1>1, FecharMantem DEF CobrarUso
<1>3. UsoTypeOK'
  BY DEF UsoTypeOK, CobrarUso
<1>4. UmDebito'
  BY DEF UmDebito, UsoTypeOK, CobrarUso
<1> QED
  BY <1>2, <1>3, <1>4

LEMMA DevolverMantem ==
  ASSUME Parametros, IndUso, NEW e \in Usos, DevolverUso(e)
  PROVE  IndUso'
<1> USE DEF IndUso
<1>1. /\ conta' = [conta EXCEPT !.reservado = @ - Reserva]
      /\ Reserva \in Nat
  BY DEF DevolverUso, Parametros
<1>2. conta'.reservado = conta.reservado - Reserva
  BY <1>1 DEF UsoTypeOK, ContaValida
<1>3. ReservaExata' /\ conta'.reservado \in Nat
  BY <1>2, FecharMantem DEF DevolverUso
<1>4. UsoTypeOK'
  <2>1. conta' \in ContaValida
    BY <1>1, <1>2, <1>3 DEF UsoTypeOK, ContaValida
  <2> QED
    BY <2>1 DEF UsoTypeOK, DevolverUso
<1>5. UmDebito'
  BY DEF UmDebito, UsoTypeOK, DevolverUso
<1> QED
  BY <1>3, <1>4, <1>5

LEMMA PassoIndUso ==
  ASSUME Parametros, IndUso, [NextUso]_usoVars
  PROVE  IndUso'
<1>1. CASE UNCHANGED usoVars
  BY <1>1 DEF IndUso, usoVars, UsoTypeOK, ReservaExata, Reservados, UmDebito
<1>2. CASE NextUso
  BY <1>2, ReservarMantem, RecusarMantem, CobrarMantem, DevolverMantem
     DEF NextUso
<1> QED
  BY <1>1, <1>2

LEMMA SempreIndUso ==
  ASSUME Parametros
  PROVE  SpecUso => []IndUso
<1>1. InitUso => IndUso
  BY InitIndUso
<1>2. IndUso /\ [NextUso]_usoVars => IndUso'
  BY PassoIndUso
<1> QED
  BY <1>1, <1>2, PTL DEF SpecUso

\* Whatever the uses and the costs: the account's row keeps its CHECK
\* constraints, its reservation is that of the open uses, and each use is
\* charged once if it ends charged and never otherwise.
THEOREM UsoCorreto ==
  ASSUME Parametros
  PROVE  SpecUso => [](UsoTypeOK /\ ReservaExata /\ UmDebito)
<1> QED
  BY SempreIndUso, PTL DEF IndUso

\* An account that starts covered never promises more than it holds.
THEOREM UsoCoberto ==
  ASSUME Parametros, Disponivel(SaldoInicial) >= 0
  PROVE  SpecUso => []SemDescoberto
<1>1. InitUso => SemDescoberto
  BY DEF InitUso, SemDescoberto
<1>2. ASSUME IndUso, SemDescoberto, [NextUso]_usoVars PROVE SemDescoberto'
  <2> USE DEF IndUso
  <2>1. Reserva \in Nat /\ conta \in ContaValida
    BY <1>2 DEF Parametros, UsoTypeOK
  <2>2. ASSUME NEW e \in Usos, ReservarUso(e) \/ DevolverUso(e)
        PROVE  SemDescoberto'
    BY <1>2, <2>1, <2>2 DEF SemDescoberto, Disponivel, Total, ReservarUso,
       DevolverUso, ContaValida
  <2>3. ASSUME NEW e \in Usos, NEW q \in Custos, CobrarUso(e, q)
        PROVE  SemDescoberto'
    <3>1. PICK doPlano \in 0..q :
            conta' = [plano |-> conta.plano - doPlano,
                      extras |-> conta.extras - (q - doPlano),
                      reservado |-> conta.reservado - Reserva]
      BY <2>3 DEF CobrarUso
    <3>2. q \in Nat /\ q <= Reserva
      BY DEF Parametros
    <3> QED
      BY <1>2, <2>1, <3>1, <3>2 DEF SemDescoberto, Disponivel, Total, ContaValida
  <2>4. ASSUME conta' = conta PROVE SemDescoberto'
    BY <1>2, <2>4 DEF SemDescoberto, Disponivel, Total
  <2> QED
    BY <1>2, <2>2, <2>3, <2>4 DEF NextUso, RecusarUso, usoVars
<1> QED
  BY <1>1, <1>2, SempreIndUso, PTL DEF SpecUso

-----------------------------------------------------------------------------
\* A closed use stays closed and is never charged again.
THEOREM UsoSoUmaVez ==
  ASSUME Parametros
  PROVE  SpecUso => UsoEncerrado
<1>1. ASSUME IndUso, [NextUso]_usoVars
      PROVE  [\A e \in Usos : uso[e] \in {"debitado", "devolvido"} =>
                uso'[e] = uso[e] /\ debitos'[e] = debitos[e]]_usoVars
  <2>1. SUFFICES ASSUME NextUso, NEW e \in Usos,
                        uso[e] \in {"debitado", "devolvido"}
                 PROVE  uso'[e] = uso[e] /\ debitos'[e] = debitos[e]
    BY <1>1
  <2>2. PICK f \in Usos : \/ ReservarUso(f)
                          \/ RecusarUso(f)
                          \/ \E q \in Custos : CobrarUso(f, q)
                          \/ DevolverUso(f)
    BY <2>1 DEF NextUso
  <2>3. uso[f] \in {"nenhum", "reservado"}
    BY <2>2 DEF ReservarUso, RecusarUso, CobrarUso, DevolverUso
  <2>4. e # f
    BY <2>1, <2>3
  <2> QED
    BY <1>1, <2>2, <2>4
       DEF ReservarUso, RecusarUso, CobrarUso, DevolverUso, IndUso, UsoTypeOK
<1> QED
  BY <1>1, SempreIndUso, PTL DEF SpecUso, UsoEncerrado
=============================================================================
