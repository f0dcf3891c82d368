------------------------------- MODULE Lemas -------------------------------
(***************************************************************************)
(* Facts about the operators the modules are built from, proved once for   *)
(* the modules that cite them: what the operations of credito_service.py   *)
(* do to a row of contas_creditos, sums over a finite set, and the maximum *)
(* of a set.                                                               *)
(*                                                                         *)
(* A sum is a fold, so what it computes needs induction over the set.  The *)
(* library's induction theorems take the formula as an operator, which no  *)
(* installed prover can instantiate; here the induction is over a set of   *)
(* subsets, from the theorem that every non-empty set of finite sets has a *)
(* minimal one.                                                            *)
(***************************************************************************)
EXTENDS ContaCredito, FiniteSetsExt, TLAPS, FiniteSetTheorems,
        WellFoundedInduction

(* The operations on a row of contas_creditos. *)

\* The operators of ContaCredito keep a row within its CHECK constraints: a
\* reservation and a release always, a debit when the total covers it.
LEMMA OperadoresTipados ==
  ASSUME NEW c \in ContaValida, NEW q \in Nat, NEW r \in Nat
  PROVE  /\ Reservar(c, q) \in ContaValida
         /\ Liberar(c, r) \in ContaValida
         /\ Total(c) >= q => Confirmar(c, r, q) \in ContaValida
<1> USE DEF ContaValida
<1>1. Reservar(c, q) \in ContaValida
  BY DEF Reservar
<1>2. Liberar(c, r) \in ContaValida
  BY DEF Liberar, Menor
<1>3. ASSUME Total(c) >= q PROVE Confirmar(c, r, q) \in ContaValida
  <2> DEFINE d == Liberar(c, r)
  <2>1. d \in ContaValida /\ d.plano + d.extras >= q
    BY <1>2, <1>3 DEF Liberar, Total
  <2>2. ASSUME NEW e \in ContaValida, e.plano + e.extras >= q
        PROVE  Debitar(e, q) \in ContaValida
    <3> DEFINE x == Menor(e.extras, q)
    <3>1. e.extras - x \in Nat /\ e.plano - (q - x) \in Nat
      BY <2>2 DEF Menor
    <3> HIDE DEF x
    <3>2. [e EXCEPT !.extras = @ - x, !.plano = @ - (q - x)] \in ContaValida
      BY <3>1
    <3> QED BY <3>2 DEF Debitar, x
  <2> QED BY <2>1, <2>2 DEF Confirmar
<1> QED BY <1>1, <1>2, <1>3

\* What the operators do to the total and to the free balance.
LEMMA Aritmetica ==
  ASSUME NEW c \in ContaValida, NEW q \in Nat, NEW r \in Nat
  PROVE  /\ Total(Reservar(c, q)) = Total(c)
         /\ Disponivel(Reservar(c, q)) = Disponivel(c) - q
         /\ Total(Liberar(c, r)) = Total(c)
         /\ Disponivel(Liberar(c, r)) = Disponivel(c) + Menor(c.reservado, r)
         /\ Total(Confirmar(c, r, q)) = Total(c) - q
         /\ Disponivel(Confirmar(c, r, q))
              = Disponivel(c) + Menor(c.reservado, r) - q
<1> USE DEF ContaValida, Total, Disponivel, Menor
<1>1. /\ Total(Reservar(c, q)) = Total(c)
      /\ Disponivel(Reservar(c, q)) = Disponivel(c) - q
  BY DEF Reservar
<1>2. /\ Total(Liberar(c, r)) = Total(c)
      /\ Disponivel(Liberar(c, r)) = Disponivel(c) + Menor(c.reservado, r)
  BY DEF Liberar
<1>3. /\ Total(Confirmar(c, r, q)) = Total(c) - q
      /\ Disponivel(Confirmar(c, r, q))
           = Disponivel(c) + Menor(c.reservado, r) - q
  BY DEF Confirmar, Debitar, Liberar
<1> QED BY <1>1, <1>2, <1>3

-----------------------------------------------------------------------------
(* Sums over a finite set. *)

\* Induction on the subsets of a finite set, stated with a set of subsets so
\* that it can be cited: what holds of a subset as soon as it holds of the
\* strictly smaller ones holds of all.
LEMMA InducaoEmSubconjuntos ==
  ASSUME NEW D, IsFiniteSet(D), NEW T,
         \A s \in SUBSET D : (\A t \in SUBSET s : t # s => t \in T) => s \in T
  PROVE  \A s \in SUBSET D : s \in T
<1> DEFINE F == (SUBSET D) \ T
           R == StrictSubsetOrdering(D)
<1> SUFFICES ASSUME F # {} PROVE FALSE
  OBVIOUS
<1>1. IsWellFoundedOn(R, SUBSET D)
  <2>1. IsWellFoundedOn(R, FiniteSubsetsOf(D))
    BY FS_StrictSubsetOrderingWellFounded
  <2>2. FiniteSubsetsOf(D) = SUBSET D
    BY FS_FiniteSubsetsOfFinite
  <2> QED BY <2>1, <2>2
<1>2. F \subseteq SUBSET D
  OBVIOUS
<1>3. PICK s \in F : \A t \in F : ~(<<t, s>> \in R)
  <2> HIDE DEF F, R
  <2> QED BY <1>1, <1>2, WFMin
<1>4. s \in SUBSET D /\ s \notin T
  OBVIOUS
<1>5. ASSUME NEW t \in SUBSET s, t # s PROVE t \in T
  <2>1. t \in SUBSET D /\ <<t, s>> \in R
    BY <1>5 DEF R, StrictSubsetOrdering
  <2> QED BY <1>3, <2>1
<1> QED BY <1>4, <1>5

-----------------------------------------------------------------------------
\* g is the table that MapThenSumSet builds: the sum of v over each subset of
\* D, one chosen element at a time.
Escolhido(s) == CHOOSE x \in s : TRUE

EhTabela(g, v, D) ==
  g = [s \in SUBSET D |->
         IF s = {} THEN 0 ELSE v[Escolhido(s)] + g[s \ {Escolhido(s)}]]

LEMMA TabelaEm ==
  ASSUME NEW D, NEW v, NEW g, EhTabela(g, v, D), NEW s \in SUBSET D
  PROVE  /\ s = {} => g[s] = 0
         /\ s # {} => /\ Escolhido(s) \in s
                      /\ g[s] = v[Escolhido(s)] + g[s \ {Escolhido(s)}]
<1>1. g[s] = IF s = {} THEN 0 ELSE v[Escolhido(s)] + g[s \ {Escolhido(s)}]
  BY DEF EhTabela
<1>2. s # {} => Escolhido(s) \in s
  BY DEF Escolhido
<1> QED BY <1>1, <1>2

\* Tables over a set and over a larger one agree where both are defined.
LEMMA TabelasConcordam ==
  ASSUME NEW D, IsFiniteSet(D), NEW B, D \subseteq B, NEW v,
         NEW g, EhTabela(g, v, D), NEW h, EhTabela(h, v, B)
  PROVE  \A s \in SUBSET D : g[s] = h[s]
<1> DEFINE T == {s \in SUBSET D : g[s] = h[s]}
<1>1. ASSUME NEW s \in SUBSET D, \A t \in SUBSET s : t # s => t \in T
      PROVE  s \in T
  <2>1. CASE s = {}
    BY <2>1, TabelaEm
  <2>2. CASE s # {}
    <3> DEFINE r == s \ {Escolhido(s)}
    <3>1. /\ Escolhido(s) \in s
          /\ g[s] = v[Escolhido(s)] + g[r]
          /\ h[s] = v[Escolhido(s)] + h[r]
      BY <2>2, TabelaEm
    <3>2. r \in SUBSET s /\ r # s
      BY <3>1
    <3>3. g[r] = h[r]
      BY <1>1, <3>2
    <3> QED BY <3>1, <3>3
  <2> QED BY <2>1, <2>2
<1> HIDE DEF T
<1>2. \A s \in SUBSET D : s \in T
  BY <1>1, InducaoEmSubconjuntos
<1> QED BY <1>2 DEF T

\* Every finite set has a table.
LEMMA TabelaExiste ==
  ASSUME NEW D, IsFiniteSet(D), NEW v
  PROVE  \E g : EhTabela(g, v, D)
<1> DEFINE T == {s \in SUBSET D : \E g : EhTabela(g, v, s)}
           Tab(s) == CHOOSE g : EhTabela(g, v, s)
<1>1. ASSUME NEW s \in SUBSET D, \A t \in SUBSET s : t # s => t \in T
      PROVE  s \in T
  <2>1. ASSUME NEW t \in SUBSET s, t # s
        PROVE  EhTabela(Tab(t), v, t) /\ IsFiniteSet(t)
    <3>1. \E g : EhTabela(g, v, t)
      BY <1>1, <2>1
    <3> QED BY <3>1, FS_Subset
  <2> DEFINE h == [t \in SUBSET s |->
                     IF t = {} THEN 0
                     ELSE v[Escolhido(t)]
                            + Tab(t \ {Escolhido(t)})[t \ {Escolhido(t)}]]
  <2>2. ASSUME NEW t \in SUBSET s, t # {}
        PROVE  h[t \ {Escolhido(t)}]
                 = Tab(t \ {Escolhido(t)})[t \ {Escolhido(t)}]
    <3> DEFINE y == t \ {Escolhido(t)}
               z == y \ {Escolhido(y)}
    <3>1. y \in SUBSET s /\ y # s
      BY <2>2 DEF Escolhido
    <3>2. EhTabela(Tab(y), v, y) /\ IsFiniteSet(y)
      BY <2>1, <3>1
    <3>3. CASE y = {}
      <4>1. Tab(y)[y] = 0
        BY <3>2, <3>3, TabelaEm
      <4>2. h[y] = 0
        BY <3>3
      <4> QED BY <4>1, <4>2
    <3>4. CASE y # {}
      <4>1. z \in SUBSET y /\ z # y
        BY <3>4 DEF Escolhido
      <4>2. z \in SUBSET s /\ z # s
        BY <3>1, <4>1
      <4>3. EhTabela(Tab(z), v, z) /\ IsFiniteSet(z)
        BY <2>1, <4>2
      <4>4. Tab(z)[z] = Tab(y)[z]
        <5> HIDE DEF y, z, Tab
        <5>1. z \subseteq y /\ z \in SUBSET z
          BY <4>1
        <5> QED BY <3>2, <4>3, <5>1, TabelasConcordam
      <4>5. Tab(y)[y] = v[Escolhido(y)] + Tab(y)[z]
        <5> HIDE DEF y, Tab
        <5>1. y \in SUBSET y
          OBVIOUS
        <5> QED BY <3>2, <3>4, <5>1, TabelaEm
      <4>6. h[y] = v[Escolhido(y)] + Tab(z)[z]
        <5> HIDE DEF y, Tab
        <5> QED BY <3>1, <3>4
      <4> QED BY <4>4, <4>5, <4>6
    <3> QED BY <3>3, <3>4
  <2>3. EhTabela(h, v, s)
    <3> HIDE DEF Tab
    <3>1. \A t \in SUBSET s :
            h[t] = IF t = {} THEN 0
                   ELSE v[Escolhido(t)] + h[t \ {Escolhido(t)}]
      BY <2>2
    <3>2. h = [t \in SUBSET s |-> h[t]]
      OBVIOUS
    <3> HIDE DEF h
    <3> QED BY <3>1, <3>2 DEF EhTabela
  <2> QED BY <2>3
<1> HIDE DEF T
<1>2. \A s \in SUBSET D : s \in T
  BY <1>1, InducaoEmSubconjuntos
<1>3. D \in T
  BY <1>2
<1> QED BY <1>3 DEF T

\* The sum that MapThenSumSet computes is the entry of a table.
Soma(v, D) == MapThenSumSet(LAMBDA u : v[u], D)

LEMMA SomaTabela ==
  ASSUME NEW D, IsFiniteSet(D), NEW v
  PROVE  \E g : EhTabela(g, v, D) /\ Soma(v, D) = g[D]
<1> DEFINE g == CHOOSE g : EhTabela(g, v, D)
<1>1. EhTabela(g, v, D)
  BY TabelaExiste
<1>2. Soma(v, D) = g[D]
  BY DEF Soma, MapThenSumSet, MapThenFoldSet, EhTabela, Escolhido
<1> QED BY <1>1, <1>2

-----------------------------------------------------------------------------
\* The sum does not depend on the element chosen: any one can be taken out.
LEMMA QualquerElemento ==
  ASSUME NEW D, IsFiniteSet(D), NEW v \in [D -> Nat],
         NEW g, EhTabela(g, v, D)
  PROVE  \A s \in SUBSET D : /\ g[s] \in Nat
                             /\ \A x \in s : g[s] = v[x] + g[s \ {x}]
<1> DEFINE T == {s \in SUBSET D : /\ g[s] \in Nat
                                  /\ \A x \in s : g[s] = v[x] + g[s \ {x}]}
<1>1. ASSUME NEW s \in SUBSET D, \A t \in SUBSET s : t # s => t \in T
      PROVE  s \in T
  <2>1. CASE s = {}
    BY <2>1, TabelaEm
  <2>2. CASE s # {}
    <3> DEFINE c == Escolhido(s)
    <3>1. c \in s /\ g[s] = v[c] + g[s \ {c}]
      BY <2>2, TabelaEm
    <3>2. s \ {c} \in T
      BY <1>1, <3>1
    <3> HIDE DEF c
    <3>3. v[c] \in Nat /\ g[s \ {c}] \in Nat
      BY <3>1, <3>2
    <3>4. ASSUME NEW x \in s, x # c PROVE g[s] = v[x] + g[s \ {x}]
      <4>1. s \ {x} \in T
        BY <1>1
      <4>2. g[s \ {c}] = v[x] + g[(s \ {c}) \ {x}]
        BY <3>2, <3>4
      <4>3. g[s \ {x}] = v[c] + g[(s \ {x}) \ {c}]
        BY <3>1, <3>4, <4>1
      <4>4. (s \ {c}) \ {x} = (s \ {x}) \ {c}
        OBVIOUS
      <4>5. (s \ {x}) \ {c} \in T
        BY <1>1, <3>1
      <4>6. v[x] \in Nat /\ g[(s \ {x}) \ {c}] \in Nat
        BY <4>5
      <4> HIDE DEF T
      <4>7. g[(s \ {c}) \ {x}] = g[(s \ {x}) \ {c}]
        BY <4>4
      <4> QED BY <3>1, <3>3, <4>2, <4>3, <4>6, <4>7
    <3>5. g[s] \in Nat
      BY <3>1, <3>3
    <3> QED BY <3>1, <3>4, <3>5
  <2> QED BY <2>1, <2>2
<1> HIDE DEF T
<1>2. \A s \in SUBSET D : s \in T
  BY <1>1, InducaoEmSubconjuntos
<1> QED BY <1>2 DEF T

\* Tables of two functions agree on the sets where the functions do.
LEMMA TabelasDeIguais ==
  ASSUME NEW D, IsFiniteSet(D), NEW v, NEW w, NEW g, NEW h,
         EhTabela(g, v, D), EhTabela(h, w, D),
         NEW E \in SUBSET D, \A x \in E : v[x] = w[x]
  PROVE  g[E] = h[E]
<1> DEFINE T == {s \in SUBSET E : g[s] = h[s]}
<1>1. ASSUME NEW s \in SUBSET E, \A t \in SUBSET s : t # s => t \in T
      PROVE  s \in T
  <2>0. s \in SUBSET D
    OBVIOUS
  <2>1. CASE s = {}
    <3>1. g[s] = 0 /\ h[s] = 0
      BY <2>0, <2>1, TabelaEm
    <3> QED BY <3>1
  <2>2. CASE s # {}
    <3> DEFINE r == s \ {Escolhido(s)}
    <3>1. /\ Escolhido(s) \in s
          /\ g[s] = v[Escolhido(s)] + g[r]
          /\ h[s] = w[Escolhido(s)] + h[r]
      BY <2>0, <2>2, TabelaEm
    <3>2. r \in SUBSET s /\ r # s
      BY <3>1
    <3>3. g[r] = h[r] /\ v[Escolhido(s)] = w[Escolhido(s)]
      BY <1>1, <3>1, <3>2
    <3> QED BY <3>1, <3>3
  <2> QED BY <2>1, <2>2
<1> HIDE DEF T
<1>2. IsFiniteSet(E)
  BY FS_Subset
<1>3. \A s \in SUBSET E : s \in T
  BY <1>1, <1>2, InducaoEmSubconjuntos
<1> QED BY <1>3 DEF T

\* The sum is a natural number, and no smaller than any of its terms.
LEMMA SomaLimita ==
  ASSUME NEW D, IsFiniteSet(D), NEW v \in [D -> Nat]
  PROVE  /\ Soma(v, D) \in Nat
         /\ \A x \in D : v[x] <= Soma(v, D)
<1>1. PICK g : EhTabela(g, v, D) /\ Soma(v, D) = g[D]
  BY SomaTabela
<1>2. /\ g[D] \in Nat
      /\ \A x \in D : g[D] = v[x] + g[D \ {x}] /\ g[D \ {x}] \in Nat
  BY <1>1, QualquerElemento
<1>3. ASSUME NEW x \in D PROVE v[x] <= g[D]
  <2> DEFINE y == g[D \ {x}]
  <2>1. v[x] \in Nat /\ y \in Nat /\ g[D] = v[x] + y
    BY <1>2
  <2> HIDE DEF y
  <2> QED BY <2>1
<1> QED BY <1>1, <1>2, <1>3

\* The sum of zeros is zero.
LEMMA SomaDeZeros ==
  ASSUME NEW D, IsFiniteSet(D)
  PROVE  Soma([x \in D |-> 0], D) = 0
<1> DEFINE v == [x \in D |-> 0]
<1>1. PICK g : EhTabela(g, v, D) /\ Soma(v, D) = g[D]
  BY SomaTabela
<1> DEFINE T == {s \in SUBSET D : g[s] = 0}
<1>2. ASSUME NEW s \in SUBSET D, \A t \in SUBSET s : t # s => t \in T
      PROVE  s \in T
  <2>1. CASE s = {}
    <3> HIDE DEF v
    <3> QED BY <1>1, <2>1, TabelaEm
  <2>2. CASE s # {}
    <3> DEFINE c == Escolhido(s)
    <3>1. c \in s /\ g[s] = v[c] + g[s \ {c}]
      <4> HIDE DEF v
      <4> QED BY <1>1, <2>2, TabelaEm
    <3>2. s \ {c} \in T
      BY <1>2, <3>1
    <3> HIDE DEF c
    <3> QED BY <3>1, <3>2
  <2> QED BY <2>1, <2>2
<1> HIDE DEF T, v
<1>3. \A s \in SUBSET D : s \in T
  BY <1>2, InducaoEmSubconjuntos
<1> QED BY <1>1, <1>3 DEF T, v

\* Changing one term changes the sum by as much.
LEMMA SomaTroca ==
  ASSUME NEW D, IsFiniteSet(D), NEW v \in [D -> Nat], NEW u \in D, NEW k \in Nat
  PROVE  Soma([v EXCEPT ![u] = k], D) = Soma(v, D) - v[u] + k
<1> DEFINE w == [v EXCEPT ![u] = k]
           E == D \ {u}
<1>1. w \in [D -> Nat] /\ w[u] = k /\ \A x \in E : v[x] = w[x]
  OBVIOUS
<1> HIDE DEF w
<1>2. PICK g : EhTabela(g, v, D) /\ Soma(v, D) = g[D]
  BY SomaTabela
<1>3. PICK h : EhTabela(h, w, D) /\ Soma(w, D) = h[D]
  BY SomaTabela
<1>4. g[D] = v[u] + g[E] /\ g[E] \in Nat
  BY <1>2, QualquerElemento
<1>5. h[D] = k + h[E]
  BY <1>1, <1>3, QualquerElemento
<1>6. E \in SUBSET D
  OBVIOUS
<1> HIDE DEF E
<1>7. g[E] = h[E]
  BY <1>1, <1>2, <1>3, <1>6, TabelasDeIguais
<1>8. v[u] \in Nat
  OBVIOUS
<1> QED BY <1>2, <1>3, <1>4, <1>5, <1>7, <1>8 DEF w

-----------------------------------------------------------------------------
(* The maximum of a set. *)

\* Max is what it is named for on every non-empty set of integers that is bounded.
LEMMA MaximoExiste ==
  ASSUME NEW k \in Int, NEW S \in SUBSET Int, S # {}, \A x \in S : x <= k
  PROVE  Max(S) \in S /\ \A y \in S : y <= Max(S)
<1> DEFINE T == {k - x : x \in S}
           R == OpToRel(<, Nat)
<1>1. T \subseteq Nat /\ T # {}
  <2>1. \A x \in S : k - x \in Nat
    OBVIOUS
  <2>2. T \subseteq Nat
    BY <2>1
  <2> QED BY <2>2
<1>2. PICK t \in T : \A u \in T : ~(<<u, t>> \in R)
  <2>1. IsWellFoundedOn(R, Nat)
    BY NatLessThanWellFounded
  <2> HIDE DEF T, R
  <2> QED BY <1>1, <2>1, WFMin
<1>3. PICK x \in S : t = k - x
  OBVIOUS
<1>4. \A y \in S : x >= y
  <2> SUFFICES ASSUME NEW y \in S, ~(x >= y)
               PROVE  FALSE
    OBVIOUS
  <2>1. k - y \in T /\ k - y \in Nat /\ t \in Nat /\ k - y < t
    BY <1>1, <1>3
  <2>2. <<k - y, t>> \in R
    BY <2>1 DEF OpToRel
  <2> QED BY <1>2, <2>1, <2>2
<1>5. Max(S) \in S /\ \A y \in S : Max(S) >= y
  BY <1>4 DEF Max
<1> QED BY <1>5

LEMMA MaiorDeDois ==
  ASSUME NEW a \in Int, NEW b \in Int
  PROVE  Max({a, b}) = IF a >= b THEN a ELSE b
<1>1. Max({a, b}) \in {a, b} /\ \A y \in {a, b} : y <= Max({a, b})
  <2> DEFINE k == IF a >= b THEN a ELSE b
  <2>1. k \in Int /\ \A x \in {a, b} : x <= k
    OBVIOUS
  <2> HIDE DEF k
  <2>2. {a, b} \in SUBSET Int /\ {a, b} # {}
    OBVIOUS
  <2> QED BY <2>1, <2>2, MaximoExiste
<1> QED BY <1>1
=============================================================================
