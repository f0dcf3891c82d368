------------------------ MODULE WorkflowArtigoProofs ------------------------
(***************************************************************************)
(* Proofs about the graph of gerar_artigo, for every value of its limits,  *)
(* costs and retries.  The argument is layered: typing; then the ceiling,  *)
(* which needs that the first nodes run with no version written; then,     *)
(* each on top of those, what the rows of versoes_artigo hold, how far the *)
(* counters let the versions go, and which version an answer is about.     *)
(***************************************************************************)
EXTENDS WorkflowArtigo, TLAPS

Primeiros == {"pesquisar", "analisar", "criar_brief"}

-----------------------------------------------------------------------------
LEMMA TipoInicial == Init => TypeOK
<1> SUFFICES ASSUME Init PROVE TypeOK
  OBVIOUS
<1>1. versoes \in [1..TetoVersoes -> {"ausente", "redigida", "revisada"}]
  BY DEF Init
<1>2. no \in Nos /\ tentativa \in 1..MaxTentativas
  BY WorkflowAssumption DEF Init, Nos
<1> QED BY <1>1, <1>2 DEF Init, TypeOK

\* The plain edges lead from five nodes to nodes of the graph.
LEMMA Arestas ==
  ASSUME NEW n \in DOMAIN Aresta
  PROVE  \/ n \in {"pesquisar", "analisar"} /\ Aresta[n] \in Primeiros
         \/ n = "criar_brief" /\ Aresta[n] = "redigir"
         \/ /\ n \in {"marcar_aguardando", "salvar_vetorial"}
            /\ Aresta[n] \in {"aguardar_aprovacao", "gerar_imagem"}
BY DEF Aresta, Primeiros

LEMMA TipoPasso == TypeOK /\ [Next]_vars => TypeOK'
<1> SUFFICES ASSUME TypeOK, [Next]_vars PROVE TypeOK'
  OBVIOUS
<1> USE WorkflowAssumption DEF TypeOK
<1>1. CASE NoSimples
  <2>1. no' \in Nos
    BY <1>1, Arestas DEF NoSimples, Avancar, Primeiros, Nos
  <2> QED BY <1>1, <2>1
         DEF NoSimples, Avancar, estado, contadores, jobVars, historia
<1>2. CASE RedigirGravar
  BY <1>2 DEF RedigirGravar, Gravar, estado, contadores, jobVars, historia
<1>3. CASE Redigir
  <2>1. versao_atual' \in Nat /\ no' \in Nos
    BY <1>3 DEF Redigir, Avancar, Nos
  <2> QED BY <1>3, <2>1, Zenon DEF Redigir, Avancar, jobVars, historia
<1>4. CASE RevisarGravar
  BY <1>4 DEF RevisarGravar, Gravar, estado, contadores, jobVars, historia
<1>5. ASSUME NEW aprovado \in BOOLEAN, Revisar(aprovado) PROVE TypeOK'
  <2>1. tentativas_revisao' \in Nat
    BY <1>5 DEF Revisar
  <2>2. no' \in Nos
    BY <1>5 DEF Revisar, Avancar, RoteamentoRevisor, Nos
  <2> QED BY <1>5, <2>1, <2>2, Zenon DEF Revisar, Avancar, jobVars, historia
<1>6. CASE AguardarAprovacao
  <2>1. no' \in Nos
    BY <1>6 DEF AguardarAprovacao, Avancar, RoteamentoUsuario, Nos
  <2>2. tentativas_feedback' \in Nat
    BY <1>6 DEF AguardarAprovacao
  <2>3. aprovado_usuario' \in BOOLEAN
    BY <1>6 DEF AguardarAprovacao
  <2> QED BY <1>6, <2>1, <2>2, <2>3, Zenon
         DEF AguardarAprovacao, Avancar, jobVars, historia
<1>7. ASSUME NEW gerada \in BOOLEAN, GerarImagem(gerada) PROVE TypeOK'
  BY <1>7 DEF GerarImagem, Avancar, Nos, contadores, jobVars, historia
<1>8. CASE FimNoInterrupt
  BY <1>8 DEF FimNoInterrupt, estado, contadores, historia
<1>9. CASE FinalizarSucesso
  <2>1. cobrado' \in Nat
    BY <1>9 DEF FinalizarSucesso, CalcularCustoFinal, Maior
  <2> QED BY <1>9, <2>1
         DEF FinalizarSucesso, Encerrados, estado, contadores, historia
<1>10. CASE Falhar
  BY <1>10 DEF Falhar, Encerrados, estado, contadores, historia
<1>11. ASSUME NEW aprova \in BOOLEAN,
              NEW revisoes \in {0, tentativas_revisao},
              NEW feedbacks \in {0, tentativas_feedback},
              Responder(aprova, revisoes, feedbacks)
       PROVE  TypeOK'
  BY <1>11 DEF Responder
<1>12. CASE Reexecutar
  <2>1. tentativa' \in 1..MaxTentativas
    BY <1>12 DEF Reexecutar, HaTentativa
  <2>2. CASE RecomecarGrafo
    BY <1>12, <2>1, <2>2 DEF Reexecutar, RecomecarGrafo, Nos, historia
  <2>3. CASE ContinuarGrafo
    BY <1>12, <2>1, <2>3 DEF Reexecutar, ContinuarGrafo, estado, contadores, historia
  <2> QED BY <1>12, <2>2, <2>3 DEF Reexecutar
<1>13. CASE Abandonar
  BY <1>13 DEF Abandonar, Encerrados, estado, contadores, historia
<1>14. CASE UNCHANGED vars
  BY <1>14 DEF vars, estado, contadores, jobVars, historia
<1> QED
  BY <1>1, <1>2, <1>3, <1>4, <1>5, <1>6, <1>7, <1>8, <1>9, <1>10, <1>11,
     <1>12, <1>13, <1>14 DEF Next, Trabalhar

\* Typing of the graph's state, its rows and its job; in particular a job is
\* never in a try above max_tries, and what is charged is a natural number.
THEOREM TiposCorretos == Spec => []TypeOK
BY TipoInicial, TipoPasso, PTL DEF Spec

-----------------------------------------------------------------------------
\* What a step may do to the versions, in one place: the case split that the
\* invariants below share.
LEMMA Movimentos ==
  ASSUME TypeOK, Next
  PROVE  \/ /\ no \in Primeiros /\ no' \in Primeiros \cup {"redigir"}
            /\ versao_atual' = versao_atual
         \/ no' = no /\ versao_atual' = versao_atual
         \/ /\ no = "redigir" /\ no' = "revisar"
            /\ versao_atual' = versao_atual + 1
         \/ /\ no \in {"revisar", "aguardar_aprovacao"} /\ no' = "redigir"
            /\ versao_atual < TetoVersoes /\ versao_atual' = versao_atual
         \/ no' \notin Primeiros \cup {"redigir"} /\ versao_atual' = versao_atual
         \/ no' = "pesquisar" /\ versao_atual' = 0
<1> USE DEF Primeiros
<1>1. CASE NoSimples
  BY <1>1, Arestas DEF NoSimples, Avancar, estado, contadores
<1>2. CASE RedigirGravar \/ RevisarGravar
  BY <1>2 DEF RedigirGravar, RevisarGravar, Gravar, estado, contadores
<1>3. CASE Redigir
  BY <1>3 DEF Redigir, Avancar
<1>4. ASSUME NEW aprovado \in BOOLEAN, Revisar(aprovado)
      PROVE  \/ /\ no = "revisar" /\ no' = "redigir"
                /\ versao_atual < TetoVersoes /\ versao_atual' = versao_atual
             \/ no' = "marcar_aguardando" /\ versao_atual' = versao_atual
  BY <1>4 DEF Revisar, Avancar, RoteamentoRevisor
<1>5. CASE AguardarAprovacao
  BY <1>5 DEF AguardarAprovacao, Avancar, RoteamentoUsuario
<1>6. ASSUME NEW gerada \in BOOLEAN, GerarImagem(gerada)
      PROVE  no' = "END" /\ versao_atual' = versao_atual
  BY <1>6 DEF GerarImagem, Avancar, contadores
<1>7. CASE FimNoInterrupt \/ FinalizarSucesso \/ Falhar \/ Abandonar
  BY <1>7 DEF FimNoInterrupt, FinalizarSucesso, Falhar, Abandonar, estado, contadores
<1>8. ASSUME NEW aprova \in BOOLEAN, NEW revisoes, NEW feedbacks,
             Responder(aprova, revisoes, feedbacks)
      PROVE  no' = no /\ versao_atual' = versao_atual
  BY <1>8 DEF Responder
<1>9. CASE Reexecutar
  BY <1>9 DEF Reexecutar, RecomecarGrafo, ContinuarGrafo, estado, contadores
<1> QED
  BY <1>1, <1>2, <1>3, <1>4, <1>5, <1>6, <1>7, <1>8, <1>9 DEF Next, Trabalhar

\* The ceiling is inductive once the first nodes are known to run before any
\* version: they reach redigir without asking a router.
TetoIndutivo ==
  /\ TypeOK
  /\ VersaoNoTeto
  /\ no \in Primeiros => versao_atual = 0

LEMMA TetoInicial == Init => TetoIndutivo
<1> SUFFICES ASSUME Init PROVE TetoIndutivo
  OBVIOUS
<1> QED
  BY TipoInicial, WorkflowAssumption
     DEF Init, TetoIndutivo, VersaoNoTeto, TetoVersoes

LEMMA TetoPasso == TetoIndutivo /\ [Next]_vars => TetoIndutivo'
<1> SUFFICES ASSUME TetoIndutivo, [Next]_vars PROVE TetoIndutivo'
  OBVIOUS
<1>1. TypeOK'
  BY TipoPasso DEF TetoIndutivo
<1>2. TetoVersoes \in Nat /\ TetoVersoes >= 1 /\ versao_atual \in Nat
  BY WorkflowAssumption DEF TetoVersoes, TetoIndutivo, TypeOK
<1>3. CASE Next
  <2>1. VersaoNoTeto'
    BY <1>2, <1>3, Movimentos DEF TetoIndutivo, VersaoNoTeto, Primeiros, TetoVersoes
  <2>2. (no \in Primeiros => versao_atual = 0)'
    BY <1>2, <1>3, Movimentos DEF TetoIndutivo, Primeiros
  <2> QED BY <1>1, <2>1, <2>2 DEF TetoIndutivo
<1>4. CASE UNCHANGED vars
  BY <1>1, <1>4
     DEF vars, estado, contadores, TetoIndutivo, VersaoNoTeto, Primeiros, TetoVersoes
<1> QED BY <1>3, <1>4

LEMMA TetoSempre == Spec => []TetoIndutivo
BY TetoInicial, TetoPasso, PTL DEF Spec

\* No answer, crash or divergence of the counters writes a version above the
\* ceiling of _teto_versoes, whatever the configuration.
THEOREM NuncaPassaDoTeto == Spec => []VersaoNoTeto
<1>1. TetoIndutivo => VersaoNoTeto
  BY DEF TetoIndutivo
<1> QED BY <1>1, TetoSempre, PTL

-----------------------------------------------------------------------------
\* custo_maximo_estimado bounds calcular_custo_final on every version up to
\* the ceiling.
LEMMA CustoLimitado ==
  ASSUME NEW v \in Nat, v <= TetoVersoes, NEW comImagem \in BOOLEAN
  PROVE  CalcularCustoFinal(v, comImagem) <= CustoMaximoEstimado
<1> DEFINE n == Maior(0, v - 1)
           m == MaxRevisoes + MaxFeedback
<1>1. n \in Nat /\ m \in Nat /\ n <= m
  BY WorkflowAssumption DEF Maior, TetoVersoes
<1>2. CustoBase \in Nat /\ CustoRevisao \in Nat /\ CustoImagem \in Nat
  BY WorkflowAssumption
<1>3. n * CustoRevisao <= m * CustoRevisao
  <2>1. ASSUME NEW a \in Nat, NEW b \in Nat, NEW k \in Nat, a <= b
        PROVE  a * k <= b * k
    BY <2>1
  <2> HIDE DEF n, m
  <2> QED BY <1>1, <1>2, <2>1
<1>4. n * CustoRevisao \in Int /\ m * CustoRevisao \in Int
  BY <1>1, <1>2
<1> HIDE DEF n
<1>5. CustoBase + n * CustoRevisao + (IF comImagem THEN CustoImagem ELSE 0)
        <= CustoBase + m * CustoRevisao + CustoImagem
  BY <1>2, <1>3, <1>4
<1> QED BY <1>5 DEF CalcularCustoFinal, CustoMaximoEstimado, n

\* Whatever the limits and the prices, an article is never charged more than
\* gerar_artigo reserved for it.
THEOREM CustoNuncaExcedeReserva == Spec => []CustoCabeNaReserva
<1>1. Init => CustoCabeNaReserva
  <2>1. CustoMaximoEstimado \in Nat
    BY WorkflowAssumption DEF CustoMaximoEstimado
  <2> QED BY <2>1 DEF Init, CustoCabeNaReserva, NaoCobrado
<1>2. TetoIndutivo /\ CustoCabeNaReserva /\ [Next]_vars => CustoCabeNaReserva'
  <2> SUFFICES ASSUME TetoIndutivo, CustoCabeNaReserva, [Next]_vars
               PROVE  CustoCabeNaReserva'
    OBVIOUS
  <2>1. CASE FinalizarSucesso
    <3>1. versao_atual \in Nat /\ versao_atual <= TetoVersoes /\ imagem \in BOOLEAN
      BY <2>1 DEF FinalizarSucesso, TetoIndutivo, TypeOK, VersaoNoTeto
    <3> QED BY <2>1, <3>1, CustoLimitado
           DEF FinalizarSucesso, CustoCabeNaReserva, CustoMaximoEstimado
  <2>2. ASSUME ~FinalizarSucesso PROVE cobrado' = cobrado
    BY <2>2
       DEF Next, Trabalhar, NoSimples, RedigirGravar, Redigir, RevisarGravar,
           Revisar, AguardarAprovacao, GerarImagem, FimNoInterrupt, Falhar,
           Responder, Reexecutar, Abandonar, Gravar, Avancar, vars
  <2> QED BY <2>1, <2>2 DEF CustoCabeNaReserva, CustoMaximoEstimado
<1> QED BY <1>1, <1>2, TetoSempre, PTL DEF Spec

-----------------------------------------------------------------------------
Revisados == {"marcar_aguardando", "aguardar_aprovacao", "salvar_vetorial",
              "gerar_imagem", "END", "concluida"}

\* What the row of the current version holds at each point of the graph.  The
\* two parts on gravado are what makes it survive a crash: between a commit
\* and its checkpoint the row is ahead of the state by exactly one node.
LinhasIndutivo ==
  /\ TetoIndutivo
  /\ no = "redigir" /\ gravado => versoes[versao_atual + 1] = "redigida"
  /\ no = "revisar" => /\ versao_atual \in 1..TetoVersoes
                       /\ versoes[versao_atual] # "ausente"
                       /\ gravado => versoes[versao_atual] = "revisada"
  /\ no \in Revisados => /\ versao_atual \in 1..TetoVersoes
                         /\ versoes[versao_atual] = "revisada"

LEMMA LinhasInicial == Init => LinhasIndutivo
<1> SUFFICES ASSUME Init PROVE LinhasIndutivo
  OBVIOUS
<1> QED BY TetoInicial DEF Init, LinhasIndutivo, Revisados

LEMMA LinhasPasso == LinhasIndutivo /\ [Next]_vars => LinhasIndutivo'
<1> SUFFICES ASSUME LinhasIndutivo, [Next]_vars PROVE LinhasIndutivo'
  OBVIOUS
<1>1. TetoIndutivo'
  BY TetoPasso DEF LinhasIndutivo
<1>2. /\ TetoVersoes \in Nat /\ TetoVersoes' = TetoVersoes
      /\ versao_atual \in Nat
      /\ no = "redigir" => versao_atual + 1 <= TetoVersoes
      /\ versoes \in [1..TetoVersoes -> {"ausente", "redigida", "revisada"}]
  BY WorkflowAssumption
     DEF TetoVersoes, LinhasIndutivo, TetoIndutivo, TypeOK, VersaoNoTeto
<1>3. CASE NoSimples
  BY <1>1, <1>2, <1>3, Arestas
     DEF NoSimples, Avancar, LinhasIndutivo, Revisados, Primeiros, estado, contadores
<1>4. CASE RedigirGravar
  BY <1>1, <1>2, <1>4
     DEF RedigirGravar, Gravar, LinhasIndutivo, Revisados, estado, contadores
<1>5. CASE Redigir
  BY <1>1, <1>2, <1>5 DEF Redigir, Avancar, LinhasIndutivo, Revisados
<1>6. CASE RevisarGravar
  <2>1. versao_atual \in 1..TetoVersoes /\ versoes'[versao_atual] = "revisada"
    BY <1>2, <1>6 DEF RevisarGravar, Gravar, LinhasIndutivo
  <2> QED BY <1>1, <1>2, <1>6, <2>1
         DEF RevisarGravar, Gravar, LinhasIndutivo, Revisados, estado, contadores
<1>7. ASSUME NEW aprovado \in BOOLEAN, Revisar(aprovado)
      PROVE  LinhasIndutivo'
  <2>1. no' \in {"redigir", "marcar_aguardando"}
    BY <1>7 DEF Revisar, Avancar, RoteamentoRevisor
  <2> QED BY <1>1, <1>2, <1>7, <2>1
         DEF Revisar, Avancar, LinhasIndutivo, Revisados
<1>8. CASE AguardarAprovacao
  <2>1. no' \in {"redigir", "salvar_vetorial"}
    BY <1>8 DEF AguardarAprovacao, Avancar, RoteamentoUsuario
  <2> QED BY <1>1, <1>2, <1>8, <2>1
         DEF AguardarAprovacao, Avancar, LinhasIndutivo, Revisados
<1>9. ASSUME NEW gerada \in BOOLEAN, GerarImagem(gerada)
      PROVE  LinhasIndutivo'
  BY <1>1, <1>2, <1>9
     DEF GerarImagem, Avancar, LinhasIndutivo, Revisados, contadores
<1>10. CASE FimNoInterrupt \/ FinalizarSucesso
  BY <1>1, <1>2, <1>10
     DEF FimNoInterrupt, FinalizarSucesso, LinhasIndutivo, Revisados, estado, contadores
<1>11. CASE Falhar \/ Abandonar
  BY <1>1, <1>2, <1>11
     DEF Falhar, Abandonar, LinhasIndutivo, Revisados, estado, contadores
<1>12. ASSUME NEW aprova, NEW revisoes, NEW feedbacks,
              Responder(aprova, revisoes, feedbacks)
       PROVE  LinhasIndutivo'
  BY <1>1, <1>2, <1>12 DEF Responder, LinhasIndutivo, Revisados
<1>13. CASE Reexecutar
  BY <1>1, <1>2, <1>13
     DEF Reexecutar, RecomecarGrafo, ContinuarGrafo, LinhasIndutivo, Revisados,
         estado, contadores
<1>14. CASE UNCHANGED vars
  BY <1>1, <1>2, <1>14 DEF vars, LinhasIndutivo, Revisados, estado, contadores
<1> QED
  BY <1>3, <1>4, <1>5, <1>6, <1>7, <1>8, <1>9, <1>10, <1>11, <1>12, <1>13,
     <1>14 DEF Next, Trabalhar

\* Whatever crashes and runs again, the user is asked about, and the article
\* is finished with, a version whose row exists and carries its score.
THEOREM VersaoSempreRevisada == Spec => []VersaoRevisada
<1>1. LinhasIndutivo => VersaoRevisada
  BY DEF LinhasIndutivo, Revisados, VersaoRevisada, TetoIndutivo, TypeOK
<1> QED BY <1>1, LinhasInicial, LinhasPasso, PTL DEF Spec

-----------------------------------------------------------------------------
\* Versions the two counters allow: the loop with the reviewer writes at most
\* MaxRevisoes of them, the first one always among them, and each round of
\* feedback but the last adds one.
Permitidas(rodadas) ==
  Maior(1, MaxRevisoes) + Menor(rodadas, Maior(0, MaxFeedback - 1))

\* While the counters are sound, tentativas_revisao counts the versions, for
\* each is reviewed once, and the versions stay among those allowed.
FolgaIndutivo ==
  /\ TypeOK
  /\ no \in Primeiros => versao_atual = 0 /\ tentativas_revisao = 0
  /\ ~divergiu =>
       /\ no \in Nos =>
            versao_atual = tentativas_revisao + (IF no = "revisar" THEN 1 ELSE 0)
       /\ versao_atual + (IF no = "redigir" THEN 1 ELSE 0)
            <= Permitidas(tentativas_feedback)

LEMMA FolgaInicial == Init => FolgaIndutivo
<1> SUFFICES ASSUME Init PROVE FolgaIndutivo
  OBVIOUS
<1>1. 0 <= Permitidas(0)
  BY WorkflowAssumption DEF Permitidas, Maior, Menor
<1> QED BY <1>1, TipoInicial DEF Init, FolgaIndutivo

LEMMA FolgaPasso == FolgaIndutivo /\ [Next]_vars => FolgaIndutivo'
<1> SUFFICES ASSUME FolgaIndutivo, [Next]_vars PROVE FolgaIndutivo'
  OBVIOUS
<1>1. TypeOK'
  BY TipoPasso DEF FolgaIndutivo
<1>2. /\ versao_atual \in Nat /\ tentativas_revisao \in Nat
      /\ tentativas_feedback \in Nat
      /\ no \in Nos \cup Encerrados
  BY DEF FolgaIndutivo, TypeOK
<1>3. \A k \in Nat : /\ Permitidas(k) \in Nat
                     /\ Permitidas(k) >= 1
                     /\ Permitidas(k) >= MaxRevisoes
                     /\ k + 1 < MaxFeedback
                          => Permitidas(k + 1) = Permitidas(k) + 1
                     /\ Permitidas(k + 1) >= Permitidas(k)
  BY WorkflowAssumption DEF Permitidas, Maior, Menor
<1> USE DEF FolgaIndutivo
<1>4. CASE NoSimples
  <2>1. Permitidas(tentativas_feedback) >= 1
    BY <1>2, <1>3
  <2> QED BY <1>1, <1>2, <1>4, <2>1, Arestas
         DEF NoSimples, Avancar, Primeiros, Nos, estado, contadores, historia,
             Permitidas
<1>5. CASE RedigirGravar \/ RevisarGravar
  BY <1>1, <1>2, <1>5
     DEF RedigirGravar, RevisarGravar, Gravar, estado, contadores, historia,
         Permitidas
<1>6. CASE Redigir
  BY <1>1, <1>2, <1>6 DEF Redigir, Avancar, Nos, Primeiros, historia, Permitidas
<1>7. ASSUME NEW aprovado \in BOOLEAN, Revisar(aprovado)
      PROVE  FolgaIndutivo'
  <2>1. \/ no' = "marcar_aguardando"
        \/ no' = "redigir" /\ tentativas_revisao + 1 < MaxRevisoes
    BY <1>7 DEF Revisar, Avancar, RoteamentoRevisor
  <2>2. Permitidas(tentativas_feedback) >= MaxRevisoes
    BY <1>2, <1>3
  <2>3. Permitidas(tentativas_feedback)' = Permitidas(tentativas_feedback)
    BY <1>7 DEF Revisar, Permitidas
  <2>4. /\ no = "revisar" /\ versao_atual' = versao_atual
        /\ tentativas_revisao' = tentativas_revisao + 1
        /\ divergiu' = divergiu
    BY <1>7 DEF Revisar, Avancar, historia
  <2> QED BY <1>1, <1>2, <1>3, <2>1, <2>2, <2>3, <2>4, WorkflowAssumption
         DEF Nos, Primeiros
<1>8. CASE AguardarAprovacao
  <2>1. /\ no = "aguardar_aprovacao" /\ versao_atual' = versao_atual
        /\ tentativas_revisao' = tentativas_revisao
        /\ divergiu' = divergiu
    BY <1>8 DEF AguardarAprovacao, Avancar, historia
  <2>6. tentativas_feedback' \in {tentativas_feedback, tentativas_feedback + 1}
    <3>1. CASE resposta
      BY <1>2, <1>8, <3>1 DEF AguardarAprovacao
    <3>2. CASE ~resposta
      BY <1>8, <3>2 DEF AguardarAprovacao
    <3> QED BY <3>1, <3>2
  <2>2. \/ no' = "salvar_vetorial"
        \/ /\ no' = "redigir"
           /\ tentativas_feedback' = tentativas_feedback + 1
           /\ tentativas_feedback + 1 < MaxFeedback
    BY <1>8 DEF AguardarAprovacao, Avancar, RoteamentoUsuario
  <2>3. /\ Permitidas(tentativas_feedback)' = Permitidas(tentativas_feedback')
        /\ Permitidas(tentativas_feedback) \in Nat
        /\ Permitidas(tentativas_feedback + 1) >= Permitidas(tentativas_feedback)
        /\ Permitidas(tentativas_feedback + 1) \in Nat
        /\ tentativas_feedback + 1 < MaxFeedback
             => Permitidas(tentativas_feedback + 1)
                  = Permitidas(tentativas_feedback) + 1
    BY <1>2, <1>3 DEF Permitidas
  <2>4. CASE no' = "salvar_vetorial"
    BY <1>1, <1>2, <2>1, <2>3, <2>4, <2>6 DEF Nos, Primeiros
  <2>5. CASE no' = "redigir"
    BY <1>1, <1>2, <2>1, <2>2, <2>3, <2>5 DEF Nos, Primeiros
  <2> QED BY <2>2, <2>4, <2>5
<1>9. ASSUME NEW gerada \in BOOLEAN, GerarImagem(gerada)
      PROVE  FolgaIndutivo'
  BY <1>1, <1>2, <1>9
     DEF GerarImagem, Avancar, Nos, Primeiros, contadores, historia, Permitidas
<1>10. CASE FimNoInterrupt
  BY <1>1, <1>2, <1>10 DEF FimNoInterrupt, estado, contadores, historia, Permitidas
<1>11. CASE FinalizarSucesso \/ Falhar \/ Abandonar
  BY <1>1, <1>2, <1>3, <1>11
     DEF FinalizarSucesso, Falhar, Abandonar, Nos, Primeiros, estado, contadores,
         historia, Permitidas
<1>12. ASSUME NEW aprova \in BOOLEAN, NEW revisoes, NEW feedbacks,
              Responder(aprova, revisoes, feedbacks)
       PROVE  FolgaIndutivo'
  BY <1>1, <1>2, <1>12 DEF Responder, Primeiros, Permitidas
<1>13. CASE Reexecutar /\ RecomecarGrafo
  <2>1. Permitidas(tentativas_feedback)' \in Nat
    BY <1>1, <1>3 DEF TypeOK, Permitidas
  <2> QED BY <1>1, <1>2, <1>13, <2>1
         DEF Reexecutar, RecomecarGrafo, historia, Nos, Primeiros
<1>14. CASE Reexecutar /\ ContinuarGrafo
  BY <1>1, <1>2, <1>14
     DEF Reexecutar, ContinuarGrafo, estado, contadores, historia, Permitidas
<1>15. CASE UNCHANGED vars
  BY <1>1, <1>2, <1>15 DEF vars, estado, contadores, historia, Permitidas
<1> QED
  BY <1>4, <1>5, <1>6, <1>7, <1>8, <1>9, <1>10, <1>11, <1>12, <1>13, <1>14,
     <1>15 DEF Next, Trabalhar, Reexecutar

\* Whatever the limits, sound counters stop both loops before the hard guard
\* does: the guard only decides after a divergence.
THEOREM TetoNuncaCorta == Spec => []TetoSoNaDivergencia
<1>1. FolgaIndutivo => TetoSoNaDivergencia
  <2> SUFFICES ASSUME FolgaIndutivo, ~divergiu, MaxRevisoes + MaxFeedback > 0
               PROVE  versao_atual < TetoVersoes
    BY DEF TetoSoNaDivergencia
  <2>1. /\ versao_atual \in Nat /\ tentativas_feedback \in Nat
        /\ versao_atual <= Permitidas(tentativas_feedback)
    BY WorkflowAssumption DEF FolgaIndutivo, TypeOK, Permitidas, Maior, Menor
  <2> QED BY <2>1, WorkflowAssumption DEF Permitidas, Maior, Menor, TetoVersoes
<1> QED BY <1>1, FolgaInicial, FolgaPasso, PTL DEF Spec

-----------------------------------------------------------------------------
\* Which version an answer is about.  An answer in hand in the first try of
\* its job still faces the interrupt it was given at; past redigir the current
\* version is newer than the one answered last.
VistaIndutivo ==
  /\ TypeOK
  /\ job = "executar_workflow" => vista = 0 /\ ~pendente
  /\ no \in Primeiros => vista = 0
  /\ no \in {"redigir", "aguardar_aprovacao"} => vista <= versao_atual
  /\ no \in {"revisar", "marcar_aguardando"} => vista < versao_atual
  /\ no = "aguardar_aprovacao" /\ ~pendente => vista < versao_atual
  /\ no = "aguardar_aprovacao" /\ job = "nenhum" => ~pendente
  /\ Rodando /\ pendente /\ tentativa = 1
       => no = "aguardar_aprovacao" /\ versao_atual = vista

LEMMA VistaInicial == Init => VistaIndutivo
<1> SUFFICES ASSUME Init PROVE VistaIndutivo
  OBVIOUS
<1> QED BY TipoInicial DEF Init, VistaIndutivo

LEMMA VistaPasso == VistaIndutivo /\ [Next]_vars => VistaIndutivo'
<1> SUFFICES ASSUME VistaIndutivo, [Next]_vars PROVE VistaIndutivo'
  OBVIOUS
<1>1. TypeOK'
  BY TipoPasso DEF VistaIndutivo
<1>2. versao_atual \in Nat /\ vista \in Nat /\ tentativa \in Nat /\ pendente \in BOOLEAN
  BY DEF VistaIndutivo, TypeOK
<1> USE DEF VistaIndutivo, Primeiros, Rodando
<1>3. CASE NoSimples
  <2>1. \/ no \in {"pesquisar", "analisar"} /\ no' \in Primeiros
        \/ no = "criar_brief" /\ no' = "redigir"
        \/ /\ no \in {"marcar_aguardando", "salvar_vetorial"}
           /\ no' \in {"aguardar_aprovacao", "gerar_imagem"}
    BY <1>3, Arestas DEF NoSimples, Avancar
  <2>2. no = "salvar_vetorial" => no' = "gerar_imagem"
    BY <1>3 DEF NoSimples, Avancar, Aresta
  <2>3. /\ pendente' = FALSE /\ job' = job /\ vista' = vista
        /\ job # "nenhum" /\ versao_atual' = versao_atual
    BY <1>3 DEF NoSimples, Avancar, estado, contadores, jobVars, historia
  <2> QED BY <1>1, <1>2, <2>1, <2>2, <2>3
<1>4. CASE RedigirGravar \/ RevisarGravar
  BY <1>1, <1>2, <1>4
     DEF RedigirGravar, RevisarGravar, Gravar, estado, contadores, jobVars, historia
<1>5. CASE Redigir
  BY <1>1, <1>2, <1>5 DEF Redigir, Avancar, jobVars, historia
<1>6. ASSUME NEW aprovado \in BOOLEAN, Revisar(aprovado)
      PROVE  VistaIndutivo'
  <2>1. no' \in {"redigir", "marcar_aguardando"}
    BY <1>6 DEF Revisar, Avancar, RoteamentoRevisor
  <2> QED BY <1>1, <1>2, <1>6, <2>1 DEF Revisar, Avancar, jobVars, historia
<1>7. CASE AguardarAprovacao
  <2>1. no' \in {"redigir", "salvar_vetorial"}
    BY <1>7 DEF AguardarAprovacao, Avancar, RoteamentoUsuario
  <2>2. /\ no = "aguardar_aprovacao" /\ versao_atual' = versao_atual
        /\ pendente' = FALSE /\ job' = job /\ vista' = vista
        /\ tentativa' = tentativa
    BY <1>7 DEF AguardarAprovacao, Avancar, jobVars, historia
  <2> QED BY <1>1, <1>2, <2>1, <2>2
<1>8. ASSUME NEW gerada \in BOOLEAN, GerarImagem(gerada)
      PROVE  VistaIndutivo'
  BY <1>1, <1>2, <1>8 DEF GerarImagem, Avancar, contadores, jobVars, historia
<1>9. CASE FimNoInterrupt \/ FinalizarSucesso
  BY <1>1, <1>2, <1>9
     DEF FimNoInterrupt, FinalizarSucesso, estado, contadores, historia
<1>10. CASE Falhar \/ Abandonar
  BY <1>1, <1>2, <1>10 DEF Falhar, Abandonar, estado, contadores, historia
<1>11. ASSUME NEW aprova \in BOOLEAN, NEW revisoes, NEW feedbacks,
              Responder(aprova, revisoes, feedbacks)
       PROVE  VistaIndutivo'
  BY <1>1, <1>2, <1>11 DEF Responder
<1>12. CASE Reexecutar
  <2>1. tentativa' > 1 /\ tentativa' \in Nat /\ vista' = vista /\ job' = job
    BY <1>12 DEF Reexecutar, historia, TypeOK
  <2>2. CASE RecomecarGrafo
    BY <1>1, <1>2, <2>1, <2>2 DEF RecomecarGrafo
  <2>3. CASE ContinuarGrafo
    BY <1>1, <1>2, <2>1, <2>3 DEF ContinuarGrafo, estado, contadores
  <2> QED BY <1>12, <2>2, <2>3 DEF Reexecutar
<1>13. CASE UNCHANGED vars
  BY <1>1, <1>2, <1>13 DEF vars, estado, contadores, jobVars, historia
<1> QED
  BY <1>3, <1>4, <1>5, <1>6, <1>7, <1>8, <1>9, <1>10, <1>11, <1>12, <1>13
     DEF Next, Trabalhar

LEMMA VistaSempre == Spec => []VistaIndutivo
BY VistaInicial, VistaPasso, PTL DEF Spec

\* Nobody is asked twice about the same version, whatever the limits and
\* however many times jobs run again.
THEOREM PerguntaSempreNova == Spec => PerguntaNova
<1> DEFINE Nova == job = "nenhum" /\ job' # "nenhum" => vista' > vista
<1>1. VistaIndutivo /\ [Next]_vars => [Nova]_vars
  <2> SUFFICES ASSUME VistaIndutivo, Next, job = "nenhum", job' # "nenhum"
               PROVE  vista' > vista
    OBVIOUS
  <2>1. PICK aprova \in BOOLEAN, revisoes \in {0, tentativas_revisao},
             feedbacks \in {0, tentativas_feedback} :
               Responder(aprova, revisoes, feedbacks)
    BY DEF Next, Trabalhar, NoSimples, RedigirGravar, Redigir, RevisarGravar,
           Revisar, AguardarAprovacao, GerarImagem, FimNoInterrupt,
           FinalizarSucesso, Falhar, Reexecutar, Abandonar, Gravar, Avancar,
           Rodando
  <2>2. no = "aguardar_aprovacao" /\ vista' = versao_atual
    BY <2>1 DEF Responder
  <2> QED BY <2>2 DEF VistaIndutivo, TypeOK
<1> QED BY <1>1, VistaSempre, PTL DEF Spec, PerguntaNova

\* An answer reaches another version than its own only in a later try of its
\* job, in any configuration: within one try the Command is spent on the
\* interrupt it answers.
THEOREM RespostaAoQueFoiLido == Spec => RespostaALida
<1> DEFINE Lida == no = "aguardar_aprovacao" /\ no' \in {"redigir", "salvar_vetorial"}
                     => versao_atual = vista \/ tentativa > 1
<1>1. VistaIndutivo /\ [Next]_vars => [Lida]_vars
  <2> SUFFICES ASSUME VistaIndutivo, Next, no = "aguardar_aprovacao",
                      no' \in {"redigir", "salvar_vetorial"}
               PROVE  versao_atual = vista \/ tentativa > 1
    OBVIOUS
  <2>1. AguardarAprovacao
    BY DEF Next, Trabalhar, NoSimples, RedigirGravar, Redigir, RevisarGravar,
           Revisar, GerarImagem, FimNoInterrupt, FinalizarSucesso, Falhar,
           Responder, Reexecutar, RecomecarGrafo, ContinuarGrafo, Abandonar,
           Gravar, Avancar, Aresta
  <2>2. pendente /\ Rodando
    BY <2>1 DEF AguardarAprovacao, Avancar
  <2>3. tentativa \in Nat /\ tentativa >= 1
    BY DEF VistaIndutivo, TypeOK
  <2> QED BY <2>2, <2>3 DEF VistaIndutivo
<1> QED BY <1>1, VistaSempre, PTL DEF Spec, RespostaALida
=============================================================================
