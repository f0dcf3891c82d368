--------------------------- MODULE WorkflowArtigo ---------------------------
(***************************************************************************)
(* The LangGraph graph of gerar_artigo (agents/workflow.py): its nodes,    *)
(* its two routers, its counters, and the arq job that drives it.          *)
(*                                                                         *)
(* A node commits what it writes to PostgreSQL and only then returns; the  *)
(* checkpoint with its result is saved after that.  gravado is the moment  *)
(* between the two: a worker that dies there runs the node again on the    *)
(* old state.  A job that arq runs again restarts the graph when it is     *)
(* executar_workflow and continues from the checkpoint when it is          *)
(* retomar_workflow_job, with the same answer of the user in hand.         *)
(*                                                                         *)
(* One job at a time drives the graph here; what two of them, the requests *)
(* and the credits do to each other is the subject of module Execucao.     *)
(* The row that salvar_vetorial adds to conteudo_vetores is read by no     *)
(* node and is left out, as are the events the nodes publish.              *)
(***************************************************************************)
EXTENDS ContaCredito

CONSTANTS
  MaxRevisoes,   \* workflow_max_revisoes
  MaxFeedback,   \* workflow_max_feedback
  CustoBase,     \* CUSTO_BASE
  CustoRevisao,  \* CUSTO_REVISAO
  CustoImagem,   \* CUSTO_IMAGEM
  MaxTentativas  \* max_tries of WorkerSettings

ASSUME WorkflowAssumption ==
  /\ MaxRevisoes \in Nat
  /\ MaxFeedback \in Nat
  /\ CustoBase \in Nat
  /\ CustoRevisao \in Nat
  /\ CustoImagem \in Nat
  /\ MaxTentativas \in Nat \ {0}

VARIABLES
  no,                  \* next node of the graph, END, or how the execution ended
  gravado,             \* the node has committed, its checkpoint is not saved
  versao_atual,        \* EstadoWorkflow, as the last checkpoint has it
  tentativas_revisao,
  tentativas_feedback,
  aprovado_revisor,
  aprovado_usuario,
  imagem,              \* imagem_url is set
  versoes,             \* versoes_artigo: ausente, redigida or revisada (has a score)
  job,                 \* nenhum, executar_workflow or retomar_workflow_job
  tentativa,           \* its job_try
  resposta,            \* the user approves: acao in the job's arguments
  pendente,            \* the answer has not met an interrupt in this try
  vista,               \* history: the version the user answered last
  divergiu,            \* history: the counters were read from another topology
  cobrado              \* creditos_cobrados, or NaoCobrado

contadores == <<versao_atual, tentativas_revisao, tentativas_feedback>>
estado == <<contadores, aprovado_revisor, aprovado_usuario, imagem>>
jobVars == <<job, tentativa, resposta>>
historia == <<vista, divergiu>>
vars == <<no, gravado, estado, versoes, jobVars, pendente, historia, cobrado>>

Nos == {"pesquisar", "analisar", "criar_brief", "redigir", "revisar",
        "marcar_aguardando", "aguardar_aprovacao", "salvar_vetorial",
        "gerar_imagem", "END"}

Encerrados == {"falhou", "orfa", "concluida"}

NaoCobrado == -1

\* Mutant: the ceiling forgets the rounds of feedback.
TetoVersoes_SemFeedback == MaxRevisoes

TetoVersoes == MaxRevisoes + MaxFeedback + 1

-----------------------------------------------------------------------------
(* Costs. *)

CustoMaximoEstimado ==
  CustoBase + (MaxRevisoes + MaxFeedback) * CustoRevisao + CustoImagem

\* Mutant: the first version is charged as a revision too.
CalcularCustoFinal_TodasAsVersoes(versao, comImagem) ==
  CustoBase + versao * CustoRevisao + (IF comImagem THEN CustoImagem ELSE 0)

CalcularCustoFinal(versao, comImagem) ==
  CustoBase + Maior(0, versao - 1) * CustoRevisao
            + (IF comImagem THEN CustoImagem ELSE 0)

-----------------------------------------------------------------------------
(* Routers. *)

RoteamentoRevisor(aprovado, versao, tentativas) ==
  IF /\ ~aprovado
     /\ versao < TetoVersoes
     /\ tentativas < MaxRevisoes
  THEN "redigir"
  ELSE "marcar_aguardando"

RoteamentoUsuario(aprovado, versao, tentativas) ==
  IF /\ ~aprovado
     /\ versao < TetoVersoes
     /\ tentativas < MaxFeedback
  THEN "redigir"
  ELSE "salvar_vetorial"

-----------------------------------------------------------------------------
Init ==
  /\ no = "pesquisar"
  /\ gravado = FALSE
  /\ versao_atual = 0
  /\ tentativas_revisao = 0
  /\ tentativas_feedback = 0
  /\ aprovado_revisor = FALSE
  /\ aprovado_usuario = FALSE
  /\ imagem = FALSE
  /\ versoes = [v \in 1..TetoVersoes |-> "ausente"]
  /\ job = "executar_workflow"
  /\ tentativa = 1
  /\ resposta = FALSE
  /\ pendente = FALSE
  /\ vista = 0
  /\ divergiu = FALSE
  /\ cobrado = NaoCobrado

Rodando == job # "nenhum"

\* Mutant: the answer stays in force for the interrupts that follow.
Avancar_GuardaResposta(proximo) ==
  /\ Rodando
  /\ no' = proximo
  /\ gravado' = FALSE
  /\ pendente' = pendente
  /\ UNCHANGED <<jobVars, historia, cobrado>>

\* A node returns: its result and the next node enter the checkpoint, and the
\* Command the job came with is spent.
Avancar(proximo) ==
  /\ Rodando
  /\ no' = proximo
  /\ gravado' = FALSE
  /\ pendente' = FALSE
  /\ UNCHANGED <<jobVars, historia, cobrado>>

-----------------------------------------------------------------------------
(* Nodes. *)

\* Nodes whose results no other node here depends on, and their edges.
Aresta == [pesquisar |-> "analisar",
           analisar |-> "criar_brief",
           criar_brief |-> "redigir",
           marcar_aguardando |-> "aguardar_aprovacao",
           salvar_vetorial |-> "gerar_imagem"]

NoSimples ==
  /\ no \in DOMAIN Aresta
  /\ Avancar(Aresta[no])
  /\ UNCHANGED <<estado, versoes>>

Gravar(aqui) ==
  /\ Rodando
  /\ no = aqui
  /\ ~gravado
  /\ gravado' = TRUE
  /\ UNCHANGED <<no, estado, jobVars, pendente, historia, cobrado>>

\* Mutant: the row is numbered with the version the state had.
RedigirGravar_MesmaVersao ==
  /\ Gravar("redigir")
  /\ versoes' = [versoes EXCEPT ![Maior(1, versao_atual)] = "redigida"]

\* salvar_versao inserts the row or, when a lost try left one there, replaces
\* it with its score empty.
RedigirGravar ==
  /\ Gravar("redigir")
  /\ versoes' = [versoes EXCEPT ![versao_atual + 1] = "redigida"]

\* Mutant: the counter of versions does not move.
Redigir_SemContar ==
  /\ no = "redigir"
  /\ gravado
  /\ Avancar("revisar")
  /\ versao_atual' = Maior(1, versao_atual)
  /\ UNCHANGED <<tentativas_revisao, tentativas_feedback, aprovado_revisor,
                 aprovado_usuario, imagem, versoes>>

Redigir ==
  /\ no = "redigir"
  /\ gravado
  /\ Avancar("revisar")
  /\ versao_atual' = versao_atual + 1
  /\ UNCHANGED <<tentativas_revisao, tentativas_feedback, aprovado_revisor,
                 aprovado_usuario, imagem, versoes>>

\* The score goes to the row of the current version, if it is there.
RevisarGravar ==
  /\ Gravar("revisar")
  /\ versoes' = [v \in DOMAIN versoes |->
                   IF v = versao_atual /\ versoes[v] # "ausente"
                   THEN "revisada" ELSE versoes[v]]

Revisar(aprovado) ==
  /\ no = "revisar"
  /\ gravado
  /\ tentativas_revisao' = tentativas_revisao + 1
  /\ aprovado_revisor' = aprovado
  /\ Avancar(RoteamentoRevisor(aprovado, versao_atual, tentativas_revisao'))
  /\ UNCHANGED <<versao_atual, tentativas_feedback, aprovado_usuario, imagem,
                 versoes>>

\* interrupt() returns the answer that the job came with.
AguardarAprovacao ==
  /\ no = "aguardar_aprovacao"
  /\ pendente
  /\ aprovado_usuario' = resposta
  /\ tentativas_feedback' = tentativas_feedback + (IF resposta THEN 0 ELSE 1)
  /\ Avancar(RoteamentoUsuario(resposta, versao_atual, tentativas_feedback'))
  /\ UNCHANGED <<versao_atual, tentativas_revisao, aprovado_revisor, imagem,
                 versoes>>

\* A failed generation leaves imagem_url empty.
GerarImagem(gerada) ==
  /\ no = "gerar_imagem"
  /\ Avancar("END")
  /\ imagem' = gerada
  /\ UNCHANGED <<contadores, aprovado_revisor, aprovado_usuario, versoes>>

-----------------------------------------------------------------------------
(* Jobs. *)

\* Without an answer in hand interrupt() stops the graph and the job ends.
FimNoInterrupt ==
  /\ Rodando
  /\ no = "aguardar_aprovacao"
  /\ ~pendente
  /\ job' = "nenhum"
  /\ UNCHANGED <<no, gravado, estado, versoes, tentativa, resposta, pendente,
                 historia, cobrado>>

\* The graph is at its end: finalizar_sucesso charges what was used.
FinalizarSucesso ==
  /\ Rodando
  /\ no = "END"
  /\ no' = "concluida"
  /\ job' = "nenhum"
  /\ cobrado' = CalcularCustoFinal(versao_atual, imagem)
  /\ UNCHANGED <<gravado, estado, versoes, tentativa, resposta, pendente,
                 historia>>

\* An exception in a node, or workflow_timeout_segundos.
Falhar ==
  /\ Rodando
  /\ no' = "falhou"
  /\ job' = "nenhum"
  /\ gravado' = FALSE
  /\ UNCHANGED <<estado, versoes, tentativa, resposta, pendente, historia,
                 cobrado>>

\* aprovar_reprovar enqueues retomar_workflow_job with the user's answer.  A
\* checkpoint of an older topology may lack a counter, which is then read as 0.
Responder(aprova, revisoes, feedbacks) ==
  /\ job = "nenhum"
  /\ no = "aguardar_aprovacao"
  /\ job' = "retomar_workflow_job"
  /\ tentativa' = 1
  /\ resposta' = aprova
  /\ pendente' = TRUE
  /\ vista' = versao_atual
  /\ tentativas_revisao' = revisoes
  /\ tentativas_feedback' = feedbacks
  /\ divergiu' = \/ divergiu
                 \/ revisoes # tentativas_revisao
                 \/ feedbacks # tentativas_feedback
  /\ UNCHANGED <<no, gravado, versao_atual, aprovado_revisor, aprovado_usuario,
                 imagem, versoes, cobrado>>

HaTentativa == tentativa < MaxTentativas

\* astream(estado_inicial) starts the graph over; imagem_url is not among the
\* keys of estado_inicial and keeps its value.
RecomecarGrafo ==
  /\ job = "executar_workflow"
  /\ no' = "pesquisar"
  /\ versao_atual' = 0
  /\ tentativas_revisao' = 0
  /\ tentativas_feedback' = 0
  /\ aprovado_revisor' = FALSE
  /\ aprovado_usuario' = FALSE
  /\ UNCHANGED <<imagem, pendente>>

\* astream(Command(resume)) goes on from the checkpoint, with the answer.
ContinuarGrafo ==
  /\ job = "retomar_workflow_job"
  /\ pendente' = TRUE
  /\ UNCHANGED <<no, estado>>

\* Mutant: arq does not count the tries that died with their worker.
Reexecutar_SemContar ==
  /\ Rodando
  /\ HaTentativa
  /\ gravado' = FALSE
  /\ tentativa' = tentativa
  /\ RecomecarGrafo \/ ContinuarGrafo
  /\ UNCHANGED <<versoes, job, resposta, historia, cobrado>>

\* The worker dies, or is told to stop, and arq runs the job again.
Reexecutar ==
  /\ Rodando
  /\ HaTentativa
  /\ gravado' = FALSE
  /\ tentativa' = tentativa + 1
  /\ RecomecarGrafo \/ ContinuarGrafo
  /\ UNCHANGED <<versoes, job, resposta, historia, cobrado>>

\* The worker dies in the last try.  If the graph was waiting, the execution
\* still is; anywhere else it is left executando with no job to move it.
Abandonar ==
  /\ Rodando
  /\ ~HaTentativa
  /\ no' = IF no = "aguardar_aprovacao" /\ ~pendente THEN no ELSE "orfa"
  /\ job' = "nenhum"
  /\ gravado' = FALSE
  /\ UNCHANGED <<estado, versoes, tentativa, resposta, pendente, historia,
                 cobrado>>

-----------------------------------------------------------------------------
Trabalhar ==
  \/ NoSimples
  \/ RedigirGravar
  \/ Redigir
  \/ RevisarGravar
  \/ \E aprovado \in BOOLEAN : Revisar(aprovado)
  \/ AguardarAprovacao
  \/ \E gerada \in BOOLEAN : GerarImagem(gerada)
  \/ FimNoInterrupt
  \/ FinalizarSucesso

Next ==
  \/ Trabalhar
  \/ Falhar
  \/ \E aprova \in BOOLEAN :
       \E revisoes \in {0, tentativas_revisao},
          feedbacks \in {0, tentativas_feedback} :
         Responder(aprova, revisoes, feedbacks)
  \/ Reexecutar
  \/ Abandonar

Spec == Init /\ [][Next]_vars

\* The worker goes on with a job it runs.  Nothing obliges the user to answer.
SpecJusta == Spec /\ WF_vars(Trabalhar)

-----------------------------------------------------------------------------
(* Properties. *)

\* Types.  No job is tried more than max_tries times.
TypeOK ==
  /\ no \in Nos \cup Encerrados
  /\ gravado \in BOOLEAN
  /\ versao_atual \in Nat
  /\ tentativas_revisao \in Nat
  /\ tentativas_feedback \in Nat
  /\ aprovado_revisor \in BOOLEAN
  /\ aprovado_usuario \in BOOLEAN
  /\ imagem \in BOOLEAN
  /\ versoes \in [1..TetoVersoes -> {"ausente", "redigida", "revisada"}]
  /\ job \in {"nenhum", "executar_workflow", "retomar_workflow_job"}
  /\ tentativa \in 1..MaxTentativas
  /\ resposta \in BOOLEAN
  /\ pendente \in BOOLEAN
  /\ vista \in Nat
  /\ divergiu \in BOOLEAN
  /\ cobrado \in Nat \cup {NaoCobrado}

\* The hard guard of _teto_versoes: no answer of the reviewer or of the user,
\* no crash and no divergence of the counters writes a version above it.
VersaoNoTeto == versao_atual + (IF no = "redigir" THEN 1 ELSE 0) <= TetoVersoes

\* The ceiling only guards against divergence, as its docstring says: while
\* the counters are sound they stop the loops before it does, so it never
\* cuts a path the configuration allows.  (With both limits at zero the first
\* version is already the ceiling, and both counters stop there too.)
TetoSoNaDivergencia ==
  ~divergiu /\ MaxRevisoes + MaxFeedback > 0 => versao_atual < TetoVersoes

\* What finalizar_sucesso charges never exceeds what gerar_artigo reserved:
\* custo_maximo_estimado bounds calcular_custo_final over every path, so the
\* guard of confirmar_debito on the excess is never reached by an article.
CustoCabeNaReserva == cobrado <= CustoMaximoEstimado

\* The user is asked about a version that is in versoes_artigo and has its
\* score, however many times nodes ran again: redator.py and workflow.py
\* compute its number separately, one for the row and one for the state.
VersaoRevisada ==
  no \in {"marcar_aguardando", "aguardar_aprovacao", "salvar_vetorial",
          "gerar_imagem", "END", "concluida"}
    => /\ versao_atual \in DOMAIN versoes
       /\ versoes[versao_atual] = "revisada"

\* Every time the user answers, it is about a version they had not answered
\* about: a rejection is followed by a new version or by the end.
PerguntaNova ==
  [][job = "nenhum" /\ job' # "nenhum" => vista' > vista]_vars

\* An answer is applied to the version the user gave it for.  Only a job that
\* runs again can apply it to a later one: its first try stopped at the next
\* interrupt, and the new one resumes that interrupt with the old answer.
RespostaALida ==
  [][no = "aguardar_aprovacao" /\ no' \in {"redigir", "salvar_vetorial"}
       => versao_atual = vista \/ tentativa > 1]_vars

\* The loops end: from some moment on the graph rests for good, finished,
\* failed, orphaned or waiting for the user.  No answer is assumed.
TerminaOuEspera == <>[](job = "nenhum")
=============================================================================
