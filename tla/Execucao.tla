------------------------------ MODULE Execucao ------------------------------
(***************************************************************************)
(* The life of gerar_artigo executions of one user: the HTTP requests that *)
(* create, approve and cancel them (routers/ferramentas.py), the arq jobs  *)
(* that run them (worker.py, agents/workflow.py), the scheduler's jobs     *)
(* that clean up after them (scheduler.py) and the credit account they     *)
(* share (credito_service.py through ferramenta_service.py).               *)
(*                                                                         *)
(* PostgreSQL runs READ COMMITTED: a SELECT sees what is committed, an     *)
(* UPDATE or SELECT ... FOR UPDATE takes the row and keeps it to the end   *)
(* of the transaction.  trava is the lock on the account's row, linha the  *)
(* locks on the executions' rows.  What a transaction writes under a lock  *)
(* becomes visible, here, in the step that commits it; a rollback has then *)
(* nothing to undo but the locks.                                          *)
(*                                                                         *)
(* An ORM UPDATE writes the new status whatever the row holds by now: no   *)
(* statement of the code says WHERE status = ....  The guards below are on *)
(* what was read, the writes are blind.                                    *)
(***************************************************************************)
EXTENDS ContaCredito, FiniteSets

CONSTANTS
  Execucoes,     \* executions, each with its creation request
  Pedidos,       \* requests to approve or to cancel
  Jobs,          \* arq job ids
  Reserva,       \* custo_maximo_estimado()
  Custos,        \* values of calcular_custo_final
  SaldoInicial,  \* the account's row at the start
  MaxTentativas, \* max_tries of WorkerSettings
  Eventos,       \* which of TodosEventos may happen
  NINGUEM,       \* no lock holder, no job
  AGENDADOR      \* lock holder of job_sanear_execucoes_orfas

TodosEventos ==
  {"api_cai",          \* the API process dies, or the client goes away
   "redis",            \* a Redis command raises, and has done nothing
   "redis_tarde",      \* one that enqueues raises, and has enqueued
   "worker_cai",       \* the worker process dies
   "desligar",         \* SIGTERM: arq cancels its jobs and runs them again
   "erro",             \* an exception in the graph or in its finalisation
   "tempo",            \* workflow_timeout_segundos passes
   "tempo_no_commit",  \* it passes between the commit and the return
   "commit_tardio",    \* a job may be picked before its request commits
   "apressado",        \* users act on an execution that is not at rest
   "cancelar",         \* users cancel
   "sanear",           \* job_sanear_execucoes_orfas runs
   "abandonar"}        \* job_cancelar_abandonadas runs

ASSUME ExecucaoAssumption ==
  /\ IsFiniteSet(Execucoes)
  /\ Reserva \in Nat
  /\ Custos \subseteq 0..Reserva
  /\ SaldoInicial \in ContaValida
  /\ MaxTentativas \in Nat
  /\ Eventos \subseteq TodosEventos
  /\ NINGUEM \notin Execucoes \cup Pedidos \cup Jobs \cup {AGENDADOR}
  /\ AGENDADOR \notin Execucoes \cup Pedidos \cup Jobs
  /\ Execucoes \cap (Pedidos \cup Jobs) = {}
  /\ Pedidos \cap Jobs = {}

VARIABLES
  conta,       \* the row of contas_creditos, as committed
  trava,       \* who holds that row
  status,      \* execucoes_ferramentas.status, or "invisivel"
  job_id,      \* execucoes_ferramentas.job_id
  linha,       \* who holds the execution's row
  debitos,     \* rows of transacoes_creditos of the execution
  abandonadas, \* history: cancelled by job_cancelar_abandonadas
  varredura,   \* rows that job has read and not yet written
  cpc,         \* where the creation request stands
  rpc,         \* where a request stands
  rexec,       \* its execution
  rjob,        \* the job it read or enqueued
  jpc,         \* where a job stands
  jexec,       \* its execution
  jtipo,       \* executar_workflow or retomar_workflow_job
  jtent,       \* its job_try
  jabort,      \* it is in arq's abort set
  jvolta       \* arq will run it again when it stops

bancoVars == <<conta, trava, status, job_id, linha, debitos>>
agendaVars == <<abandonadas, varredura>>
pedidoVars == <<rpc, rexec, rjob>>
jobVars == <<jpc, jexec, jtipo, jtent, jabort, jvolta>>

vars == <<bancoVars, agendaVars, cpc, pedidoVars, jobVars>>

-----------------------------------------------------------------------------
(* Sets of states and helpers. *)

Terminais == {"concluida", "falhou", "cancelada"}
\* aguardando_aprovacao and aguardando_revisao differ in nothing modelled.
NaoTerminais == {"enfileirado", "executando", "aguardando"}

Vivas == {e \in Execucoes : status[e] \in NaoTerminais}

Pausados == {"livre", "fila", "fim"}
NoGrafo == {"retomar", "grafo", "no", "verificar", "finalizar", "debitar"}
Rodando ==
  {"abrir", "fechando", "falha", "falhaLinha", "interrompido", "liberar",
   "liberarLinha"} \cup NoGrafo

Repouso(e) ==
  /\ \A j \in Jobs : jexec[j] = e => jpc[j] \in {"livre", "fim"}
  /\ \A r \in Pedidos : rexec[r] = e => rpc[r] \in {"livre", "fim"}

TravaSem(x) == IF trava = x THEN NINGUEM ELSE trava
LinhaSem(x) == [e \in Execucoes |-> IF linha[e] = x THEN NINGUEM ELSE linha[e]]

SoltarTudo(x) ==
  /\ trava' = TravaSem(x)
  /\ linha' = LinhaSem(x)

Init ==
  /\ conta = SaldoInicial
  /\ trava = NINGUEM
  /\ status = [e \in Execucoes |-> "invisivel"]
  /\ job_id = [e \in Execucoes |-> NINGUEM]
  /\ linha = [e \in Execucoes |-> NINGUEM]
  /\ debitos = [e \in Execucoes |-> 0]
  /\ abandonadas = {}
  /\ varredura = {}
  /\ cpc = [e \in Execucoes |-> "nova"]
  /\ rpc = [r \in Pedidos |-> "livre"]
  /\ rexec = [r \in Pedidos |-> NINGUEM]
  /\ rjob = [r \in Pedidos |-> NINGUEM]
  /\ jpc = [j \in Jobs |-> "livre"]
  /\ jexec = [j \in Jobs |-> NINGUEM]
  /\ jtipo = [j \in Jobs |-> "inicio"]
  /\ jtent = [j \in Jobs |-> 0]
  /\ jabort = [j \in Jobs |-> FALSE]
  /\ jvolta = [j \in Jobs |-> FALSE]

\* A request that has been answered keeps nothing.
Responder(r) ==
  /\ rpc' = [rpc EXCEPT ![r] = "fim"]
  /\ rexec' = [rexec EXCEPT ![r] = NINGUEM]
  /\ rjob' = [rjob EXCEPT ![r] = NINGUEM]

Enfileirar(j, e, tipo) ==
  /\ jpc[j] = "livre"
  /\ jpc' = [jpc EXCEPT ![j] = "fila"]
  /\ jexec' = [jexec EXCEPT ![j] = e]
  /\ jtipo' = [jtipo EXCEPT ![j] = tipo]
  /\ UNCHANGED <<jtent, jabort, jvolta>>

-----------------------------------------------------------------------------
(* gerar_artigo: reserve, insert, enqueue, commit -- in that order, so the   *)
(* job is in Redis before its row exists for anyone else.                    *)

CriarReservar(e) ==
  /\ cpc[e] = "nova"
  /\ trava = NINGUEM
  /\ PodeReservar(conta, Reserva)
  /\ trava' = e
  /\ cpc' = [cpc EXCEPT ![e] = "reservada"]
  /\ UNCHANGED <<conta, status, job_id, linha, debitos, agendaVars, pedidoVars,
                 jobVars>>

CriarEnfileirar(e, j) ==
  /\ cpc[e] = "reservada"
  /\ Enfileirar(j, e, "inicio")
  /\ job_id' = [job_id EXCEPT ![e] = j]
  /\ cpc' = [cpc EXCEPT ![e] = "enfileirada"]
  /\ UNCHANGED <<conta, trava, status, linha, debitos, agendaVars, pedidoVars>>

CriarGravar(e) ==
  /\ cpc[e] = "enfileirada"
  /\ conta' = Reservar(conta, Reserva)
  /\ status' = [status EXCEPT ![e] = "enfileirado"]
  /\ trava' = NINGUEM
  /\ cpc' = [cpc EXCEPT ![e] = "fim"]
  /\ UNCHANGED <<job_id, linha, debitos, agendaVars, pedidoVars, jobVars>>

\* The reservation is released in the transaction that made it.
CriarFalha(e) ==
  /\ status' = [status EXCEPT ![e] = "falhou"]
  /\ trava' = NINGUEM
  /\ cpc' = [cpc EXCEPT ![e] = "fim"]
  /\ UNCHANGED <<conta, job_id, linha, debitos, agendaVars, pedidoVars>>

CriarFalhaFila(e) ==
  /\ "redis" \in Eventos
  /\ cpc[e] = "reservada"
  /\ CriarFalha(e)
  /\ UNCHANGED jobVars

\* The job is in Redis, and the row does not know it.
CriarSemResposta(e, j) ==
  /\ "redis_tarde" \in Eventos
  /\ cpc[e] = "reservada"
  /\ CriarFalha(e)
  /\ Enfileirar(j, e, "inicio")

CriarCai(e) ==
  /\ "api_cai" \in Eventos
  /\ cpc[e] \in {"reservada", "enfileirada"}
  /\ trava' = NINGUEM
  /\ cpc' = [cpc EXCEPT ![e] = "fim"]
  /\ UNCHANGED <<conta, status, job_id, linha, debitos, agendaVars, pedidoVars,
                 jobVars>>

-----------------------------------------------------------------------------
(* cancelar_execucao: the service reads the status without a lock, releases  *)
(* the reservation under the account's lock, updates the row; the router     *)
(* then waits for the job to end, still inside the transaction.              *)

PodeAgir(e) == "apressado" \in Eventos \/ Repouso(e)

\* Mutant: the service also cancels what was concluded or cancelled.
Cancelavel_Concluida(e) == status[e] \notin {"invisivel", "falhou"}

Cancelavel(e) == status[e] \in NaoTerminais

CancelarLer(r, e) ==
  /\ "cancelar" \in Eventos
  /\ rpc[r] = "livre"
  /\ Cancelavel(e)
  /\ PodeAgir(e)
  /\ rpc' = [rpc EXCEPT ![r] = "conta"]
  /\ rexec' = [rexec EXCEPT ![r] = e]
  /\ rjob' = [rjob EXCEPT ![r] = job_id[e]]
  /\ UNCHANGED <<bancoVars, agendaVars, cpc, jobVars>>

CancelarTravarConta(r) ==
  /\ rpc[r] = "conta"
  /\ trava = NINGUEM
  /\ trava' = r
  /\ rpc' = [rpc EXCEPT ![r] = "linha"]
  /\ UNCHANGED <<conta, status, job_id, linha, debitos, agendaVars, cpc, rexec,
                 rjob, jobVars>>

CancelarTravarLinha(r) ==
  /\ rpc[r] = "linha"
  /\ linha[rexec[r]] = NINGUEM
  /\ linha' = [linha EXCEPT ![rexec[r]] = r]
  /\ rpc' = [rpc EXCEPT ![r] = "abortar"]
  /\ UNCHANGED <<conta, trava, status, job_id, debitos, agendaVars, cpc, rexec,
                 rjob, jobVars>>

\* Job.abort() without a timeout: adds the job to the abort set and polls for
\* its result.
CancelarAbortar(r) ==
  /\ rpc[r] = "abortar"
  /\ rjob[r] # NINGUEM
  /\ jabort' = [jabort EXCEPT ![rjob[r]] = jpc[rjob[r]] # "fim"]
  /\ rpc' = [rpc EXCEPT ![r] = "esperar"]
  /\ UNCHANGED <<bancoVars, agendaVars, cpc, rexec, rjob, jpc, jexec, jtipo,
                 jtent, jvolta>>

\* A row without a job has nothing to abort.  An exception of the abort is logged,
\* and the transaction commits.
AbortRespondeu(r) ==
  \/ rpc[r] = "abortar" /\ rjob[r] = NINGUEM
  \/ rpc[r] = "esperar" /\ jpc[rjob[r]] = "fim"
  \/ rpc[r] \in {"abortar", "esperar"} /\ "redis" \in Eventos

CancelarGravar(r) ==
  /\ AbortRespondeu(r)
  /\ conta' = Liberar(conta, Reserva)
  /\ status' = [status EXCEPT ![rexec[r]] = "cancelada"]
  /\ SoltarTudo(r)
  /\ Responder(r)
  /\ UNCHANGED <<job_id, debitos, agendaVars, cpc, jobVars>>

-----------------------------------------------------------------------------
(* aprovar_reprovar: reads the status, enqueues the resumption, writes the   *)
(* status and the job id.                                                    *)

Aprovavel(e) == status[e] = "aguardando"

AprovarLer(r, e) ==
  /\ rpc[r] = "livre"
  /\ Aprovavel(e)
  /\ PodeAgir(e)
  /\ rpc' = [rpc EXCEPT ![r] = "aprovar"]
  /\ rexec' = [rexec EXCEPT ![r] = e]
  /\ UNCHANGED <<bancoVars, agendaVars, cpc, rjob, jobVars>>

AprovarEnfileirar(r, j) ==
  /\ rpc[r] = "aprovar"
  /\ Enfileirar(j, rexec[r], "retomada")
  /\ rjob' = [rjob EXCEPT ![r] = j]
  /\ rpc' = [rpc EXCEPT ![r] = "gravar"]
  /\ UNCHANGED <<bancoVars, agendaVars, cpc, rexec>>

AprovarFalhaFila(r) ==
  /\ "redis" \in Eventos
  /\ rpc[r] = "aprovar"
  /\ Responder(r)
  /\ UNCHANGED <<bancoVars, agendaVars, cpc, jobVars>>

\* The answer is 500, and the resumption runs.
AprovarSemResposta(r, j) ==
  /\ "redis_tarde" \in Eventos
  /\ rpc[r] = "aprovar"
  /\ Enfileirar(j, rexec[r], "retomada")
  /\ Responder(r)
  /\ UNCHANGED <<bancoVars, agendaVars, cpc>>

AprovarGravar(r) ==
  LET e == rexec[r] IN
  /\ rpc[r] = "gravar"
  /\ linha[e] = NINGUEM
  /\ status' = [status EXCEPT ![e] = "executando"]
  /\ job_id' = [job_id EXCEPT ![e] = rjob[r]]
  /\ Responder(r)
  /\ UNCHANGED <<conta, trava, linha, debitos, agendaVars, cpc, jobVars>>

RequisicaoCai(r) ==
  /\ "api_cai" \in Eventos
  /\ rpc[r] \notin {"livre", "fim"}
  /\ Responder(r)
  /\ SoltarTudo(r)
  /\ UNCHANGED <<conta, status, job_id, debitos, agendaVars, cpc, jobVars>>

-----------------------------------------------------------------------------
(* The worker.  Each action moves job j from one point to another; Ir gives  *)
(* the frame of the job's own variables.                                     *)

Ir(j, destino) ==
  /\ jpc' = [jpc EXCEPT ![j] = destino]
  /\ UNCHANGED <<jexec, jtipo, jtent, jabort, jvolta>>

\* arq deletes the retry counter of a job it has finished.
IrParando(j, destino) ==
  /\ jpc' = [jpc EXCEPT ![j] = destino]
  /\ jtent' = [jtent EXCEPT ![j] = IF destino = "fim" THEN 0 ELSE @]
  /\ UNCHANGED <<jexec, jtipo>>

\* The function returns or raises: the job is over, or arq puts it back because
\* a shutdown cancelled it.
Parar(j) ==
  /\ IrParando(j, IF jvolta[j] THEN "fila" ELSE "fim")
  /\ jvolta' = [jvolta EXCEPT ![j] = FALSE]
  /\ UNCHANGED jabort

foraDoJob == <<agendaVars, cpc, pedidoVars>>

Visivel(e) == status[e] # "invisivel"

\* The request that enqueued the job has committed, or died.
QuemEnfileirouGravou(j) ==
  /\ cpc[jexec[j]] = "fim"
  /\ \A r \in Pedidos : ~(rpc[r] = "gravar" /\ rjob[r] = j)

HaTentativa(j) == jtent[j] < MaxTentativas

Pegar(j) ==
  /\ jpc[j] = "fila"
  /\ ~jabort[j]
  /\ HaTentativa(j)
  /\ "commit_tardio" \in Eventos \/ QuemEnfileirouGravou(j)
  /\ jpc' = [jpc EXCEPT ![j] = "abrir"]
  /\ jtent' = [jtent EXCEPT ![j] = @ + 1]
  /\ UNCHANGED <<bancoVars, foraDoJob, jexec, jtipo, jabort, jvolta>>

\* An aborted job, or one out of tries, ends without running its function.
Descartar(j) ==
  /\ jpc[j] = "fila"
  /\ jabort[j] \/ ~HaTentativa(j)
  /\ IrParando(j, "fim")
  /\ jabort' = [jabort EXCEPT ![j] = FALSE]
  /\ UNCHANGED <<bancoVars, foraDoJob, jvolta>>

\* The row is not there (yet): the job returns, or finalizar_falha raises, and
\* the job is not run again.
SemLinha(j) ==
  /\ jpc[j] \in {"abrir", "falha"}
  /\ ~Visivel(jexec[j])
  /\ Parar(j)
  /\ UNCHANGED <<bancoVars, foraDoJob>>

\* status = "executando", unless it was read as such: nothing to UPDATE then,
\* and no row lock to wait for.
MarcarExecutando(e) ==
  \/ status[e] = "executando" /\ UNCHANGED status
  \/ linha[e] = NINGUEM /\ status' = [status EXCEPT ![e] = "executando"]

Abrir(j) ==
  /\ jpc[j] = "abrir"
  /\ Visivel(jexec[j])
  /\ MarcarExecutando(jexec[j])
  /\ Ir(j, IF jtipo[j] = "inicio" THEN "grafo" ELSE "retomar")
  /\ UNCHANGED <<conta, trava, job_id, linha, debitos, foraDoJob>>

\* node_aguardar_aprovacao, past its interrupt.
Retomar(j) ==
  /\ jpc[j] = "retomar"
  /\ MarcarExecutando(jexec[j])
  /\ Ir(j, "grafo")
  /\ UNCHANGED <<conta, trava, job_id, linha, debitos, foraDoJob>>

\* workflow_node writes etapa_atual before the node runs and commits after it:
\* the row stays locked through the node.  In a second try the row may already
\* name the node, and nothing is written.
NoInicio(j) ==
  LET e == jexec[j] IN
  /\ jpc[j] = "grafo"
  /\ \/ linha[e] = NINGUEM /\ linha' = [linha EXCEPT ![e] = j]
     \/ jtent[j] > 1 /\ UNCHANGED linha
  /\ Ir(j, "no")
  /\ UNCHANGED <<conta, trava, status, job_id, debitos, foraDoJob>>

NoFim(j) ==
  /\ jpc[j] = "no"
  /\ linha' = LinhaSem(j)
  /\ Ir(j, "grafo")
  /\ UNCHANGED <<conta, trava, status, job_id, debitos, foraDoJob>>

\* node_marcar_aguardando: the graph then interrupts, and astream ends.
NoMarcarAguardando(j) ==
  LET e == jexec[j] IN
  /\ jpc[j] = "no"
  /\ linha[e] \in {j, NINGUEM}
  /\ status' = [status EXCEPT ![e] = "aguardando"]
  /\ linha' = LinhaSem(j)
  /\ Ir(j, "verificar")
  /\ UNCHANGED <<conta, trava, job_id, debitos, foraDoJob>>

\* Only a resumption reaches END: every path from the entry stops for the user.
GrafoFim(j) ==
  /\ jpc[j] = "grafo"
  /\ jtipo[j] = "retomada"
  /\ Ir(j, "verificar")
  /\ UNCHANGED <<bancoVars, foraDoJob>>

\* _run_workflow, _run_resumed_workflow: the test, and what follows it.
Verificar(j) ==
  /\ jpc[j] = "verificar"
  /\ IF status[jexec[j]] = "executando" THEN Ir(j, "finalizar") ELSE Parar(j)
  /\ UNCHANGED <<bancoVars, foraDoJob>>

\* finalizar_sucesso sets tentativas_revisao before it asks for the account,
\* and that SELECT flushes: the row is locked first, the account second.
FinalizarLinha(j) ==
  LET e == jexec[j] IN
  /\ jpc[j] = "finalizar"
  /\ linha[e] = NINGUEM
  /\ linha' = [linha EXCEPT ![e] = j]
  /\ Ir(j, "debitar")
  /\ UNCHANGED <<conta, trava, status, job_id, debitos, foraDoJob>>

\* The guard of confirmar_debito and the CHECK on saldo_plano.
DebitoPassa(q) == PodeDebitar(conta, Reserva, q) /\ Total(conta) >= q

\* Mutant: the debit inserts no row of transacoes_creditos.
Registrar_Nada(e) == UNCHANGED debitos

Registrar(e) == debitos' = [debitos EXCEPT ![e] = @ + 1]

Finalizar(j, q) ==
  LET e == jexec[j] IN
  /\ jpc[j] = "debitar"
  /\ trava = NINGUEM
  /\ DebitoPassa(q)
  /\ conta' = Confirmar(conta, Reserva, q)
  /\ Registrar(e)
  /\ status' = [status EXCEPT ![e] = "concluida"]
  /\ linha' = LinhaSem(j)
  /\ Ir(j, "fechando")
  /\ UNCHANGED <<trava, job_id, foraDoJob>>

\* ValueError or IntegrityError: rolled back, released and failed.
FinalizarSemSaldo(j, q) ==
  LET e == jexec[j] IN
  /\ jpc[j] = "debitar"
  /\ trava = NINGUEM
  /\ ~DebitoPassa(q)
  /\ conta' = Liberar(conta, Reserva)
  /\ status' = [status EXCEPT ![e] = "falhou"]
  /\ linha' = LinhaSem(j)
  /\ Ir(j, "fechando")
  /\ UNCHANGED <<trava, job_id, debitos, foraDoJob>>

FecharSessao(j) ==
  /\ jpc[j] = "fechando"
  /\ Parar(j)
  /\ UNCHANGED <<bancoVars, foraDoJob>>

-----------------------------------------------------------------------------
(* What interrupts the worker. *)

\* Exceptions of the try block of executar_workflow_completo and of
\* retomar_workflow, among them asyncio.wait_for's TimeoutError.
Falhar(j) ==
  /\ Ir(j, "falha")
  /\ SoltarTudo(j)
  /\ UNCHANGED <<conta, status, job_id, debitos, foraDoJob>>

Erro(j) ==
  /\ "erro" \in Eventos
  /\ jpc[j] \in NoGrafo \cup {"abrir"}
  /\ Falhar(j)

\* Mutant: wait_for wraps the finalisation and not the graph.
TempoEsgotado_SoFinalizacao(j) ==
  /\ "tempo" \in Eventos
  /\ jpc[j] \in {"verificar", "finalizar", "debitar"}
  /\ Falhar(j)

TempoEsgotado(j) ==
  /\ "tempo" \in Eventos
  /\ jpc[j] \in NoGrafo
  /\ Falhar(j)

TempoEsgotadoNoCommit(j) ==
  /\ "tempo_no_commit" \in Eventos
  /\ jpc[j] = "fechando"
  /\ Falhar(j)

\* finalizar_falha, whose callers here do not look at the status: account
\* first, row second.
FalhaConta(j) ==
  /\ jpc[j] = "falha"
  /\ Visivel(jexec[j])
  /\ trava = NINGUEM
  /\ trava' = j
  /\ Ir(j, "falhaLinha")
  /\ UNCHANGED <<conta, status, job_id, linha, debitos, foraDoJob>>

Devolver(j, destino) ==
  /\ linha[jexec[j]] = NINGUEM
  /\ conta' = Liberar(conta, Reserva)
  /\ status' = [status EXCEPT ![jexec[j]] = destino]
  /\ trava' = NINGUEM
  /\ Parar(j)
  /\ UNCHANGED <<job_id, linha, debitos, foraDoJob>>

FalhaGravar(j) ==
  /\ jpc[j] = "falhaLinha"
  /\ Devolver(j, "falhou")

\* CancelledError: executar_workflow_completo looks for "executando";
\* retomar_workflow_job calls _marcar_falhou, which looks for a status that is
\* not terminal.  In an except block that was already running it ends the job,
\* but that of retomar_workflow is itself inside the try of its job.
AoCancelar(j) ==
  CASE jpc[j] \in NoGrafo \cup {"abrir", "fechando"} -> "interrompido"
    [] jpc[j] \in {"falha", "falhaLinha"} /\ jtipo[j] = "retomada" -> "interrompido"
    [] OTHER -> "fim"

InterromperCom(j, destino, volta) ==
  /\ IrParando(j, destino)
  /\ jvolta' = [jvolta EXCEPT ![j] = volta]
  /\ SoltarTudo(j)
  /\ UNCHANGED <<conta, status, job_id, debitos, foraDoJob>>

Abortar(j) ==
  /\ jabort[j]
  /\ jpc[j] \in Rodando
  /\ jabort' = [jabort EXCEPT ![j] = FALSE]
  /\ InterromperCom(j, AoCancelar(j), FALSE)

Desligar(j) ==
  /\ "desligar" \in Eventos
  /\ jpc[j] \in Rodando
  /\ ~jvolta[j]
  /\ LET destino == AoCancelar(j) IN
       IF destino = "fim" THEN InterromperCom(j, "fila", FALSE)
                          ELSE InterromperCom(j, destino, TRUE)
  /\ UNCHANGED jabort

\* arq_job_timeout is four times the workflow's own: it finds the job waiting
\* for a lock before the workflow or in a handler after it.
EsperandoTrava(j) == jpc[j] \in {"falha", "liberar"} /\ trava # NINGUEM

EsperandoLinha(j) ==
  jpc[j] \in {"abrir", "falhaLinha", "liberarLinha"} /\ linha[jexec[j]] # NINGUEM

\* Mutant: the handlers that wait for the account have no timeout.
JobTimeout_SoLinha(j) ==
  /\ EsperandoLinha(j)
  /\ InterromperCom(j, AoCancelar(j), FALSE)
  /\ UNCHANGED jabort

JobTimeout(j) ==
  /\ EsperandoTrava(j) \/ EsperandoLinha(j)
  /\ InterromperCom(j, AoCancelar(j), FALSE)
  /\ UNCHANGED jabort

\* The in-progress key expires and arq runs the job again.
WorkerCai(j) ==
  /\ "worker_cai" \in Eventos
  /\ jpc[j] \in Rodando
  /\ InterromperCom(j, "fila", FALSE)
  /\ UNCHANGED jabort

LerInterrompido(j) ==
  LET st == status[jexec[j]] IN
  /\ jpc[j] = "interrompido"
  /\ IF \/ jtipo[j] = "inicio" /\ st = "executando"
        \/ jtipo[j] = "retomada" /\ st \in NaoTerminais
     THEN Ir(j, "liberar")
     ELSE Parar(j)
  /\ UNCHANGED <<bancoVars, foraDoJob>>

LiberarConta(j) ==
  /\ jpc[j] = "liberar"
  /\ trava = NINGUEM
  /\ trava' = j
  /\ Ir(j, "liberarLinha")
  /\ UNCHANGED <<conta, status, job_id, linha, debitos, foraDoJob>>

LiberarGravar(j) ==
  /\ jpc[j] = "liberarLinha"
  /\ Devolver(j, IF jtipo[j] = "inicio" THEN "cancelada" ELSE "falhou")

-----------------------------------------------------------------------------
(* The scheduler. *)

\* FOR UPDATE SKIP LOCKED takes the rows in "executando" whose timeout_em is
\* ten minutes past and nobody holds.  timeout_em is set when the execution is
\* created and never moved, so time says nothing of a resumed one.
SanearTravar(S) ==
  /\ "sanear" \in Eventos
  /\ \A e \in Execucoes : linha[e] # AGENDADOR
  /\ S # {}
  /\ \A e \in S : status[e] = "executando" /\ linha[e] = NINGUEM
  /\ linha' = [e \in Execucoes |-> IF e \in S THEN AGENDADOR ELSE linha[e]]
  /\ UNCHANGED <<conta, trava, status, job_id, debitos, foraDoJob, jobVars>>

SanearGravar ==
  LET S == {e \in Execucoes : linha[e] = AGENDADOR} IN
  /\ S # {}
  /\ trava = NINGUEM
  /\ conta' = Liberar(conta, Reserva * Cardinality(S))
  /\ status' = [e \in Execucoes |-> IF e \in S THEN "falhou" ELSE status[e]]
  /\ linha' = LinhaSem(AGENDADOR)
  /\ UNCHANGED <<trava, job_id, debitos, foraDoJob, jobVars>>

AbandonarLer(S) ==
  /\ "abandonar" \in Eventos
  /\ varredura = {}
  /\ S # {}
  /\ \A e \in S : status[e] = "aguardando"
  /\ varredura' = S
  /\ UNCHANGED <<bancoVars, abandonadas, cpc, pedidoVars, jobVars>>

\* The rows read are cancelled; their reservations are not released.
AbandonarGravar ==
  /\ varredura # {}
  /\ \A e \in varredura : linha[e] = NINGUEM
  /\ status' = [e \in Execucoes |->
                  IF e \in varredura THEN "cancelada" ELSE status[e]]
  /\ abandonadas' = abandonadas \cup varredura
  /\ varredura' = {}
  /\ UNCHANGED <<conta, trava, job_id, linha, debitos, cpc, pedidoVars, jobVars>>

-----------------------------------------------------------------------------
(* PostgreSQL's deadlock detector.  finalizar_sucesso and the sanitation     *)
(* lock row, then account; everybody else locks account, then row.           *)

EsperaTravaComLinha(e) ==
  \/ linha[e] = AGENDADOR
  \/ linha[e] \in Jobs /\ jpc[linha[e]] = "debitar"

PedidoEmImpasse(r) ==
  trava = r /\ rpc[r] = "linha" /\ EsperaTravaComLinha(rexec[r])

JobEmImpasse(j) ==
  /\ trava = j
  /\ jpc[j] \in {"falhaLinha", "liberarLinha"}
  /\ EsperaTravaComLinha(jexec[j])

Impasse(e) ==
  \/ \E r \in Pedidos : rexec[r] = e /\ PedidoEmImpasse(r)
  \/ \E j \in Jobs : jexec[j] = e /\ JobEmImpasse(j)

\* One of the two transactions of the cycle fails.  The request answers 500.
ImpassePedido(r) ==
  /\ PedidoEmImpasse(r)
  /\ Responder(r)
  /\ SoltarTudo(r)
  /\ UNCHANGED <<conta, status, job_id, debitos, agendaVars, cpc, jobVars>>

\* The exception leaves the handler: _executar_job tries _marcar_falhou, which
\* looks at the status and swallows a second failure; retomar_workflow_job
\* only logs.
ImpasseTratador(j) ==
  /\ JobEmImpasse(j)
  /\ \/ Parar(j)
     \/ /\ jtipo[j] = "inicio"
        /\ status[jexec[j]] \notin Terminais
        /\ Ir(j, "falha")
  /\ SoltarTudo(j)
  /\ UNCHANGED <<conta, status, job_id, debitos, foraDoJob>>

\* Neither ValueError nor IntegrityError: finalizar_sucesso does not catch it.
ImpasseDebito(j) ==
  /\ jpc[j] = "debitar"
  /\ linha[jexec[j]] = j
  /\ Impasse(jexec[j])
  /\ Falhar(j)

\* The sanitation of the whole batch is rolled back.
ImpasseSanear ==
  /\ \E e \in Execucoes : linha[e] = AGENDADOR /\ Impasse(e)
  /\ linha' = LinhaSem(AGENDADOR)
  /\ UNCHANGED <<conta, trava, status, job_id, debitos, foraDoJob, jobVars>>

-----------------------------------------------------------------------------
Criar(e) ==
  \/ CriarReservar(e)
  \/ \E j \in Jobs : CriarEnfileirar(e, j)
  \/ CriarGravar(e)
  \/ CriarFalhaFila(e)
  \/ \E j \in Jobs : CriarSemResposta(e, j)
  \/ CriarCai(e)

Pedir(r) ==
  \/ \E e \in Execucoes : CancelarLer(r, e)
  \/ \E e \in Execucoes : AprovarLer(r, e)

\* What a request does once it has begun.
Atender(r) ==
  \/ CancelarTravarConta(r)
  \/ CancelarTravarLinha(r)
  \/ CancelarAbortar(r)
  \/ CancelarGravar(r)
  \/ \E j \in Jobs : AprovarEnfileirar(r, j)
  \/ AprovarFalhaFila(r)
  \/ \E j \in Jobs : AprovarSemResposta(r, j)
  \/ AprovarGravar(r)
  \/ RequisicaoCai(r)
  \/ ImpassePedido(r)

\* What a job does of itself.
Trabalhar(j) ==
  \/ Pegar(j)
  \/ Descartar(j)
  \/ SemLinha(j)
  \/ Abrir(j)
  \/ Retomar(j)
  \/ NoInicio(j)
  \/ NoFim(j)
  \/ NoMarcarAguardando(j)
  \/ GrafoFim(j)
  \/ Verificar(j)
  \/ FinalizarLinha(j)
  \/ \E q \in Custos : Finalizar(j, q)
  \/ \E q \in Custos : FinalizarSemSaldo(j, q)
  \/ FecharSessao(j)
  \/ FalhaConta(j)
  \/ FalhaGravar(j)
  \/ LerInterrompido(j)
  \/ LiberarConta(j)
  \/ LiberarGravar(j)

\* What is done to it.
Interromper(j) ==
  \/ Erro(j)
  \/ TempoEsgotado(j)
  \/ TempoEsgotadoNoCommit(j)
  \/ Abortar(j)
  \/ Desligar(j)
  \/ JobTimeout(j)
  \/ WorkerCai(j)
  \/ ImpasseTratador(j)
  \/ ImpasseDebito(j)

Agendar ==
  \/ \E S \in SUBSET Execucoes : SanearTravar(S)
  \/ SanearGravar
  \/ ImpasseSanear
  \/ \E S \in SUBSET Execucoes : AbandonarLer(S)
  \/ AbandonarGravar

Next ==
  \/ \E e \in Execucoes : Criar(e)
  \/ \E r \in Pedidos : Pedir(r) \/ Atender(r)
  \/ \E j \in Jobs : Trabalhar(j) \/ Interromper(j)
  \/ Agendar

Spec == Init /\ [][Next]_vars

-----------------------------------------------------------------------------
(* Properties. *)

TypeOK ==
  /\ conta \in ContaValida
  /\ trava \in Execucoes \cup Pedidos \cup Jobs \cup {NINGUEM}
  /\ status \in [Execucoes -> NaoTerminais \cup Terminais \cup {"invisivel"}]
  /\ job_id \in [Execucoes -> Jobs \cup {NINGUEM}]
  /\ linha \in [Execucoes -> Pedidos \cup Jobs \cup {NINGUEM, AGENDADOR}]
  /\ debitos \in [Execucoes -> Nat]
  /\ abandonadas \subseteq Execucoes
  /\ varredura \subseteq Execucoes
  /\ cpc \in [Execucoes -> {"nova", "reservada", "enfileirada", "fim"}]
  /\ rpc \in [Pedidos -> {"livre", "conta", "linha", "abortar", "esperar",
                          "aprovar", "gravar", "fim"}]
  /\ rexec \in [Pedidos -> Execucoes \cup {NINGUEM}]
  /\ rjob \in [Pedidos -> Jobs \cup {NINGUEM}]
  /\ jpc \in [Jobs -> Pausados \cup Rodando]
  /\ jexec \in [Jobs -> Execucoes \cup {NINGUEM}]
  /\ jtipo \in [Jobs -> {"inicio", "retomada"}]
  /\ jtent \in [Jobs -> 0..MaxTentativas]
  /\ jabort \in [Jobs -> BOOLEAN]
  /\ jvolta \in [Jobs -> BOOLEAN]

\* Credits are never stuck behind a finished execution, save one path: however
\* requests, jobs, crashes, retries, timeouts and deadlocks interleave, what
\* the account holds reserved beyond other tools' reservations is covered by
\* executions still alive -- or cancelled by job_cancelar_abandonadas, the one
\* writer that ends an execution and releases nothing.
SemVazamento ==
  conta.reservado <=
    SaldoInicial.reservado + Reserva * Cardinality(Vivas \cup abandonadas)

\* An execution shown as concluded was charged: no crash, retry or overwritten
\* status leaves "concluida" on a row without its transaction.
ConcluidaDebitada ==
  \A e \in Execucoes : status[e] = "concluida" => debitos[e] > 0

\* The use of credits an execution stands for.
UsoDe(e) ==
  CASE status[e] = "invisivel" -> "nenhum"
    [] status[e] \in NaoTerminais -> "reservado"
    [] status[e] = "concluida" -> "debitado"
    [] status[e] \in {"falhou", "cancelada"} -> "devolvido"

Uso == INSTANCE UsoCredito
  WITH Usos <- Execucoes, uso <- [e \in Execucoes |-> UsoDe(e)]

\* What the promise of UsoCredito survives.  Any other of TodosEventos breaks it.
EventosRegulares == {"erro", "tempo", "cancelar", "redis", "api_cai"}

\* With no fault but these, and with users who act only on executions at rest,
\* requests, jobs and cancellations implement UsoCredito: every transaction that
\* touches the account or ends an execution is one of its four steps, so that
\* each execution reserves once and is then charged once or given back whole.
ImplementaUso == Uso!SpecUso

\* docs/core/SDD.md: execucoes_ferramentas 1--1 transacoes_creditos.
NoMaximoUmDebito == \A e \in Execucoes : debitos[e] <= 1

\* "Nenhum credito foi debitado", the answer of the cancellation.
CanceladaSemDebito ==
  \A e \in Execucoes : status[e] = "cancelada" => debitos[e] = 0

\* creditos-e-billing/README.md:35-37: credits stuck in saldo_reservado are a "classe
\* de bug corrigida em todas as ferramentas".  No writer that ends an execution
\* leaves its reservation behind.
NadaFicaPreso ==
  conta.reservado <= SaldoInicial.reservado + Reserva * Cardinality(Vivas)

\* SPEC_Billing_Gerar_Artigo.md:100: failure, cancellation and the handler of
\* CancelledError release "exatamente o que foi reservado".  What other tools have
\* reserved stays reserved.
DevolveSoOSeu == conta.reservado >= SaldoInicial.reservado

\* creditos-e-billing/README.md:37-38: "acao que falha nao cobra".
FalhaNaoCobra ==
  \A e \in Execucoes : status[e] = "falhou" => debitos[e] = 0

\* scheduler.py:172-173: the margin of job_sanear_execucoes_orfas is there "para nao
\* competir com worker vivo".  The row it takes is not that of a resumption that
\* is running.
SaneiaSoOrfas ==
  \A j \in Jobs :
    jtipo[j] = "retomada" /\ jpc[j] \in NoGrafo => linha[jexec[j]] # AGENDADOR

-----------------------------------------------------------------------------
(* Fairness and liveness. *)

AtenderSemQueda(r) ==
  \/ CancelarTravarConta(r)
  \/ CancelarTravarLinha(r)
  \/ CancelarAbortar(r)
  \/ CancelarGravar(r)
  \/ \E j \in Jobs : AprovarEnfileirar(r, j)
  \/ AprovarGravar(r)

CriarSemQueda(e) ==
  \/ CriarReservar(e)
  \/ \E j \in Jobs : CriarEnfileirar(e, j)
  \/ CriarGravar(e)

\* Strong fairness where a lock is waited for: PostgreSQL queues the waiters of
\* a row.  Weak fairness for the timers of asyncio and arq, the poll of the
\* abort set and the deadlock detector.
Justica ==
  /\ \A e \in Execucoes : SF_vars(CriarSemQueda(e))
  /\ \A r \in Pedidos :
       /\ SF_vars(AtenderSemQueda(r))
       /\ WF_vars(ImpassePedido(r))
  /\ \A j \in Jobs :
       /\ SF_vars(Trabalhar(j))
       /\ WF_vars(TempoEsgotado(j))
       /\ WF_vars(Abortar(j))
       /\ WF_vars(JobTimeout(j))
       /\ WF_vars(ImpasseTratador(j))
  /\ SF_vars(SanearGravar)
  /\ SF_vars(AbandonarGravar)

SpecJusta == Spec /\ Justica

\* A cancellation that has begun is always answered, although it can wait for
\* a job that waits for it: arq's job timeout ends the wait.
CancelamentoTermina ==
  \A r \in Pedidos : rpc[r] = "conta" ~> rpc[r] = "fim"

\* A job never runs for ever, not even one whose handler waits for a lock.
JobTermina ==
  \A j \in Jobs : jpc[j] \in Rodando ~> jpc[j] \in Pausados
=============================================================================
