# Verification of SassPython

TLA+ models of the parts of SassPython in which several actors write or read
the same state in no fixed order. On the server: the credit account, the
executions of `gerar_artigo`, and the LangGraph graph that writes an article.
In the browser: the session of `lib/api.ts` and `lib/auth.tsx`, and the pages
of the tools with the server's side of what they ask for. They are
model-checked with TLC on small instances, and the safety properties and the
refinement are proved with TLAPS for every value of the constants.

Paths below are relative to `src/`; `app/` stands for `backend/app/` and `fe/`
for `frontend/src/`. Definitions keep the names of the source (Portuguese), the
comments are in English. `PROJECT.json` maps every definition to the lines it
translates.

## 1. Inventory

### 1.1 The processes

| Process | Code | What it does to shared state |
|---|---|---|
| API (FastAPI) | `app/routers/*`, `app/dependencies.py` | One transaction per request. `get_db` is a dependency that yields: it commits after the handler, and after the answer has left. Enqueues arq jobs from inside the transaction. |
| Worker (arq) | `app/worker.py`, `app/agents/*/workflow.py` | Runs the workflows. `max_tries = 3`; a job is run again after its worker dies or is told to stop. `abort_job` is enabled. |
| Scheduler (APScheduler) | `app/scheduler.py` | Renewals, sanitation of orphans, cancellation of abandoned executions, clean-up. |
| PostgreSQL | `app/models`, `migrations` | READ COMMITTED. Row locks by UPDATE and by `with_for_update`. CHECK constraints of migration 0013. |
| Redis | `app/worker.py`, `app/core/*` | arq's queue and abort set, pub/sub of progress, user cache, rate-limit windows, token bucket. |
| Browser tab (Next.js) | `fe/` | One JavaScript thread: each stretch between two awaits is atomic, and answers, timers, stream events and clicks come in any order. Tabs share the cookie jar and nothing else. |

No writer of the server uses a conditional `UPDATE ... WHERE status = ...`: the
ORM tests what it *read* and writes blindly. Hardly a request of the browser is numbered or cancelled (the history of a
strategy, `cwv-url-client.tsx:59`, is): the last *answer* wins, not the last
request. Most of what is hard about this program follows from these two facts.

### 1.2 The components

| Component | State | Operations | Hard behaviour | What makes it correct | Here |
|---|---|---|---|---|---|
| Credit account (`services/credito_service.py`, `billing_service.py`) | `contas_creditos`, `transacoes_creditos` | reserve, confirm, release (locked); purchase, renewal (not locked) | read-modify-write races; renewal under open reservations; clamped release | reservations add up and can be honoured; no overdraft; ledger and balances agree | `ContaCredito`, `Carteira`, `UsoCredito` |
| Executions of `gerar_artigo` (`services/ferramenta_service.py`, `routers/ferramentas.py`, `worker.py`, `scheduler.py`) | status, `job_id`, row locks, arq's queue and abort set | create, approve/reject, cancel; run, resume, finalise, fail; sanitise, abandon | enqueue before commit, blind writes, crash after commit, abort inside a transaction, opposite lock orders | no credit is stuck, each concluded execution is charged, once; every request and job ends | `Execucao` |
| Graph of `gerar_artigo` (`agents/workflow.py`, `redator.py`, `revisor.py`) | checkpointed `EstadoWorkflow`, `versoes_artigo` | nodes, routers, the interrupt for the user, restart and resumption | two nested loops, diverging counters, a crash between a node's commit and its checkpoint | bounded versions, cost within the reservation, the user reads a reviewed version and is asked once about each | `WorkflowArtigo` |
| Inlinks tools (`agents/workflow_inlinks*.py`, `workflow_indexar_site.py`) | executions, the index of a site | analyse, insert, index | as above; a job that never comes | the index is known to be under way or done | `PaginaClientes`, `PainelProgresso`, partly |
| Core Web Vitals analysis and audit (`agents/cwv`, `services/cwv_*`) | executions, audits, phases, items | measure, open an audit, mark, consolidate, "after" | the audit's id is written in a later commit; enqueue before the status | what is shown is what is stored | `PaginaCwv`, `PaginaAuditoria`, partly |
| Technical SEO audit (`agents/seotec`, `services/seotec_*`) | audits, packages | upload, run, mark | two packages in the worker at once | as above | `PaginaSeo`, partly |
| Technical opinion (`routers/ferramentas_parecer.py`, `agents/parecer`) | executions | create, run | commits, enqueues and *then* writes the status | a paid opinion is followed to its end | `PaginaParecer`, partly |
| Sessions and login (`services/auth_service.py`, `mfa_service.py`), user cache (`core/user_cache.py`) | `sessoes`, a user's copy in Redis | login, refresh, logout, password, second factor; fill, expire, invalidate | refresh tokens good for one use; a fill that overtakes a write | one live token per rotation; the copy is the row | `SessaoCliente`, `PaginaConta`, partly |
| Progress stream (`core/workflow_events.py`, SSE in `routers/ferramentas.py`, `fe/lib/sse-client.ts`) | pub/sub, a stream per page | publish, reconcile, reconnect, give up | lost events, streams that end at any time | the final status always arrives | `PaginaExecucao`, `PainelProgresso`, partly |
| Browser session (`fe/lib/api.ts`, `lib/auth.tsx`) | tokens, the user shown, the renewal shared by requests | request, renew, init, sign in, sign out | every 401 renews; several tabs, one cookie | the user shown is the one acted for; nobody is signed out of a live session | `SessaoCliente` |
| Execution page (`fe/components/ferramentas/execucao-detalhe-conteudo.tsx`, `hooks/use-execucao.ts`, `use-versoes.ts`) | the row, its detail, its versions, the stream | load, follow, approve, reject, cancel | four unordered readings of one row | the user decides on the version that waits; the end is shown as it was | `PaginaExecucao` |
| Progress bar (`barra-progresso-workflow.tsx`) | stage, completed nodes | events, status, repaint | two sources of different age | the bar does not run backwards | `PainelProgresso` |
| Forms of the paid tools (`formulario-*.tsx`, `cwv-form.tsx`, `descoberta-candidatas.tsx`) | steps, list of URLs, price, POST | edit, price, discover, submit | unordered prices; clicks while leaving; lost answers | one payment per intention, at the price shown | `FormulariosFerramenta` |
| Web Vitals execution, SEO audit, histories (`cwv-execucao-client.tsx`, `seotec-auditoria-client.tsx`, `historico/page.tsx`, ...) | what a page last read | GETs, stream, polls, PATCHes, paging | late answers over newer ones; commit after the answer | the page ends up with what the server holds | `PaginaCwv`, `PaginaSeo`, `PaginaHistorico` |
| Pages that poll (`hooks/use-parecer.ts`, `card-indice-site.tsx`, `cwv-auditoria-client.tsx`, clients) | timers, optimistic edits | poll, give up, edit, roll back | intervals that outlive their question; rollback over another edit | every wait ends; what was paid for is followed | `PaginaParecer`, `PaginaClientes`, `PaginaAuditoria` |
| Account pages (`fe/app/(app)/perfil`, `mfa-*`, `recuperar-senha`) | the user, the second factor | change and reset the password, turn MFA on | a wrong code is a 401 too; a cache of a minute | the right code is asked for; a wrong one signs nobody out | `PaginaConta` |
| Rate limits, LLM bucket; LLM agents, scraping, embeddings; exports, logging; billing and admin pages, layouts, UI kit | - | - | - | - | not modelled |

### 1.3 How they interact

```
 router --reserve/insert--> PostgreSQL <--finalise/fail/release-- worker
   |                            ^                                   ^
   | enqueue, abort             | sanitise, abandon, renew          | run, abort,
   v                            |                                   | run again
 arq queue and abort set (Redis)+---- scheduler                     |
   |________________________________________________________________|
```

A request reserves credits and inserts the execution, enqueues a job, and
commits last. The job marks the execution `executando`, runs the graph until it
pauses for the user or ends, and finalises: it debits and writes `concluida` in
one transaction. A pause leaves the status at `aguardando_aprovacao`; approving
or rejecting enqueues a resumption. A cancellation releases, writes
`cancelada`, aborts the job, *waits for it*, and only then commits.

A page sends a request, goes on, and takes whatever answer arrives; the stream
of an execution brings its status every five seconds and the events of its
nodes when somebody listens. A form that got its execution created opens the
execution's page. Any 401 makes `lib/api.ts` renew the tokens once for all the
requests of the tab.

`PROJECT.json` lists 40 hazards with the line where each one bites and the
properties that would catch it. Where a property has to except the hazard itself,
because the program does nothing about it, a note says so. What the program falls
to is in section 5: three runs show it, and a table names the other properties of the
modules that TLC refutes and the instance on which it does.

## 2. Modules

| Module | Role |
|---|---|
| `ContaCredito` | The account's row and the arithmetic of `credito_service.py`, as operators on values. |
| `Lemas` | Lemmas: what that arithmetic preserves, sums over a finite set, the maximum of a set. |
| `Carteira`, `CarteiraProofs` | One account under every writer it has. |
| `UsoCredito`, `UsoCreditoProofs` | Abstract: what the account promises to one use of a paid tool. |
| `WorkflowArtigo`, `WorkflowArtigoProofs` | The graph, its checkpoints and the job that drives it. |
| `Execucao`, `ExecucaoProofs` | Requests, jobs, scheduler, locks and credits of `gerar_artigo` executions. Implements `UsoCredito`. |
| `SessaoCliente`, `SessaoClienteProofs` | Tabs, requests, renewal and the server's sessions. |
| `PaginaExecucao` | The page of one execution, its row and its stream. |
| `PainelProgresso` | Its progress bar, with the worker's nodes and their events. |
| `FormulariosFerramenta` | The four forms that start a paid execution. |
| `PaginaCwv`, `PaginaSeo`, `PaginaHistorico` | The Web Vitals execution, the SEO audit, the lists and dashboards. |
| `PaginaConta` | Password, second factor, the user's cached copy. |
| `Aplicacao`, `AplicacaoProofs` | The seven pages above in one tab: which is shown, and how a form opens an execution's page. The proofs are those of the tab and of the execution, Web Vitals and account pages and the forms. |
| `PaginaParecer`, `PaginaClientes`, `PaginaAuditoria` | The technical opinion, the clients and the index of their sites, the Web Vitals audit: the pages that poll. |
| `Acompanhamento` | Those three in one tab, with fairness. |
| `PaginasProofs` | Proofs about the SEO audit, the histories, the progress bar and the three pages that poll. |
| `MCCarteira`, `MCWorkflowArtigo`, `MCExecucao`, `MCSessaoCliente`, `MCAplicacao`, `MCAcompanhamento` and the `.cfg` files | Instances and runs. |

Operators named `X_Something` just before an operator `X` are mutated forms of
it: a plausible bug. Putting one in place of `X` violates the property it is
listed with in `PROJECT.json`, which shows that the property depends on the
code.

### 2.1 ContaCredito and Carteira

A row is a record `[plano, extras, reservado]`. The three operations of a tool
read with `SELECT ... FOR UPDATE` and hold the row to their commit, so each is
one action (`ReservarCreditos`, `ConfirmarDebito`/`ConfirmarRecusado`,
`LiberarReserva`). A purchase and a renewal read without a lock and write one
column with the value they computed, so each is two actions (`ComprarLer`,
`ComprarGravar`; `RenovarLer`, `RenovarGravar`) with anything in between. A
debit passes when the guard of `confirmar_debito` and the CHECK constraint on
`saldo_plano` both pass; otherwise the caller rolls back and releases. `razao`
is the sum of `transacoes_creditos`; `ajuste` is a history variable.

A use charges at most what it reserved: for `gerar_artigo` that is a theorem of
`WorkflowArtigo`, for the other tools it is read off their cost formulas.

### 2.2 WorkflowArtigo

`no` is the node LangGraph runs next, `gravado` says the node has committed to
PostgreSQL but its checkpoint is not saved yet: a crash there loses the state
and keeps the row. `Reexecutar` is arq running the job again:
`executar_workflow` restarts the graph with a fresh state over the old rows,
`retomar_workflow_job` goes on from the checkpoint with the same answer in
hand. `Responder` may lower the counters to 0, which is what reading a
checkpoint of an older topology does; `divergiu` remembers it. The verdicts of
the reviewer, the answers of the user and the result of image generation are
free choices.

### 2.3 Execucao

A request or a job is a program counter (`cpc`, `rpc`, `jpc`); each action is
the stretch between two points where another transaction may come in. `trava`
is the lock on the account's row and `linha` the locks on the executions' rows.
What a transaction writes under a lock becomes visible in the action that
commits it, so a rollback only drops locks.

| In the model | In the code |
|---|---|
| `CriarReservar` ... `CriarGravar` | `gerar_artigo`: reserve, insert, enqueue, commit |
| `CriarFalhaFila`, `CriarSemResposta`, `AprovarFalhaFila`, `AprovarSemResposta` | an exception of `enqueue_job`: Redis refused the job, or took it and its answer was lost |
| `CancelarLer` ... `CancelarGravar` | `cancelar_execucao`: unlocked read, account, row, `job.abort()`, commit |
| `AprovarLer` ... `AprovarGravar` | `aprovar_reprovar` |
| `Pegar`, `Abrir`, `NoInicio`, `NoFim`, `NoMarcarAguardando`, `Verificar`, `FinalizarLinha`, `Finalizar` | `executar_workflow_completo`, `retomar_workflow`, `workflow_node`, `finalizar_sucesso` |
| `Erro`, `TempoEsgotado`, `FalhaConta`, `FalhaGravar` | `finalizar_falha` and the `except` blocks that call it |
| `Abortar`, `Desligar`, `WorkerCai`, `JobTimeout`, `LerInterrompido`, `LiberarConta`, `LiberarGravar` | arq's abort, shutdown, retry and timeout, and the handlers of `CancelledError` |
| `SanearTravar`, `SanearGravar` | `job_sanear_execucoes_orfas` |
| `AbandonarLer`, `AbandonarGravar` | `job_cancelar_abandonadas` |
| `Impasse*` | PostgreSQL's deadlock detector (external) |

`Eventos` chooses which faults and which impatience of the users may happen, so
that one module serves the runs with faults, the runs without, and the
counterexamples. arq, Redis and PostgreSQL are modelled from how the code uses
them. The graph is reduced to "a node runs, the row is locked through it, the
graph pauses or ends": its inside is the other module's subject.

`MCExecucao` has one more credit reserved, by some other tool: a release too many
takes it. `SemVazamento` bounds what is reserved from above and excepts
`job_cancelar_abandonadas`; `NadaFicaPreso` is the same without the exception, and
`DevolveSoOSeu` the bound from below. `CanceladaSemDebito`, `FalhaNaoCobra` and
`SaneiaSoOrfas` are other promises of the documents that the code does not keep.

The refinement is stated at the end of `Execucao`: an instance of `UsoCredito`
with `uso` read off the status of each execution, and `ImplementaUso` as a
property. A step of `Execucao` that commits a transaction is a step of
`UsoCredito`; every other is a stutter.

### 2.4 SessaoCliente

A tab is a set of flows (`Fluxos`): a page's requests, `init` of `AuthContext`,
a sign-in. `pc` is where a flow awaits, `cred` the token it sent, `promessa` the
renewal in flight that later 401s join (`refreshPromise`), `aguarda` who joined.
`chamada` is the exchange with `/auth/refresh`, of which the answer may be lost
after the server has rotated the token. The server's sessions are numbers with
an owner (`dono`), `ativa` or revoked, their access token `vencida` or not.
`cookie` is shared by the tabs. `trocada` and `cruzada` are history variables:
the cookie became another user's behind this tab's back, by a sign-in or by a
renewal that was answered after one (`Surpresas`); another tab or form used the
cookie while this one renewed.

### 2.5 The pages

Each page module has the server's side of what it shows (a row, the jobs that
move it), what the page holds, and the requests on their way. A request is
what the server reads for it, at some moment between sending and arriving; of
requests an effect sends and nobody waits for, the model keeps what they were
sent over and not how many there are. Errors and lost answers are actions. A
history variable (`ordem`, `furo`, `motivo`, `cwvOrdem`, `seoDescompasso`,
`mudou`, `descompasso`, `engano`, `cruzou`) remembers the one reason for which
the page may be wrong, and the property says that there is no other; it is reset
as soon as the page has seen the present again, where the code gives it the
chance. So the properties of the pages are conditional by nature: the program
does not order answers, and the models say exactly what that costs. Where a
document promises the same without a condition, the unconditional form is in the
module too, and section 5 says on which instance TLC refutes it.

`PaginaExecucao` has two halves of a POST: `Atender` is the server's unlocked test
of the status, `PostAceito` and `RespostaPerdida` the write (`GravarStatus`), blind to
what the worker or another tab has written in between; `PostFalhou` is the POST that
is refused or lost. A version and the status that waits for the user are two
transactions (`EscreverVersao`, `MarcarAguardando`), and a job that an abort did not
stop in time writes over `cancelada` (`Sobrescrever`).

A DELETE of a client (`PaginaClientes`) reads the client without a lock
(`BuscarCliente`), writes its row and answers (`RemoverCliente`), and commits later
(`ConfirmarRemocao`): two of one client may both be done, which takes two from the
number above the list, and a search sent after the answer may still find the client.
A list is a count and then the rows (`SelecionarLinhas`). `descompasso` is reset by
the next list that no DELETE crosses, which `Listagem` and `Cruzadas` tell.

Whether an event is of a start or of an end `PainelProgresso` decides as the page
does, by the text (`DizQueAcabou`); the texts that mislead it are
`InicioSemReticencias` and `FimComReticencias`.

| Module | Server's side | Page |
|---|---|---|
| `PaginaExecucao` | status, version, result of the row; the test and the write of a decision or a cancellation, with the worker between them | `carregarExecucao` (`buscas`), `loadDetalhe` (`detalhes`), `useVersoes` (`listas`), the stream (`fluxo`, `falhas`, `lido`), approve, reject, cancel (`envio`) |
| `PainelProgresso` | the worker at a node (`no`, `fase`), stage in the row, pub/sub | `etapaTela`, `refTela` (a ref read one render late), `completos`, `ultimo`; `andado` and `alto` are how far the worker and the bar have ever been |
| `FormulariosFerramenta` | executions created, `LimiteUrls` | steps, list with repetitions, the last request for a price (`orcUltimo`) and those before it (`orcs`), POSTs of forms that are gone (`orfas`) |
| `PaginaCwv` | row, audits, the id written later | first and last GET, stream, score, page experience, the button that opens an audit |
| `PaginaSeo` | phase, item, packages with commit after answer | whole-audit GETs, poll, stream of one package, PATCHes |
| `PaginaHistorico` | rows, analyses by strategy | offset paging, filters, history and comparison of a URL |
| `PaginaConta` | revoked session, `mfa_ativo`, the cache | one request at a time through 401, renewal and repetition; reset in another tab |
| `PaginaParecer` | executions | `gerar`: POST, poll, three errors, timeout, document; editor and price |
| `PaginaClientes` | clients, the DELETEs at their read, their write and their commit, which follows the answer; the two statements of a list; job of the index, commit after enqueue | searches, removals, form with personas, card with its poll |
| `PaginaAuditoria` | marks and phase, artefact, consolidation, report | optimistic edits with rollback, phase, polls by round |

### 2.6 Aplicacao and Acompanhamento

The pages share no state in the browser: what one holds is made when its route
is opened and is gone when it is left. `Aplicacao` has the route `tela` and
interleaves the seven pages under it; a page that is not shown rests in an
initial state. `AbrirExecucao` is `router.push` of a form: the form's state goes,
and the page of the execution (or of Web Vitals) starts with the tool that was
paid for. `Acompanhamento` does the same for the pages that poll and adds the
fairness of their timers.

## 3. Runs

| Run | Instance | Shows |
|---|---|---|
| `carteira` | 2 uses, 2 purchases, 1 renewal, 4 credits | `ReservadoExato`: the column is the sum of the open reservations. `ReservaGarantida`: each can be debited in full while the account is not overdrawn. `SemGastoADescoberto`: no tool overdraws. `DerivaSoPorLeituraVelha`: ledger and balances part only in a purchase over a stale read, by exactly how stale. |
| `carteira_livro` | the same | Counterexample to `LivroConfere` (finding 1). |
| `workflow_artigo` | the limits and prices of the code (3 revisions, 3 rounds, 15/3/5 credits, 3 tries) | `TetoSoNaDivergencia`, `CustoCabeNaReserva`, `VersaoRevisada`, `PerguntaNova`, `RespostaALida`, and under fairness `TerminaOuEspera`. |
| `execucao_falhas` | 1 execution, 2 requests, 2 jobs, 2 tries, users who do not wait, Redis, worker, arq, scheduler and deadlock faults | `SemVazamento`: no credit stays reserved behind finished executions except by `job_cancelar_abandonadas`. `ConcluidaDebitada`: what is concluded was charged. |
| `execucao_normal` | 2 executions, 3 requests, 4 jobs; users act on executions at rest; errors, timeouts, cancellations, failing Redis and API | `ImplementaUso`: the protocol implements `UsoCredito`. What that is worth (the account reserves exactly what live executions need, one charge if concluded and none otherwise) is proved of `UsoCredito`. |
| `execucao_vida` | 1 execution, 2 requests, 2 jobs, fairness | `CancelamentoTermina`, `JobTermina`: every cancellation is answered and every job stops although each can wait for the other. |
| `execucao_devolvida` | 1 execution, 2 requests, 2 jobs, users who do not wait | Counterexample to `DevolveSoOSeu` (finding 2). |
| `execucao_duplo` | 1 execution, 2 requests, 3 jobs | Counterexample to `NoMaximoUmDebito` (finding 3). |
| `sessao` | 1 tab and its flows, 2 users (one with a second factor), 3 sessions; network, reload, expiry, sign-in and sign-out | `IdentidadeDaTela`: the tab acts for the user it shows. `SoSaiSemSessao`: it is not signed out of a session it could renew. `CarregandoTermina`: `init` leaves "Carregando...". |
| `pagina_execucao` | the execution page alone, three kinds of tool, two versions | `VersaoMostrada`, `VerdeComResultado`, `PaginaConverge`. |
| `aplicacao` | one tab at any of the seven pages, with fairness of the cache's expiry | `BarraConfere`, `BarraNaoAdianta` (bar); `CustoDaTela`, `PagaUmaVez` (forms); `CwvConverge`, `SeoConverge`, `HistoricoConfere`; `SaiPorSenha`, and under fairness `FatorAparece`: who is loaded again and again is asked for the code the server wants (account). |
| `acompanhamento` | one tab at any of the three polling pages, with fairness | `ParecerTermina` (opinion); `ListaConfere`: no client is missing from the list, and it and its number are right but after the answers it names; `IndiceSabido`, `IndiceConverge` (clients); `ChecklistConfere`, `ConsolidacaoTermina` (audit). |

### Bounds

- `carteira`: 4 credits, 3 of them the plan's, and costs 1..3 make a reservation
  fail, a debit span extras and plan, and a renewal shrink the balance under an
  open reservation. Two purchases are what a lost update needs.
  `MaxRenovacoes` bounds the renewals.
- `workflow_artigo`: the values of the code, nothing scaled.
- `Execucao`: a reservation is 2 credits and 1 credit is reserved by another
  tool, so a release too many takes from it what is not its own. Two requests
  and two jobs on one execution cover every pair of writers; several executions
  meet in the account, which `execucao_normal` covers with two, and the
  theorems with any number. Each request and each job is used once; a job runs
  at most `MaxTentativas` times. Symmetry on requests, jobs (and executions) is
  used only in the runs without liveness.
- `aplicacao` follows the bar of an article and of `distribuir_inlinks`, whose texts
  are the ones that mislead it, and the execution page of an article. The bar of
  `inlinks_automaticos` is covered by the theorem, its execution page by
  `pagina_execucao`.
- `execucao_falhas` leaves out `tempo` (its effect is that of `erro`),
  `commit_tardio` and `api_cai`, for size; `execucao_vida` has the three, and
  the theorems hold for every set of events.
- `sessao`: `MaxSessoes` = 3 is a session, its renewal and a sign-in, in one tab.
  Two tabs with their flows are out of reach of an exhaustive run: what one does
  to the other through the cookie is covered by the theorems, which have any
  number of tabs.
- `pagina_execucao`: two versions are what showing the wrong one needs, one failure
  of the stream (`MaxFalhas`) makes it come back and give up. In `aplicacao`, which is
  about how the pages follow one another, the same page has one version and no
  second try; what is promised of it there is `PaginasNaAba`.
- `aplicacao`: one renewal the network loses; the cache is written by any number of
  other requests. One round back to the writing (`MaxVoltas`) makes the bar meet
  completed steps again. A list of two entries over one URL has the repeated URL of a batch and, with `LimiteUrls` = 1,
  the limit; two executions created (`MaxCriadas`) are the second payment. Six
  rows in pages of two and three clicks skip a page. `MaxAuditorias` = 2 is the
  second audit of one execution, `MaxLeituras` = 2 a GET that overtakes another.
- `acompanhamento`: two opinions (one given up on, one followed), two polls
  within the timeout (`MaxRodadas`), two DELETEs of one client (`MaxExclusoes`) that
  both find it, two lists on their way, two
  edits of one item at once (what a rollback over another edit needs), two
  consolidations (an answer of the earlier one in the later).
- The `Max...` constants bound counters in the guards; no state constraint is
  used.
- `CHECK_DEADLOCK FALSE` everywhere: once every use, request, job or click is
  spent the bounded system stops. That nothing stops *early* is what the
  liveness properties are for.

### Fairness

`WorkflowArtigo`: weak fairness of the worker's own steps while it runs a job.
No answer of the user is assumed, nor that a failure does not occur.

`Execucao`: strong fairness of what waits for a row lock, because PostgreSQL
queues the waiters of a row; weak fairness of the timers (`asyncio.wait_for`,
arq's job timeout), of the poll of the abort set and of the deadlock detector,
which all stay enabled until they fire. Nothing is assumed of users, crashes,
the shutdown or of when the scheduler starts a batch.

`SessaoCliente`: weak fairness of a tab going on (`Prosseguir`): an await ends,
well or with an error, because the browser ends every request.

`Aplicacao` (`SpecAplicacaoJusta`): weak fairness of `CacheVence`, Redis forgetting a
copy after its minute. That the user is loaded again and again is the hypothesis of
`FatorAparece`, and not assumed.

`Acompanhamento`: weak fairness of the timers of a page that is open
(`SeguirParecer`, `PollIndice`, `ConsultarPlano`: `setTimeout` and `setInterval`
fire) and of the answers of the index; strong fairness of the answers of the
consolidation's polls (`ResponderPlano`), which a new round may put off but not
for ever. Nothing is assumed of the worker: the properties say that the page
stops waiting *when* the server is through, or by its own timeout.

The pages of `Aplicacao` have no other liveness property: they end up right when
their requests are answered, which the safety properties state with "nothing is
on its way" as the hypothesis, and no code repeats a request that was lost.

## 4. Proofs

All proofs are for every value of the constants admitted by the assumptions
each module names (`CarteiraAssumption`, `WorkflowAssumption`,
`ExecucaoAssumption`, `PaginaExecucaoAssumption`, ...), and for `UsoCredito` under
its `Parametros`. They assume nothing else, but for the three theorems of
`ExecucaoProofs` that say `Eventos \subseteq EventosRegulares`. Every safety
property a passing run checks is stated by a theorem; `ParecerAcompanhado` is only
proved.

| Theorem | Property | Argument |
|---|---|---|
| `CarteiraProofs!TiposCorretos` | `TypeOK` | No balance column goes negative. Inductive with the fact that the renewal reads only while it has one left. |
| `...!NaoGastaADescoberto` | `SemGastoADescoberto` | Each locked operation carries in its guard what keeps the account covered (`DebitoCoberto`), so no sum over other reservations is needed. |
| `...!DerivaExplicada` | `DerivaSoPorLeituraVelha` | The same case split, on the change of the total. |
| `...!ReservadoESoma` | `ReservadoExato` | A step changes one term of the sum and the column by as much (`SomaTroca`, below). |
| `...!ReservaSempreDebitavel` | `ReservaGarantida` | A sum is no smaller than any of its terms. |
| `UsoCreditoProofs!UsoCorreto`, `!UsoCoberto` (for an account that starts covered) | `ReservaExata`, `UmDebito`, `SemDescoberto` of the abstract use | By counting the open uses: opening one adds it to `Reservados`, closing takes it out. |
| `...!UsoSoUmaVez` | `UsoEncerrado` | From the guards of `NextUso`. |
| `WorkflowArtigoProofs!TiposCorretos` | `TypeOK` | One case per action. |
| `...!NuncaPassaDoTeto` | `VersaoNoTeto` | `TetoIndutivo`: the first nodes reach `redigir` without a router, so it must be known that no version exists there. |
| `...!CustoNuncaExcedeReserva` | `CustoCabeNaReserva` | The ceiling and `CustoLimitado`, arithmetic on the two cost formulas. The reservation counts rounds, the price counts versions; the ceiling is what relates them. |
| `...!VersaoSempreRevisada` | `VersaoRevisada` | `LinhasIndutivo`: between a commit and its checkpoint the row is ahead of the state by exactly one node. |
| `...!TetoNuncaCorta` | `TetoSoNaDivergencia` | `FolgaIndutivo`: `tentativas_revisao` counts the versions, and feedback adds at most one each but the last. |
| `...!PerguntaSempreNova`, `!RespostaAoQueFoiLido` | `PerguntaNova`, `RespostaALida` | `VistaIndutivo`: where an answer in hand stands relative to the version it was given for. |
| `ExecucaoProofs!TiposCorretos` | `TypeOK` | One lemma per actor. Includes that no interleaving of releases makes `saldo_reservado` negative: the clamp of `liberar_reserva` is needed. |
| `...!SempreDebitada` | `ConcluidaDebitada` | Only one step writes `concluida`, in the transaction of its debit, and none takes a debit back. |
| `...!SemCreditoPreso` | `SemVazamento` | By counting, below. |
| `...!ExecucaoImplementaUso` | `ImplementaUso` | `Unico`, below. |
| `...!UmDebitoPorExecucao`, `!ContaSempreCoberta` | what `UsoCredito` promises, of `Execucao` | From the refinement and the theorems of `UsoCreditoProofs`, and `ContaSempreCoberta` for an account that starts covered. |
| `SessaoClienteProofs!SessaoTipada` | `TypeOK` | `Base`: every token is one that was issued, and who waits in a tab waits for one renewal that is under way. |
| `...!TelaFiel` | `IdentidadeDaTela` | `Identidade`, below. |
| `...!SoPerdeSemSessao` | `SoSaiSemSessao` | `Renovacoes`, below. |
| `AplicacaoProofs!DecideSobreAVersao` | `VersaoMostrada` | `ListaPedida`, below. |
| `...!SucessoTemResultado` | `VerdeComResultado` | `ResultadoSabido`: a result is written once, in the step that ends the execution, so that whatever the page was told of it is still true. |
| `...!MostraComoTerminou` | `PaginaConverge` | `FinalVisto` and `FimEntregue`: as long as nothing has been reversed, a final status that was read is the row's, or a cancellation is about to be written over it by the handler that will read the row again; the stream ends by delivering one. |
| `...!ContaSaiPorSenha` | `SaiPorSenha` | Case split: with a live session only `PerderRenovacao` goes to the login. |
| `...!PrecoEhDaLista` | `CustoDaTela` | `PrecoSeguido`: every change of the list asks for the price of its new length or, where that is nothing, forgets the price, so that the last request is for the list as it is; an older one that is answered after it is the recorded exception. The length of a list is a sum: an entry is no larger than it, and only the empty one has none. Proved of the tab, where a form is left and opened again. |
| `...!NinguemPagaDuasVezes` | `PagaUmaVez` | `SoUma`: without a reason no POST is left behind, and the one execution is that of the form the browser is leaving. |
| `...!CwvMostraComoTerminou` | `CwvConverge` | `FinalCwv`: unless an answer was lost or late, a final status is the row's, its result is there or asked for. |
| `...!PaginasIndependentes` | - | `SpecAplicacao` implies the specification of each page that no form opens with state of its own: every step of the tab is a step of that page or leaves it alone. |
| `...!AplicacaoTipada` | `AplicacaoTypeOK` | The types of the seven pages, and `SoUmaTela`: the pages that are not shown rest. |
| `...!PaginasNaAba`, `!AbaSaiPorSenha` | the pages' properties, of `SpecAplicacao` | The pages that are independent inherit theirs from `PaginasIndependentes`. The execution page does not, because a form changes the tool it rests with: `EmForma` says that who is at a form has opened none, so that what `AbrirExecucao` opens is an initial state again. |
| `PaginasProofs!SeoMostraOServidor` | `SeoConverge` | `VistaEmDia`: after the last answer that found the server as it is, view and server differ only in what lies between a PATCH and its commit. `UltimoSeguido`: the package followed is the last there is. |
| `...!HistoricoMostraOPedido` | `HistoricoConfere` | `ListaSeguida`: without a new row or an overlapping click the rows shown are those before the page that is on its way; `FiltroPedido`, `EvolucaoSeguida`, `ComparacaoSeguida`: what is shown is of the filter in force, or the request of that filter is on its way. |
| `...!BarraMostraOTrabalho` | `BarraConfere`, `BarraNaoAdianta` | `Feitos`, below. |
| `...!ParecerSeguido` | `ParecerAcompanhado` | `RodandoSeguido` with `AlvoConhecido`: what `gerar` knows of its execution at each await. |
| `...!ListaDosClientes` | `ListaConfere` | `ListaEmDia`: what a list on its way may lack is only clients that are gone or being written. A list that no DELETE crosses counts what it lists and holds no client whose DELETE is answered, before its commit or after; `RemocaoConcluida` takes one from both. |
| `...!IndiceSemSegundoPagamento` | `IndiceSabido` | `IndiceEmDia`: from the answer that said so the card shows the index as being made, through the commit that comes later and the polls. |
| `...!ChecklistDoServidor` | `ChecklistConfere` | `EdicaoSozinha`: what an edit that nothing crosses would put back is what the server holds. |
| `...!AcompanhamentoTipado`, `!QuemAcompanhaConfere` | `AcompanhamentoTypeOK` and the four above, of `SpecAcompanhamento` | Each page behaves in the tab as it does alone. `FilaDasRodadas`: no more consolidations are queued than rounds were asked for. |

### Sums

`Lemas` has what the proofs need of sums over a finite set. The induction
theorems of the library take the formula as an operator, which no prover here
can instantiate, so the induction is over a *set* of subsets
(`InducaoEmSubconjuntos`), from the theorem that a non-empty family of finite sets
has a minimal member. With it: the table that `MapThenSumSet` builds exists and is
unique, any element can be taken out of the sum, and changing one term changes
the sum by as much (`SomaTroca`). `ReservadoExato`, `ReservaGarantida`
and `CustoDaTela` rest on it.

### Credits

`SemVazamento` bounds the reserved credits by the number of live or abandoned
executions (`Ocupadas`). A step that ends executions releases one reservation
for each (`DevolveUma`, `DevolveVarias`) or adds them to the abandoned
(`NadaDevolve`); a release too many only helps the bound, for it is an upper
one. What needs an invariant is the other direction: a reservation is added
together with an execution that was not counted before. `Visibilidade` is that
invariant: an execution whose creation has not committed is invisible, and
whoever acts on an execution - a request, a job past its first read, the
scheduler - has seen its row. It is inductive over all actions, and
`ReservaUma` uses it.

`ImplementaUso` fails in general: the counterexamples of section 5 about executions
are its own. It holds as long as the events are among `EventosRegulares` (an error of the graph, a
timeout outside a commit, a cancellation of an execution at rest, a refusal of
Redis, a crash of the API), for any number of executions, requests and jobs.
`Unico` is why: whoever acts on an execution is *alone* with it - one job, or one
request, or the creation, or a request with the job it has just enqueued, which
waits for its commit (`Sozinhos`) - and the execution is not over (`EmAberto`). No
writer tests the status in its UPDATE, so this is all that keeps a blind write
from meeting another. Every commit is then a step of `UsoCredito`, and every other
step a stutter.

### The browser's sessions

`Identidade`: whatever a tab holds - its token, those of its requests, the one it
waits for - belongs to the owner of the session in the cookie jar, as long as the
jar has not become another's behind its back. The steps of *other* tabs are the
hard part: a renewal that is answered after a sign-in elsewhere brings the first
user back to the jar, and takes by surprise every tab that had seen the second.
An earlier form of the property counted sign-ins only; it is false with two tabs
that renew across a sign-in, which the proof found and a run with one tab could
not. `trocada` is now set by `Surpresas`, which both writers of the cookie use.

`Renovacoes`: a renewal that no other answer has overtaken was asked for with the
session that is in the jar, so that the server refuses it only when that session
is gone (`Fresca`); and `init` renews only before anybody is shown (`Primeira`).

### The pages

`VersaoMostrada` says that who can approve looks at the version that waits. It
is not inductive: that no list is on its way says nothing of the lists that
were. `ListaPedida` is the strengthening. While the page shows the pause and
has missed none, the row is not being written again (so that no new version can
come under the page's eyes without a change of status it will see), and as long
as the row waits the list of *its* version is either on its way or has arrived.
A status that is seen to change asks for the list at once (`VerStatus`), an
older list that arrives last is the recorded exception, and a lost one leaves no
version to decide on.

`BarraConfere` is about a page that missed no event (`perdas = 0`). `Feitos` are the
nodes the page knows to be complete or will, once the events on their way have
come. Wherever the worker is, and wherever the row or an event says it is, every
step before it is in `Feitos` (`Alcancado`); loops back only visit steps that are
there already. So when nothing is on its way the completed steps reach up to the
one shown, and the highest percentage ever shown (`alto`) is at most what the last
of them allows. `DecisaoTomada` is the part about the panel of an article.

`BarraNaoAdianta` is the other side, with no such condition: `andado` is how far the
worker has been, and every node named in the row, in an event, on the screen or in
the render before is one it has begun, every node counted as complete one it has
ended - or begun, where the text of its start reads like that of an end.

### Only model-checked

- Liveness (`TerminaOuEspera`, `CancelamentoTermina`, `JobTermina`,
  `CarregandoTermina`, `FatorAparece`, `ParecerTermina`, `IndiceConverge`,
  `ConsolidacaoTermina`): the prover does not do fairness and ENABLED.
- The counterexamples of section 5, which are about particular behaviours.

## 5. Findings

1. **Lost update of `saldo_extras`** (`app/services/credito_service.py:161`, run
   `carteira_livro`). `creditar_extras` reads without a lock. SPEC_03 of
   `docs/specs/auditorias/2026-05-16-codebase` (line 229) says the ledger adds
   up to the balances.
2. **Released twice** (`app/services/ferramenta_service.py:381`, run
   `execucao_devolvida`). A cancellation decides on an unlocked read, and writes and
   releases whatever the row has become. Of two, the second takes another tool's
   reservation; after a debit that commits in between it also answers that no
   credit was charged. `SPEC_Billing_Gerar_Artigo.md:100` has every path release
   exactly what was reserved.
3. **Two charges** (`app/routers/ferramentas.py:273`, run `execucao_duplo`). Two
   approvals enqueue two resumptions. `docs/core/SDD.md:461` has one
   transaction per execution.

The modules state more promises that the code breaks. Each of these is refuted by
TLC on the instance named, which differs from a run's only there; for `Execucao` it
is that of `execucao_devolvida` with one event in `Eventos` (`MCExecucao` names the
sets).

| Property | Instance | What breaks it, and what was promised |
|---|---|---|
| `DevolveSoOSeu` | `desligar` | The handler of a shutdown (`app/agents/workflow.py:343`) releases, arq runs the job again, its end releases once more. The sentence of finding 2. |
| `DevolveSoOSeu` | `redis_tarde` | `gerar_artigo` takes an exception of `enqueue_job` to mean that there is no job (`app/routers/ferramentas.py:84`); the job runs and its debit releases again. README of `docs/specs/plataforma/creditos-e-billing`, lines 34-35. |
| `DevolveSoOSeu`; `NoMaximoUmDebito` on the instance of `execucao_duplo` | `worker_cai` | arq runs a job whose debit has committed again (`app/worker.py:189`). |
| `CanceladaSemDebito` | `apressado`, `cancelar` | The answer of finding 2, `app/routers/ferramentas.py:317`. |
| `FalhaNaoCobra` | `tempo_no_commit` | `wait_for` covers the commit of the debit, and `finalizar_falha` writes over it (`app/services/ferramenta_service.py:352`). The same README, lines 37-38: "ação que falha não cobra". |
| `NadaFicaPreso` | `abandonar` | `job_cancelar_abandonadas` (`app/scheduler.py:66`) releases nothing. The same README, lines 35-37. |
| `SaneiaSoOrfas`, `DevolveSoOSeu` | `sanear` | `timeout_em` is set at creation and never moved (`app/scheduler.py:193`); the docstring (lines 172-173) has the margin keep the job from a live worker. |
| `SairRevoga` | `SessaoCliente`, two tabs, one user, `MCSoSair` | The logout posts with `noAuth: true` (`fe/lib/auth.tsx:54`) to an endpoint that depends on `get_current_user` (`app/routers/auth.py:150`), and the `catch` ignores the 401. The specification of the login (line 213) has the session destroyed. |
| `PainelMostraAAtual` | `pagina_execucao` | The lists of versions are not ordered, and a missed round is not asked for (`fe/components/ferramentas/execucao-detalhe-conteudo.tsx:113`). The comment there says that the panel always shows the current one. |
| `EstimativaDaLista` | `FormulariosFerramenta` alone (`SpecFormularios`) | Prices are not ordered and their errors ignored (`fe/components/ferramentas/formulario-inlinks.tsx:56`); line 264 of the tool's specification. |
| `SoContaCompletos` | `PainelProgresso` alone, `distribuir_inlinks` | `isStart` is how the text ends (`fe/hooks/use-execucao.ts:96`), and that of `extrair_alvo` ends with a URL; `SPEC_Inlinks_UX_Verdade.md:45` counts completed steps. |
| `TodaEtapaTemStatus` | `PainelProgresso` alone, `gerar_artigo` | The end of `salvar_vetorial` has the text of its start (`app/agents/workflow_helpers.py:62`); line 1243 of the specification of the agent gives each step one of three. |

Noticed while reading, and visible in a model only as part of a property's
statement or of an action, or not at all. On the server:

- A cancellation awaits `job.abort()` without a timeout inside the transaction
  that holds the account the job's handler needs (`app/routers/ferramentas.py:307`;
  SPEC_05, line 139, has the abort first, with five seconds). arq's job timeout
  ends it, as `execucao_vida` shows.
- Line 37 of `docs/specs/plataforma/creditos-e-billing/README.md` has the plan's
  credits spent first; the code spends the extras first.
- The comment at `app/scheduler.py:213` takes a failed release to be survivable; a
  database error dooms the whole batch.
- Nothing in the application starts the scheduler. `Execucao` lets its jobs run
  or not.
- The third rejection is not rewritten: the counter reaches
  `workflow_max_feedback` and the rejected version goes to `salvar_vetorial`.
- `executar_workflow` run again leaves higher-numbered rows of the lost run in
  `versoes_artigo`; `salvar_vetorial` run again inserts its row twice;
  `imagem_url` is not among the keys a restart resets.
- `ErroTransitorio` is never raised, so arq's `Retry` path is unused and is not
  modelled. A cost above its reservation would pass the guard at
  `app/services/credito_service.py:97` when it should not; no tool can produce
  one.
- `gerar_parecer` writes `enfileirado` after it has enqueued; `indexar_site` and
  the consolidation of an audit enqueue before they commit or write the status,
  so that a job that finds nothing leaves "indexando" or a 409 for ever.
- A DELETE of a client is answered before it is committed, and two of one client may
  both succeed.
- `ativar_totp` does not invalidate the user's cached copy. No e-mail is sent by
  `recuperar_senha` (`docs/core/SDD.md:890`).

In the browser:

- A wrong code of the second factor is a 401, which `fe/lib/api.ts:118` answers by
  renewing the tokens and asking again. The user is not loaded again after the
  factor is turned on, so the form of the password does not ask for the code.
- The forms enable their button before the browser has left, and know nothing of
  an execution whose answer was lost: the exceptions in `PagaUmaVez`. A batch may
  hold a URL twice; candidates of the client before stay; a target that is chosen
  later stays in the list; more than a hundred URLs of inlinks only show an error.
- The progress bar takes a half step back when an article is written again and
  is at zero when a page is loaded during the pause; its panel of the end is never
  rendered, because the bar goes with the final status.
- `PainelAprovacao` calls a hook after an early return (lines 48-56).
- The Web Vitals page takes a lost first GET for a failed execution, goes on
  "analisando" when the stream gives up, and a late error of the health score
  erases the score.
- The SEO page polls while the package is `enfileirado` or `processando`; the
  server writes `recebido`, `processando`, `processado`, `parcial`, `erro`, and
  the zone of upload stays open for a second paid package meanwhile. An error of
  one poll replaces the page for good.
- A second click on "Carregar mais" skips a page, and the offset advances on an
  error too. The history of the other strategy stays when a GET fails.
- The rollback of an edit of the Web Vitals checklist restores what another edit
  has changed since; a poll of an earlier consolidation may end the wait of a later
  one.
- A GET that fails on the card of a client's index enables its paid button; a
  persona that is added while the client is saved is lost.

## 6. What is not modelled

Components without a model are listed in `PROJECT.json` with the reason: rate
limits and the token bucket (two atomic scripts, and the clocks of their
callers), agents, scraping and embeddings (external calls and text), exports,
logging and metrics, billing and admin pages, layouts and the UI kit (GET once
and draw). Within the modelled ones:

- The credits of the tools other than `gerar_artigo`: their finalisers call the
  account as `Carteira` has it, each with its own order of commits. The page
  models have their rows only as a page meets them.
- The score and rules of the SEO audit, the measurements of Web Vitals, the
  paragraphs the inserter changes: computations on one document.
- `conteudo_vetores`: no node reads it. The clean-up jobs that delete finished
  rows, old versions and caches.
- The creation of an account with zero balances: it is the initial state.
- Tenants, authorisation, validation and lock-out counters of the endpoints.
- Partial visibility inside one transaction: the locks make it unobservable.
- The refresh token kept in memory and the CSRF pair (`SessaoCliente`); the
  crawl of the percentage between two stages, clocks and toasts; documents
  exported by a page; `FormularioListarMfa`, whose removal cannot be filled in.
- On the execution page, the scheduler's sanitation of a running row is `Falhar` and
  its cancellation of an abandoned one is not modelled; an event whose text comes
  from an error and happens to end in "..." is left out of the bar.
- Several requests of one kind with equal contents, where a page sends them and
  waits for none, are kept once.

## 7. Plan

What would come next, in this order:

1. `Ferramenta`: the finalisers of the other tools over `ContaCredito`, as a
   second implementation of `UsoCredito`.
2. Which of the events outside `EventosRegulares` leave `ImplementaUso` true when
   they come alone, and an abstract use that allows for the others.
3. `Inseridor`: the paragraph bookkeeping as pure operators against a reference
   definition.

## 8. Running

```
tlc -workers 2 -config carteira.cfg MCCarteira
tlc -workers 2 -config carteira_livro.cfg MCCarteira
tlc -workers 2 -config workflow_artigo.cfg MCWorkflowArtigo
tlc -workers 2 -config execucao_falhas.cfg MCExecucao     # and execucao_*.cfg
tlc -workers 2 -config sessao.cfg MCSessaoCliente
tlc -workers 2 -config pagina_execucao.cfg PaginaExecucao
tlc -workers 2 -config aplicacao.cfg MCAplicacao
tlc -workers 2 -config acompanhamento.cfg MCAcompanhamento
tlapm CarteiraProofs.tla                                  # and the other *Proofs.tla
```

`execucao_falhas` explores 1.5 million states in about three minutes, `aplicacao` half
a million, with liveness, in two to three and a half, `pagina_execucao` 1.5 million in
about one; `execucao_vida`, `sessao` and `acompanhamento` check liveness in one to one
and a half minutes; the others take seconds. Each proof module takes from half a minute
to five minutes from nothing.
