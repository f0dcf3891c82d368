-------------------------- MODULE PaginaAuditoria --------------------------
(***************************************************************************)
(* The page of a Web Vitals audit: CwvAuditoriaClient with ChecklistGrid   *)
(* and BeforeAfterTab.  One of its three parts is followed at a time, for  *)
(* they share only what a GET of the audit brings: the checklist and the   *)
(* phase of the audit, the row of the checklist that is open, and the plan *)
(* (the consolidation of the problems and the report about it).            *)
(*                                                                         *)
(* An item is marked or not: status, notes and priority are edited by one  *)
(* handler.  An answer that was read when it was asked for, or when it     *)
(* arrives, stands for those read in between.                              *)
(***************************************************************************)
EXTENDS Integers, FiniteSets

CONSTANTS
  Itens,         \* items of the checklist
  MaxEdicoes,    \* bound: edits on their way
  MaxConsolidar, \* bound: consolidations asked for
  MaxConsultas   \* bound: polls on their way

ASSUME PaginaAuditoriaAssumption ==
  /\ IsFiniteSet(Itens)
  /\ MaxEdicoes \in Nat \ {0}
  /\ MaxConsolidar \in Nat \ {0}
  /\ MaxConsultas \in Nat \ {0}

SemItem == "sem_item"

Fases == {"before", "aguardando", "after"}
Retratos == [marcas : SUBSET Itens, fase : Fases]
NaoLida == [marcas |-> {}, fase |-> "nenhuma"]
SemAvanco == [marcas |-> {}, fase |-> "sem_avanco"]
AvancoPedido == [marcas |-> {}, fase |-> "pedido"]

StatusConsolidacao == {"nao_executada", "executando", "concluida", "falhou"}
StatusRelatorio == {"vazio", "gerando", "pronto", "falhou"}

VARIABLES
  parteAud,    \* the part of the page that is followed
  retrato,     \* server: the checklist and the phase
  reauditoria, \* server: the execution of the re-audit
  auditoria,   \* auditoria, or NaoLida
  edicoes,     \* the runs of handleAtualizarItem
  salvandoId,
  avanco,      \* the PATCH of the phase: SemAvanco, AvancoPedido or its answer
  reauditando,
  cruzou,      \* history: an answer arrived older than the server, or a
               \* rollback undid more than the edit that failed
  filtroAud,   \* filtro of the grid
  notasAbertas,
  detalheItem, \* the row's detalhe
  artefatoSrv, \* server: an artefact has been stored
  artefato,    \* artefato of GerarArtefatoIA: "nenhum", "erro" or "pronto"
  carregandoArt,
  gerandoArt,
  consolSrv,   \* server: consolidacao_status
  consolFila,  \* jobs of consolidation, and
  consolSemCommit, \* the POST that queued one has not written the status
  consolVista, \* auditoria.consolidacao_status as the page read it
  consolidados,
  consolidando,
  pedindoConsol, \* its POST is on its way
  rodada,      \* how many intervals have been set, and
  ligados,     \* those not cleared
  consultas,   \* polls on their way: [rodada, lido]
  relatorioSrv, \* server: relatorio_json
  relatorioVisto,
  gerandoRel   \* "nada", "pedindo" its POST, or "esperando"

checklistVars == <<retrato, reauditoria, auditoria, edicoes, salvandoId, avanco,
                   reauditando, cruzou>>
fichaAudVars == <<filtroAud, notasAbertas, detalheItem, artefatoSrv, artefato,
                  carregandoArt, gerandoArt>>
consolVars == <<consolSrv, consolFila, consolSemCommit, consolVista, consolidados,
                consolidando, pedindoConsol, rodada, ligados, consultas>>
relatorioVars == <<relatorioSrv, relatorioVisto, gerandoRel>>
planoVars == <<consolVars, relatorioVars>>
auditoriaVars == <<parteAud, checklistVars, fichaAudVars, planoVars>>

InitChecklist ==
  /\ retrato = [marcas |-> {}, fase |-> "before"]
  /\ reauditoria = "nenhuma"
  /\ auditoria = NaoLida
  /\ edicoes = {}
  /\ salvandoId = SemItem
  /\ avanco = SemAvanco
  /\ reauditando = FALSE
  /\ cruzou = TRUE

InitFicha ==
  /\ filtroAud = "todos"
  /\ notasAbertas = SemItem
  /\ detalheItem = "nenhum"
  /\ artefatoSrv = FALSE
  /\ artefato = "nenhum"
  /\ carregandoArt = FALSE
  /\ gerandoArt = FALSE

InitPlano ==
  /\ consolSrv = "nao_executada"
  /\ consolFila = 0
  /\ consolSemCommit = FALSE
  /\ consolVista = "nao_executada"
  /\ consolidados = FALSE
  /\ consolidando = FALSE
  /\ pedindoConsol = FALSE
  /\ rodada = 0
  /\ ligados = {}
  /\ consultas = {}
  /\ relatorioSrv = "vazio"
  /\ relatorioVisto = "vazio"
  /\ gerandoRel = "nada"

InitAuditoria ==
  /\ parteAud \in {"checklist", "ficha", "plano"}
  /\ InitChecklist
  /\ InitFicha
  /\ InitPlano

-----------------------------------------------------------------------------
(* The audit, its phase and the edits of the checklist. *)

\* setAuditoria with the answer of a GET, or of the PATCH of the phase.
VerAuditoria(r) ==
  /\ auditoria' = r
  /\ cruzou' = (r # retrato)

\* The first GET; an error shows nothing else ever.
CarregarAuditoria ==
  /\ parteAud = "checklist"
  /\ auditoria = NaoLida
  /\ VerAuditoria(retrato)
  /\ UNCHANGED <<parteAud, retrato, reauditoria, edicoes, salvandoId, avanco,
                 reauditando, fichaAudVars, planoVars>>

\* handleAtualizarItem up to its first await: the edit is shown, and what was
\* shown before it is kept for the rollback.
AtualizarItem(i, marcado) ==
  /\ parteAud = "checklist"
  /\ auditoria # NaoLida
  /\ Cardinality(edicoes) < MaxEdicoes
  /\ edicoes' = {[e EXCEPT !.so = FALSE] : e \in edicoes} \cup
       {[item |-> i, marcado |-> marcado, anterior |-> auditoria,
         so |-> edicoes = {} /\ avanco \in {SemAvanco, AvancoPedido},
         lida |-> NaoLida]}
  /\ auditoria' = [auditoria EXCEPT !.marcas = IF marcado THEN @ \cup {i} ELSE @ \ {i}]
  /\ salvandoId' = i
  /\ UNCHANGED <<parteAud, retrato, reauditoria, avanco, reauditando, cruzou,
                 fichaAudVars, planoVars>>

Marcado(r, e) ==
  [r EXCEPT !.marcas = IF e.marcado THEN @ \cup {e.item} ELSE @ \ {e.item}]

\* The PATCH is committed and answered, and the GET after it sent.
ItemSalvo(e) ==
  /\ parteAud = "checklist"
  /\ e \in edicoes
  /\ e.lida = NaoLida
  /\ retrato' = Marcado(retrato, e)
  /\ edicoes' = (edicoes \ {e}) \cup {[e EXCEPT !.lida = retrato']}
  /\ UNCHANGED <<parteAud, reauditoria, auditoria, salvandoId, avanco, reauditando,
                 cruzou, fichaAudVars, planoVars>>

\* The first to end takes the mark of all.
ItemRelido(e) ==
  /\ parteAud = "checklist"
  /\ e \in edicoes
  /\ e.lida # NaoLida
  /\ edicoes' = edicoes \ {e}
  /\ salvandoId' = SemItem
  /\ \E r \in {e.lida, retrato} : VerAuditoria(r)
  /\ UNCHANGED <<parteAud, retrato, reauditoria, avanco, reauditando, fichaAudVars,
                 planoVars>>

\* Mutant: what was shown is not put back.
Desfazer_Nao(e) == UNCHANGED auditoria

\* The rollback.
Desfazer(e) == auditoria' = e.anterior

\* The PATCH is refused, or it or the GET is lost, the PATCH done or not.
ItemFalhou(e) ==
  /\ parteAud = "checklist"
  /\ e \in edicoes
  /\ edicoes' = edicoes \ {e}
  /\ salvandoId' = SemItem
  /\ \/ UNCHANGED retrato
     \/ e.lida = NaoLida /\ retrato' = Marcado(retrato, e)
  /\ Desfazer(e)
  /\ cruzou' = (cruzou \/ ~e.so \/ e.lida # NaoLida \/ retrato' # retrato)
  /\ UNCHANGED <<parteAud, reauditoria, avanco, reauditando, fichaAudVars, planoVars>>

\* The button of the phase is not disabled while its PATCH is on its way.
\* Bound: one at a time.
AvancarFaseCwv ==
  /\ parteAud = "checklist"
  /\ auditoria.fase = "before"
  /\ avanco = SemAvanco
  /\ avanco' = AvancoPedido
  /\ UNCHANGED <<parteAud, retrato, reauditoria, auditoria, edicoes, salvandoId,
                 reauditando, cruzou, fichaAudVars, planoVars>>

FaseAvancada ==
  /\ parteAud = "checklist"
  /\ avanco = AvancoPedido
  /\ retrato.fase = "before"
  /\ retrato' = [retrato EXCEPT !.fase = "aguardando"]
  /\ avanco' = retrato'
  /\ edicoes' = {[e EXCEPT !.so = FALSE] : e \in edicoes}
  /\ UNCHANGED <<parteAud, reauditoria, auditoria, salvandoId, reauditando, cruzou,
                 fichaAudVars, planoVars>>

FaseRespondida ==
  /\ parteAud = "checklist"
  /\ avanco \in Retratos
  /\ avanco' = SemAvanco
  /\ VerAuditoria(avanco)
  /\ UNCHANGED <<parteAud, retrato, reauditoria, edicoes, salvandoId, reauditando,
                 fichaAudVars, planoVars>>

\* Refused (the phase is no longer "before") or lost.
FaseNaoRespondida ==
  /\ parteAud = "checklist"
  /\ avanco # SemAvanco
  /\ cruzou' = (cruzou \/ avanco # AvancoPedido)
  /\ avanco' = SemAvanco
  /\ UNCHANGED <<parteAud, retrato, reauditoria, auditoria, edicoes, salvandoId,
                 reauditando, fichaAudVars, planoVars>>

\* handleReauditar, from either of the two buttons.
Reauditar ==
  /\ parteAud = "checklist"
  /\ auditoria.fase \in {"aguardando", "after"}
  /\ ~reauditando
  /\ reauditando' = TRUE
  /\ UNCHANGED <<parteAud, retrato, reauditoria, auditoria, edicoes, salvandoId, avanco,
                 cruzou, fichaAudVars, planoVars>>

\* The server takes one that the last did not answer for; the page goes to it,
\* without having seen the new phase.
ReauditarAceito ==
  /\ parteAud = "checklist"
  /\ reauditando
  /\ reauditando' = FALSE
  /\ retrato.fase \in {"aguardando", "after"}
  /\ reauditoria # "andando"
  /\ reauditoria' = "andando"
  /\ retrato' = [retrato EXCEPT !.fase = "after"]
  /\ cruzou' = TRUE
  /\ UNCHANGED <<parteAud, auditoria, edicoes, salvandoId, avanco, fichaAudVars,
                 planoVars>>

ReauditarRecusado ==
  /\ parteAud = "checklist"
  /\ reauditando
  /\ reauditando' = FALSE
  /\ UNCHANGED <<parteAud, retrato, reauditoria, auditoria, edicoes, salvandoId, avanco,
                 cruzou, fichaAudVars, planoVars>>

ReauditoriaFalhou ==
  /\ parteAud = "checklist"
  /\ reauditoria = "andando"
  /\ reauditoria' = "falhou"
  /\ UNCHANGED <<parteAud, retrato, auditoria, edicoes, salvandoId, avanco, reauditando,
                 cruzou, fichaAudVars, planoVars>>

-----------------------------------------------------------------------------
(* A row of the checklist: its details, and what the AI wrote for it. *)

\* The filter "implementados" hides a row; a hidden row forgets its details.
MudarFiltro(f) ==
  /\ parteAud = "ficha"
  /\ filtroAud' = f
  /\ IF f = "implementados"
       THEN /\ detalheItem' = "nenhum"
            /\ artefato' = "nenhum"
            /\ carregandoArt' = FALSE
            /\ gerandoArt' = FALSE
       ELSE /\ notasAbertas = SemItem
            /\ UNCHANGED <<detalheItem, artefato, carregandoArt, gerandoArt>>
  /\ UNCHANGED <<parteAud, checklistVars, notasAbertas, artefatoSrv, planoVars>>

\* The button "Detalhe": it mounts GerarArtefatoIA, which GETs the artefact,
\* and the effect GETs the detail the first time.
AbrirNotas(i) ==
  /\ parteAud = "ficha"
  /\ filtroAud = "todos"
  /\ notasAbertas = SemItem
  /\ notasAbertas' = i
  /\ detalheItem' = IF detalheItem = "nenhum" THEN "pedindo" ELSE detalheItem
  /\ carregandoArt' = TRUE
  /\ UNCHANGED <<parteAud, checklistVars, filtroAud, artefatoSrv, artefato, gerandoArt,
                 planoVars>>

\* The button again, or "Salvar notas".
FecharNotas ==
  /\ parteAud = "ficha"
  /\ filtroAud = "todos"
  /\ notasAbertas # SemItem
  /\ notasAbertas' = SemItem
  /\ artefato' = "nenhum"
  /\ carregandoArt' = FALSE
  /\ gerandoArt' = FALSE
  /\ UNCHANGED <<parteAud, checklistVars, filtroAud, detalheItem, artefatoSrv,
                 planoVars>>

\* After an error the effect runs again, without end, while the row is open.
DetalheRespondido ==
  /\ parteAud = "ficha"
  /\ detalheItem = "pedindo"
  /\ detalheItem' \in {"com", IF notasAbertas = SemItem THEN "nenhum" ELSE "pedindo"}
  /\ UNCHANGED <<parteAud, checklistVars, filtroAud, notasAbertas, artefatoSrv, artefato,
                 carregandoArt, gerandoArt, planoVars>>

\* A 404 and an error are alike: nothing is shown.
ArtefatoLido ==
  /\ parteAud = "ficha"
  /\ carregandoArt
  /\ carregandoArt' = FALSE
  /\ artefato' \in {artefato} \cup (IF artefatoSrv THEN {"pronto", "erro"} ELSE {})
  /\ UNCHANGED <<parteAud, checklistVars, filtroAud, notasAbertas, detalheItem,
                 artefatoSrv, gerandoArt, planoVars>>

GerarArtefato ==
  /\ parteAud = "ficha"
  /\ notasAbertas # SemItem
  /\ filtroAud = "todos"
  /\ ~gerandoArt
  /\ ~carregandoArt
  /\ gerandoArt' = TRUE
  /\ UNCHANGED <<parteAud, checklistVars, filtroAud, notasAbertas, detalheItem,
                 artefatoSrv, artefato, carregandoArt, planoVars>>

\* Written, written as an error, or nothing said of it.
ArtefatoGerado ==
  /\ parteAud = "ficha"
  /\ gerandoArt
  /\ gerandoArt' = FALSE
  /\ \/ artefatoSrv' = TRUE /\ artefato' \in {"pronto", "erro"}
     \/ artefatoSrv' \in {artefatoSrv, TRUE} /\ UNCHANGED artefato
  /\ UNCHANGED <<parteAud, checklistVars, filtroAud, notasAbertas, detalheItem,
                 carregandoArt, planoVars>>

-----------------------------------------------------------------------------
(* The consolidation. *)

\* The first GETs of the audit and of its consolidated problems; later ones of
\* the audit (after an edit, say) bring the status too.
LerPlano ==
  /\ parteAud = "plano"
  /\ consolVista' = consolSrv
  /\ relatorioVisto' = relatorioSrv
  /\ consolidados' = (consolidados \/ consolSrv = "concluida")
  /\ UNCHANGED <<parteAud, checklistVars, fichaAudVars, consolSrv, consolFila,
                 consolSemCommit, consolidando, pedindoConsol, rodada, ligados, consultas,
                 relatorioSrv, gerandoRel>>

\* The first button, or "Re-consolidar".
BotaoConsolidar == consolVista # "executando" \/ consolidados

HandleConsolidar ==
  /\ parteAud = "plano"
  /\ BotaoConsolidar
  /\ ~consolidando
  /\ rodada < MaxConsolidar
  /\ consolidando' = TRUE
  /\ pedindoConsol' = TRUE
  /\ UNCHANGED <<parteAud, checklistVars, fichaAudVars, consolSrv, consolFila,
                 consolSemCommit, consolVista, consolidados, rodada, ligados, consultas,
                 relatorioVars>>

\* The server queues the job before it writes the status.
ConsolEnfileirada ==
  /\ parteAud = "plano"
  /\ pedindoConsol
  /\ ~consolSemCommit
  /\ consolSrv # "executando"
  /\ consolFila' = consolFila + 1
  /\ consolSemCommit' = TRUE
  /\ UNCHANGED <<parteAud, checklistVars, fichaAudVars, consolSrv, consolVista,
                 consolidados, consolidando, pedindoConsol, rodada, ligados, consultas,
                 relatorioVars>>

\* A job that was as quick has its status overwritten.
ConsolAceita ==
  /\ parteAud = "plano"
  /\ consolSemCommit
  /\ consolSemCommit' = FALSE
  /\ consolSrv' = "executando"
  /\ pedindoConsol' = FALSE
  /\ rodada' = rodada + 1
  /\ ligados' = ligados \cup {rodada'}
  /\ UNCHANGED <<parteAud, checklistVars, fichaAudVars, consolFila, consolVista,
                 consolidados, consolidando, consultas, relatorioVars>>

\* Refused, not queued (which the server writes down as failed), or lost.
ConsolRecusada ==
  /\ parteAud = "plano"
  /\ pedindoConsol
  /\ ~consolSemCommit
  /\ consolSrv' \in {consolSrv} \cup
       (IF consolSrv = "executando" THEN {} ELSE {"falhou"})
  /\ pedindoConsol' = FALSE
  /\ consolidando' = FALSE
  /\ UNCHANGED <<parteAud, checklistVars, fichaAudVars, consolFila, consolSemCommit,
                 consolVista, consolidados, rodada, ligados, consultas, relatorioVars>>

\* A job that is cancelled writes nothing.
ConsolTerminada ==
  /\ parteAud = "plano"
  /\ consolFila > 0
  /\ consolFila' = consolFila - 1
  /\ consolSrv' \in {consolSrv, "concluida", "falhou"}
  /\ UNCHANGED <<parteAud, checklistVars, fichaAudVars, consolSemCommit, consolVista,
                 consolidados, consolidando, pedindoConsol, rodada, ligados, consultas,
                 relatorioVars>>

\* Every three seconds, whether or not the last poll has been answered.
ConsultarConsol(n) ==
  /\ parteAud = "plano"
  /\ n \in ligados
  /\ Cardinality(consultas) < MaxConsultas
  /\ consultas' = consultas \cup {[rodada |-> n, lido |-> consolSrv]}
  /\ UNCHANGED <<parteAud, checklistVars, fichaAudVars, consolSrv, consolFila,
                 consolSemCommit, consolVista, consolidados, consolidando, pedindoConsol,
                 rodada, ligados, relatorioVars>>

\* Mutant: only a consolidation that ends well ends the wait.
EncerraConsol_SoConcluida(s) == s = "concluida"

EncerraConsol(s) == s \in {"concluida", "falhou"}

\* The poll of an older interval ends the wait of a newer one.
ConsultaRespondida(c) ==
  /\ parteAud = "plano"
  /\ c \in consultas
  /\ consultas' = consultas \ {c}
  /\ IF EncerraConsol(c.lido)
       THEN /\ ligados' = ligados \ {c.rodada}
            /\ consolidando' = FALSE
            /\ consolidados' = (consolidados \/ c.lido = "concluida")
       ELSE UNCHANGED <<ligados, consolidando, consolidados>>
  /\ UNCHANGED <<parteAud, checklistVars, fichaAudVars, consolSrv, consolFila,
                 consolSemCommit, consolVista, pedindoConsol, rodada, relatorioVars>>

ConsultaPerdida(c) ==
  /\ parteAud = "plano"
  /\ c \in consultas
  /\ consultas' = consultas \ {c}
  /\ UNCHANGED <<parteAud, checklistVars, fichaAudVars, consolSrv, consolFila,
                 consolSemCommit, consolVista, consolidados, consolidando, pedindoConsol,
                 rodada, ligados, relatorioVars>>

-----------------------------------------------------------------------------
(* The report. *)

BotaoRelatorio ==
  consolVista = "concluida" /\ relatorioVisto # "pronto" /\ gerandoRel = "nada"

HandleGerarRelatorio ==
  /\ parteAud = "plano"
  /\ BotaoRelatorio
  /\ gerandoRel' = "pedindo"
  /\ UNCHANGED <<parteAud, checklistVars, fichaAudVars, consolVars, relatorioSrv,
                 relatorioVisto>>

\* Refused unless the consolidation is done and no report is being made.
RelatorioRespondido ==
  /\ parteAud = "plano"
  /\ gerandoRel = "pedindo"
  /\ \/ /\ consolSrv = "concluida"
        /\ relatorioSrv # "gerando"
        /\ relatorioSrv' = "gerando"
        /\ gerandoRel' = "esperando"
     \/ UNCHANGED relatorioSrv /\ gerandoRel' = "nada"
  /\ UNCHANGED <<parteAud, checklistVars, fichaAudVars, consolVars, relatorioVisto>>

RelatorioEscrito ==
  /\ parteAud = "plano"
  /\ relatorioSrv = "gerando"
  /\ relatorioSrv' \in {"pronto", "falhou"}
  /\ UNCHANGED <<parteAud, checklistVars, fichaAudVars, consolVars, relatorioVisto,
                 gerandoRel>>

\* A poll of its interval; one that fails leaves the interval on.  Nothing but
\* the worker changes the report while the page waits for it: it is read when
\* it arrives.
RelatorioConsultado ==
  /\ parteAud = "plano"
  /\ gerandoRel = "esperando"
  /\ relatorioSrv \in {"pronto", "falhou"}
  /\ gerandoRel' = "nada"
  /\ IF relatorioSrv = "pronto"
       THEN relatorioVisto' = relatorioSrv /\ consolVista' = consolSrv
       ELSE UNCHANGED <<relatorioVisto, consolVista>>
  /\ UNCHANGED <<parteAud, checklistVars, fichaAudVars, consolSrv, consolFila,
                 consolSemCommit, consolidados, consolidando, pedindoConsol, rodada,
                 ligados, consultas, relatorioSrv>>

-----------------------------------------------------------------------------
EditarChecklist ==
  \/ CarregarAuditoria
  \/ \E i \in Itens, m \in BOOLEAN : AtualizarItem(i, m)
  \/ \E e \in edicoes : ItemSalvo(e) \/ ItemRelido(e) \/ ItemFalhou(e)

MudarFase ==
  \/ AvancarFaseCwv \/ FaseAvancada \/ FaseRespondida \/ FaseNaoRespondida
  \/ Reauditar \/ ReauditarAceito \/ ReauditarRecusado \/ ReauditoriaFalhou

AbrirFicha ==
  \/ \E f \in {"todos", "implementados"} : MudarFiltro(f)
  \/ \E i \in Itens : AbrirNotas(i)
  \/ FecharNotas \/ DetalheRespondido
  \/ ArtefatoLido \/ GerarArtefato \/ ArtefatoGerado

Consolidar ==
  \/ LerPlano
  \/ HandleConsolidar \/ ConsolEnfileirada \/ ConsolAceita \/ ConsolRecusada
  \/ ConsolTerminada
  \/ \E c \in consultas : ConsultaPerdida(c)

\* The intervals go off, and a poll sent again and again is answered sometime.
ConsultarPlano == \E n \in ligados : ConsultarConsol(n)
ResponderPlano == \E c \in consultas : ConsultaRespondida(c)

GerarRelatorio ==
  HandleGerarRelatorio \/ RelatorioRespondido \/ RelatorioEscrito \/ RelatorioConsultado

NextAuditoria ==
  \/ EditarChecklist
  \/ MudarFase
  \/ AbrirFicha
  \/ Consolidar
  \/ ConsultarPlano
  \/ ResponderPlano
  \/ GerarRelatorio

SpecAuditoria == InitAuditoria /\ [][NextAuditoria]_auditoriaVars

-----------------------------------------------------------------------------
(* Properties. *)

AuditoriaTypeOK ==
  /\ parteAud \in {"checklist", "ficha", "plano"}
  /\ retrato \in Retratos
  /\ reauditoria \in {"nenhuma", "andando", "falhou"}
  /\ auditoria \in Retratos \cup {NaoLida}
  /\ edicoes \subseteq [item : Itens, marcado : BOOLEAN, anterior : Retratos,
                        so : BOOLEAN, lida : Retratos \cup {NaoLida}]
  /\ salvandoId \in Itens \cup {SemItem}
  /\ avanco \in Retratos \cup {SemAvanco, AvancoPedido}
  /\ reauditando \in BOOLEAN
  /\ cruzou \in BOOLEAN
  /\ filtroAud \in {"todos", "implementados"}
  /\ notasAbertas \in Itens \cup {SemItem}
  /\ detalheItem \in {"nenhum", "pedindo", "com"}
  /\ artefatoSrv \in BOOLEAN
  /\ artefato \in {"nenhum", "erro", "pronto"}
  /\ carregandoArt \in BOOLEAN
  /\ gerandoArt \in BOOLEAN
  /\ consolSrv \in StatusConsolidacao
  /\ consolFila \in 0..MaxConsolidar
  /\ consolSemCommit \in BOOLEAN
  /\ consolVista \in StatusConsolidacao
  /\ consolidados \in BOOLEAN
  /\ consolidando \in BOOLEAN
  /\ pedindoConsol \in BOOLEAN
  /\ rodada \in 0..MaxConsolidar
  /\ ligados \subseteq 1..MaxConsolidar
  /\ consultas \subseteq [rodada : 1..MaxConsolidar, lido : StatusConsolidacao]
  /\ relatorioSrv \in StatusRelatorio
  /\ relatorioVisto \in StatusRelatorio
  /\ gerandoRel \in {"nada", "pedindo", "esperando"}

\* cwv-auditoria-client.tsx:156 "Update otimista", :166 "rollback".  When every
\* edit has ended, well or not, the checklist and the phase shown are the
\* server's, unless an answer older than the server came last or a rollback
\* put back what was there before another edit.
ChecklistConfere ==
  edicoes = {} /\ avanco = SemAvanco /\ ~cruzou => auditoria = retrato

\* cwv-auditoria-client.tsx:72-87.  A consolidation that has ended on the
\* server, well or not, does not leave the page waiting for it.
ConsolidacaoTermina ==
  (consolidando /\ ~pedindoConsol /\ consolSrv \in {"concluida", "falhou"})
    ~> (~consolidando \/ consolSrv = "executando")
=============================================================================
