--------------------------- MODULE Acompanhamento ---------------------------
(***************************************************************************)
(* The pages that ask again and again until what they wait for is done:    *)
(* the technical opinion, the card of a client's index, the Core Web       *)
(* Vitals audit.  As in Aplicacao they share no state, and a tab is        *)
(* followed from the one it is loaded with.                                *)
(***************************************************************************)
EXTENDS PaginaParecer, PaginaClientes, PaginaAuditoria

VARIABLE rota \* the route

Rotas == {"parecer", "clientes", "auditoria"}

acompanhamentoVars == <<rota, parecerVars, clientesVars, auditoriaVars>>

\* Of the initial states of a page that is not shown, one.
Fechadas ==
  /\ rota # "clientes" => parteCli = "lista" /\ indiceSrv = "nao_indexado"
  /\ rota # "auditoria" => parteAud = "checklist"

InitAcompanhamento ==
  /\ rota \in Rotas
  /\ InitParecer
  /\ InitClientes
  /\ InitAuditoria
  /\ Fechadas

NoParecer ==
  /\ rota = "parecer"
  /\ NextParecer
  /\ UNCHANGED <<rota, clientesVars, auditoriaVars>>

NosClientes ==
  /\ rota = "clientes"
  /\ NextClientes
  /\ UNCHANGED <<rota, parecerVars, auditoriaVars>>

NaAuditoria ==
  /\ rota = "auditoria"
  /\ NextAuditoria
  /\ UNCHANGED <<rota, parecerVars, clientesVars>>

NextAcompanhamento == NoParecer \/ NosClientes \/ NaAuditoria

\* The timers of the pages fire, and their requests end.  A poll may be lost
\* any number of times, but not for ever.
JusticaAcompanhamento ==
  /\ WF_parecerVars(rota = "parecer" /\ SeguirParecer)
  /\ WF_clientesVars(rota = "clientes" /\ ReceberIndice)
  /\ WF_clientesVars(rota = "clientes" /\ PollIndice)
  /\ WF_auditoriaVars(rota = "auditoria" /\ ConsultarPlano)
  /\ SF_auditoriaVars(rota = "auditoria" /\ ResponderPlano)

SpecAcompanhamento ==
  InitAcompanhamento /\ [][NextAcompanhamento]_acompanhamentoVars /\ JusticaAcompanhamento

-----------------------------------------------------------------------------
\* The types of the pages, and nothing of one that is not shown has changed.
AcompanhamentoTypeOK ==
  /\ rota \in Rotas
  /\ ParecerTypeOK
  /\ ClientesTypeOK
  /\ AuditoriaTypeOK
  /\ Fechadas
=============================================================================
