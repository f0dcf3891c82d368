----------------------------- MODULE PaginaCwv -----------------------------
(***************************************************************************)
(* The page of a Web Vitals execution, CwvExecucaoClient.  It GETs the row *)
(* once, follows the stream of lib/sse-client.ts until a final event, and  *)
(* GETs the row again when it is "concluida".  The worker writes the       *)
(* result first, and into it the id of an audit it makes a little later.   *)
(*                                                                         *)
(* Of the stream only what the page sees is modelled: the reconnections    *)
(* (PaginaExecucao has them) are silent, and end in one that gives up.     *)
(***************************************************************************)
EXTENDS Integers

CONSTANTS
  MaxAuditorias,  \* bound: audits made of one execution
  MaxPedidosSaude \* bound: GETs of the health score on their way

ASSUME PaginaCwvAssumption ==
  /\ MaxAuditorias \in Nat \ {0}
  /\ MaxPedidosSaude \in Nat \ {0}

FinaisCwv == {"concluida", "falhou", "cancelada"}
StatusCwv == {"executando"} \cup FinaisCwv
LinhasCwv == [status : StatusCwv, ligada : BOOLEAN]
LinhaNula == [status |-> "nula", ligada |-> FALSE]

VARIABLES
  cwvLinha,      \* server: the row's status, and if its result names an audit
  cwvAuditorias, \* server: audits made of it
  cwvTela,       \* execucao, or LinhaNula
  cwvResultado,  \* execucao.resultado_json is there
  cwvFinal,      \* statusFinal, or "nenhum"
  cwvErro,       \* erroMsg is set
  cwvGets,       \* the GETs of the row: the first, and the one of the end
  cwvFluxo,      \* the stream
  saude,         \* healthScore
  saudeGets,     \* GETs of it on their way
  pageExp,       \* the GET of the page experience, and its answer
  criandoAud,    \* the POST of the button is on its way
  cwvOrdem       \* history: no GET was lost, or arrived older than the page

cwvServidorVars == <<cwvLinha, cwvAuditorias>>
cwvPaginaVars == <<cwvTela, cwvResultado, cwvFinal, cwvErro, cwvGets, cwvFluxo>>
cwvExtraVars == <<saude, saudeGets, pageExp, criandoAud>>
cwvVars == <<cwvServidorVars, cwvPaginaVars, cwvExtraVars, cwvOrdem>>

InitCwv ==
  /\ cwvLinha = [status |-> "executando", ligada |-> FALSE]
  /\ cwvAuditorias = 0
  /\ cwvTela = LinhaNula
  /\ cwvResultado = FALSE
  /\ cwvFinal = "nenhum"
  /\ cwvErro = FALSE
  /\ cwvGets = [primeiro |-> cwvLinha, ultimo |-> LinhaNula]
  /\ cwvFluxo = "ligado"
  /\ saude = "nenhum"
  /\ saudeGets = 0
  /\ pageExp = "nada"
  /\ criandoAud = FALSE
  /\ cwvOrdem = TRUE

-----------------------------------------------------------------------------
(* The worker. *)

TerminarCwv ==
  /\ cwvLinha.status = "executando"
  /\ \E s \in FinaisCwv : cwvLinha' = [cwvLinha EXCEPT !.status = s]
  /\ UNCHANGED <<cwvAuditorias, cwvPaginaVars, cwvExtraVars, cwvOrdem>>

\* _criar_auditoria_automatica, in a later commit than the result; it may fail.
LigarAuditoria ==
  /\ cwvLinha.status = "concluida"
  /\ ~cwvLinha.ligada
  /\ cwvAuditorias < MaxAuditorias
  /\ cwvLinha' = [cwvLinha EXCEPT !.ligada = TRUE]
  /\ cwvAuditorias' = IF cwvAuditorias = 0 THEN 1 ELSE cwvAuditorias
  /\ UNCHANGED <<cwvPaginaVars, cwvExtraVars, cwvOrdem>>

-----------------------------------------------------------------------------
(* The effects. *)

\* The effect of the health score runs when statusFinal or execucao changes:
\* it takes the score of the result, or else asks for it.
EfeitoSaude(final, comResultado) ==
  IF final # "concluida" THEN UNCHANGED <<saude, saudeGets>>
  ELSE IF comResultado THEN saude' = "embutido" /\ UNCHANGED saudeGets
  ELSE /\ saudeGets' = IF saudeGets < MaxPedidosSaude THEN saudeGets + 1 ELSE saudeGets
       /\ UNCHANGED saude

\* The effect of the page experience runs when statusFinal changes.
EfeitoPageExp(final) ==
  pageExp' = IF final = "concluida" /\ cwvFinal # final THEN "pedida" ELSE pageExp

\* The effect of the stream is torn down when statusFinal is set.
EfeitoFluxo(final) ==
  cwvFluxo' = IF final # "nenhum" /\ cwvFluxo = "ligado" THEN "fechado" ELSE cwvFluxo

\* The first GET: a row that has ended says so; one that has not is only shown.
PrimeiroGet(r) ==
  /\ cwvGets.primeiro # LinhaNula
  /\ r \in {cwvGets.primeiro, cwvLinha}
  /\ cwvGets' = [cwvGets EXCEPT !.primeiro = LinhaNula]
  /\ cwvTela' = r
  /\ cwvResultado' = (r.status = "concluida")
  /\ cwvFinal' = IF r.status \in FinaisCwv THEN r.status ELSE cwvFinal
  /\ EfeitoSaude(cwvFinal', cwvResultado')
  /\ EfeitoPageExp(cwvFinal')
  /\ EfeitoFluxo(cwvFinal')
  /\ cwvOrdem' = (cwvOrdem /\ (cwvFinal = "nenhum" \/ r.status = cwvFinal))
  /\ UNCHANGED <<cwvServidorVars, cwvErro, criandoAud>>

\* An error of the first GET says that the execution failed.
PrimeiroGetPerdido ==
  /\ cwvGets.primeiro # LinhaNula
  /\ cwvGets' = [cwvGets EXCEPT !.primeiro = LinhaNula]
  /\ cwvErro' = TRUE
  /\ cwvFinal' = "falhou"
  /\ EfeitoFluxo("falhou")
  /\ cwvOrdem' = FALSE
  /\ UNCHANGED <<cwvServidorVars, cwvTela, cwvResultado, cwvExtraVars>>

\* A status event changes the row shown, if there is one.
EventoStatus(s) ==
  cwvTela' = IF cwvTela = LinhaNula THEN cwvTela ELSE [cwvTela EXCEPT !.status = s]

\* Mutant: the row is not read again.
BuscarFinal_Nao == UNCHANGED cwvGets

BuscarFinal == cwvGets' = [cwvGets EXCEPT !.ultimo = cwvLinha]

\* Every five seconds the stream reads the row and sends its status, and after
\* a final one the event of that name.  The page has no case for "cancelada".
FluxoCwv ==
  /\ cwvFluxo = "ligado"
  /\ EventoStatus(cwvLinha.status)
  /\ CASE cwvLinha.status = "concluida" ->
            /\ cwvFinal' = "concluida"
            /\ BuscarFinal
            /\ UNCHANGED cwvErro
       [] cwvLinha.status = "falhou" ->
            /\ cwvFinal' = "falhou"
            /\ cwvErro' = TRUE
            /\ UNCHANGED cwvGets
       [] OTHER -> UNCHANGED <<cwvFinal, cwvErro, cwvGets>>
  /\ cwvFluxo' = IF cwvLinha.status \in FinaisCwv THEN "fim" ELSE cwvFluxo
  /\ EfeitoSaude(cwvFinal', cwvResultado)
  /\ EfeitoPageExp(cwvFinal')
  /\ UNCHANGED <<cwvServidorVars, cwvResultado, criandoAud, cwvOrdem>>

\* onError: the page says so where nobody looks, and goes on "analisando".
FluxoDesistiu ==
  /\ cwvFluxo = "ligado"
  /\ cwvFluxo' = "desistiu"
  /\ cwvErro' = TRUE
  /\ UNCHANGED <<cwvServidorVars, cwvTela, cwvResultado, cwvFinal, cwvGets,
                 cwvExtraVars, cwvOrdem>>

GetFinal(r) ==
  /\ cwvGets.ultimo # LinhaNula
  /\ r \in {cwvGets.ultimo, cwvLinha}
  /\ cwvGets' = [cwvGets EXCEPT !.ultimo = LinhaNula]
  /\ cwvTela' = r
  /\ cwvResultado' = TRUE
  /\ EfeitoSaude(cwvFinal, TRUE)
  /\ UNCHANGED <<cwvServidorVars, cwvFinal, cwvErro, cwvFluxo, pageExp, criandoAud,
                 cwvOrdem>>

GetFinalPerdido ==
  /\ cwvGets.ultimo # LinhaNula
  /\ cwvGets' = [cwvGets EXCEPT !.ultimo = LinhaNula]
  /\ cwvOrdem' = FALSE
  /\ UNCHANGED <<cwvServidorVars, cwvTela, cwvResultado, cwvFinal, cwvErro, cwvFluxo,
                 cwvExtraVars>>

\* A late answer replaces the score of the result, an error erases it.
SaudeRespondida ==
  /\ saudeGets > 0
  /\ saudeGets' = saudeGets - 1
  /\ saude' \in {"calculado", "nenhum"}
  /\ UNCHANGED <<cwvServidorVars, cwvPaginaVars, pageExp, criandoAud, cwvOrdem>>

PageExpRespondida ==
  /\ pageExp = "pedida"
  /\ pageExp' \in {"sim", "nada"}
  /\ UNCHANGED <<cwvServidorVars, cwvPaginaVars, saude, saudeGets, criandoAud, cwvOrdem>>

-----------------------------------------------------------------------------
(* What the page shows, and its buttons. *)

PainelCwv ==
  IF cwvTela = LinhaNula /\ ~cwvErro THEN "carregando"
  ELSE IF cwvFinal \in {"concluida", "falhou"} THEN cwvFinal
  ELSE "analisando"

\* auditoriaIdVinculada: as the result the page read says.
BotaoCriarAuditoria ==
  /\ PainelCwv = "concluida"
  /\ cwvTela # LinhaNula
  /\ ~(cwvResultado /\ cwvTela.ligada)
  /\ ~criandoAud

HandleCriarAuditoria ==
  /\ BotaoCriarAuditoria
  /\ criandoAud' = TRUE
  /\ UNCHANGED <<cwvServidorVars, cwvPaginaVars, saude, saudeGets, pageExp, cwvOrdem>>

\* The server does not ask if there is one; the page goes to the new one.
AuditoriaCriada ==
  /\ criandoAud
  /\ criandoAud' = FALSE
  /\ cwvAuditorias' \in {cwvAuditorias} \cup
       (IF cwvAuditorias < MaxAuditorias THEN {cwvAuditorias + 1} ELSE {})
  /\ UNCHANGED <<cwvLinha, cwvPaginaVars, saude, saudeGets, pageExp, cwvOrdem>>

-----------------------------------------------------------------------------
TrabalharCwv == TerminarCwv \/ LigarAuditoria

ReceberCwv ==
  \/ \E r \in {cwvGets.primeiro, cwvLinha} : PrimeiroGet(r)
  \/ \E r \in {cwvGets.ultimo, cwvLinha} : GetFinal(r)
  \/ FluxoCwv
  \/ SaudeRespondida
  \/ PageExpRespondida

PerderCwv == PrimeiroGetPerdido \/ GetFinalPerdido \/ FluxoDesistiu

AuditarCwv == HandleCriarAuditoria \/ AuditoriaCriada

NextCwv == TrabalharCwv \/ ReceberCwv \/ PerderCwv \/ AuditarCwv

SpecCwv == InitCwv /\ [][NextCwv]_cwvVars

-----------------------------------------------------------------------------
(* Properties. *)

CwvTypeOK ==
  /\ cwvLinha \in LinhasCwv
  /\ cwvAuditorias \in 0..MaxAuditorias
  /\ cwvTela \in LinhasCwv \cup {LinhaNula}
  /\ cwvResultado \in BOOLEAN
  /\ cwvFinal \in FinaisCwv \cup {"nenhum"}
  /\ cwvErro \in BOOLEAN
  /\ cwvGets \in [{"primeiro", "ultimo"} -> LinhasCwv \cup {LinhaNula}]
  /\ cwvFluxo \in {"ligado", "fim", "fechado", "desistiu"}
  /\ saude \in {"nenhum", "embutido", "calculado"}
  /\ saudeGets \in 0..MaxPedidosSaude
  /\ pageExp \in {"nada", "pedida", "sim"}
  /\ criandoAud \in BOOLEAN
  /\ cwvOrdem \in BOOLEAN

\* cwv-execucao-client.tsx:124-131.  When the stream is over and the GETs are
\* in, an execution that ended (and was not cancelled) is shown as it ended,
\* with its result, unless a GET was lost or an older one came last.
CwvConverge ==
  (/\ cwvFluxo \in {"fim", "fechado"}
   /\ cwvGets = [primeiro |-> LinhaNula, ultimo |-> LinhaNula]
   /\ cwvOrdem
   /\ cwvLinha.status # "cancelada") =>
     /\ PainelCwv = cwvLinha.status
     /\ cwvLinha.status = "concluida" => cwvResultado
=============================================================================
