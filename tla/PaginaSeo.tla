----------------------------- MODULE PaginaSeo -----------------------------
(***************************************************************************)
(* The pages of the technical SEO audit: the form (SeotecFormClient) and   *)
(* the audit (SeotecAuditoriaClient), where a package is uploaded, a       *)
(* stream is followed while the worker goes through it, the phase moves    *)
(* and the items are edited.                                               *)
(*                                                                         *)
(* The session of a request commits after its answer has left, so that a   *)
(* GET may read what was there before a PATCH that was answered.  An       *)
(* answer that was read when it was asked for, or when it arrives, stands  *)
(* for those read in between.  A package read with parts missing           *)
(* ("parcial") counts as processado: the page knows neither name.          *)
(***************************************************************************)
EXTENDS Integers, FiniteSets

CONSTANTS
  MaxEnvios,    \* bound: packages uploaded
  MaxLeituras   \* bound: GETs of the audit on their way

ASSUME PaginaSeoAssumption ==
  /\ MaxEnvios \in Nat \ {0}
  /\ MaxLeituras \in Nat \ {0}

FasesSeo == {"before", "implementacao", "after", "concluida"}
StatusCrawl == {"nenhum", "recebido", "processando", "processado", "erro"}
StatusEnvio == {"livre", "sem_commit", "recebido", "perdido", "processando",
                "persistido", "concluida", "falhou"}
Visoes == [fase : FasesSeo, crawl : StatusCrawl, item : BOOLEAN]
VisaoNula == [fase |-> "nula", crawl |-> "nenhum", item |-> FALSE]

Envios == 1..MaxEnvios
Sites == {"site_a", "site_b"}
SemSite == "sem_site"

VARIABLES
  parteSeo,      \* "form" or "auditoria"
  clienteSeo,    \* clienteId, as its site, or SemSite
  dominioSeo,    \* dominio
  criandoSeo,    \* handleCriar is running
  seoFase,       \* server: the phase,
  seoItem,       \* the client's status of an item, done or not,
  envios,        \* and the executions of the packages
  seoVista,      \* auditoria, or VisaoNula
  seoErro,       \* erro
  seoGets,       \* GETs of carregar on their way, as read when sent
  enviandoPacote,\* enviando
  etapaSSE,      \* etapaSSE is set
  seguindo,      \* the package whose stream is followed, or 0
  seoFluxo,      \* the stream
  avancando,     \* handleAvancarFase: "nada", "patch", "get"
  faseNova,      \* the phase that has not been committed, or the one there is
  editando,      \* handleEditarItem: "nada", "patch", "commit"
  itemNovo,      \* what it writes
  seoDescompasso \* history: an answer was lost, or came older than the server

formSeoVars == <<clienteSeo, dominioSeo, criandoSeo>>
servidorSeoVars == <<seoFase, seoItem, envios>>
envioSeoVars == <<enviandoPacote, etapaSSE, seguindo, seoFluxo>>
edicaoSeoVars == <<avancando, faseNova, editando, itemNovo>>
vistaSeoVars == <<seoVista, seoErro, seoGets>>
seoVars == <<parteSeo, formSeoVars, servidorSeoVars, vistaSeoVars, envioSeoVars,
             edicaoSeoVars, seoDescompasso>>

\* The last package the server knows of.
UltimoEnvio == {n \in Envios : /\ envios[n] \notin {"livre", "sem_commit"}
                               /\ \A m \in Envios : m > n =>
                                    envios[m] \in {"livre", "sem_commit"}}

CrawlDe(s) ==
  CASE s \in {"recebido", "perdido"} -> "recebido"
    [] s = "processando" -> "processando"
    [] s \in {"persistido", "concluida"} -> "processado"
    [] s = "falhou" -> "erro"

Servidor ==
  [fase |-> seoFase, item |-> seoItem,
   crawl |-> IF UltimoEnvio = {} THEN "nenhum"
             ELSE CrawlDe(envios[CHOOSE n \in UltimoEnvio : TRUE])]

InitSeo ==
  /\ parteSeo \in {"form", "auditoria"}
  /\ clienteSeo = SemSite
  /\ dominioSeo = SemSite
  /\ criandoSeo = FALSE
  /\ seoFase = "before"
  /\ seoItem = FALSE
  /\ envios = [n \in Envios |-> "livre"]
  /\ seoVista = VisaoNula
  /\ seoErro = FALSE
  /\ seoGets = {Servidor}
  /\ enviandoPacote = FALSE
  /\ etapaSSE = FALSE
  /\ seguindo = 0
  /\ seoFluxo = "nenhum"
  /\ avancando = "nada"
  /\ faseNova = seoFase
  /\ editando = "nada"
  /\ itemNovo = FALSE
  /\ seoDescompasso = TRUE

-----------------------------------------------------------------------------
(* The form. *)

\* The site of the first client chosen stays when another is chosen.
SelecionarCliente(a) ==
  /\ parteSeo = "form"
  /\ clienteSeo' = a
  /\ dominioSeo' = IF dominioSeo = SemSite THEN a ELSE dominioSeo
  /\ UNCHANGED <<parteSeo, criandoSeo, servidorSeoVars, vistaSeoVars, envioSeoVars,
                 edicaoSeoVars, seoDescompasso>>

EscreverDominio ==
  /\ parteSeo = "form"
  /\ ~criandoSeo
  /\ dominioSeo' \in Sites \cup {SemSite}
  /\ UNCHANGED <<parteSeo, clienteSeo, criandoSeo, servidorSeoVars, vistaSeoVars,
                 envioSeoVars, edicaoSeoVars, seoDescompasso>>

HandleCriar ==
  /\ parteSeo = "form"
  /\ ~criandoSeo
  /\ SemSite \notin {clienteSeo, dominioSeo}
  /\ criandoSeo' = TRUE
  /\ UNCHANGED <<parteSeo, clienteSeo, dominioSeo, servidorSeoVars, vistaSeoVars,
                 envioSeoVars, edicaoSeoVars, seoDescompasso>>

\* Created, and the page goes to it, which the form does not outlive; or not, and
\* the button is back.
CriarRespondido ==
  /\ parteSeo = "form"
  /\ criandoSeo
  /\ criandoSeo' = FALSE
  /\ \/ UNCHANGED <<parteSeo, clienteSeo, dominioSeo>>
     \/ /\ parteSeo' = "auditoria"
        /\ clienteSeo' = SemSite
        /\ dominioSeo' = SemSite
  /\ UNCHANGED <<servidorSeoVars, vistaSeoVars, envioSeoVars,
                 edicaoSeoVars, seoDescompasso>>

-----------------------------------------------------------------------------
(* carregar: the first GET, the poll, and what the stream asks for. *)

Carregar(q) ==
  seoGets' = IF Cardinality(q) < MaxLeituras THEN q \cup {Servidor} ELSE q

CarregarRespondido(r) ==
  /\ parteSeo = "auditoria"
  /\ r \in seoGets
  /\ seoGets' = seoGets \ {r}
  /\ seoVista' \in {r, Servidor}
  /\ seoDescompasso' = (seoVista' # Servidor \/ avancando # "nada" \/ editando # "nada")
  /\ UNCHANGED <<parteSeo, formSeoVars, servidorSeoVars, seoErro, envioSeoVars,
                 edicaoSeoVars>>

\* One error, of a poll too, takes the page away for good.
CarregarPerdido(r) ==
  /\ parteSeo = "auditoria"
  /\ r \in seoGets
  /\ seoGets' = seoGets \ {r}
  /\ seoErro' = TRUE
  /\ seoDescompasso' = TRUE
  /\ UNCHANGED <<parteSeo, formSeoVars, servidorSeoVars, seoVista, envioSeoVars,
                 edicaoSeoVars>>

\* crawlProcessando, by the names the page knows.
CrawlProcessando == seoVista.crawl \in {"enfileirado", "processando"}

PollCrawl ==
  /\ parteSeo = "auditoria"
  /\ CrawlProcessando
  /\ Carregar(seoGets)
  /\ UNCHANGED <<parteSeo, formSeoVars, servidorSeoVars, seoVista, seoErro,
                 envioSeoVars, edicaoSeoVars, seoDescompasso>>

-----------------------------------------------------------------------------
(* The package. *)

\* The zone stays open until a GET has found the package "processando".
ZonaEnvio ==
  /\ seoVista # VisaoNula
  /\ ~seoErro
  /\ seoVista.fase # "concluida"
  /\ ~CrawlProcessando

HandleUpload ==
  /\ parteSeo = "auditoria"
  /\ ZonaEnvio
  /\ ~enviandoPacote
  /\ \E n \in Envios : envios[n] = "livre"
  /\ enviandoPacote' = TRUE
  /\ UNCHANGED <<parteSeo, formSeoVars, servidorSeoVars, vistaSeoVars, etapaSSE,
                 seguindo, seoFluxo, edicaoSeoVars, seoDescompasso>>

\* The credits are reserved whatever the last package is at; the job is queued
\* before the session commits.  The page follows the new execution only.
UploadAceito(n) ==
  /\ parteSeo = "auditoria"
  /\ enviandoPacote
  /\ seoFase # "concluida"
  /\ envios[n] = "livre"
  /\ \A m \in Envios : m < n => envios[m] # "livre"
  /\ envios' = [envios EXCEPT ![n] = "sem_commit"]
  /\ enviandoPacote' = FALSE
  /\ etapaSSE' = TRUE
  /\ seguindo' = n
  /\ seoFluxo' = "ligado"
  /\ UNCHANGED <<parteSeo, formSeoVars, seoFase, seoItem, vistaSeoVars, edicaoSeoVars,
                 seoDescompasso>>

UploadRecusado ==
  /\ parteSeo = "auditoria"
  /\ enviandoPacote
  /\ enviandoPacote' = FALSE
  /\ UNCHANGED <<parteSeo, formSeoVars, servidorSeoVars, vistaSeoVars, etapaSSE,
                 seguindo, seoFluxo, edicaoSeoVars, seoDescompasso>>

\* The row is there for the job, or the job came first and found none.
EnvioConfirmado(n) ==
  /\ envios[n] = "sem_commit"
  /\ envios' = [envios EXCEPT ![n] = "recebido"]
  /\ UNCHANGED <<parteSeo, formSeoVars, seoFase, seoItem, vistaSeoVars, envioSeoVars,
                 edicaoSeoVars, seoDescompasso>>

EnvioPerdido(n) ==
  /\ envios[n] = "sem_commit"
  /\ envios' = [envios EXCEPT ![n] = "perdido"]
  /\ UNCHANGED <<parteSeo, formSeoVars, seoFase, seoItem, vistaSeoVars, envioSeoVars,
                 edicaoSeoVars, seoDescompasso>>

PassoDoEnvio(s) ==
  CASE s = "recebido" -> {"processando"}
    [] s = "processando" -> {"persistido", "falhou"}
    [] s = "persistido" -> {"concluida"}
    [] OTHER -> {}

\* executar_auditoria_seotec: what the package found is written, with the
\* phase of a re-audit, before the execution is.
ProcessarEnvio(n) ==
  /\ \E s \in PassoDoEnvio(envios[n]) :
       /\ envios' = [envios EXCEPT ![n] = s]
       /\ seoFase' = IF s = "persistido" /\ seoFase = "implementacao" THEN "after"
                     ELSE seoFase
  /\ faseNova' = IF avancando = "nada" THEN seoFase' ELSE faseNova
  /\ seoDescompasso' = (seoDescompasso \/ n # seguindo)
  /\ UNCHANGED <<parteSeo, formSeoVars, seoItem, vistaSeoVars, envioSeoVars, avancando,
                 editando, itemNovo>>

\* Mutant: the audit is not read again after a failure.
AoFalhar_SemCarregar == UNCHANGED seoGets

AoFalhar == Carregar(seoGets)

\* The final event of the stream.
FluxoSeoFim ==
  /\ parteSeo = "auditoria"
  /\ seoFluxo = "ligado"
  /\ envios[seguindo] \in {"concluida", "falhou"}
  /\ Cardinality(seoGets) < MaxLeituras
  /\ etapaSSE' = FALSE
  /\ seoFluxo' = "fim"
  /\ IF envios[seguindo] = "concluida" THEN Carregar(seoGets) ELSE AoFalhar
  /\ UNCHANGED <<parteSeo, formSeoVars, servidorSeoVars, seoVista, seoErro,
                 enviandoPacote, seguindo, edicaoSeoVars, seoDescompasso>>

\* Nobody is told that the stream gave up.
FluxoSeoDesistiu ==
  /\ parteSeo = "auditoria"
  /\ seoFluxo = "ligado"
  /\ seoFluxo' = "desistiu"
  /\ UNCHANGED <<parteSeo, formSeoVars, servidorSeoVars, vistaSeoVars, enviandoPacote,
                 etapaSSE, seguindo, edicaoSeoVars, seoDescompasso>>

-----------------------------------------------------------------------------
(* The phase and the items. *)

TransicoesManuais == {<<"before", "implementacao">>, <<"after", "concluida">>}

HandleAvancarFase ==
  /\ parteSeo = "auditoria"
  /\ ~seoErro
  /\ seoVista.fase \in {"before", "after"}
  /\ avancando = "nada"
  /\ avancando' = "patch"
  /\ faseNova' = CHOOSE f \in FasesSeo : <<seoVista.fase, f>> \in TransicoesManuais
  /\ UNCHANGED <<parteSeo, formSeoVars, servidorSeoVars, vistaSeoVars, envioSeoVars,
                 editando, itemNovo, seoDescompasso>>

\* The PATCH is answered; its session has not committed.
FaseAceita ==
  /\ parteSeo = "auditoria"
  /\ avancando = "patch"
  /\ <<seoFase, faseNova>> \in TransicoesManuais
  /\ avancando' = "get"
  /\ UNCHANGED <<parteSeo, formSeoVars, servidorSeoVars, vistaSeoVars, envioSeoVars,
                 faseNova, editando, itemNovo, seoDescompasso>>

FaseConfirmada ==
  /\ avancando = "get"
  /\ seoFase # faseNova
  /\ seoFase' = faseNova
  /\ UNCHANGED <<parteSeo, formSeoVars, seoItem, envios, vistaSeoVars, envioSeoVars,
                 edicaoSeoVars, seoDescompasso>>

\* The GET after it, which may have been read first; the commit follows.
FaseRelida ==
  /\ parteSeo = "auditoria"
  /\ avancando = "get"
  /\ seoVista' = Servidor
  /\ seoDescompasso' = (seoFase # faseNova \/ editando # "nada" \/ seoGets # {})
  /\ seoFase' = faseNova
  /\ avancando' = "nada"
  /\ UNCHANGED <<parteSeo, formSeoVars, seoItem, envios, seoErro, seoGets, envioSeoVars,
                 faseNova, editando, itemNovo>>

\* Refused, or the PATCH or the GET lost.
FaseSemResposta ==
  /\ parteSeo = "auditoria"
  /\ avancando # "nada"
  /\ avancando' = "nada"
  /\ seoFase' \in {seoFase} \cup
       (IF avancando = "get" \/ <<seoFase, faseNova>> \in TransicoesManuais
          THEN {faseNova} ELSE {})
  /\ avancando = "get" => seoFase' = faseNova
  /\ faseNova' = seoFase'
  /\ seoDescompasso' = (seoDescompasso \/ seoFase' # seoFase \/ avancando = "get")
  /\ UNCHANGED <<parteSeo, formSeoVars, seoItem, envios, vistaSeoVars, envioSeoVars,
                 editando, itemNovo>>

\* The cards are not disabled while an item is saved.  Bound: one at a time.
HandleEditarItem ==
  /\ parteSeo = "auditoria"
  /\ seoVista # VisaoNula
  /\ ~seoErro
  /\ editando = "nada"
  /\ editando' = "patch"
  /\ itemNovo' = ~seoVista.item
  /\ UNCHANGED <<parteSeo, formSeoVars, servidorSeoVars, vistaSeoVars, envioSeoVars,
                 avancando, faseNova, seoDescompasso>>

\* The answer takes the item's place in what is shown; then it is committed.
ItemRespondido ==
  /\ parteSeo = "auditoria"
  /\ editando = "patch"
  /\ editando' = "commit"
  /\ seoVista' = [seoVista EXCEPT !.item = itemNovo]
  /\ UNCHANGED <<parteSeo, formSeoVars, servidorSeoVars, seoErro, seoGets, envioSeoVars,
                 avancando, faseNova, itemNovo, seoDescompasso>>

ItemConfirmado ==
  /\ editando = "commit"
  /\ editando' = "nada"
  /\ seoItem' = itemNovo
  /\ seoDescompasso' = (seoDescompasso \/ seoVista.item # itemNovo)
  /\ UNCHANGED <<parteSeo, formSeoVars, seoFase, envios, vistaSeoVars, envioSeoVars,
                 avancando, faseNova, itemNovo>>

ItemSemResposta ==
  /\ parteSeo = "auditoria"
  /\ editando = "patch"
  /\ editando' = "nada"
  /\ seoItem' \in {seoItem, itemNovo}
  /\ seoDescompasso' = (seoDescompasso \/ seoItem' # seoItem)
  /\ UNCHANGED <<parteSeo, formSeoVars, seoFase, envios, vistaSeoVars, envioSeoVars,
                 avancando, faseNova, itemNovo>>

-----------------------------------------------------------------------------
FormularioSeo ==
  \/ \E a \in Sites : SelecionarCliente(a)
  \/ EscreverDominio \/ HandleCriar \/ CriarRespondido

LerSeo ==
  \/ \E r \in seoGets : CarregarRespondido(r) \/ CarregarPerdido(r)
  \/ PollCrawl

EnviarPacote ==
  \/ HandleUpload \/ UploadRecusado
  \/ \E n \in Envios :
       UploadAceito(n) \/ EnvioConfirmado(n) \/ EnvioPerdido(n) \/ ProcessarEnvio(n)
  \/ FluxoSeoFim \/ FluxoSeoDesistiu

AvancarSeo ==
  HandleAvancarFase \/ FaseAceita \/ FaseConfirmada \/ FaseRelida \/ FaseSemResposta

EditarSeo == HandleEditarItem \/ ItemRespondido \/ ItemConfirmado \/ ItemSemResposta

NextSeo == FormularioSeo \/ LerSeo \/ EnviarPacote \/ AvancarSeo \/ EditarSeo

SpecSeo == InitSeo /\ [][NextSeo]_seoVars

-----------------------------------------------------------------------------
(* Properties. *)

SeoTypeOK ==
  /\ parteSeo \in {"form", "auditoria"}
  /\ clienteSeo \in Sites \cup {SemSite}
  /\ dominioSeo \in Sites \cup {SemSite}
  /\ criandoSeo \in BOOLEAN
  /\ seoFase \in FasesSeo
  /\ seoItem \in BOOLEAN
  /\ envios \in [Envios -> StatusEnvio]
  /\ seoVista \in Visoes \cup {VisaoNula}
  /\ seoErro \in BOOLEAN
  /\ seoGets \subseteq Visoes
  /\ enviandoPacote \in BOOLEAN
  /\ etapaSSE \in BOOLEAN
  /\ seguindo \in 0..MaxEnvios
  /\ seoFluxo \in {"nenhum", "ligado", "fim", "desistiu"}
  /\ avancando \in {"nada", "patch", "get"}
  /\ faseNova \in FasesSeo
  /\ editando \in {"nada", "patch", "commit"}
  /\ itemNovo \in BOOLEAN
  /\ seoDescompasso \in BOOLEAN

\* seotec-auditoria-client.tsx:133-140.  Once the stream of the last package is
\* over and nothing is on its way, the audit shown is the server's, unless an
\* answer was lost or came older than the server, or two packages were in the
\* worker at once.
SeoConverge ==
  (/\ seoFluxo = "fim"
   /\ seoGets = {}
   /\ avancando = "nada"
   /\ editando = "nada"
   /\ ~seoDescompasso) => seoVista = Servidor
=============================================================================
