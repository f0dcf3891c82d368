--------------------------- MODULE PaginaExecucao ---------------------------
(***************************************************************************)
(* The page of one execution: ExecucaoDetalheConteudo with its hooks       *)
(* useExecucao and useVersoes and the stream of lib/sse-client.ts.  It     *)
(* learns of the same row in four ways that nothing orders: the GET of     *)
(* carregarExecucao, the status events of the stream, the GET of           *)
(* loadDetalhe and the GET of the versions.                                *)
(*                                                                         *)
(* A request of carregarExecucao is "enviada" until the server reads the   *)
(* row for it; then it is what was read, until the answer arrives or is    *)
(* lost.  Of the requests an effect sends and nobody waits for, the model  *)
(* keeps what the row held when they were sent, and not how many there are *)
(* of each; the answer is anything the row has held since.  The statuses   *)
(* pendente and enfileirado count as executando (the page differs by one   *)
(* button), aguardando_revisao as aguardando (by one label).               *)
(***************************************************************************)
EXTENDS Integers

CONSTANTS
  Ferramentas, \* tools whose executions are opened here
  MaxVersoes,  \* bound: versions an execution gets
  MaxFalhas    \* maxFalhas of lib/sse-client.ts

TodasFerramentas ==
  {"gerar_artigo", "inlinks_automaticos", "distribuir_inlinks", "core_web_vitals"}

ASSUME PaginaExecucaoAssumption ==
  /\ Ferramentas \subseteq TodasFerramentas
  /\ MaxVersoes \in Nat
  /\ MaxFalhas \in Nat

DeInlinks == {"inlinks_automaticos", "distribuir_inlinks"}

Finais == {"concluida", "falhou", "cancelada"}
StatusExecucao == {"executando", "aguardando"} \cup Finais

\* What resultado_json may hold: nothing yet, links applied, none applied.
Resultados == {"vazio", "com", "sem"}

VARIABLES
  ferramenta, \* the row: its tool,
  status,     \* its status,
  versao,     \* its last version,
  resultado,  \* and its result
  exStatus,   \* execucao?.status, or "nenhum"
  exLinha,    \* execucao has come from a GET: its tool is known
  buscas,     \* the requests of carregarExecucao: the first, and a handler's
  detalhe,    \* detalhe?.resultado_json
  detalhes,   \* requests of loadDetalhe
  mostrada,   \* ultimaVersao?.versao, or 0
  listas,     \* requests of useVersoes
  fluxo,      \* the stream
  falhas,     \* falhasSeguidas
  lido,       \* the status the stream has read and not delivered
  envio,      \* the handler that has set enviando, and how far its POST is:
              \* sent, its row read by the server, answered
  ordem       \* history: "certa"; "pulou" while the row has left "aguardando"
              \* and the page has not seen it; "trocada" for good once an
              \* answer has arrived after the row had moved on, or the row has
              \* left a final status and the page is not told

linhaVars == <<ferramenta, status, versao, resultado>>
telaVars == <<exStatus, exLinha, buscas, detalhe, detalhes, mostrada, listas>>
fluxoVars == <<fluxo, falhas, lido>>
execucaoVars == <<linhaVars, telaVars, fluxoVars, envio, ordem>>

\* loadDetalhe asks for what the row holds.  Of an article it is left out: its
\* result is its versions, and no panel shows the detail's.
PedirDetalhe == IF ferramenta = "gerar_artigo" THEN {} ELSE {resultado}

\* An answer x arrives; an equal one may still be on its way.
Menos(S, x) == {S, S \ {x}}

\* The effects of the first render have asked for the row, its detail and the
\* stream.
InitExecucaoPagina ==
  /\ ferramenta \in Ferramentas
  /\ status = "executando"
  /\ versao = 0
  /\ resultado = "vazio"
  /\ exStatus = "nenhum"
  /\ exLinha = FALSE
  /\ buscas = [primeira |-> "enviada", acao |-> "fora"]
  /\ detalhe = "nenhum"
  /\ detalhes = PedirDetalhe
  /\ mostrada = 0
  /\ listas = {}
  /\ fluxo = "ligado"
  /\ falhas = 0
  /\ lido = "nenhum"
  /\ envio = "nada"
  /\ ordem = "certa"

-----------------------------------------------------------------------------
(* The row, as the worker moves it. *)

EscreverVersao ==
  /\ status = "executando"
  /\ ferramenta = "gerar_artigo"
  /\ versao < MaxVersoes
  /\ versao' = versao + 1
  /\ UNCHANGED <<ferramenta, status, resultado, telaVars, fluxoVars, envio, ordem>>

\* A transaction of its own, after that of the version.
MarcarAguardando ==
  /\ status = "executando"
  /\ versao > 0
  /\ status' = "aguardando"
  /\ UNCHANGED <<ferramenta, versao, resultado, telaVars, fluxoVars, envio, ordem>>

\* The row leaves "aguardando".
Pular == ordem' = IF ordem = "certa" THEN "pulou" ELSE ordem

\* The job of a decision starts: of this page's, before or after the page is
\* answered, or of another tab's.
Retomar ==
  /\ status = "aguardando"
  /\ status' = "executando"
  /\ Pular
  /\ UNCHANGED <<ferramenta, versao, resultado, telaVars, fluxoVars, envio>>

\* Only the inlinks tools may end well with nothing applied; what an article
\* results in is its versions.
ResultadoFinal ==
  CASE ferramenta \in DeInlinks -> {"com", "sem"}
    [] ferramenta = "gerar_artigo" -> {"vazio"}
    [] ferramenta = "core_web_vitals" -> {"com"}

Concluir ==
  /\ status = "executando"
  /\ ferramenta = "gerar_artigo" => versao > 0
  /\ status' = "concluida"
  /\ resultado' \in ResultadoFinal
  /\ UNCHANGED <<ferramenta, versao, telaVars, fluxoVars, envio, ordem>>

Falhar ==
  /\ status = "executando"
  /\ status' = "falhou"
  /\ UNCHANGED <<ferramenta, versao, resultado, telaVars, fluxoVars, envio,
                 ordem>>

\* A job that was not stopped in time writes over the cancellation.
Sobrescrever ==
  /\ status = "cancelada"
  /\ resultado = "vazio"
  /\ status' \in StatusExecucao \ {"cancelada"}
  /\ resultado' \in IF status' = "concluida" THEN ResultadoFinal ELSE {resultado}
  /\ ordem' = "trocada"
  /\ UNCHANGED <<ferramenta, versao, telaVars, fluxoVars, envio>>

-----------------------------------------------------------------------------
(* The effects that depend on execucao?.status. *)

\* Mutant: versions the page already has are not asked for again.
PedeVersoes_SeNaoTem(s) == s \in {"aguardando", "concluida"} /\ mostrada = 0

PedeVersoes(s) == s \in {"aguardando", "concluida"}

\* setExecucao with status s: a status that changed asks for the detail, and
\* for the versions.
VerStatus(s) ==
  /\ exStatus' = s
  /\ IF s = exStatus
       THEN UNCHANGED <<detalhes, listas>>
       ELSE /\ detalhes' = detalhes \cup PedirDetalhe
            /\ listas' = IF PedeVersoes(s) THEN listas \cup {versao} ELSE listas
  /\ ordem' = IF \/ ordem = "trocada"
                 \/ exStatus \in Finais /\ s \notin Finais
                 \/ s \in Finais \ {status}
                 \/ s = "aguardando" /\ status = "executando"
                THEN "trocada"
              ELSE IF s = "aguardando" THEN ordem ELSE "certa"

-----------------------------------------------------------------------------
(* carregarExecucao. *)

LerBusca(k) ==
  /\ buscas[k] = "enviada"
  /\ buscas' = [buscas EXCEPT ![k] = status]
  /\ UNCHANGED <<linhaVars, exStatus, exLinha, detalhe, detalhes, mostrada, listas,
                 fluxoVars, envio, ordem>>

\* A handler ends when its GET does.
FimDaBusca(k) ==
  /\ buscas' = [buscas EXCEPT ![k] = "fora"]
  /\ envio' = IF k = "acao" THEN "nada" ELSE envio

ChegarBusca(k) ==
  /\ buscas[k] \in StatusExecucao
  /\ VerStatus(buscas[k])
  /\ exLinha' = TRUE
  /\ FimDaBusca(k)
  /\ UNCHANGED <<linhaVars, detalhe, mostrada, fluxoVars>>

\* The end the page shows is no longer the row's.
FimErrado == exStatus \in Finais \ {status}

PerderBusca(k) ==
  /\ buscas[k] = "enviada"
  /\ FimDaBusca(k)
  /\ ordem' = IF k = "acao" /\ FimErrado THEN "trocada" ELSE ordem
  /\ UNCHANGED <<linhaVars, exStatus, exLinha, detalhe, detalhes, mostrada, listas,
                 fluxoVars>>

-----------------------------------------------------------------------------
(* loadDetalhe and useVersoes: the last answer to arrive is kept. *)

ChegarDetalhe(x) ==
  /\ x \in detalhes
  /\ detalhes' \in Menos(detalhes, x)
  /\ detalhe' \in {x, resultado}
  /\ UNCHANGED <<linhaVars, exStatus, exLinha, buscas, mostrada, listas, fluxoVars,
                 envio, ordem>>

\* An error is not shown.
PerderDetalhe(x) ==
  /\ x \in detalhes
  /\ detalhes' = detalhes \ {x}
  /\ UNCHANGED <<linhaVars, exStatus, exLinha, buscas, detalhe, mostrada, listas,
                 fluxoVars, envio, ordem>>

ChegarLista(v) ==
  /\ v \in listas
  /\ listas' \in Menos(listas, v)
  /\ mostrada' \in v..versao
  /\ ordem' = IF mostrada' < versao THEN "trocada" ELSE ordem
  /\ UNCHANGED <<linhaVars, exStatus, exLinha, buscas, detalhe, detalhes, fluxoVars,
                 envio>>

\* An error empties the list.
PerderLista(v) ==
  /\ v \in listas
  /\ listas' = listas \ {v}
  /\ mostrada' = 0
  /\ UNCHANGED <<linhaVars, exStatus, exLinha, buscas, detalhe, detalhes, fluxoVars,
                 envio, ordem>>

-----------------------------------------------------------------------------
(* createSSEConnection, and the stream it reads: the server reads the row every *)
(* five seconds and sends its status, and the final event after a final one.    *)

FluxoLer ==
  /\ fluxo = "ligado"
  /\ lido = "nenhum"
  /\ lido' = status
  /\ UNCHANGED <<linhaVars, telaVars, fluxo, falhas, envio, ordem>>

\* Before its row arrives the page makes up one that has only the status.
FluxoEntregar ==
  /\ fluxo = "ligado"
  /\ lido # "nenhum"
  /\ VerStatus(lido)
  /\ fluxo' = IF lido \in Finais THEN "fim" ELSE fluxo
  /\ lido' = "nenhum"
  /\ falhas' = 0
  /\ UNCHANGED <<linhaVars, exLinha, buscas, detalhe, mostrada, envio>>

\* Mutant: a stream that ends is taken for the end of the execution.
FluxoCair_SemVolta ==
  /\ fluxo = "ligado"
  /\ fluxo' = "fim"
  /\ lido' = "nenhum"
  /\ UNCHANGED <<linhaVars, telaVars, falhas, envio, ordem>>

\* Mutant: one try too many.
HaTentativaSSE_UmaAMais == falhas <= MaxFalhas

HaTentativaSSE == falhas < MaxFalhas

\* agendarReconexao: no token, an answer that is not ok, or a stream that ends
\* without a final event (the server's own limit of thirty minutes included).
FluxoCair ==
  /\ fluxo = "ligado"
  /\ fluxo' = IF HaTentativaSSE THEN "espera" ELSE "desistiu"
  /\ falhas' = IF HaTentativaSSE THEN falhas + 1 ELSE falhas
  /\ lido' = "nenhum"
  /\ UNCHANGED <<linhaVars, telaVars, envio, ordem>>

FluxoReconectar ==
  /\ fluxo = "espera"
  /\ fluxo' = "ligado"
  /\ UNCHANGED <<linhaVars, telaVars, falhas, lido, envio, ordem>>

-----------------------------------------------------------------------------
(* The user. *)

PainelVisivel == exStatus = "aguardando" /\ envio = "nada" /\ mostrada > 0

BotaoCancelar == exStatus = "executando" /\ envio = "nada"

\* handleAprovar and handleReprovar, handleCancelar.
Decidir ==
  /\ PainelVisivel
  /\ envio' \in {"decidir", "cancelar"}
  /\ UNCHANGED <<linhaVars, telaVars, fluxoVars, ordem>>

CancelarExecucao ==
  /\ BotaoCancelar
  /\ envio' = "cancelar"
  /\ UNCHANGED <<linhaVars, telaVars, fluxoVars, ordem>>

\* The server's side of the two POSTs: what the row holds is asked without a
\* lock, of a decision the job is enqueued, and the new status is written
\* whatever the row has come to hold.
Atender ==
  /\ \/ envio = "decidir" /\ status = "aguardando" /\ envio' = "decidindo"
     \/ envio = "cancelar" /\ status \notin Finais /\ envio' = "cancelando"
  /\ UNCHANGED <<linhaVars, telaVars, fluxoVars, ordem>>

GravarStatus ==
  /\ envio \in {"decidindo", "cancelando"}
  /\ status' = IF envio = "decidindo" THEN "executando" ELSE "cancelada"
  /\ UNCHANGED <<ferramenta, versao, resultado>>

PostAceito ==
  /\ GravarStatus
  /\ Pular
  /\ envio' = "relendo"
  /\ buscas' = [buscas EXCEPT !.acao = "enviada"]
  /\ UNCHANGED <<exStatus, exLinha, detalhe, detalhes, mostrada, listas, fluxoVars>>

\* Refused, or lost on the way there.
PostFalhou ==
  /\ envio \in {"decidir", "cancelar", "decidindo", "cancelando"}
  /\ envio' = "nada"
  /\ UNCHANGED <<linhaVars, telaVars, fluxoVars, ordem>>

\* Done, and its answer lost: the page does not ask for the row.
RespostaPerdida ==
  /\ GravarStatus
  /\ envio' = "nada"
  /\ IF exStatus \in Finais \ {status'} THEN ordem' = "trocada" ELSE Pular
  /\ UNCHANGED <<telaVars, fluxoVars>>

-----------------------------------------------------------------------------
(* What the page shows. *)

\* isSoftFail: no link applied, as far as the page knows.
SemLinks ==
  /\ exStatus = "concluida"
  /\ exLinha
  /\ ferramenta \in DeInlinks
  /\ detalhe # "com"

\* Mutant: isSoftFail is not asked.
FaixaVerde_SemPerguntar ==
  exStatus = "concluida" /\ (exLinha => ferramenta # "core_web_vitals")

FaixaVerde ==
  /\ exStatus = "concluida"
  /\ exLinha => ferramenta # "core_web_vitals"
  /\ ~SemLinks

\* The page of a Web Vitals execution leaves for the dashboard.
AbreDashboard ==
  /\ exLinha
  /\ ferramenta = "core_web_vitals"
  /\ exStatus \in {"concluida", "falhou"}
  /\ detalhe = "com"

-----------------------------------------------------------------------------
Trabalhar ==
  \/ EscreverVersao
  \/ MarcarAguardando
  \/ Retomar
  \/ Concluir
  \/ Falhar
  \/ Sobrescrever

\* The answers of the server, and what the page does by itself.
Buscar == \E k \in DOMAIN buscas : LerBusca(k) \/ ChegarBusca(k)

Receber ==
  \/ \E x \in Resultados : ChegarDetalhe(x)
  \/ \E v \in 0..MaxVersoes : ChegarLista(v)
  \/ Atender
  \/ PostAceito

Acompanhar == FluxoLer \/ FluxoEntregar \/ FluxoReconectar

Perder ==
  \/ \E k \in DOMAIN buscas : PerderBusca(k)
  \/ \E x \in Resultados : PerderDetalhe(x)
  \/ \E v \in 0..MaxVersoes : PerderLista(v)
  \/ PostFalhou
  \/ RespostaPerdida
  \/ FluxoCair

NextExecucaoPagina ==
  \/ Trabalhar
  \/ Buscar
  \/ Receber
  \/ Acompanhar
  \/ Perder
  \/ Decidir
  \/ CancelarExecucao

SpecExecucaoPagina == InitExecucaoPagina /\ [][NextExecucaoPagina]_execucaoVars

-----------------------------------------------------------------------------
(* Properties. *)

ExecucaoPaginaTypeOK ==
  /\ ferramenta \in Ferramentas
  /\ status \in StatusExecucao
  /\ versao \in 0..MaxVersoes
  /\ resultado \in Resultados
  /\ exStatus \in StatusExecucao \cup {"nenhum"}
  /\ exLinha \in BOOLEAN
  /\ buscas \in [{"primeira", "acao"} -> StatusExecucao \cup {"fora", "enviada"}]
  /\ detalhe \in Resultados \cup {"nenhum"}
  /\ detalhes \subseteq Resultados
  /\ mostrada \in 0..MaxVersoes
  /\ listas \subseteq 0..MaxVersoes
  /\ fluxo \in {"ligado", "espera", "fim", "desistiu"}
  /\ falhas \in 0..MaxFalhas
  /\ lido \in StatusExecucao \cup {"nenhum"}
  /\ envio \in {"nada", "decidir", "cancelar", "decidindo", "cancelando", "relendo"}
  /\ ordem \in {"certa", "pulou", "trocada"}

\* execucao-detalhe-conteudo.tsx:113: "para o painel de aprovacao/preview
\* sempre mostrar a versao atual".  Whoever can decide decides on the version
\* the execution waits for, once the answers on their way are in, unless an
\* older list of versions arrived last or the page missed the round between two
\* versions.
VersaoMostrada ==
  (/\ PainelVisivel
   /\ status = "aguardando"
   /\ listas = {}
   /\ ordem = "certa") => mostrada = versao

\* execucao-detalhe-conteudo.tsx:115-116: "o painel de aprovacao/preview sempre
\* mostrar a versao atual, nao a inicial".  The same with nothing excepted: with no
\* list on its way, whoever can decide decides on the version waited for.
PainelMostraAAtual ==
  PainelVisivel /\ status = "aguardando" /\ listas = {} => mostrada = versao

\* execucao-detalhe-conteudo.tsx:238: "nunca banner verde com resultado vazio".
\* No success is announced for an execution that applied no link, once the row
\* itself has arrived, and the page of a Web Vitals execution leaves for its
\* dashboard only when there is an audit.
VerdeComResultado ==
  (FaixaVerde /\ exLinha /\ ferramenta \in DeInlinks) \/ AbreDashboard => resultado = "com"

\* sse-client.ts:17 reconnects "em vez de congelar a UI no último estado
\* recebido": when the stream is over and no handler is reading the row again the
\* page shows the status the row has, a cancellation that came over the end of
\* the job included, unless an older answer replaced it or the row left a final
\* status and no answer told the page.
PaginaConverge ==
  fluxo = "fim" /\ ordem # "trocada" /\ envio # "relendo" => exStatus = status
=============================================================================
