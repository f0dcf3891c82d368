--------------------------- MODULE PaginaHistorico ---------------------------
(***************************************************************************)
(* The pages that list what was done: the executions of the user           *)
(* (HistoricoPage), the analysed URLs of a client (CwvHistoricoClient),     *)
(* the technical opinions (ParecerHistoricoClient), and the dashboard of a  *)
(* URL with its two strategies (CwvUrlClient and DashboardUrlClient).       *)
(*                                                                         *)
(* Rows are numbered.  The executions are listed from the newest, with     *)
(* OFFSET and LIMIT; the URLs in an order of their own, in which a new one  *)
(* may come anywhere.  An answer is read when it arrives.                   *)
(***************************************************************************)
EXTENDS Integers, FiniteSets

CONSTANTS
  Limite,      \* limite, and PAGE: rows of a page
  MaxLinhas,   \* bound: rows
  MaxCliques,  \* bound: clicks on "Carregar mais"
  MaxTrocas    \* bound: times a filter or the strategy is changed

ASSUME PaginaHistoricoAssumption ==
  /\ Limite \in Nat \ {0}
  /\ MaxLinhas \in Nat
  /\ MaxCliques \in Nat
  /\ MaxTrocas \in Nat

Linhas == 1..MaxLinhas
Estrategias == {"mobile", "desktop"}
FiltrosParecer == {"todos", "um", "outro"}

VARIABLES
  parteHist,     \* "execucoes", "cwv", "parecer" or "url"
  linhasSrv,     \* the rows of the server
  linhas,        \* execucoes, or urls
  totalHist,     \* total
  offset,        \* offset
  pedidosHist,   \* GETs on their way, by click (0 is the first, or a retry)
  cliques,       \* clicks so far
  erroHist,      \* listarErro, or erro
  vistas,        \* history: the rows shown so far
  filtro,        \* clienteFilter
  filtrada,      \* the filter of the opinions shown, or "nada"
  filtros,       \* the filters asked for
  trocas,        \* changes so far
  quantas,       \* server: analyses of the URL by strategy
  irma,          \* the sister: "pedida", "ha" or "nao"
  estrategia,    \* estrategiaAtiva
  evolucao,      \* the strategy of historico, or "nada"
  evolucaoPedida,\* the one asked for and not cancelled, or "nada"
  comparada,     \* the analysis of comparacao, or "nada"
  comparando,    \* the analyses asked for
  mudou          \* history: an answer was lost or came after that of a later
                 \* request, clicks overlapped, or a row is new

listaHistVars == <<linhasSrv, linhas, totalHist, offset, pedidosHist, cliques,
                   erroHist, vistas>>
filtroHistVars == <<filtro, filtrada, filtros>>
urlHistVars == <<quantas, irma, estrategia, evolucao, evolucaoPedida, comparada,
                 comparando>>
historicoVars == <<parteHist, listaHistVars, filtroHistVars, trocas, urlHistVars, mudou>>

InitHistorico ==
  /\ parteHist \in {"execucoes", "cwv", "parecer", "url"}
  /\ linhasSrv = IF parteHist \in {"execucoes", "cwv"} THEN 1..MaxLinhas - 1 ELSE {}
  /\ linhas = {}
  /\ totalHist = 0
  /\ offset = 0
  /\ pedidosHist = {<<0, 0>>}
  /\ cliques = 0
  /\ erroHist = FALSE
  /\ vistas = {}
  /\ filtro = "todos"
  /\ filtrada = "nada"
  /\ filtros = {"todos"}
  /\ trocas = 0
  /\ quantas \in {q \in [Estrategias -> 0..2] : q["mobile"] > 0}
  /\ parteHist # "url" => quantas = [e \in Estrategias |-> 1]
  /\ irma = "pedida"
  /\ estrategia = "mobile"
  /\ evolucao = "nada"
  /\ evolucaoPedida = "mobile"
  /\ comparada = "nada"
  /\ comparando = {}
  /\ mudou = FALSE

-----------------------------------------------------------------------------
(* The two lists with "Carregar mais". *)

Posicao(r) ==
  Cardinality({q \in linhasSrv : IF parteHist = "execucoes" THEN q > r ELSE q < r})

PaginaDe(o) == {r \in linhasSrv : Posicao(r) \in o..(o + Limite - 1)}

\* Another tab, or the worker, adds one.
NovaLinha(r) ==
  /\ parteHist \in {"execucoes", "cwv"}
  /\ r \in Linhas \ linhasSrv
  /\ linhasSrv' = linhasSrv \cup {r}
  /\ mudou' = TRUE
  /\ UNCHANGED <<parteHist, linhas, totalHist, offset, pedidosHist, cliques, erroHist,
                 vistas, filtroHistVars, trocas, urlHistVars>>

\* Of the executions a page takes the place of the one before, and the total
\* does not tell how far the list has gone; the URLs are added up.
BotaoCarregarMais ==
  /\ Cardinality(linhas) < totalHist
  /\ linhas # {}
  /\ ~erroHist \/ parteHist = "execucoes"
  /\ parteHist = "cwv" => pedidosHist = {}

\* Mutant: the page that is shown is asked for again.
OffsetPedido_Parado == offset

OffsetPedido == IF parteHist = "execucoes" THEN offset + Limite ELSE Cardinality(linhas)

\* listar does not set carregando: nothing stops a second click, which asks for
\* the same page.
CarregarMais ==
  /\ parteHist \in {"execucoes", "cwv"}
  /\ BotaoCarregarMais
  /\ cliques < MaxCliques
  /\ cliques' = cliques + 1
  /\ pedidosHist' = pedidosHist \cup {<<cliques', OffsetPedido>>}
  /\ mudou' = (mudou \/ pedidosHist # {})
  /\ UNCHANGED <<parteHist, linhasSrv, linhas, totalHist, offset, erroHist, vistas,
                 filtroHistVars, trocas, urlHistVars>>

\* The offset moves on after its request, answered or lost.
AvancarOffset(p) ==
  offset' = IF parteHist = "execucoes" /\ p[1] # 0 THEN offset + Limite ELSE offset

\* A repeated URL counts twice in urls.length; the model keeps it once.
ListaRespondida(p) ==
  /\ p \in pedidosHist
  /\ parteHist \in {"execucoes", "cwv"}
  /\ pedidosHist' = pedidosHist \ {p}
  /\ linhas' = IF parteHist = "execucoes" \/ p[1] = 0 THEN PaginaDe(p[2])
               ELSE linhas \cup PaginaDe(p[2])
  /\ totalHist' = Cardinality(linhasSrv)
  /\ erroHist' = IF p[1] = 0 THEN FALSE ELSE erroHist
  /\ vistas' = vistas \cup linhas'
  /\ AvancarOffset(p)
  /\ UNCHANGED <<parteHist, linhasSrv, cliques, filtroHistVars, trocas, urlHistVars,
                 mudou>>

\* "Carregar mais" of the URLs fails in silence.
ListaPerdida(p) ==
  /\ p \in pedidosHist
  /\ parteHist \in {"execucoes", "cwv"}
  /\ pedidosHist' = pedidosHist \ {p}
  /\ erroHist' = (erroHist \/ parteHist = "execucoes" \/ p[1] = 0)
  /\ AvancarOffset(p)
  /\ mudou' = TRUE
  /\ UNCHANGED <<parteHist, linhasSrv, linhas, totalHist, cliques, vistas,
                 filtroHistVars, trocas, urlHistVars>>

\* "Tentar novamente": the first page, whatever the offset.
TentarNovamente ==
  /\ parteHist \in {"execucoes", "cwv"}
  /\ erroHist
  /\ parteHist = "execucoes" => linhas = {}
  /\ <<0, 0>> \notin pedidosHist
  /\ pedidosHist' = pedidosHist \cup {<<0, 0>>}
  /\ erroHist' = FALSE
  /\ UNCHANGED <<parteHist, linhasSrv, linhas, totalHist, offset, cliques, vistas,
                 filtroHistVars, trocas, urlHistVars, mudou>>

-----------------------------------------------------------------------------
(* The opinions, by client: every filter asks, and the last answer stays. *)

FiltrarPareceres(f) ==
  /\ parteHist = "parecer"
  /\ trocas < MaxTrocas
  /\ f # filtro
  /\ trocas' = trocas + 1
  /\ filtro' = f
  /\ filtros' = filtros \cup {f}
  /\ UNCHANGED <<parteHist, listaHistVars, filtrada, urlHistVars, mudou>>

PareceresRespondidos(f) ==
  /\ parteHist = "parecer"
  /\ f \in filtros
  /\ filtros' = filtros \ {f}
  /\ filtrada' = f
  /\ mudou' = (mudou \/ (f # filtro /\ filtro \notin filtros))
  /\ UNCHANGED <<parteHist, listaHistVars, filtro, trocas, urlHistVars>>

PareceresPerdidos(f) ==
  /\ parteHist = "parecer"
  /\ f \in filtros
  /\ filtros' = filtros \ {f}
  /\ mudou' = TRUE
  /\ UNCHANGED <<parteHist, listaHistVars, filtro, filtrada, trocas, urlHistVars>>

-----------------------------------------------------------------------------
(* The dashboard of a URL. *)

\* analiseExibida ?? analiseAtual.
Exibida(e, i) == IF e = "desktop" /\ i = "ha" THEN "desktop" ELSE "mobile"

QuantasDe(e) == IF e = "nada" THEN 0 ELSE quantas[e]

\* The effect on the analysis shown and on the length of the history.
PedeComparacao(antes, depois, h) ==
  comparando' =
    IF QuantasDe(h) > 0 /\ (antes # depois \/ QuantasDe(h) # QuantasDe(evolucao))
      THEN comparando \cup {depois} ELSE comparando

\* load ends with the sister's answer; the dashboard is there from then on.
IrmaRespondida ==
  /\ parteHist = "url"
  /\ irma = "pedida"
  /\ irma' \in {"nao"} \cup (IF quantas["desktop"] > 0 THEN {"ha"} ELSE {})
  /\ mudou' = (mudou \/ (irma' = "nao" /\ quantas["desktop"] > 0))
  /\ comparando' = IF QuantasDe(evolucao) > 0 THEN {"mobile"} ELSE {}
  /\ UNCHANGED <<parteHist, listaHistVars, filtroHistVars, trocas, quantas, estrategia,
                 evolucao, evolucaoPedida, comparada>>

\* The button of the strategy there is no analysis of can be pressed too.
TrocarEstrategia(e) ==
  /\ parteHist = "url"
  /\ irma # "pedida"
  /\ e # estrategia
  /\ trocas < MaxTrocas
  /\ trocas' = trocas + 1
  /\ estrategia' = e
  /\ evolucaoPedida' = e
  /\ PedeComparacao(Exibida(estrategia, irma), Exibida(e, irma), evolucao)
  /\ UNCHANGED <<parteHist, listaHistVars, filtroHistVars, quantas, irma, evolucao,
                 comparada, mudou>>

\* Before the dashboard is there nothing asks for a comparison.
EvolucaoRespondida ==
  /\ parteHist = "url"
  /\ evolucaoPedida # "nada"
  /\ evolucaoPedida' = "nada"
  /\ evolucao' = evolucaoPedida
  /\ IF irma = "pedida" THEN UNCHANGED comparando
     ELSE PedeComparacao(Exibida(estrategia, irma), Exibida(estrategia, irma),
                         evolucaoPedida)
  /\ UNCHANGED <<parteHist, listaHistVars, filtroHistVars, trocas, quantas, irma,
                 estrategia, comparada, mudou>>

\* The history of the other strategy stays.
EvolucaoPerdida ==
  /\ parteHist = "url"
  /\ evolucaoPedida # "nada"
  /\ evolucaoPedida' = "nada"
  /\ mudou' = TRUE
  /\ UNCHANGED <<parteHist, listaHistVars, filtroHistVars, trocas, quantas, irma,
                 estrategia, evolucao, comparada, comparando>>

ComparacaoRespondida(a) ==
  /\ parteHist = "url"
  /\ a \in comparando
  /\ comparando' = comparando \ {a}
  /\ comparada' = a
  /\ mudou' = (mudou \/ Exibida(estrategia, irma) \notin comparando)
  /\ UNCHANGED <<parteHist, listaHistVars, filtroHistVars, trocas, quantas, irma,
                 estrategia, evolucao, evolucaoPedida>>

\* The comparison of the other analysis stays, next to the error.
ComparacaoPerdida(a) ==
  /\ parteHist = "url"
  /\ a \in comparando
  /\ comparando' = comparando \ {a}
  /\ mudou' = TRUE
  /\ UNCHANGED <<parteHist, listaHistVars, filtroHistVars, trocas, quantas, irma,
                 estrategia, evolucao, evolucaoPedida, comparada>>

-----------------------------------------------------------------------------
ListarHistorico ==
  \/ \E r \in Linhas : NovaLinha(r)
  \/ CarregarMais \/ TentarNovamente
  \/ \E p \in pedidosHist : ListaRespondida(p) \/ ListaPerdida(p)

Filtrar ==
  \E f \in FiltrosParecer :
    FiltrarPareceres(f) \/ PareceresRespondidos(f) \/ PareceresPerdidos(f)

PainelDaUrl ==
  \/ IrmaRespondida \/ EvolucaoRespondida \/ EvolucaoPerdida
  \/ \E e \in Estrategias :
       TrocarEstrategia(e) \/ ComparacaoRespondida(e) \/ ComparacaoPerdida(e)

NextHistorico == ListarHistorico \/ Filtrar \/ PainelDaUrl

SpecHistorico == InitHistorico /\ [][NextHistorico]_historicoVars

-----------------------------------------------------------------------------
(* Properties. *)

HistoricoTypeOK ==
  /\ parteHist \in {"execucoes", "cwv", "parecer", "url"}
  /\ linhasSrv \subseteq Linhas
  /\ linhas \subseteq Linhas
  /\ totalHist \in 0..MaxLinhas
  /\ offset \in Nat
  /\ pedidosHist \subseteq (0..MaxCliques) \X Nat
  /\ cliques \in 0..MaxCliques
  /\ erroHist \in BOOLEAN
  /\ vistas \subseteq Linhas
  /\ filtro \in FiltrosParecer
  /\ filtrada \in FiltrosParecer \cup {"nada"}
  /\ filtros \subseteq FiltrosParecer
  /\ trocas \in 0..MaxTrocas
  /\ quantas \in [Estrategias -> 0..2]
  /\ irma \in {"pedida", "ha", "nao"}
  /\ estrategia \in Estrategias
  /\ evolucao \in Estrategias \cup {"nada"}
  /\ evolucaoPedida \in Estrategias \cup {"nada"}
  /\ comparada \in Estrategias \cup {"nada"}
  /\ comparando \subseteq Estrategias
  /\ mudou \in BOOLEAN

\* historico/page.tsx:93-96 and cwv-historico-client.tsx:108-119.  The clicks
\* leave no row out: what has been shown is the beginning of the list, as far as
\* they went.
NadaPulado ==
  parteHist \in {"execucoes", "cwv"} /\ pedidosHist = {} =>
    vistas = {r \in linhasSrv :
                Posicao(r) < IF parteHist = "execucoes" THEN offset + Limite
                             ELSE Limite * (cliques + 1)}

\* cwv-url-client.tsx:48-49: "para não mostrar a evolução da estratégia errada".
\* The history is that of the strategy, the comparison that of the analysis shown.
EvolucaoCerta ==
  parteHist = "url" /\ irma # "pedida" /\ evolucaoPedida = "nada" /\ comparando = {} =>
    /\ evolucao = estrategia
    /\ QuantasDe(evolucao) > 0 => comparada = Exibida(estrategia, irma)

\* parecer-historico-client.tsx:43-58.  The opinions are those of the filter.
FiltroCerto == parteHist = "parecer" /\ filtros = {} => filtrada = filtro

\* What the pages show once the answers are in, when none was lost, none came
\* after that of a later request, no two clicks overlapped and no row is new.
HistoricoConfere == ~mudou => NadaPulado /\ EvolucaoCerta /\ FiltroCerto
=============================================================================
