--------------------------- MODULE PainelProgresso ---------------------------
(***************************************************************************)
(* The progress bar of the page of an execution (BarraProgressoWorkflow)   *)
(* with the two sources it mixes: the stage in the row, which comes with   *)
(* the status every five seconds, and the events the worker publishes,     *)
(* which nobody keeps for a page that does not listen.  The page is        *)
(* followed from its first render until a final status, with which the bar *)
(* goes (so that its panel of the end is never seen).                      *)
(*                                                                         *)
(* A node announces its start, commits its stage with what it has written  *)
(* and announces its end.  The stream delivers at once what is put in it;  *)
(* "fila" is what Redis and the server hold before.                        *)
(***************************************************************************)
EXTENDS Integers, Sequences, FiniteSetsExt

CONSTANTS
  FerramentasBarra, \* tools whose bar is followed
  MaxVoltas,        \* bound: times an article goes back to its writing
  MaxFila,          \* bound: events on their way
  MaxQuedas,        \* bound: times the stream is lost
  MaxPerdas         \* bound: events missed

ETAPAS_ORDER_ARTIGO ==
  <<"pesquisar", "analisar", "criar_brief", "redigir", "revisar",
    "aguardar_aprovacao", "salvar_vetorial", "gerar_imagem">>

ETAPAS_ORDER_INLINKS ==
  <<"validar_urls", "extrair_pilar", "extrair_candidatos", "enriquecer",
    "match_rerank", "inserir", "revisar", "formatar", "persistir">>

ETAPAS_ORDER_DISTRIBUIR ==
  <<"validar_urls", "extrair_alvo", "extrair_candidatas", "enriquecer",
    "filtrar_similaridade", "inserir_em_cada", "persistir">>

ETAPAS_ORDER(f) ==
  CASE f = "distribuir_inlinks" -> ETAPAS_ORDER_DISTRIBUIR
    [] f = "inlinks_automaticos" -> ETAPAS_ORDER_INLINKS
    [] OTHER -> ETAPAS_ORDER_ARTIGO

\* Nodes the worker runs and the bar has no step for.
ForaDaBarra == {"marcar_aguardando", "falha_pilar", "persistir_falha_alvo"}

Nos(f) == {"nada"} \cup ForaDaBarra \cup {ETAPAS_ORDER(f)[i] : i \in DOMAIN ETAPAS_ORDER(f)}

ASSUME PainelProgressoAssumption ==
  /\ FerramentasBarra \subseteq
       {"gerar_artigo", "inlinks_automaticos", "distribuir_inlinks"}
  /\ {MaxVoltas, MaxFila, MaxQuedas, MaxPerdas} \subseteq Nat

VARIABLES
  ferrB,     \* the tool
  no,        \* the node the worker is at, "decisao" or "fim"
  fase,      \* of the node: "antes", "anunciado", "gravado"
  voltas,    \* times it went back
  etapaRow,  \* the row: etapa_atual, or "nada",
  aguarda,   \* and its status is one of waiting
  escuta,    \* the stream: "fora", "ligado", or "inscrito" to the events
  quedas,    \* times it was lost
  fila,      \* events on their way
  etapaTela, \* the page: etapaAtual, or "nada",
  refTela,   \* ultimaEtapaRef at the last render,
  aguardaTela, \* isAguardando,
  completos, \* completedNodes,
  ultimo,    \* and the node of the last of nodeHistory, or "nada"
  perdas,    \* history: events missed,
  alto,      \* the furthest the bar was before,
  andado     \* and the furthest the worker got, in half steps

trabalhoVars == <<ferrB, no, fase, voltas, etapaRow, aguarda>>
caminhoVars == <<escuta, quedas, fila>>
barraVars == <<etapaTela, refTela, aguardaTela, completos, ultimo>>
progressoVars == <<trabalhoVars, caminhoVars, barraVars, perdas, alto, andado>>

-----------------------------------------------------------------------------
(* What the bar shows. *)

Ordem == ETAPAS_ORDER(ferrB)

\* indexOf: from zero, and -1.
Indices ==
  [f \in FerramentasBarra |->
    [n \in Nos(f) |->
      IF \E i \in DOMAIN ETAPAS_ORDER(f) : ETAPAS_ORDER(f)[i] = n
        THEN (CHOOSE i \in DOMAIN ETAPAS_ORDER(f) : ETAPAS_ORDER(f)[i] = n) - 1
        ELSE -1]]

Indice(n) == Indices[ferrB][n]

emOrdem(n) == Indice(n) >= 0

etapaEfetiva ==
  CASE emOrdem(etapaTela) -> etapaTela
    [] ~emOrdem(etapaTela) /\ emOrdem(refTela) -> refTela
    [] OTHER -> IF emOrdem(ultimo) THEN ultimo ELSE "nada"

lastCompletedIndex == Max({-1} \cup {Indice(n) : n \in completos})

\* In half steps.
progressoBase ==
  Max({2 * (lastCompletedIndex + 1),
       IF etapaEfetiva = "nada" THEN 0 ELSE 2 * Indice(etapaEfetiva) + 1})

\* The circle of a step: a step that was completed stays so when its node
\* runs again.
Passo(n) ==
  IF n \in completos THEN "feito"
  ELSE IF n = etapaEfetiva THEN "ativo"
  ELSE IF Indice(n) > Indice(etapaEfetiva) THEN "futuro" ELSE "vazio"

\* The heading of the activity panel.
Atividade ==
  IF aguardaTela THEN "aguardando"
  ELSE IF etapaEfetiva = "nada" THEN "iniciando" ELSE etapaEfetiva

InitProgresso ==
  /\ ferrB \in FerramentasBarra
  /\ no = Ordem[1]
  /\ fase = "antes"
  /\ voltas = 0
  /\ etapaRow = "nada"
  /\ aguarda = FALSE
  /\ escuta = "fora"
  /\ quedas = 0
  /\ fila = <<>>
  /\ etapaTela = "nada"
  /\ refTela = "nada"
  /\ aguardaTela = FALSE
  /\ completos = {}
  /\ ultimo = "nada"
  /\ perdas = 0
  /\ alto = 0
  /\ andado = 0

-----------------------------------------------------------------------------
(* The worker. *)

\* The nodes that may come after n; "decisao" is the interrupt, where the user
\* is waited for.
Seguintes(n) ==
  CASE n = "revisar" /\ ferrB = "gerar_artigo" -> {"redigir", "marcar_aguardando"}
    [] n = "marcar_aguardando" -> {"decisao"}
    [] n = "aguardar_aprovacao" -> {"redigir", "salvar_vetorial"}
    [] n = "extrair_pilar" -> {"extrair_candidatos", "falha_pilar"}
    [] n = "extrair_alvo" -> {"extrair_candidatas", "persistir_falha_alvo"}
    [] n \in {"falha_pilar", "persistir_falha_alvo", Ordem[Len(Ordem)]} -> {"fim"}
    [] OTHER -> {Ordem[Indice(n) + 2]}

Parado == no \in {"decisao", "fim"}

\* Nodes that announce no start; some others do not when there is nothing to do.
SemInicio == {"aguardar_aprovacao", "falha_pilar"}
Desligaveis ==
  CASE ferrB = "inlinks_automaticos" -> {"revisar", "formatar"}
    [] ferrB = "distribuir_inlinks" -> {"inserir_em_cada"}
    [] OTHER -> {}

Andar(meios) == andado' = Max({andado, meios})

PerderEvento(n) == perdas' = perdas + n /\ perdas' <= MaxPerdas

\* publish_event: nobody gets it who is not subscribed, and its own failure is
\* only logged.
Publicar(n, completo) ==
  \/ /\ escuta = "inscrito"
     /\ Len(fila) < MaxFila
     /\ fila' = Append(fila, <<n, completo>>)
     /\ UNCHANGED perdas
  \/ /\ PerderEvento(1)
     /\ UNCHANGED fila

Anunciar ==
  /\ ~Parado
  /\ no \notin SemInicio
  /\ fase = "antes"
  /\ fase' = "anunciado"
  /\ Andar(2 * Indice(no) + 1)
  /\ Publicar(no, FALSE)
  /\ UNCHANGED <<ferrB, no, voltas, etapaRow, aguarda, escuta, quedas, barraVars>>

\* The inlinks tools write the stage on its own, and go on when that fails.
Gravar ==
  /\ fase = "anunciado"
  /\ fase' = "gravado"
  /\ \/ no # "persistir_falha_alvo" /\ etapaRow' = no
     \/ ferrB # "gerar_artigo" /\ UNCHANGED etapaRow
  /\ aguarda' = (no = "marcar_aguardando")
  /\ UNCHANGED <<ferrB, no, voltas, caminhoVars, barraVars, perdas, andado>>

Completar ==
  /\ ~Parado
  /\ \/ fase = "antes" /\ no \in SemInicio \cup Desligaveis
     \/ fase = "gravado"
  /\ fase' = "antes"
  /\ no' \in Seguintes(no)
  /\ voltas' = IF no' = "redigir" /\ no # "criar_brief" THEN voltas + 1 ELSE voltas
  /\ voltas' <= MaxVoltas
  /\ Andar(2 * (Indice(no) + 1))
  /\ Publicar(no, TRUE)
  /\ UNCHANGED <<ferrB, etapaRow, aguarda, escuta, quedas, barraVars>>

\* The user's decision: the row runs again at once, its stage stays that of the
\* wait until the worker is through its next node.
DecidirEspera ==
  /\ no = "decisao"
  /\ no' = "aguardar_aprovacao"
  /\ aguarda' = FALSE
  /\ UNCHANGED <<ferrB, fase, voltas, etapaRow, escuta, quedas, fila, barraVars, perdas,
                 andado>>

-----------------------------------------------------------------------------
(* The stream. *)

Ligar ==
  /\ escuta = "fora"
  /\ escuta' = "ligado"
  /\ UNCHANGED <<trabalhoVars, quedas, fila, barraVars, perdas, andado>>

\* subscribe_redis runs beside the stream.
Inscrever ==
  /\ escuta = "ligado"
  /\ escuta' = "inscrito"
  /\ UNCHANGED <<trabalhoVars, quedas, fila, barraVars, perdas, andado>>

\* Mutant: a stream that connects again starts its history afresh.
HistoricoFica_Zera == completos' = {} /\ ultimo' = "nada"

\* sse-client connects again by itself: the history of useExecucao is emptied by
\* conectarProgresso alone.
HistoricoFica == UNCHANGED <<completos, ultimo>>

Cair ==
  /\ escuta # "fora"
  /\ quedas < MaxQuedas
  /\ escuta' = "fora"
  /\ quedas' = quedas + 1
  /\ fila' = <<>>
  /\ PerderEvento(Len(fila))
  /\ HistoricoFica
  /\ UNCHANGED <<trabalhoVars, etapaTela, refTela, aguardaTela, andado>>

-----------------------------------------------------------------------------
(* The page. *)

\* A render reads ultimaEtapaRef as the effect of the one before has left it.
Renderizar == refTela' = IF etapaTela = "nada" THEN refTela ELSE etapaTela

\* The interval of the clock draws again every second.
Repintar ==
  /\ Renderizar
  /\ UNCHANGED <<trabalhoVars, caminhoVars, etapaTela, aguardaTela, completos, ultimo, perdas,
                 andado>>

\* A status event: the row as the stream reads it.  The answer of a GET of
\* carregarExecucao brings the same; what one that comes late does is in
\* PaginaExecucao.
ReceberStatus ==
  /\ escuta # "fora"
  /\ etapaTela' = etapaRow
  /\ aguardaTela' = aguarda
  /\ Renderizar
  /\ UNCHANGED <<trabalhoVars, caminhoVars, completos, ultimo, perdas, andado>>

\* Texts of a start that do not end in "...", and of an end that do: a node without
\* a summary of its own announces with its description that it is through.
InicioSemReticencias == {"extrair_alvo", "persistir_falha_alvo"}
FimComReticencias == {"salvar_vetorial", "marcar_aguardando"}

\* Mutant: the summary of a node is not told from its description.
DizQueAcabou_Sempre(evento) == TRUE

\* The event does not say which it is: isStart is what its text ends with.
DizQueAcabou(evento) ==
  IF evento[2] THEN evento[1] \notin FimComReticencias
               ELSE evento[1] \in InicioSemReticencias

\* A node_progress event.
ReceberEvento ==
  /\ fila # <<>>
  /\ fila' = Tail(fila)
  /\ ultimo' = Head(fila)[1]
  /\ completos' = IF DizQueAcabou(Head(fila)) THEN completos \cup {Head(fila)[1]} ELSE completos
  /\ Renderizar
  /\ UNCHANGED <<trabalhoVars, escuta, quedas, etapaTela, aguardaTela, perdas, andado>>

-----------------------------------------------------------------------------
PassoDoWorker == Anunciar \/ Gravar \/ Completar \/ DecidirEspera

PassoDaTela == Repintar \/ ReceberStatus \/ ReceberEvento

NextProgresso ==
  /\ no # "fim"
  /\ PassoDoWorker \/ Ligar \/ Inscrever \/ Cair \/ PassoDaTela
  /\ alto' = Max({alto, progressoBase})

SpecProgresso == InitProgresso /\ [][NextProgresso]_progressoVars

-----------------------------------------------------------------------------
(* Properties. *)

ProgressoTypeOK ==
  /\ ferrB \in FerramentasBarra
  /\ no \in Nos(ferrB) \cup {"decisao", "fim"}
  /\ fase \in {"antes", "anunciado", "gravado"}
  /\ voltas \in 0..MaxVoltas
  /\ aguarda \in BOOLEAN /\ aguardaTela \in BOOLEAN
  /\ escuta \in {"fora", "ligado", "inscrito"}
  /\ quedas \in 0..MaxQuedas
  /\ perdas \in 0..MaxPerdas
  /\ Len(fila) <= MaxFila
  /\ {etapaRow, etapaTela, refTela, ultimo} \subseteq Nos(ferrB)
  /\ completos \subseteq Nos(ferrB)
  /\ alto \in 0..(2 * Len(Ordem)) /\ andado \in 0..(2 * Len(Ordem))

\* barra-progresso-workflow.tsx:230-231 mixes the stage of the row and the
\* events.  A page that has missed nothing and has nothing on its way shows a bar
\* that is where it has ever been, or half a step before, although the worker goes
\* back to the writing of an article and the stage of the row lags behind its
\* events (from a decision on a whole step more, as the end of salvar_vetorial is
\* not counted); no step before the active one is blank, but for that one; and the
\* panel of an article whose row is known and has a stage says that the work is
\* starting only after a decision, until the worker has taken it up.
BarraConfere ==
  (perdas = 0 /\ fila = <<>>) =>
    /\ progressoBase >= alto - (IF "aguardar_aprovacao" \in completos THEN 3 ELSE 1)
    /\ \A i \in DOMAIN Ordem : Passo(Ordem[i]) = "vazio" => Ordem[i] = "salvar_vetorial"
    /\ (/\ ferrB = "gerar_artigo" /\ etapaTela # "nada"
        /\ etapaTela = etapaRow /\ aguardaTela = aguarda
        /\ Atividade = "iniciando") => no = "aguardar_aprovacao"

\* barra-progresso-workflow.tsx:286-297 counts a step as done when an event of its
\* end has come, and its half when the row or an event names it.  Whatever is lost,
\* late or shown from the render before, the bar is never ahead of the worker, or
\* by half a step where the text of a start reads like that of an end.
BarraNaoAdianta ==
  progressoBase <= andado + (IF ferrB = "distribuir_inlinks" THEN 1 ELSE 0)

\* SPEC_Inlinks_UX_Verdade.md:45: the bar advances by the last step completed.
\* The steps it shows as done are steps the worker has done.
SoContaCompletos ==
  \A n \in completos : emOrdem(n) => 2 * (Indice(n) + 1) <= andado

\* SPEC_Ferramenta_Agente_Redacao.md: "Status de cada etapa (pendente, em
\* andamento, concluida)".  A page that has missed nothing shows every step as one
\* of the three.
TodaEtapaTemStatus ==
  (perdas = 0 /\ fila = <<>>) => \A i \in DOMAIN Ordem : Passo(Ordem[i]) # "vazio"
=============================================================================
