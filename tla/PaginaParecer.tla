--------------------------- MODULE PaginaParecer ---------------------------
(***************************************************************************)
(* The form of the technical opinion: FormularioParecer, its editor, and   *)
(* the hook useParecer, which asks for an execution, polls it until it     *)
(* ends and fetches the document.                                          *)
(*                                                                         *)
(* What the user has written is the number of images in it, or Branco when *)
(* it is only blank space, or Vazio.  blocosFromHtml gathers everything    *)
(* into one block.  An execution that was cancelled counts as failed: the  *)
(* page tells them apart by the text of a toast.                           *)
(***************************************************************************)
EXTENDS Integers

CONSTANTS
  MaxPareceres, \* bound: executions the form gets created
  MaxImagens,   \* bound: images in the editor
  MaxRodadas,   \* bound: polls within POLL_TIMEOUT
  SaldoParecer  \* saldo.saldo_total, read once

ASSUME PaginaParecerAssumption ==
  /\ MaxPareceres \in Nat \ {0}
  /\ MaxImagens \in Nat
  /\ MaxRodadas \in Nat \ {0}
  /\ SaldoParecer \in Nat

Vazio == -2
Branco == -1
SemCusto == 0

VARIABLES
  laudos,      \* the executions on the server
  estadoPar,   \* estado of the hook
  passoPar,    \* where gerar is
  alvo,        \* execucaoId, or 0
  errosPar,    \* errosSeguidos
  tempo,       \* polls' worth of time since start
  docPar,      \* parecerId: the execution whose document is shown, or 0
  abandonados, \* history: executions that gerar stopped following
  comCliente,  \* clienteId
  conteudo,    \* editorHtml
  colando,     \* images being compressed
  relogio,     \* the timer of loadCusto
  orcamentos,  \* the requests of loadCusto: what each asked for
  custo        \* custo, or SemCusto

geracaoVars == <<laudos, estadoPar, passoPar, alvo, errosPar, tempo, docPar,
                 abandonados>>
editorVars == <<comCliente, conteudo, colando>>
custoVars == <<relogio, orcamentos, custo>>
parecerVars == <<geracaoVars, editorVars, custoVars>>

Pareceres == 1..MaxPareceres

\* blocosFromHtml finds a block, and how many images are in it.
TemBloco == conteudo >= 0

\* The price of an opinion grows with its images.
PrecoParecer(n) == n + 1

InitParecer ==
  /\ laudos = [p \in Pareceres |-> "livre"]
  /\ estadoPar = "idle"
  /\ passoPar = "nada"
  /\ alvo = 0
  /\ errosPar = 0
  /\ tempo = 0
  /\ docPar = 0
  /\ abandonados = {}
  /\ comCliente = FALSE
  /\ conteudo = Vazio
  /\ colando = FALSE
  /\ relogio = TRUE
  /\ orcamentos = {}
  /\ custo = SemCusto

-----------------------------------------------------------------------------
(* The editor.  The effect of loadCusto starts its timer again whenever what   *)
(* it depends on changes; a request that has left is not taken back.           *)

EditavelParecer == estadoPar \notin {"gerando", "pronto"}

Reorcar == relogio' = TRUE

\* The clients are buttons, not disabled while the opinion is being written.
EscolherClienteParecer ==
  /\ estadoPar # "pronto"
  /\ ~comCliente
  /\ comCliente' = TRUE
  /\ relogio' = TRUE
  /\ UNCHANGED <<geracaoVars, conteudo, colando, orcamentos, custo>>

Escrever ==
  /\ EditavelParecer
  /\ conteudo' \in {Vazio, Branco} \cup 0..MaxImagens
  /\ conteudo' # conteudo
  /\ Reorcar
  /\ UNCHANGED <<geracaoVars, comCliente, colando, orcamentos, custo>>

\* inserirImagensDoEvento compresses an image, and then puts it in the editor,
\* whatever has happened since.
Colar ==
  /\ EditavelParecer
  /\ ~colando
  /\ colando' = TRUE
  /\ UNCHANGED <<geracaoVars, comCliente, conteudo, custoVars>>

Colado ==
  /\ colando
  /\ colando' = FALSE
  /\ \/ /\ estadoPar # "pronto"
        /\ conteudo' = IF TemBloco THEN conteudo + 1 ELSE 1
        /\ conteudo' <= MaxImagens
        /\ Reorcar
     \/ UNCHANGED <<conteudo, relogio>>
  /\ UNCHANGED <<geracaoVars, comCliente, orcamentos, custo>>

-----------------------------------------------------------------------------
(* loadCusto. *)

LoadCusto ==
  /\ relogio
  /\ relogio' = FALSE
  /\ IF comCliente /\ TemBloco
       THEN /\ orcamentos' = orcamentos \cup {conteudo}
            /\ UNCHANGED custo
       ELSE /\ custo' = SemCusto
            /\ UNCHANGED orcamentos
  /\ UNCHANGED <<geracaoVars, editorVars>>

\* The last answer to arrive is kept; one that is lost leaves no price.
OrcamentoChegou(n) ==
  /\ n \in orcamentos
  /\ orcamentos' = orcamentos \ {n}
  /\ custo' \in {PrecoParecer(n), SemCusto}
  /\ UNCHANGED <<geracaoVars, editorVars, relogio>>

-----------------------------------------------------------------------------
(* gerar. *)

SaldoSuficiente == custo = SemCusto \/ custo <= SaldoParecer

\* enviando lasts as long as gerar does.
BotaoGerar ==
  /\ comCliente
  /\ conteudo # Vazio
  /\ SaldoSuficiente
  /\ estadoPar \in {"idle", "erro"}

\* The server refuses a list of no blocks.
Gerar ==
  /\ BotaoGerar
  /\ estadoPar' = "gerando"
  /\ passoPar' = IF TemBloco THEN "post" ELSE "postVazio"
  /\ UNCHANGED <<laudos, alvo, errosPar, tempo, docPar, abandonados, editorVars,
                 custoVars>>

\* The catch of gerar: the execution, if there is one, is followed no more.
DesistirDe(S) ==
  /\ estadoPar' = "erro"
  /\ passoPar' = "nada"
  /\ abandonados' = abandonados \cup S

\* POST /ferramentas/parecer/gerar creates execution p.
Criar(p) ==
  /\ passoPar = "post"
  /\ laudos[p] = "livre"
  /\ \A q \in 1..(p - 1) : laudos[q] # "livre"
  /\ laudos' = [laudos EXCEPT ![p] = "rodando"]

\* Mutant: the errors of the last opinion count for this one.
ZerarErros_Nao == UNCHANGED errosPar

ZerarErros == errosPar' = 0

PostCriou ==
  /\ \E p \in Pareceres : Criar(p) /\ alvo' = p
  /\ passoPar' = "poll"
  /\ ZerarErros
  /\ tempo' = 0
  /\ UNCHANGED <<estadoPar, docPar, abandonados, editorVars, custoVars>>

PostRecusado ==
  /\ passoPar \in {"post", "postVazio"}
  /\ DesistirDe({})
  /\ UNCHANGED <<laudos, alvo, errosPar, tempo, docPar, editorVars, custoVars>>

\* Its answer is lost.
PostSemResposta ==
  /\ \E p \in Pareceres : Criar(p) /\ DesistirDe({p})
  /\ UNCHANGED <<alvo, errosPar, tempo, docPar, editorVars, custoVars>>

\* The GET of one poll is answered.
PollRespondido ==
  /\ passoPar = "poll"
  /\ errosPar' = 0
  /\ CASE laudos[alvo] = "rodando" ->
            /\ passoPar' = "espera"
            /\ UNCHANGED <<estadoPar, abandonados>>
       [] laudos[alvo] = "concluida" ->
            /\ passoPar' = "doc"
            /\ UNCHANGED <<estadoPar, abandonados>>
       [] laudos[alvo] = "falhou" -> DesistirDe({})
  /\ UNCHANGED <<laudos, alvo, tempo, docPar, editorVars, custoVars>>

\* The third error in a row gives up.
PollPerdido ==
  /\ passoPar = "poll"
  /\ errosPar' = errosPar + 1
  /\ IF errosPar' >= 3
       THEN DesistirDe({alvo})
       ELSE /\ passoPar' = "espera"
            /\ UNCHANGED <<estadoPar, abandonados>>
  /\ UNCHANGED <<laudos, alvo, tempo, docPar, editorVars, custoVars>>

\* Mutant: the time is not looked at.
PassouDoTempo_Nunca == FALSE

PassouDoTempo == tempo = MaxRodadas

\* The timer of poll: it looks at the time before it asks again.
PollDeNovo ==
  /\ passoPar = "espera"
  /\ IF PassouDoTempo
       THEN /\ DesistirDe({alvo})
            /\ UNCHANGED tempo
       ELSE /\ passoPar' = "poll"
            /\ tempo' = IF tempo < MaxRodadas THEN tempo + 1 ELSE tempo
            /\ UNCHANGED <<estadoPar, abandonados>>
  /\ UNCHANGED <<laudos, alvo, errosPar, docPar, editorVars, custoVars>>

DocChegou ==
  /\ passoPar = "doc"
  /\ docPar' = alvo
  /\ estadoPar' = "pronto"
  /\ passoPar' = "nada"
  /\ UNCHANGED <<laudos, alvo, errosPar, tempo, abandonados, editorVars, custoVars>>

DocPerdido ==
  /\ passoPar = "doc"
  /\ DesistirDe({alvo})
  /\ UNCHANGED <<laudos, alvo, errosPar, tempo, docPar, editorVars, custoVars>>

\* "Novo Parecer": what was written comes back with the form.
ResetParecer ==
  /\ estadoPar = "pronto"
  /\ estadoPar' = "idle"
  /\ alvo' = 0
  /\ docPar' = 0
  /\ UNCHANGED <<laudos, passoPar, errosPar, tempo, abandonados, editorVars,
                 custoVars>>

-----------------------------------------------------------------------------
(* The worker. *)

TerminarParecer(p) ==
  /\ laudos[p] = "rodando"
  /\ laudos' = [laudos EXCEPT ![p] = "concluida"]
                  \/ laudos' = [laudos EXCEPT ![p] = "falhou"]
  /\ UNCHANGED <<estadoPar, passoPar, alvo, errosPar, tempo, docPar, abandonados,
                 editorVars, custoVars>>

-----------------------------------------------------------------------------
Redigir == EscolherClienteParecer \/ Escrever \/ Colar \/ Colado

Orcar == LoadCusto \/ \E n \in 0..MaxImagens : OrcamentoChegou(n)

Postar == PostCriou \/ PostRecusado \/ PostSemResposta

Sondar == PollRespondido \/ PollPerdido \/ PollDeNovo \/ DocChegou \/ DocPerdido

NextParecer ==
  \/ Redigir
  \/ Orcar
  \/ Gerar
  \/ Postar
  \/ Sondar
  \/ ResetParecer
  \/ \E p \in Pareceres : TerminarParecer(p)

SpecParecer == InitParecer /\ [][NextParecer]_parecerVars

\* A request ends, answered or not, and the timers of the page fire.
SeguirParecer == Postar \/ Sondar

-----------------------------------------------------------------------------
(* Properties. *)

ParecerTypeOK ==
  /\ laudos \in [Pareceres -> {"livre", "rodando", "concluida", "falhou"}]
  /\ estadoPar \in {"idle", "gerando", "pronto", "erro"}
  /\ passoPar \in {"nada", "post", "postVazio", "poll", "espera", "doc"}
  /\ alvo \in 0..MaxPareceres
  /\ errosPar \in 0..3
  /\ tempo \in 0..MaxRodadas
  /\ docPar \in 0..MaxPareceres
  /\ abandonados \subseteq Pareceres
  /\ comCliente \in BOOLEAN
  /\ conteudo \in {Vazio, Branco} \cup 0..MaxImagens
  /\ colando \in BOOLEAN
  /\ relogio \in BOOLEAN
  /\ orcamentos \subseteq 0..MaxImagens
  /\ custo \in 0..PrecoParecer(MaxImagens)

\* use-parecer.ts:68.  Credits are reserved for every execution the form gets
\* created: each one that runs is being polled, or gerar has said that it gave
\* up on it.  And the document on the screen is the one last asked for.
ParecerAcompanhado ==
  /\ \A p \in Pareceres :
       laudos[p] = "rodando" =>
         p \in abandonados \/ (p = alvo /\ passoPar \in {"poll", "espera"})
  /\ estadoPar = "pronto" => docPar = alvo /\ laudos[docPar] = "concluida"

\* use-parecer.ts:42.  "gerando" ends: a document, an error, or the timeout.
ParecerTermina == (estadoPar = "gerando") ~> (estadoPar # "gerando")
=============================================================================
