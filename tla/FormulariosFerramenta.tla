----------------------- MODULE FormulariosFerramenta -----------------------
(***************************************************************************)
(* The forms that start a paid execution: FormularioGerarArtigo,           *)
(* FormularioInlinks ("receber") and FormularioDistribuirInlinks under     *)
(* InlinksPageUnificada, and CwvFormPage.  They are one wizard: steps with *)
(* a condition to go on, a list of URLs in the middle ones, a price asked  *)
(* for whenever the length of the list changes, and a POST whose answer    *)
(* sends the browser to the page of the execution.                         *)
(*                                                                         *)
(* The list is how many times each URL is in it: its order only numbers    *)
(* its rows.  Text that is no URL only shows an error.  The button's check *)
(* of the balance is left out: who has not enough does not click.          *)
(***************************************************************************)
EXTENDS Integers, FiniteSets, FiniteSetsExt

CONSTANTS
  Urls,        \* URLs the lists may hold
  Alvos,       \* URLs of the article the links are about
  ClientesF,   \* the clients offered
  ComIndice,   \* those of them whose site is indexed
  LimiteUrls,  \* URLs of an execution (100 of inlinks, 50 of Web Vitals)
  MaxLista,    \* bound: length of the list
  MaxCriadas,  \* bound: executions the forms get created
  MaxOrfas     \* bound: POSTs of forms that are gone

ASSUME FormulariosAssumption ==
  /\ IsFiniteSet(Urls) /\ IsFiniteSet(Alvos) /\ IsFiniteSet(ClientesF)
  /\ ComIndice \subseteq ClientesF
  /\ LimiteUrls \in Nat \ {0}
  /\ MaxLista \in Nat
  /\ MaxCriadas \in Nat
  /\ MaxOrfas \in Nat

Nenhum == "nenhum"
PorTexto == "texto"
SemPreco == -1

\* Only Web Vitals has more than one list.
Templates == {"home", "outros"}
Entradas == Templates \X Urls

VARIABLES
  ferr,      \* the form: a tool, or "seletor" before one is chosen
  passo,     \* step
  cliF,      \* clientId
  persona,   \* the client personaId belongs to, or Nenhum for the default one
  topico,    \* topico and palavraChave are there
  alvoF,     \* pilarUrl or urlAlvo; PorTexto: only pilarMarkdown
  lista,     \* the URLs, each with how often
  orcUltimo, \* the last request of loadCusto: the length it asked for, SemPreco
             \* if it was answered,
  orcs,      \* and of those before it
  custoN,    \* the length custoEstimado is for, or SemPreco
  furo,      \* history: the last request was lost, or the answer of one before
             \* it came last
  enviando,  \* the POST of this form is on its way
  corpo,     \* the URLs in its body, 0 of a form without a list
  orfas,     \* POSTs of forms that are no longer on the page
  criadas,   \* server: executions created
  motivo,    \* history: a click while the browser was leaving, an answer
             \* lost, or a form left with its POST on its way
  rumoForm,  \* router.push has been called
  cliD,      \* clienteId of DescobertaCandidatas
  lendo,     \* requests for the index, of which clients
  indD,      \* indice
  buscando,  \* the client whose candidates are being asked for
  sugestoes  \* sugestoes

camposVars == <<ferr, passo, cliF, persona, topico, alvoF>>
precoVars == <<orcUltimo, orcs, custoN, furo>>
envioVars == <<enviando, corpo, orfas, criadas, motivo, rumoForm>>
descobertaVars == <<cliD, lendo, indD, buscando, sugestoes>>
formulariosVars == <<camposVars, lista, precoVars, envioVars,
                     descobertaVars>>

Inlinks == {"receber", "distribuir"}

Tamanho(l) == FoldSet(LAMBDA i, n : l[i] + n, 0, Entradas)

ListaVazia == [i \in Entradas |-> 0]

\* The price of an empty list is asked for only by the inlinks forms.
Orcado(f) == IF f \in Inlinks THEN 0 ELSE SemPreco

NovaDescoberta ==
  /\ cliD' = Nenhum
  /\ lendo' = {}
  /\ indD' = "nulo"
  /\ buscando' = Nenhum
  /\ sugestoes' = {}

InitFormularios ==
  /\ ferr \in {"artigo", "cwv", "seletor"}
  /\ passo = 0
  /\ cliF = Nenhum
  /\ persona = Nenhum
  /\ topico = FALSE
  /\ alvoF = Nenhum
  /\ lista = ListaVazia
  /\ orcUltimo = SemPreco
  /\ orcs = {}
  /\ custoN = SemPreco
  /\ furo = FALSE
  /\ enviando = FALSE
  /\ corpo = 0
  /\ orfas = 0
  /\ criadas = 0
  /\ motivo = FALSE
  /\ rumoForm = FALSE
  /\ cliD = Nenhum
  /\ lendo = {}
  /\ indD = "nulo"
  /\ buscando = Nenhum
  /\ sugestoes = {}

-----------------------------------------------------------------------------
(* InlinksPageUnificada: leaving a mode drops its form, and not its POST. *)

TrocarModo(f) ==
  /\ ferr \in Inlinks \cup {"seletor"}
  /\ f # ferr
  /\ (ferr = "seletor") # (f = "seletor")
  /\ enviando => orfas < MaxOrfas
  /\ ferr' = f
  /\ passo' = 0
  /\ alvoF' = Nenhum
  /\ lista' = ListaVazia
  /\ orcUltimo' = Orcado(f)
  /\ orcs' = {}
  /\ custoN' = SemPreco
  /\ furo' = FALSE
  /\ orfas' = IF enviando THEN orfas + 1 ELSE orfas
  /\ motivo' = (motivo \/ enviando)
  /\ enviando' = FALSE
  /\ corpo' = 0
  /\ NovaDescoberta
  /\ UNCHANGED <<cliF, persona, topico, criadas, rumoForm>>

-----------------------------------------------------------------------------
(* The steps. *)

Ultimo == IF ferr = "artigo" THEN 3 ELSE 2

AvancaArtigo ==
  CASE passo = 0 -> cliF # Nenhum
    [] passo = 1 -> topico
    [] OTHER -> TRUE

\* The URL of the article or its text will do.
AvancaReceber ==
  CASE passo = 0 -> alvoF # Nenhum
    [] passo = 1 -> Tamanho(lista) >= 1
    [] OTHER -> TRUE

AvancaDistribuir ==
  CASE passo = 0 -> alvoF \in Alvos
    [] passo = 1 -> Tamanho(lista) >= 1
    [] OTHER -> TRUE

AvancaCwv ==
  CASE passo = 0 -> cliF # Nenhum
    [] passo = 1 -> Tamanho(lista) >= 1
    [] OTHER -> TRUE

CanAdvance ==
  CASE ferr = "artigo" -> AvancaArtigo
    [] ferr = "receber" -> AvancaReceber
    [] ferr = "distribuir" -> AvancaDistribuir
    [] ferr = "cwv" -> AvancaCwv
    [] ferr = "seletor" -> FALSE

\* The discovery is on the page with the list.
MudarPasso(p) ==
  /\ passo' = p
  /\ NovaDescoberta
  /\ UNCHANGED <<ferr, cliF, persona, topico, alvoF, lista, precoVars,
                 envioVars>>

Avancar == passo < Ultimo /\ CanAdvance /\ ~enviando /\ MudarPasso(passo + 1)

Voltar == passo > 0 /\ ~enviando /\ MudarPasso(passo - 1)

\* The bar of steps takes the user back with the POST on its way.
IrAoPasso(p) == p < passo /\ MudarPasso(p)

\* A client has its own personas: choosing another one forgets the persona.
EscolherCliente(c) ==
  /\ (ferr = "artigo" /\ ~enviando) \/ ferr = "cwv"
  /\ passo = 0
  /\ c # cliF
  /\ cliF' = c
  /\ persona' = Nenhum
  /\ UNCHANGED <<ferr, passo, topico, alvoF, lista, precoVars, envioVars,
                 descobertaVars>>

EscolherPersona ==
  /\ ferr = "artigo"
  /\ passo = 0
  /\ ~enviando
  /\ cliF # Nenhum
  /\ persona' \in {cliF, Nenhum}
  /\ UNCHANGED <<ferr, passo, cliF, topico, alvoF, lista, precoVars,
                 envioVars, descobertaVars>>

PreencherTopico ==
  /\ ferr = "artigo"
  /\ passo = 1
  /\ ~enviando
  /\ topico' = ~topico
  /\ UNCHANGED <<ferr, passo, cliF, persona, alvoF, lista, precoVars,
                 envioVars, descobertaVars>>

\* Only of the article that is to receive the links may the text be given.
AlvosDe(f) == IF f = "receber" THEN Alvos \cup {Nenhum, PorTexto} ELSE Alvos \cup {Nenhum}

\* Nothing looks again at the list.
PreencherAlvo(u) ==
  /\ ferr \in Inlinks
  /\ passo = 0
  /\ ~enviando
  /\ u \in AlvosDe(ferr)
  /\ alvoF' = u
  /\ UNCHANGED <<ferr, passo, cliF, persona, topico, lista, precoVars,
                 envioVars, descobertaVars>>

-----------------------------------------------------------------------------
(* The list. *)

\* Mutant: the effect has no dependencies.
PedirPreco_AoMontar(n) == UNCHANGED precoVars

\* The request before is not cancelled.  Of those before that are for one length,
\* one is kept: their answers do the same.
DeixarUltimo == orcs' = orcs \cup ({orcUltimo} \ {SemPreco})

\* loadCusto runs when the length changes.
PedirCusto(n) ==
  /\ DeixarUltimo
  /\ orcUltimo' = n
  /\ furo' = FALSE
  /\ UNCHANGED custoN

LoadCustoReceber(n) == ferr = "receber" /\ PedirCusto(n)

LoadCustoDistribuir(n) == ferr = "distribuir" /\ PedirCusto(n)

\* The page of Web Vitals knows by itself that nothing costs nothing.
LoadCustoCwv(n) ==
  /\ ferr = "cwv"
  /\ IF n = 0
       THEN /\ DeixarUltimo
            /\ orcUltimo' = SemPreco
            /\ custoN' = SemPreco
            /\ furo' = FALSE
       ELSE PedirCusto(n)

PedirPreco(n) ==
  \/ n = Tamanho(lista) /\ UNCHANGED precoVars
  \/ /\ n # Tamanho(lista)
     /\ LoadCustoReceber(n) \/ LoadCustoDistribuir(n) \/ LoadCustoCwv(n)

NaLista == ferr \in Inlinks \cup {"cwv"} /\ passo = 1 /\ ~enviando

MudarLista(l) ==
  /\ Tamanho(l) <= MaxLista
  /\ lista' = l
  /\ PedirPreco(Tamanho(l))

Somar(novas) == [i \in Entradas |-> lista[i] + novas[i]]

\* The template is a choice of the page of Web Vitals.
DoTemplate(t) == {t} \X Urls
TemplateDaPagina(t) == t = "home" \/ ferr = "cwv"

AddUrlReceber(i) ==
  /\ ferr = "receber"
  /\ lista[i] = 0
  /\ MudarLista([lista EXCEPT ![i] = 1])

AddUrlDistribuir(i) ==
  /\ ferr = "distribuir"
  /\ i[2] # alvoF
  /\ lista[i] = 0
  /\ MudarLista([lista EXCEPT ![i] = 1])

AddUrlCwv(i) ==
  /\ ferr = "cwv"
  /\ lista[i] = 0
  /\ Tamanho(lista) < LimiteUrls
  /\ MudarLista([lista EXCEPT ![i] = 1])

AddUrl ==
  /\ NaLista
  /\ \E t \in Templates : \E i \in DoTemplate(t) :
       /\ TemplateDaPagina(t)
       /\ AddUrlReceber(i) \/ AddUrlDistribuir(i) \/ AddUrlCwv(i)
  /\ UNCHANGED <<camposVars, envioVars, descobertaVars>>

\* What of a batch is new is asked of the list, and not of the batch.
NovasDoLote(lote, aceitas) ==
  [i \in Entradas |-> IF i \in DOMAIN lote \cap aceitas /\ lista[i] = 0 THEN lote[i] ELSE 0]

\* Beyond the limit the inlinks forms show an error and take the URLs.
LoteReceber(lote) ==
  ferr = "receber" /\ MudarLista(Somar(NovasDoLote(lote, Entradas)))

LoteDistribuir(lote) ==
  /\ ferr = "distribuir"
  /\ MudarLista(Somar(NovasDoLote(lote, {i \in Entradas : i[2] # alvoF})))

LoteCwv(lote) ==
  /\ ferr = "cwv"
  /\ Tamanho(Somar(NovasDoLote(lote, Entradas))) <= LimiteUrls
  /\ MudarLista(Somar(NovasDoLote(lote, Entradas)))

AddUrlsEmLote ==
  /\ NaLista
  /\ \E t \in Templates : \E lote \in [DoTemplate(t) -> 0..2] :
       /\ TemplateDaPagina(t)
       /\ LoteReceber(lote) \/ LoteDistribuir(lote) \/ LoteCwv(lote)
  /\ UNCHANGED <<camposVars, envioVars, descobertaVars>>

RemoveUrl(i) ==
  /\ NaLista
  /\ lista[i] > 0
  /\ MudarLista([lista EXCEPT ![i] = @ - 1])
  /\ UNCHANGED <<camposVars, envioVars, descobertaVars>>

\* The answers of loadCusto: the one that comes last is kept, whichever request it
\* is of, and an error changes nothing.
CustoChegou ==
  /\ orcUltimo # SemPreco
  /\ orcUltimo' = SemPreco
  /\ \/ custoN' = orcUltimo /\ furo' = FALSE
     \/ furo' = TRUE /\ UNCHANGED custoN
  /\ UNCHANGED <<camposVars, lista, orcs, envioVars, descobertaVars>>

CustoAtrasado(n) ==
  /\ n \in orcs
  /\ orcs' = orcs \ {n}
  /\ \/ custoN' = n /\ furo' = (orcUltimo = SemPreco)
     \/ UNCHANGED <<custoN, furo>>
  /\ UNCHANGED <<camposVars, lista, orcUltimo, envioVars, descobertaVars>>

-----------------------------------------------------------------------------
(* DescobertaCandidatas. *)

\* It does not know of enviando.
NaDescoberta == ferr \in Inlinks /\ passo = 1

\* The suggestions of the client before stay, and without a client there is no
\* index.
EscolherClienteD(c) ==
  /\ NaDescoberta
  /\ c # cliD
  /\ cliD' = c
  /\ IF c = Nenhum
       THEN indD' = "nulo" /\ UNCHANGED lendo
       ELSE lendo' = lendo \cup {c} /\ UNCHANGED indD
  /\ UNCHANGED <<camposVars, lista, precoVars, envioVars, buscando, sugestoes>>

\* Whichever client it is of.
IndiceDChegou(c) ==
  /\ c \in lendo
  /\ lendo' = lendo \ {c}
  /\ indD' \in {"nulo", IF c \in ComIndice THEN "pronto" ELSE "outro"}
  /\ UNCHANGED <<camposVars, lista, precoVars, envioVars, cliD, buscando,
                 sugestoes>>

BuscarCandidatas ==
  /\ NaDescoberta
  /\ cliD # Nenhum
  /\ indD = "pronto"
  /\ alvoF \in Alvos
  /\ buscando = Nenhum
  /\ buscando' = cliD
  /\ sugestoes' = {}
  /\ UNCHANGED <<camposVars, lista, precoVars, envioVars, cliD, lendo, indD>>

CandidatasChegaram ==
  /\ buscando # Nenhum
  /\ buscando' = Nenhum
  /\ sugestoes' \in SUBSET Urls
  /\ UNCHANGED <<camposVars, lista, precoVars, envioVars, cliD, lendo, indD>>

\* What is in the list by now is left out.
Novas(S) == {u \in S : lista[<<"home", u>>] = 0}

\* Any of the suggestions may be the selected ones.
AdicionarSelecionadas ==
  /\ NaDescoberta
  /\ \E S \in SUBSET sugestoes :
       LET novas == [i \in Entradas |-> IF i \in {"home"} \X Novas(S) THEN 1 ELSE 0]
       IN Novas(S) # {} /\ MudarLista(Somar(novas))
  /\ sugestoes' = {}
  /\ UNCHANGED <<camposVars, envioVars, cliD, lendo, indD, buscando>>

-----------------------------------------------------------------------------
(* handleSubmit. *)

\* Mutant: enviando does not disable the button.
BotaoEnviar_SemEnviando == ferr # "seletor" /\ passo = Ultimo

BotaoEnviar == ferr # "seletor" /\ passo = Ultimo /\ ~enviando

\* The button is back while the browser leaves for the page of the execution.
HandleSubmit ==
  /\ BotaoEnviar
  /\ enviando => orfas < MaxOrfas
  /\ enviando' = TRUE
  /\ corpo' = Tamanho(lista)
  /\ orfas' = IF enviando THEN orfas + 1 ELSE orfas
  /\ motivo' = (motivo \/ rumoForm)
  /\ UNCHANGED <<camposVars, lista, precoVars, criadas, rumoForm,
                 descobertaVars>>

\* The POST that ends is the form's, or that of a form that is gone.  The
\* server has the last word on the number of URLs.
FimDoPost(criou) ==
  /\ \/ /\ enviando
        /\ criou => corpo <= LimiteUrls
        /\ enviando' = FALSE
        /\ corpo' = 0
        /\ UNCHANGED orfas
     \/ orfas > 0 /\ orfas' = orfas - 1 /\ UNCHANGED <<enviando, corpo>>
  /\ criou => criadas < MaxCriadas
  /\ criadas' = IF criou THEN criadas + 1 ELSE criadas
  /\ UNCHANGED <<camposVars, lista, precoVars, descobertaVars>>

\* router.push runs even when its form is gone.
EnvioAceito == FimDoPost(TRUE) /\ rumoForm' = TRUE /\ UNCHANGED motivo

\* The answer may be lost after the execution is there.
EnvioFalhou ==
  \E criou \in BOOLEAN :
    FimDoPost(criou) /\ motivo' = (motivo \/ criou) /\ UNCHANGED rumoForm

-----------------------------------------------------------------------------
Caminhar ==
  \/ \E f \in Inlinks \cup {"seletor"} : TrocarModo(f)
  \/ Avancar
  \/ Voltar
  \/ \E p \in 0..2 : IrAoPasso(p)

Preencher ==
  \/ \E c \in ClientesF : EscolherCliente(c)
  \/ EscolherPersona
  \/ PreencherTopico
  \/ \E u \in Alvos \cup {Nenhum, PorTexto} : PreencherAlvo(u)

EditarLista == AddUrl \/ AddUrlsEmLote \/ (\E i \in Entradas : RemoveUrl(i))

Descobrir ==
  \/ \E c \in ClientesF \cup {Nenhum} : EscolherClienteD(c)
  \/ \E c \in ClientesF : IndiceDChegou(c)
  \/ BuscarCandidatas
  \/ CandidatasChegaram
  \/ AdicionarSelecionadas

Enviar == HandleSubmit \/ EnvioAceito \/ EnvioFalhou

NextFormularios ==
  \/ Caminhar
  \/ Preencher
  \/ EditarLista
  \/ CustoChegou
  \/ \E n \in 0..MaxLista : CustoAtrasado(n)
  \/ Descobrir
  \/ Enviar

SpecFormularios == InitFormularios /\ [][NextFormularios]_formulariosVars

-----------------------------------------------------------------------------
(* Properties. *)

FormulariosTypeOK ==
  /\ ferr \in {"artigo", "cwv", "seletor"} \cup Inlinks
  /\ passo \in 0..3
  /\ cliF \in ClientesF \cup {Nenhum}
  /\ persona \in {cliF, Nenhum}
  /\ topico \in BOOLEAN
  /\ alvoF \in Alvos \cup {Nenhum, PorTexto}
  /\ lista \in [Entradas -> 0..MaxLista]
  /\ orcUltimo \in -1..MaxLista
  /\ orcs \subseteq 0..MaxLista
  /\ custoN \in -1..MaxLista
  /\ furo \in BOOLEAN
  /\ enviando \in BOOLEAN
  /\ corpo \in 0..MaxLista
  /\ orfas \in 0..MaxOrfas
  /\ criadas \in 0..MaxCriadas
  /\ motivo \in BOOLEAN
  /\ rumoForm \in BOOLEAN
  /\ cliD \in ClientesF \cup {Nenhum}
  /\ lendo \subseteq ClientesF
  /\ indD \in {"nulo", "pronto", "outro"}
  /\ buscando \in ClientesF \cup {Nenhum}
  /\ sugestoes \subseteq Urls

\* What the price would be asked for.
PrecoDaLista == IF ferr = "cwv" /\ Tamanho(lista) = 0 THEN SemPreco ELSE Tamanho(lista)

\* formulario-inlinks.tsx:56-68, formulario-distribuir-inlinks.tsx:69-81,
\* cwv-form.tsx:66-75.  When the last request for the price was answered and no
\* answer of one before came after it, the price the user confirms is that of the
\* list as it is, although older requests may still be on their way.
CustoDaTela ==
  ferr \in Inlinks \cup {"cwv"} /\ orcUltimo = SemPreco /\ ~furo => custoN = PrecoDaLista

\* SPEC_Ferramenta_Inlinks_Automaticos.md:264: "UI mostra estimativa" for the
\* candidates there are.  With no request on its way the price shown, if any, is that
\* of the list.
EstimativaDaLista ==
  ferr \in Inlinks /\ orcUltimo = SemPreco /\ orcs = {} => custoN \in {SemPreco, PrecoDaLista}

\* handleSubmit of the four forms.  A second execution is paid for only by who
\* clicks again while the browser is leaving, whose answer was lost, or who
\* left the form with the POST on its way.
PagaUmaVez == criadas + (IF enviando THEN 1 ELSE 0) + orfas > 1 => motivo
=============================================================================
