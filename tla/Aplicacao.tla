------------------------------ MODULE Aplicacao ------------------------------
(***************************************************************************)
(* A browser tab and the route it shows: the forms of the tools, the page  *)
(* of an execution (and, followed by itself, its progress bar), that of a  *)
(* Core Web Vitals execution, the technical SEO audit, the histories and   *)
(* the account.                                                            *)
(* (The pages that poll are in Acompanhamento.)                            *)
(* The pages share no state: what a page holds is made when its route is   *)
(* opened and is gone when the route is left, so that a tab is followed    *)
(* from the route it is loaded with.  What it opens next starts where that *)
(* route starts, with one exception: a form that got its execution created *)
(* opens the page of that execution.                                       *)
(*                                                                         *)
(* A page that is not shown is at rest in one of its initial states.       *)
(***************************************************************************)
EXTENDS PaginaExecucao, PainelProgresso, FormulariosFerramenta, PaginaCwv, PaginaSeo,
        PaginaHistorico, PaginaConta

VARIABLE tela \* the route

Telas == {"execucao", "progresso", "formulario", "cwv", "seo", "historico", "conta"}

aplicacaoVars ==
  <<tela, execucaoVars, progressoVars, formulariosVars, cwvVars, seoVars, historicoVars,
    contaVars>>

\* Of the initial states of a page at rest, one.
EmRepouso ==
  /\ tela # "execucao" => ferramenta = CHOOSE f \in Ferramentas : TRUE
  /\ tela # "progresso" =>
       /\ ferrB = CHOOSE f \in FerramentasBarra : TRUE
       /\ alto = 0
  /\ tela # "formulario" => ferr = "seletor"
  /\ tela # "seo" => parteSeo = "form"
  /\ tela # "historico" => parteHist = "parecer"
  /\ tela # "conta" => etapaRec = "solicitar"

InitAplicacao ==
  /\ tela \in Telas
  /\ InitExecucaoPagina
  /\ InitProgresso
  /\ InitFormularios
  /\ InitCwv
  /\ InitSeo
  /\ InitHistorico
  /\ InitConta
  /\ EmRepouso

-----------------------------------------------------------------------------
NaExecucao ==
  /\ tela = "execucao"
  /\ NextExecucaoPagina
  /\ UNCHANGED <<tela, progressoVars, formulariosVars, cwvVars, seoVars, historicoVars,
                 contaVars>>

NoProgresso ==
  /\ tela = "progresso"
  /\ NextProgresso
  /\ UNCHANGED <<tela, execucaoVars, formulariosVars, cwvVars, seoVars, historicoVars,
                 contaVars>>

NoFormulario ==
  /\ tela = "formulario"
  /\ NextFormularios
  /\ UNCHANGED <<tela, execucaoVars, progressoVars, cwvVars, seoVars, historicoVars,
                 contaVars>>

NoCwv ==
  /\ tela = "cwv"
  /\ NextCwv
  /\ UNCHANGED <<tela, execucaoVars, progressoVars, formulariosVars, seoVars,
                 historicoVars, contaVars>>

NoSeo ==
  /\ tela = "seo"
  /\ NextSeo
  /\ UNCHANGED <<tela, execucaoVars, progressoVars, formulariosVars, cwvVars,
                 historicoVars, contaVars>>

NoHistorico ==
  /\ tela = "historico"
  /\ NextHistorico
  /\ UNCHANGED <<tela, execucaoVars, progressoVars, formulariosVars, cwvVars, seoVars,
                 contaVars>>

NaConta ==
  /\ tela = "conta"
  /\ NextConta
  /\ UNCHANGED <<tela, execucaoVars, progressoVars, formulariosVars, cwvVars, seoVars,
                 historicoVars>>

\* The execution a form creates.
FerramentaDoForm ==
  CASE ferr = "artigo" -> "gerar_artigo"
    [] ferr = "receber" -> "inlinks_automaticos"
    [] ferr = "distribuir" -> "distribuir_inlinks"
    [] ferr \in {"cwv", "seletor"} -> "core_web_vitals"

\* What a form held is gone with it.
DeixarFormulario ==
  /\ ferr' = "seletor"
  /\ passo' = 0
  /\ cliF' = Nenhum
  /\ persona' = Nenhum
  /\ topico' = FALSE
  /\ alvoF' = Nenhum
  /\ lista' = ListaVazia
  /\ orcUltimo' = SemPreco
  /\ orcs' = {}
  /\ custoN' = SemPreco
  /\ furo' = FALSE
  /\ enviando' = FALSE
  /\ corpo' = 0
  /\ orfas' = 0
  /\ criadas' = 0
  /\ motivo' = FALSE
  /\ rumoForm' = FALSE
  /\ NovaDescoberta

\* router.push: the page of the execution, which has its own route for Core
\* Web Vitals.
AbrirExecucao ==
  /\ tela = "formulario"
  /\ rumoForm
  /\ ferr # "cwv" => FerramentaDoForm \in Ferramentas
  /\ tela' = IF ferr = "cwv" THEN "cwv" ELSE "execucao"
  /\ ferramenta' = IF ferr = "cwv" THEN ferramenta ELSE FerramentaDoForm
  /\ detalhes' = CASE ferr = "cwv" -> detalhes
                   [] ferr = "artigo" -> {}
                   [] OTHER -> {resultado}
  /\ DeixarFormulario
  /\ UNCHANGED <<status, versao, resultado, exStatus, exLinha, buscas, detalhe,
                 mostrada, listas, fluxoVars, envio, ordem, progressoVars, cwvVars,
                 seoVars, historicoVars, contaVars>>

NextAplicacao ==
  \/ NaExecucao
  \/ NoProgresso
  \/ NoFormulario
  \/ NoCwv
  \/ NoSeo
  \/ NoHistorico
  \/ NaConta
  \/ AbrirExecucao

SpecAplicacao == InitAplicacao /\ [][NextAplicacao]_aplicacaoVars

\* Redis forgets a copy of the user when its time has passed.
SpecAplicacaoJusta == SpecAplicacao /\ WF_contaVars(tela = "conta" /\ CacheVence)

-----------------------------------------------------------------------------
\* The types of the pages, and nothing of one that is not shown has changed:
\* what follows an execution is only there on its page.
AplicacaoTypeOK ==
  /\ tela \in Telas
  /\ ExecucaoPaginaTypeOK
  /\ ProgressoTypeOK
  /\ FormulariosTypeOK
  /\ CwvTypeOK
  /\ SeoTypeOK
  /\ HistoricoTypeOK
  /\ ContaTypeOK
  /\ EmRepouso
=============================================================================
