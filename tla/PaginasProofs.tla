---------------------------- MODULE PaginasProofs ----------------------------
(***************************************************************************)
(* Proofs about pages that are followed by themselves, for every bound on  *)
(* what may fail and what is edited: the technical SEO audit, the          *)
(* histories and the progress bar, and those that poll.                    *)
(***************************************************************************)
EXTENDS PaginaSeo, PaginaHistorico, PainelProgresso, Acompanhamento, Lemas

-----------------------------------------------------------------------------
(* The technical SEO audit: the types, and that what is shown at the end is *)
(* the server's.                                                           *)

TipoSeoForm ==
  /\ parteSeo \in {"form", "auditoria"}
  /\ clienteSeo \in Sites \cup {SemSite}
  /\ dominioSeo \in Sites \cup {SemSite}
  /\ criandoSeo \in BOOLEAN

TipoSeoServidor ==
  /\ seoFase \in FasesSeo
  /\ seoItem \in BOOLEAN
  /\ envios \in [Envios -> StatusEnvio]

TipoSeoVista ==
  /\ seoVista \in Visoes \cup {VisaoNula}
  /\ seoErro \in BOOLEAN
  /\ seoGets \subseteq Visoes
  /\ seoDescompasso \in BOOLEAN

TipoSeoEnvio ==
  /\ enviandoPacote \in BOOLEAN
  /\ etapaSSE \in BOOLEAN
  /\ seguindo \in 0..MaxEnvios
  /\ seoFluxo \in {"nenhum", "ligado", "fim", "desistiu"}

\* An item is edited in what is shown.
TipoSeoEdicao ==
  /\ avancando \in {"nada", "patch", "get"}
  /\ faseNova \in FasesSeo
  /\ editando \in {"nada", "patch", "commit"}
  /\ itemNovo \in BOOLEAN
  /\ editando # "nada" => seoVista # VisaoNula

\* The page follows the last package there is, and the stream is over when the
\* package is.
UltimoSeguido ==
  /\ \A n \in Envios : envios[n] = "livre" <=> n > seguindo
  /\ seoFluxo # "nenhum" => seguindo \in Envios
  /\ seoFluxo = "fim" => envios[seguindo] \in {"concluida", "falhou"}

\* From the answer that found the server as it is on, the page and the server
\* differ only in what is between a PATCH and its commit.
VistaEmDia ==
  seoFluxo = "fim" /\ seoGets = {} /\ ~seoDescompasso =>
    /\ seoVista \in Visoes
    /\ seoVista.crawl = CrawlDe(envios[seguindo])
    /\ avancando # "get" => seoVista.fase = seoFase
    /\ editando # "commit" => seoVista.item = seoItem

TiposSeo ==
  TipoSeoForm /\ TipoSeoServidor /\ TipoSeoVista /\ TipoSeoEnvio /\ TipoSeoEdicao

IndSeo == TiposSeo /\ UltimoSeguido /\ VistaEmDia

LEMMA EnvioConhecido ==
  ASSUME TipoSeoServidor, UltimoEnvio # {}
  PROVE  CrawlDe(envios[CHOOSE n \in UltimoEnvio : TRUE]) \in StatusCrawl
<1> DEFINE u == CHOOSE n \in UltimoEnvio : TRUE
<1>1. u \in UltimoEnvio
  OBVIOUS
<1>2. u \in Envios /\ envios[u] \notin {"livre", "sem_commit"}
  BY <1>1 DEF UltimoEnvio
<1>3. envios[u] \in {"recebido", "perdido", "processando", "persistido", "concluida", "falhou"}
  BY <1>2 DEF TipoSeoServidor, StatusEnvio
<1> HIDE DEF u
<1>4. CrawlDe(envios[u]) \in StatusCrawl
  BY <1>3 DEF CrawlDe, StatusCrawl
<1> QED BY <1>4 DEF u

LEMMA ServidorVisto == TipoSeoServidor => Servidor \in Visoes
<1> SUFFICES ASSUME TipoSeoServidor
             PROVE  Servidor \in Visoes
  OBVIOUS
<1>1. (IF UltimoEnvio = {} THEN "nenhum"
       ELSE CrawlDe(envios[CHOOSE n \in UltimoEnvio : TRUE])) \in StatusCrawl
  BY EnvioConhecido DEF StatusCrawl
<1> QED BY <1>1 DEF Servidor, Visoes, TipoSeoServidor

\* What the server answers when the stream is over.
LEMMA ServidorNoFim ==
  ASSUME TiposSeo, UltimoSeguido, seoFluxo = "fim"
  PROVE  Servidor = [fase |-> seoFase, item |-> seoItem,
                     crawl |-> CrawlDe(envios[seguindo])]
<1>1. seguindo \in Envios /\ envios[seguindo] \in {"concluida", "falhou"}
  BY DEF UltimoSeguido
<1>2. seguindo \in UltimoEnvio
  BY <1>1 DEF UltimoSeguido, UltimoEnvio
<1>3. ASSUME NEW n \in UltimoEnvio
      PROVE  n = seguindo
  <2>1. n \in Envios /\ envios[n] \notin {"livre", "sem_commit"}
    BY DEF UltimoEnvio
  <2>2. ~(n > seguindo)
    BY <2>1 DEF UltimoSeguido
  <2>3. ~(seguindo > n)
    BY <1>1, <2>1 DEF UltimoEnvio
  <2> QED BY <1>1, <2>1, <2>2, <2>3, PaginaSeoAssumption DEF Envios
<1>4. UltimoEnvio # {} /\ (CHOOSE n \in UltimoEnvio : TRUE) = seguindo
  BY <1>2, <1>3
<1> QED BY <1>4 DEF Servidor

LEMMA InitIndSeo == InitSeo => IndSeo
<1> SUFFICES ASSUME InitSeo
             PROVE  IndSeo
  OBVIOUS
<1>1. TipoSeoServidor
  BY DEF InitSeo, TipoSeoServidor, FasesSeo, StatusEnvio
<1>2. seoGets \subseteq Visoes
  BY <1>1, ServidorVisto DEF InitSeo
<1>3. TipoSeoForm
  BY DEF InitSeo, TipoSeoForm
<1>4. TipoSeoVista
  BY <1>2 DEF InitSeo, TipoSeoVista
<1>5. TipoSeoEnvio
  <2>1. seguindo \in 0..MaxEnvios
    BY PaginaSeoAssumption DEF InitSeo
  <2> QED BY <2>1 DEF InitSeo, TipoSeoEnvio
<1>6. TipoSeoEdicao
  BY DEF InitSeo, TipoSeoEdicao, FasesSeo
<1>7. UltimoSeguido
  BY PaginaSeoAssumption DEF InitSeo, UltimoSeguido, Envios
<1>8. VistaEmDia
  BY DEF InitSeo, VistaEmDia
<1> QED BY <1>1, <1>3, <1>4, <1>5, <1>6, <1>7, <1>8 DEF IndSeo, TiposSeo

LEMMA FormularioSeoMantem == IndSeo /\ FormularioSeo => IndSeo'
<1> SUFFICES ASSUME IndSeo, FormularioSeo
             PROVE  IndSeo'
  OBVIOUS
<1>1. UNCHANGED <<servidorSeoVars, vistaSeoVars, envioSeoVars, edicaoSeoVars,
                  seoDescompasso>>
  BY DEF FormularioSeo, SelecionarCliente, EscreverDominio, HandleCriar, CriarRespondido
<1>2. TipoSeoForm'
  BY DEF IndSeo, TiposSeo, TipoSeoForm, FormularioSeo, SelecionarCliente,
         EscreverDominio, HandleCriar, CriarRespondido
<1>3. /\ TipoSeoServidor' /\ TipoSeoVista' /\ TipoSeoEnvio' /\ TipoSeoEdicao'
      /\ UltimoSeguido' /\ VistaEmDia'
  BY <1>1 DEF IndSeo, TiposSeo, TipoSeoServidor, TipoSeoVista, TipoSeoEnvio,
         TipoSeoEdicao, UltimoSeguido, VistaEmDia, servidorSeoVars, vistaSeoVars,
         envioSeoVars, edicaoSeoVars
<1> QED BY <1>2, <1>3 DEF IndSeo, TiposSeo

LEMMA CarregarVisto ==
  ASSUME TipoSeoServidor, seoGets \subseteq Visoes, Carregar(seoGets)
  PROVE  seoGets' \subseteq Visoes
BY ServidorVisto DEF Carregar

LEMMA LerSeoMantem == IndSeo /\ LerSeo => IndSeo'
<1> SUFFICES ASSUME IndSeo, LerSeo
             PROVE  IndSeo'
  OBVIOUS
<1> USE DEF IndSeo
<1>1. UNCHANGED <<parteSeo, formSeoVars, servidorSeoVars, envioSeoVars, edicaoSeoVars>>
  BY DEF LerSeo, CarregarRespondido, CarregarPerdido, PollCrawl
<1>2. TipoSeoForm' /\ TipoSeoServidor' /\ TipoSeoEnvio' /\ UltimoSeguido'
  BY <1>1 DEF TiposSeo, TipoSeoForm, TipoSeoServidor, TipoSeoEnvio, UltimoSeguido,
         formSeoVars, servidorSeoVars, envioSeoVars
<1>3. CASE \E r \in seoGets : CarregarRespondido(r)
  <2>1. PICK r \in seoGets : CarregarRespondido(r)
    BY <1>3
  <2>2. seoVista' \in Visoes
    BY <2>1, ServidorVisto DEF TiposSeo, TipoSeoVista, CarregarRespondido
  <2>3. TipoSeoVista'
    <3>1. seoErro' = seoErro /\ seoGets' \subseteq seoGets /\ seoDescompasso' \in BOOLEAN
      BY <2>1 DEF CarregarRespondido
    <3> QED BY <2>2, <3>1 DEF TiposSeo, TipoSeoVista
  <2>4. TipoSeoEdicao'
    <3>1. seoVista' # VisaoNula
      BY <2>2 DEF Visoes, VisaoNula, FasesSeo
    <3> QED BY <1>1, <3>1 DEF TiposSeo, TipoSeoEdicao, edicaoSeoVars
  <2>5. VistaEmDia'
    <3> SUFFICES ASSUME seoFluxo' = "fim", ~seoDescompasso'
                 PROVE  /\ seoVista'.crawl = CrawlDe(envios[seguindo])
                        /\ seoVista'.fase = seoFase
                        /\ seoVista'.item = seoItem
      BY <1>1, <2>2 DEF VistaEmDia, servidorSeoVars, envioSeoVars
    <3>1. seoFluxo = "fim" /\ seoVista' = Servidor
      BY <1>1, <2>1 DEF CarregarRespondido, envioSeoVars
    <3> QED BY <3>1, ServidorNoFim
  <2> QED BY <1>2, <2>3, <2>4, <2>5 DEF TiposSeo
<1>4. CASE \E r \in seoGets : CarregarPerdido(r)
  <2>1. seoVista' = seoVista /\ seoErro' = TRUE /\ seoGets' \subseteq seoGets
        /\ seoDescompasso' = TRUE
    BY <1>4 DEF CarregarPerdido
  <2>2. TipoSeoVista' /\ TipoSeoEdicao' /\ VistaEmDia'
    BY <1>1, <2>1 DEF TiposSeo, TipoSeoVista, TipoSeoEdicao, VistaEmDia, edicaoSeoVars
  <2> QED BY <1>2, <2>2 DEF TiposSeo
<1>5. CASE PollCrawl
  <2>1. UNCHANGED <<seoVista, seoErro, seoDescompasso>> /\ seoGets' \subseteq Visoes
    BY <1>5, CarregarVisto DEF PollCrawl, TiposSeo, TipoSeoVista
  <2>2. seoGets' = {} => seoGets = {}
    BY <1>5 DEF PollCrawl, Carregar
  <2>3. TipoSeoVista' /\ TipoSeoEdicao'
    BY <1>1, <2>1 DEF TiposSeo, TipoSeoVista, TipoSeoEdicao, edicaoSeoVars
  <2>4. VistaEmDia'
    BY <1>1, <2>1, <2>2 DEF VistaEmDia, edicaoSeoVars, servidorSeoVars, envioSeoVars
  <2> QED BY <1>2, <2>3, <2>4 DEF TiposSeo
<1> QED BY <1>3, <1>4, <1>5 DEF LerSeo

\* The packages: the page's own follows the newest.
LEMMA EnviarPacoteMantem == IndSeo /\ EnviarPacote => IndSeo'
<1> SUFFICES ASSUME IndSeo, EnviarPacote
             PROVE  IndSeo'
  OBVIOUS
<1> USE DEF IndSeo
<1>1. CASE HandleUpload \/ UploadRecusado
  <2>1. /\ UNCHANGED <<parteSeo, formSeoVars, servidorSeoVars, vistaSeoVars, etapaSSE,
                       seguindo, seoFluxo, edicaoSeoVars, seoDescompasso>>
        /\ enviandoPacote' \in BOOLEAN
    BY <1>1 DEF HandleUpload, UploadRecusado
  <2>2. TipoSeoForm' /\ TipoSeoServidor' /\ TipoSeoVista' /\ TipoSeoEdicao'
    BY <2>1 DEF TiposSeo, TipoSeoForm, TipoSeoServidor, TipoSeoVista, TipoSeoEdicao,
           formSeoVars, servidorSeoVars, vistaSeoVars, edicaoSeoVars
  <2>3. TipoSeoEnvio'
    BY <2>1 DEF TiposSeo, TipoSeoEnvio
  <2>4. UltimoSeguido' /\ VistaEmDia'
    BY <2>1 DEF UltimoSeguido, VistaEmDia, servidorSeoVars, vistaSeoVars, edicaoSeoVars
  <2> QED BY <2>2, <2>3, <2>4 DEF TiposSeo
<1>2. ASSUME NEW n \in Envios, UploadAceito(n)
      PROVE  IndSeo'
  <2>1. UNCHANGED <<parteSeo, formSeoVars, seoFase, seoItem, vistaSeoVars, edicaoSeoVars,
                    seoDescompasso>>
    BY <1>2 DEF UploadAceito
  <2>2. /\ \A m \in Envios : envios'[m] = IF m = n THEN "sem_commit" ELSE envios[m]
        /\ envios' \in [Envios -> StatusEnvio]
    BY <1>2 DEF UploadAceito, TiposSeo, TipoSeoServidor, StatusEnvio
  <2>3. seguindo' = n /\ seoFluxo' = "ligado" /\ enviandoPacote' = FALSE /\ etapaSSE' = TRUE
    BY <1>2 DEF UploadAceito
  <2>4. TipoSeoForm' /\ TipoSeoServidor' /\ TipoSeoVista' /\ TipoSeoEdicao'
    BY <2>1, <2>2 DEF TiposSeo, TipoSeoForm, TipoSeoServidor, TipoSeoVista,
           TipoSeoEdicao, formSeoVars, vistaSeoVars, edicaoSeoVars
  <2>5. TipoSeoEnvio'
    <3>1. seguindo' \in 0..MaxEnvios
      BY <2>3, PaginaSeoAssumption DEF Envios
    <3> QED BY <2>3, <3>1 DEF TipoSeoEnvio
  <2>6. UltimoSeguido'
    <3>1. envios[n] = "livre" /\ \A m \in Envios : m < n => envios[m] # "livre"
      BY <1>2 DEF UploadAceito
    <3>2. n > seguindo
      BY <3>1 DEF UltimoSeguido
    <3>3. ASSUME NEW m \in Envios
          PROVE  envios'[m] = "livre" <=> m > n
      <4>1. CASE m > n
        BY <2>2, <3>2, <4>1, PaginaSeoAssumption
           DEF UltimoSeguido, Envios, TiposSeo, TipoSeoEnvio
      <4>2. CASE m = n
        BY <2>2, <4>2 DEF Envios
      <4>3. CASE m < n
        BY <2>2, <3>1, <4>3 DEF Envios
      <4> QED BY <4>1, <4>2, <4>3 DEF Envios
    <3> QED BY <2>3, <3>3 DEF UltimoSeguido
  <2>7. VistaEmDia'
    BY <2>3 DEF VistaEmDia
  <2> QED BY <2>4, <2>5, <2>6, <2>7 DEF TiposSeo
<1>3. ASSUME NEW n \in Envios, EnvioConfirmado(n) \/ EnvioPerdido(n)
      PROVE  IndSeo'
  <2>1. /\ UNCHANGED <<parteSeo, formSeoVars, seoFase, seoItem, vistaSeoVars,
                       envioSeoVars, edicaoSeoVars, seoDescompasso>>
        /\ envios[n] = "sem_commit"
    BY <1>3 DEF EnvioConfirmado, EnvioPerdido
  <2>2. /\ \A m \in Envios : m # n => envios'[m] = envios[m]
        /\ envios'[n] \in {"recebido", "perdido"}
        /\ envios' \in [Envios -> StatusEnvio]
    BY <1>3 DEF EnvioConfirmado, EnvioPerdido, TiposSeo, TipoSeoServidor, StatusEnvio
  <2>3. /\ TipoSeoForm' /\ TipoSeoServidor' /\ TipoSeoVista' /\ TipoSeoEnvio'
        /\ TipoSeoEdicao'
    BY <2>1, <2>2 DEF TiposSeo, TipoSeoForm, TipoSeoServidor, TipoSeoVista,
           TipoSeoEnvio, TipoSeoEdicao, formSeoVars, vistaSeoVars, envioSeoVars,
           edicaoSeoVars
  <2>4. seoFluxo = "fim" => seguindo \in Envios /\ envios'[seguindo] = envios[seguindo]
    BY <2>1, <2>2 DEF UltimoSeguido
  <2>5. UltimoSeguido'
    <3>1. \A m \in Envios : envios'[m] = "livre" <=> envios[m] = "livre"
      BY <2>1, <2>2
    <3> QED BY <2>1, <2>4, <3>1 DEF UltimoSeguido, envioSeoVars
  <2>6. VistaEmDia'
    BY <2>1, <2>4 DEF VistaEmDia, vistaSeoVars, envioSeoVars, edicaoSeoVars
  <2> QED BY <2>3, <2>5, <2>6 DEF TiposSeo
<1>4. ASSUME NEW n \in Envios, ProcessarEnvio(n)
      PROVE  IndSeo'
  <2>1. UNCHANGED <<parteSeo, formSeoVars, seoItem, vistaSeoVars, envioSeoVars, avancando,
                    editando, itemNovo>>
    BY <1>4 DEF ProcessarEnvio
  <2>2. PICK s \in PassoDoEnvio(envios[n]) :
          /\ envios' = [envios EXCEPT ![n] = s]
          /\ seoFase' = IF s = "persistido" /\ seoFase = "implementacao" THEN "after"
                        ELSE seoFase
    BY <1>4 DEF ProcessarEnvio
  <2>3. /\ s \in {"processando", "persistido", "falhou", "concluida"}
        /\ envios[n] \in {"recebido", "processando", "persistido"}
    BY DEF PassoDoEnvio
  <2>4. /\ \A m \in Envios : envios'[m] = IF m = n THEN s ELSE envios[m]
        /\ envios' \in [Envios -> StatusEnvio]
    BY <2>2, <2>3 DEF TiposSeo, TipoSeoServidor, StatusEnvio
  <2>5. seoFase' \in FasesSeo
    BY <2>2 DEF TiposSeo, TipoSeoServidor, FasesSeo
  <2>6. /\ faseNova' = IF avancando = "nada" THEN seoFase' ELSE faseNova
        /\ seoDescompasso' = (seoDescompasso \/ n # seguindo)
    BY <1>4 DEF ProcessarEnvio
  <2>7. TipoSeoServidor' /\ TipoSeoForm' /\ TipoSeoEnvio'
    BY <2>1, <2>4, <2>5 DEF TiposSeo, TipoSeoServidor, TipoSeoForm, TipoSeoEnvio,
           formSeoVars, envioSeoVars
  <2>8. TipoSeoVista'
    BY <2>1, <2>6 DEF TiposSeo, TipoSeoVista, vistaSeoVars
  <2>9. TipoSeoEdicao'
    <3>1. faseNova' \in FasesSeo
      BY <2>5, <2>6 DEF TiposSeo, TipoSeoEdicao
    <3> QED BY <2>1, <3>1 DEF TiposSeo, TipoSeoEdicao, vistaSeoVars
  <2>10. UltimoSeguido'
    <3>1. \A m \in Envios : envios'[m] = "livre" <=> envios[m] = "livre"
      BY <2>3, <2>4
    <3>2. seoFluxo = "fim" => n # seguindo
      BY <2>3 DEF UltimoSeguido
    <3> QED BY <2>1, <2>4, <3>1, <3>2 DEF UltimoSeguido, envioSeoVars
  <2>11. VistaEmDia'
    <3>1. seoFluxo = "fim" => n # seguindo
      BY <2>3 DEF UltimoSeguido
    <3> QED BY <2>1, <2>6, <3>1 DEF VistaEmDia, envioSeoVars
  <2> QED BY <2>7, <2>8, <2>9, <2>10, <2>11 DEF TiposSeo
<1>5. CASE FluxoSeoFim
  <2>1. /\ UNCHANGED <<parteSeo, formSeoVars, servidorSeoVars, seoVista, seoErro,
                       enviandoPacote, seguindo, edicaoSeoVars, seoDescompasso>>
        /\ etapaSSE' = FALSE /\ seoFluxo' = "fim"
        /\ seoFluxo = "ligado"
        /\ envios[seguindo] \in {"concluida", "falhou"}
        /\ Carregar(seoGets)
    BY <1>5 DEF FluxoSeoFim, AoFalhar
  <2>2. seoGets' = seoGets \cup {Servidor}
    BY <1>5, <2>1 DEF FluxoSeoFim, Carregar
  <2>3. seoGets' \subseteq Visoes
    BY <2>1, CarregarVisto DEF TiposSeo, TipoSeoVista
  <2>4. TipoSeoForm' /\ TipoSeoServidor' /\ TipoSeoEnvio' /\ TipoSeoEdicao'
    BY <2>1 DEF TiposSeo, TipoSeoForm, TipoSeoServidor, TipoSeoEnvio, TipoSeoEdicao,
           formSeoVars, servidorSeoVars, edicaoSeoVars
  <2>5. TipoSeoVista'
    BY <2>1, <2>3 DEF TiposSeo, TipoSeoVista
  <2>6. UltimoSeguido'
    BY <2>1 DEF UltimoSeguido, servidorSeoVars
  <2>7. VistaEmDia'
    BY <2>2 DEF VistaEmDia
  <2> QED BY <2>4, <2>5, <2>6, <2>7 DEF TiposSeo
<1>6. CASE FluxoSeoDesistiu
  <2>1. /\ UNCHANGED <<parteSeo, formSeoVars, servidorSeoVars, vistaSeoVars,
                       enviandoPacote, etapaSSE, seguindo, edicaoSeoVars, seoDescompasso>>
        /\ seoFluxo = "ligado" /\ seoFluxo' = "desistiu"
    BY <1>6 DEF FluxoSeoDesistiu
  <2>2. /\ TipoSeoForm' /\ TipoSeoServidor' /\ TipoSeoVista' /\ TipoSeoEnvio'
        /\ TipoSeoEdicao'
    BY <2>1 DEF TiposSeo, TipoSeoForm, TipoSeoServidor, TipoSeoVista, TipoSeoEnvio,
           TipoSeoEdicao, formSeoVars, servidorSeoVars, vistaSeoVars, edicaoSeoVars
  <2>3. UltimoSeguido' /\ VistaEmDia'
    BY <2>1 DEF UltimoSeguido, VistaEmDia, servidorSeoVars
  <2> QED BY <2>2, <2>3 DEF TiposSeo
<1> QED BY <1>1, <1>2, <1>3, <1>4, <1>5, <1>6 DEF EnviarPacote

\* The phase: between the PATCH and its commit the page may show the other one.
LEMMA AvancarSeoMantem == IndSeo /\ AvancarSeo => IndSeo'
<1> SUFFICES ASSUME IndSeo, AvancarSeo
             PROVE  IndSeo'
  OBVIOUS
<1> USE DEF IndSeo
<1>1. UNCHANGED <<parteSeo, formSeoVars, seoItem, envios, seoErro, seoGets, envioSeoVars,
                  editando, itemNovo>>
  BY DEF AvancarSeo, HandleAvancarFase, FaseAceita, FaseConfirmada, FaseRelida,
         FaseSemResposta, servidorSeoVars, vistaSeoVars, edicaoSeoVars
<1>2. TipoSeoForm' /\ TipoSeoEnvio' /\ UltimoSeguido'
  BY <1>1 DEF TiposSeo, TipoSeoForm, TipoSeoEnvio, UltimoSeguido, formSeoVars,
         envioSeoVars
<1>3. CASE HandleAvancarFase
  <2>1. /\ UNCHANGED <<seoFase, seoVista, seoDescompasso>>
        /\ avancando = "nada" /\ avancando' = "patch"
    BY <1>3 DEF HandleAvancarFase, servidorSeoVars, vistaSeoVars
  <2>2. faseNova' \in FasesSeo
    <3>1. \E f \in FasesSeo : <<seoVista.fase, f>> \in TransicoesManuais
      BY <1>3 DEF HandleAvancarFase, TransicoesManuais, FasesSeo
    <3> QED BY <1>3, <3>1 DEF HandleAvancarFase
  <2>3. TipoSeoServidor' /\ TipoSeoVista'
    BY <1>1, <2>1 DEF TiposSeo, TipoSeoServidor, TipoSeoVista
  <2>4. TipoSeoEdicao'
    BY <1>1, <2>1, <2>2 DEF TiposSeo, TipoSeoEdicao
  <2>5. VistaEmDia'
    BY <1>1, <2>1 DEF VistaEmDia, envioSeoVars
  <2> QED BY <1>2, <2>3, <2>4, <2>5 DEF TiposSeo
<1>4. CASE FaseAceita
  <2>1. /\ UNCHANGED <<seoFase, seoVista, seoDescompasso, faseNova>>
        /\ avancando' = "get"
    BY <1>4 DEF FaseAceita, servidorSeoVars, vistaSeoVars
  <2>2. TipoSeoServidor' /\ TipoSeoVista' /\ TipoSeoEdicao'
    BY <1>1, <2>1 DEF TiposSeo, TipoSeoServidor, TipoSeoVista, TipoSeoEdicao
  <2>3. VistaEmDia'
    BY <1>1, <2>1 DEF VistaEmDia, envioSeoVars
  <2> QED BY <1>2, <2>2, <2>3 DEF TiposSeo
<1>5. CASE FaseConfirmada
  <2>1. /\ UNCHANGED <<seoVista, seoDescompasso, faseNova, avancando>>
        /\ seoFase' = faseNova /\ avancando = "get"
    BY <1>5 DEF FaseConfirmada, vistaSeoVars, edicaoSeoVars
  <2>2. TipoSeoServidor' /\ TipoSeoVista' /\ TipoSeoEdicao'
    BY <1>1, <2>1 DEF TiposSeo, TipoSeoServidor, TipoSeoVista, TipoSeoEdicao
  <2>3. VistaEmDia'
    BY <1>1, <2>1 DEF VistaEmDia, envioSeoVars
  <2> QED BY <1>2, <2>2, <2>3 DEF TiposSeo
<1>6. CASE FaseRelida
  <2>1. /\ seoVista' = Servidor /\ seoFase' = faseNova /\ faseNova' = faseNova
        /\ avancando' = "nada"
        /\ seoDescompasso' = (seoFase # faseNova \/ editando # "nada" \/ seoGets # {})
    BY <1>6 DEF FaseRelida
  <2>2. seoVista' \in Visoes /\ seoVista' # VisaoNula
    <3>1. seoVista' \in Visoes
      BY <2>1, ServidorVisto DEF TiposSeo
    <3> QED BY <3>1 DEF Visoes, VisaoNula, FasesSeo
  <2>3. TipoSeoServidor' /\ TipoSeoEdicao'
    BY <1>1, <2>1, <2>2 DEF TiposSeo, TipoSeoServidor, TipoSeoEdicao
  <2>4. TipoSeoVista'
    BY <1>1, <2>1, <2>2 DEF TiposSeo, TipoSeoVista
  <2>5. VistaEmDia'
    <3> SUFFICES ASSUME seoFluxo' = "fim", ~seoDescompasso'
                 PROVE  /\ seoVista'.crawl = CrawlDe(envios[seguindo])
                        /\ seoVista'.fase = seoFase'
                        /\ seoVista'.item = seoItem
      BY <1>1, <2>2 DEF VistaEmDia, envioSeoVars
    <3>1. seoFluxo = "fim" /\ seoFase' = seoFase
      BY <1>1, <2>1 DEF envioSeoVars
    <3> QED BY <2>1, <3>1, ServidorNoFim
  <2> QED BY <1>2, <2>3, <2>4, <2>5 DEF TiposSeo
<1>7. CASE FaseSemResposta
  <2>1. /\ UNCHANGED seoVista
        /\ avancando' = "nada" /\ faseNova' = seoFase'
        /\ seoFase' \in {seoFase, faseNova}
        /\ seoDescompasso' = (seoDescompasso \/ seoFase' # seoFase \/ avancando = "get")
    BY <1>7 DEF FaseSemResposta, vistaSeoVars
  <2>2. seoFase' \in FasesSeo
    BY <2>1 DEF TiposSeo, TipoSeoServidor, TipoSeoEdicao
  <2>3. TipoSeoServidor' /\ TipoSeoEdicao'
    BY <1>1, <2>1, <2>2 DEF TiposSeo, TipoSeoServidor, TipoSeoEdicao
  <2>4. TipoSeoVista'
    BY <1>1, <2>1 DEF TiposSeo, TipoSeoVista
  <2>5. VistaEmDia'
    BY <1>1, <2>1 DEF VistaEmDia, envioSeoVars
  <2> QED BY <1>2, <2>3, <2>4, <2>5 DEF TiposSeo
<1> QED BY <1>3, <1>4, <1>5, <1>6, <1>7 DEF AvancarSeo

\* The items, in the same way.
LEMMA EditarSeoMantem == IndSeo /\ EditarSeo => IndSeo'
<1> SUFFICES ASSUME IndSeo, EditarSeo
             PROVE  IndSeo'
  OBVIOUS
<1> USE DEF IndSeo
<1>1. UNCHANGED <<parteSeo, formSeoVars, seoFase, envios, seoErro, seoGets, envioSeoVars,
                  avancando, faseNova>>
  BY DEF EditarSeo, HandleEditarItem, ItemRespondido, ItemConfirmado, ItemSemResposta,
         servidorSeoVars, vistaSeoVars
<1>2. TipoSeoForm' /\ TipoSeoEnvio' /\ UltimoSeguido'
  BY <1>1 DEF TiposSeo, TipoSeoForm, TipoSeoEnvio, UltimoSeguido, formSeoVars,
         envioSeoVars
<1>3. CASE HandleEditarItem
  <2>1. /\ UNCHANGED <<seoItem, seoVista, seoDescompasso>>
        /\ editando = "nada" /\ editando' = "patch" /\ itemNovo' \in BOOLEAN
        /\ seoVista # VisaoNula
    BY <1>3 DEF HandleEditarItem, servidorSeoVars, vistaSeoVars
  <2>2. TipoSeoServidor' /\ TipoSeoEdicao'
    BY <1>1, <2>1 DEF TiposSeo, TipoSeoServidor, TipoSeoEdicao
  <2>3. TipoSeoVista'
    BY <1>1, <2>1 DEF TiposSeo, TipoSeoVista
  <2>4. VistaEmDia'
    BY <1>1, <2>1 DEF VistaEmDia, envioSeoVars
  <2> QED BY <1>2, <2>2, <2>3, <2>4 DEF TiposSeo
<1>4. CASE ItemRespondido
  <2>1. /\ UNCHANGED <<seoItem, seoDescompasso, itemNovo>>
        /\ editando = "patch" /\ editando' = "commit"
        /\ seoVista' = [seoVista EXCEPT !.item = itemNovo]
    BY <1>4 DEF ItemRespondido, servidorSeoVars
  <2>2. seoVista \in Visoes /\ seoVista # VisaoNula
    BY <2>1 DEF TiposSeo, TipoSeoEdicao, TipoSeoVista
  <2>3. /\ seoVista' \in Visoes
        /\ seoVista'.fase = seoVista.fase /\ seoVista'.crawl = seoVista.crawl
    BY <2>1, <2>2 DEF Visoes, TiposSeo, TipoSeoEdicao
  <2>4. seoVista' # VisaoNula
    BY <2>3 DEF Visoes, VisaoNula, FasesSeo
  <2>5. TipoSeoServidor' /\ TipoSeoEdicao'
    BY <1>1, <2>1, <2>4 DEF TiposSeo, TipoSeoServidor, TipoSeoEdicao
  <2>6. TipoSeoVista'
    BY <1>1, <2>1, <2>3 DEF TiposSeo, TipoSeoVista
  <2>7. VistaEmDia'
    BY <1>1, <2>1, <2>3 DEF VistaEmDia, envioSeoVars
  <2> QED BY <1>2, <2>5, <2>6, <2>7 DEF TiposSeo
<1>5. CASE ItemConfirmado
  <2>1. /\ UNCHANGED <<seoVista, itemNovo>>
        /\ editando = "commit" /\ editando' = "nada" /\ seoItem' = itemNovo
        /\ seoDescompasso' = (seoDescompasso \/ seoVista.item # itemNovo)
    BY <1>5 DEF ItemConfirmado, vistaSeoVars
  <2>2. TipoSeoServidor' /\ TipoSeoEdicao'
    BY <1>1, <2>1 DEF TiposSeo, TipoSeoServidor, TipoSeoEdicao
  <2>3. TipoSeoVista'
    BY <1>1, <2>1 DEF TiposSeo, TipoSeoVista
  <2>4. VistaEmDia'
    BY <1>1, <2>1 DEF VistaEmDia, envioSeoVars
  <2> QED BY <1>2, <2>2, <2>3, <2>4 DEF TiposSeo
<1>6. CASE ItemSemResposta
  <2>1. /\ UNCHANGED <<seoVista, itemNovo>>
        /\ editando = "patch" /\ editando' = "nada" /\ seoItem' \in {seoItem, itemNovo}
        /\ seoDescompasso' = (seoDescompasso \/ seoItem' # seoItem)
    BY <1>6 DEF ItemSemResposta, vistaSeoVars
  <2>2. TipoSeoServidor' /\ TipoSeoEdicao'
    BY <1>1, <2>1 DEF TiposSeo, TipoSeoServidor, TipoSeoEdicao
  <2>3. TipoSeoVista'
    BY <1>1, <2>1 DEF TiposSeo, TipoSeoVista
  <2>4. VistaEmDia'
    BY <1>1, <2>1 DEF VistaEmDia, envioSeoVars
  <2> QED BY <1>2, <2>2, <2>3, <2>4 DEF TiposSeo
<1> QED BY <1>3, <1>4, <1>5, <1>6 DEF EditarSeo

LEMMA NextIndSeo == IndSeo /\ [NextSeo]_seoVars => IndSeo'
<1>1. IndSeo /\ UNCHANGED seoVars => IndSeo'
  BY DEF IndSeo, TiposSeo, TipoSeoForm, TipoSeoServidor, TipoSeoVista, TipoSeoEnvio,
         TipoSeoEdicao, UltimoSeguido, VistaEmDia, seoVars, formSeoVars,
         servidorSeoVars, envioSeoVars, edicaoSeoVars, vistaSeoVars
<1> QED BY <1>1, FormularioSeoMantem, LerSeoMantem, EnviarPacoteMantem, AvancarSeoMantem,
           EditarSeoMantem DEF NextSeo

LEMMA IndSeoBasta == IndSeo => SeoTypeOK /\ SeoConverge
<1> SUFFICES ASSUME IndSeo
             PROVE  SeoTypeOK /\ SeoConverge
  OBVIOUS
<1>1. SeoTypeOK
  BY DEF IndSeo, TiposSeo, TipoSeoForm, TipoSeoServidor, TipoSeoVista, TipoSeoEnvio,
         TipoSeoEdicao, SeoTypeOK
<1>2. SeoConverge
  <2> SUFFICES ASSUME seoFluxo = "fim", seoGets = {}, avancando = "nada",
                      editando = "nada", ~seoDescompasso
               PROVE  seoVista = Servidor
    BY DEF SeoConverge
  <2>1. /\ seoVista \in Visoes
        /\ seoVista.crawl = CrawlDe(envios[seguindo])
        /\ seoVista.fase = seoFase /\ seoVista.item = seoItem
    BY DEF IndSeo, VistaEmDia
  <2>2. Servidor = [fase |-> seoFase, item |-> seoItem,
                    crawl |-> CrawlDe(envios[seguindo])]
    BY ServidorNoFim DEF IndSeo
  <2> QED BY <2>1, <2>2 DEF Visoes
<1> QED BY <1>1, <1>2

LEMMA SempreIndSeo == SpecSeo => []IndSeo
BY InitIndSeo, NextIndSeo, PTL DEF SpecSeo

\* seotec-auditoria-client.tsx:133-140: once the stream of the last package is
\* over and nothing is on its way, the page shows what the server has, for any
\* number of packages and of readings.
THEOREM SeoMostraOServidor == SpecSeo => [](SeoTypeOK /\ SeoConverge)
BY SempreIndSeo, IndSeoBasta, PTL

-----------------------------------------------------------------------------
(* The histories: the types, and that once the answers are in the page     *)
(* shows what it was last asked for.                                       *)

TipoHistLista ==
  /\ parteHist \in {"execucoes", "cwv", "parecer", "url"}
  /\ linhasSrv \subseteq Linhas
  /\ linhas \subseteq Linhas
  /\ vistas \subseteq Linhas
  /\ totalHist \in 0..MaxLinhas
  /\ offset \in Nat
  /\ cliques \in 0..MaxCliques
  /\ erroHist \in BOOLEAN
  /\ pedidosHist \subseteq (0..MaxCliques) \X Nat

TipoHistFiltro ==
  /\ filtro \in FiltrosParecer
  /\ filtrada \in FiltrosParecer \cup {"nada"}
  /\ filtros \subseteq FiltrosParecer
  /\ trocas \in 0..MaxTrocas
  /\ mudou \in BOOLEAN

TipoHistUrl ==
  /\ quantas \in [Estrategias -> 0..2]
  /\ irma \in {"pedida", "ha", "nao"}
  /\ estrategia \in Estrategias
  /\ evolucao \in Estrategias \cup {"nada"}
  /\ evolucaoPedida \in Estrategias \cup {"nada"}
  /\ comparada \in Estrategias \cup {"nada"}
  /\ comparando \subseteq Estrategias

\* The filter has been asked for or is the one that is shown.
FiltroPedido == ~mudou /\ filtro \notin filtros => filtrada = filtro

\* So has the strategy, and the comparison of the analysis shown.
EvolucaoSeguida ==
  /\ evolucaoPedida # "nada" => evolucaoPedida = estrategia
  /\ ~mudou /\ evolucaoPedida = "nada" => evolucao = estrategia

ComparacaoSeguida ==
  /\ irma = "pedida" => estrategia = "mobile"
  /\ (/\ ~mudou /\ irma # "pedida" /\ QuantasDe(evolucao) > 0
      /\ Exibida(estrategia, irma) \notin comparando) =>
       comparada = Exibida(estrategia, irma)

\* The first k rows.
Primeiras(k) == {r \in linhasSrv : Posicao(r) < k}

\* Nothing has been answered yet.
NadaRespondido ==
  pedidosHist = {<<0, 0>>} /\ vistas = {} /\ linhas = {} /\ offset = 0 /\ cliques = 0

\* Of the executions a page after the other was shown, and the next one, if any,
\* is on its way.
ExecucoesVistas ==
  /\ vistas = Primeiras(offset + Limite)
  /\ \/ pedidosHist = {}
     \/ cliques > 0 /\ pedidosHist = {<<cliques, offset + Limite>>}

\* Of the URLs as many pages as there were clicks, and the first one.
UrlsVistas ==
  /\ vistas = linhas
  /\ totalHist = Cardinality(linhasSrv)
  /\ \/ pedidosHist = {} /\ linhas = Primeiras(Limite * (cliques + 1))
     \/ /\ cliques > 0
        /\ pedidosHist = {<<cliques, Limite * cliques>>}
        /\ linhas = Primeiras(Limite * cliques)

ListaSeguida ==
  parteHist \in {"execucoes", "cwv"} /\ ~mudou =>
    /\ linhasSrv = 1..(MaxLinhas - 1)
    /\ erroHist = FALSE
    /\ \/ NadaRespondido
       \/ parteHist = "execucoes" /\ ExecucoesVistas
       \/ parteHist = "cwv" /\ UrlsVistas

TiposHistorico == TipoHistLista /\ TipoHistFiltro /\ TipoHistUrl

IndHistorico ==
  TiposHistorico /\ FiltroPedido /\ EvolucaoSeguida /\ ComparacaoSeguida /\ ListaSeguida

LEMMA PosicaoNatural ==
  ASSUME TipoHistLista, NEW r
  PROVE  Posicao(r) \in Nat
<1>1. IsFiniteSet(Linhas)
  BY PaginaHistoricoAssumption, FS_Interval DEF Linhas
<1>2. {q \in linhasSrv : IF parteHist = "execucoes" THEN q > r ELSE q < r} \subseteq Linhas
  BY DEF TipoHistLista
<1> QED BY <1>1, <1>2, FS_Subset, FS_CardinalityType DEF Posicao

\* A page after the rows before it.
LEMMA PaginaEmSeguida ==
  ASSUME TipoHistLista, NEW k \in Nat
  PROVE  /\ PaginaDe(0) = Primeiras(Limite)
         /\ Primeiras(k) \cup PaginaDe(k) = Primeiras(k + Limite)
<1>1. ASSUME NEW r \in linhasSrv
      PROVE  /\ Posicao(r) \in 0..(0 + Limite - 1) <=> Posicao(r) < Limite
             /\ Posicao(r) < k \/ Posicao(r) \in k..(k + Limite - 1) <=>
                  Posicao(r) < k + Limite
  BY PosicaoNatural, PaginaHistoricoAssumption
<1> QED BY <1>1 DEF PaginaDe, Primeiras

\* The URLs are numbered in the order of the list: as long as not all are shown,
\* the next page is asked for from where the last one ended.
LEMMA PrimeirasContadas ==
  ASSUME parteHist = "cwv", linhasSrv = 1..(MaxLinhas - 1), NEW k \in Nat,
         Cardinality(Primeiras(k)) < Cardinality(linhasSrv)
  PROVE  Cardinality(Primeiras(k)) = k
<1> DEFINE N == MaxLinhas - 1
<1>0. N \in Int
  BY PaginaHistoricoAssumption
<1>1. ASSUME NEW r \in 1..N
      PROVE  Posicao(r) = r - 1
  <2>1. {q \in 1..N : q < r} = 1..(r - 1)
    BY <1>0
  <2>2. Posicao(r) = Cardinality(1..(r - 1))
    BY <2>1 DEF Posicao
  <2> QED BY <2>2, FS_Interval
<1>2. Primeiras(k) = {r \in 1..N : r - 1 < k}
  BY <1>1 DEF Primeiras
<1>3. CASE k < N
  <2>1. Primeiras(k) = 1..k
    BY <1>0, <1>2, <1>3
  <2> QED BY <2>1, FS_Interval
<1>4. CASE ~(k < N)
  <2>1. Primeiras(k) = linhasSrv
    BY <1>0, <1>2, <1>4
  <2>2. Cardinality(linhasSrv) \in Int
    BY FS_Interval, <1>0
  <2> QED BY <2>1, <2>2
<1> QED BY <1>3, <1>4

LEMMA InitIndHistorico == InitHistorico => IndHistorico
<1> SUFFICES ASSUME InitHistorico
             PROVE  IndHistorico
  OBVIOUS
<1>1. TipoHistLista
  <2>1. linhasSrv \subseteq Linhas
    BY PaginaHistoricoAssumption DEF InitHistorico, Linhas
  <2>2. totalHist \in 0..MaxLinhas /\ cliques \in 0..MaxCliques /\ offset \in Nat
    BY PaginaHistoricoAssumption DEF InitHistorico
  <2>3. pedidosHist \subseteq (0..MaxCliques) \X Nat
    BY PaginaHistoricoAssumption DEF InitHistorico
  <2>4. parteHist \in {"execucoes", "cwv", "parecer", "url"}
    BY DEF InitHistorico
  <2>5. linhas \subseteq Linhas /\ vistas \subseteq Linhas /\ erroHist \in BOOLEAN
    BY DEF InitHistorico
  <2> QED BY <2>1, <2>2, <2>3, <2>4, <2>5 DEF TipoHistLista
<1>2. TipoHistFiltro
  <2>1. trocas \in 0..MaxTrocas
    BY PaginaHistoricoAssumption DEF InitHistorico
  <2> QED BY <2>1 DEF InitHistorico, TipoHistFiltro, FiltrosParecer
<1>3. TipoHistUrl
  BY DEF InitHistorico, TipoHistUrl, Estrategias
<1>4. FiltroPedido /\ EvolucaoSeguida /\ ComparacaoSeguida
  BY DEF InitHistorico, FiltroPedido, EvolucaoSeguida, ComparacaoSeguida, QuantasDe
<1>5. ListaSeguida
  BY DEF InitHistorico, ListaSeguida, NadaRespondido
<1> QED BY <1>1, <1>2, <1>3, <1>4, <1>5 DEF IndHistorico, TiposHistorico

\* The opinions.
LEMMA FiltrarMantem == IndHistorico /\ Filtrar => IndHistorico'
<1> SUFFICES ASSUME IndHistorico,
                    NEW f \in FiltrosParecer,
                    FiltrarPareceres(f) \/ PareceresRespondidos(f) \/ PareceresPerdidos(f)
             PROVE  IndHistorico'
  BY DEF Filtrar
<1> USE DEF IndHistorico
<1>1. UNCHANGED <<parteHist, listaHistVars, urlHistVars>> /\ (mudou => mudou')
      /\ mudou' \in BOOLEAN
  BY DEF FiltrarPareceres, PareceresRespondidos, PareceresPerdidos, TiposHistorico,
         TipoHistFiltro
<1>2. TipoHistLista' /\ TipoHistUrl'
  BY <1>1 DEF TiposHistorico, TipoHistLista, TipoHistUrl, listaHistVars, urlHistVars
<1>3. EvolucaoSeguida' /\ ComparacaoSeguida'
  BY <1>1 DEF EvolucaoSeguida, ComparacaoSeguida, QuantasDe, urlHistVars
<1>4. ListaSeguida'
  BY <1>1 DEF ListaSeguida, NadaRespondido, ExecucoesVistas, UrlsVistas, Primeiras,
         Posicao, listaHistVars
<1>5. TipoHistFiltro'
  <2>1. trocas' \in 0..MaxTrocas
    BY PaginaHistoricoAssumption DEF FiltrarPareceres, PareceresRespondidos,
       PareceresPerdidos, TiposHistorico, TipoHistFiltro
  <2>2. /\ filtro' \in FiltrosParecer
        /\ filtrada' \in FiltrosParecer \cup {"nada"}
        /\ filtros' \subseteq FiltrosParecer
    BY DEF FiltrarPareceres, PareceresRespondidos, PareceresPerdidos, TiposHistorico,
           TipoHistFiltro
  <2> QED BY <1>1, <2>1, <2>2 DEF TipoHistFiltro
<1>6. FiltroPedido'
  BY DEF FiltrarPareceres, PareceresRespondidos, PareceresPerdidos, FiltroPedido
<1> QED BY <1>2, <1>3, <1>4, <1>5, <1>6 DEF TiposHistorico

\* The dashboard of a URL.
LEMMA PainelMantem == IndHistorico /\ PainelDaUrl => IndHistorico'
<1> SUFFICES ASSUME IndHistorico, PainelDaUrl
             PROVE  IndHistorico'
  OBVIOUS
<1> USE DEF IndHistorico
<1>1. UNCHANGED <<parteHist, listaHistVars, filtroHistVars, quantas>> /\ (mudou => mudou')
      /\ mudou' \in BOOLEAN
  BY DEF PainelDaUrl, IrmaRespondida, EvolucaoRespondida, EvolucaoPerdida,
         TrocarEstrategia, ComparacaoRespondida, ComparacaoPerdida, TiposHistorico,
         TipoHistFiltro
<1>2. trocas' \in 0..MaxTrocas
  BY PaginaHistoricoAssumption
     DEF PainelDaUrl, IrmaRespondida, EvolucaoRespondida, EvolucaoPerdida,
         TrocarEstrategia, ComparacaoRespondida, ComparacaoPerdida, TiposHistorico,
         TipoHistFiltro
<1>3. TipoHistLista' /\ TipoHistFiltro'
  BY <1>1, <1>2 DEF TiposHistorico, TipoHistLista, TipoHistFiltro, listaHistVars,
         filtroHistVars
<1>4. FiltroPedido'
  BY <1>1 DEF FiltroPedido, filtroHistVars
<1>5. ListaSeguida'
  BY <1>1 DEF ListaSeguida, NadaRespondido, ExecucoesVistas, UrlsVistas, Primeiras,
         Posicao, listaHistVars
<1>6. \A e \in Estrategias, i \in {"pedida", "ha", "nao"} : Exibida(e, i) \in Estrategias
  BY DEF Exibida, Estrategias
<1>7. CASE IrmaRespondida
  <2>1. /\ UNCHANGED <<estrategia, evolucao, evolucaoPedida, comparada>>
        /\ irma = "pedida" /\ irma' \in {"ha", "nao"}
        /\ comparando' = IF QuantasDe(evolucao) > 0 THEN {"mobile"} ELSE {}
    BY <1>7 DEF IrmaRespondida
  <2>2. TipoHistUrl'
    BY <1>1, <2>1 DEF TiposHistorico, TipoHistUrl, Estrategias
  <2>3. EvolucaoSeguida'
    BY <1>1, <2>1 DEF EvolucaoSeguida
  <2>4. ComparacaoSeguida'
    <3>1. Exibida(estrategia', irma') = "mobile"
      BY <2>1 DEF ComparacaoSeguida, Exibida
    <3>2. QuantasDe(evolucao)' = QuantasDe(evolucao)
      BY <1>1, <2>1 DEF QuantasDe
    <3> QED BY <2>1, <3>1, <3>2 DEF ComparacaoSeguida
  <2> QED BY <1>3, <1>4, <1>5, <2>2, <2>3, <2>4 DEF TiposHistorico
<1>8. ASSUME NEW e \in Estrategias, TrocarEstrategia(e)
      PROVE  IndHistorico'
  <2>1. /\ UNCHANGED <<irma, evolucao, comparada, mudou>>
        /\ irma # "pedida"
        /\ estrategia' = e /\ evolucaoPedida' = e
        /\ comparando' =
             IF QuantasDe(evolucao) > 0 /\ Exibida(estrategia, irma) # Exibida(e, irma)
               THEN comparando \cup {Exibida(e, irma)} ELSE comparando
    BY <1>8 DEF TrocarEstrategia, PedeComparacao
  <2>2. TipoHistUrl'
    <3>1. comparando' \subseteq Estrategias
      BY <1>6, <2>1 DEF TiposHistorico, TipoHistUrl
    <3> QED BY <1>1, <2>1, <3>1 DEF TiposHistorico, TipoHistUrl
  <2>3. EvolucaoSeguida'
    BY <2>1 DEF EvolucaoSeguida, Estrategias
  <2>4. ComparacaoSeguida'
    <3>1. QuantasDe(evolucao)' = QuantasDe(evolucao)
      BY <1>1, <2>1 DEF QuantasDe
    <3> QED BY <2>1, <3>1 DEF ComparacaoSeguida
  <2> QED BY <1>3, <1>4, <1>5, <2>2, <2>3, <2>4 DEF TiposHistorico
<1>9. CASE EvolucaoRespondida
  <2>1. /\ UNCHANGED <<irma, estrategia, comparada, mudou>>
        /\ evolucaoPedida # "nada" /\ evolucaoPedida' = "nada"
        /\ evolucao' = evolucaoPedida
        /\ irma = "pedida" => UNCHANGED comparando
        /\ irma # "pedida" =>
             comparando' =
               IF QuantasDe(evolucaoPedida) > 0
                    /\ QuantasDe(evolucaoPedida) # QuantasDe(evolucao)
                 THEN comparando \cup {Exibida(estrategia, irma)} ELSE comparando
    BY <1>9 DEF EvolucaoRespondida, PedeComparacao
  <2>2. TipoHistUrl'
    <3>1. comparando' \subseteq Estrategias
      BY <1>6, <2>1 DEF TiposHistorico, TipoHistUrl
    <3> QED BY <1>1, <2>1, <3>1 DEF TiposHistorico, TipoHistUrl
  <2>3. EvolucaoSeguida'
    BY <2>1 DEF EvolucaoSeguida
  <2>4. ComparacaoSeguida'
    <3>1. QuantasDe(evolucao)' = QuantasDe(evolucaoPedida)
      BY <1>1, <2>1 DEF QuantasDe
    <3> QED BY <2>1, <3>1 DEF ComparacaoSeguida
  <2> QED BY <1>3, <1>4, <1>5, <2>2, <2>3, <2>4 DEF TiposHistorico
<1>10. CASE EvolucaoPerdida
  <2>1. /\ UNCHANGED <<irma, estrategia, evolucao, comparada, comparando>>
        /\ evolucaoPedida' = "nada" /\ mudou' = TRUE
    BY <1>10 DEF EvolucaoPerdida
  <2>2. TipoHistUrl' /\ EvolucaoSeguida' /\ ComparacaoSeguida'
    BY <1>1, <2>1 DEF TiposHistorico, TipoHistUrl, EvolucaoSeguida, ComparacaoSeguida
  <2> QED BY <1>3, <1>4, <1>5, <2>2 DEF TiposHistorico
<1>11. ASSUME NEW a \in Estrategias, ComparacaoRespondida(a)
       PROVE  IndHistorico'
  <2>1. /\ UNCHANGED <<irma, estrategia, evolucao, evolucaoPedida>>
        /\ a \in comparando /\ comparando' = comparando \ {a} /\ comparada' = a
        /\ mudou' = (mudou \/ Exibida(estrategia, irma) \notin comparando)
    BY <1>11 DEF ComparacaoRespondida
  <2>2. TipoHistUrl'
    BY <1>1, <2>1 DEF TiposHistorico, TipoHistUrl
  <2>3. EvolucaoSeguida'
    BY <2>1 DEF EvolucaoSeguida
  <2>4. ComparacaoSeguida'
    BY <2>1 DEF ComparacaoSeguida
  <2> QED BY <1>3, <1>4, <1>5, <2>2, <2>3, <2>4 DEF TiposHistorico
<1>12. ASSUME NEW a \in Estrategias, ComparacaoPerdida(a)
       PROVE  IndHistorico'
  <2>1. /\ UNCHANGED <<irma, estrategia, evolucao, evolucaoPedida, comparada>>
        /\ comparando' = comparando \ {a} /\ mudou' = TRUE
    BY <1>12 DEF ComparacaoPerdida
  <2>2. TipoHistUrl' /\ EvolucaoSeguida' /\ ComparacaoSeguida'
    BY <1>1, <2>1 DEF TiposHistorico, TipoHistUrl, EvolucaoSeguida, ComparacaoSeguida
  <2> QED BY <1>3, <1>4, <1>5, <2>2 DEF TiposHistorico
<1> QED BY <1>7, <1>8, <1>9, <1>10, <1>11, <1>12 DEF PainelDaUrl

\* The two lists: what is answered is where the rows shown end.
LEMMA ListarMantem == IndHistorico /\ ListarHistorico => IndHistorico'
<1> SUFFICES ASSUME IndHistorico, ListarHistorico
             PROVE  IndHistorico'
  OBVIOUS
<1> USE DEF IndHistorico
<1>1. UNCHANGED <<parteHist, filtroHistVars, trocas, urlHistVars>> /\ (mudou => mudou')
      /\ mudou' \in BOOLEAN
  BY DEF ListarHistorico, NovaLinha, CarregarMais, TentarNovamente, ListaRespondida,
         ListaPerdida, TiposHistorico, TipoHistFiltro
<1>2. TipoHistFiltro' /\ TipoHistUrl' /\ FiltroPedido'
  BY <1>1 DEF TiposHistorico, TipoHistFiltro, TipoHistUrl, FiltroPedido, filtroHistVars,
         urlHistVars
<1>3. EvolucaoSeguida' /\ ComparacaoSeguida'
  BY <1>1 DEF EvolucaoSeguida, ComparacaoSeguida, QuantasDe, urlHistVars
<1>4. TipoHistLista
  BY DEF TiposHistorico
<1>5. ASSUME NEW r \in Linhas, NovaLinha(r)
      PROVE  IndHistorico'
  <2>1. /\ UNCHANGED <<linhas, totalHist, offset, pedidosHist, cliques, erroHist, vistas>>
        /\ linhasSrv' = linhasSrv \cup {r} /\ mudou' = TRUE
    BY <1>5 DEF NovaLinha
  <2>2. TipoHistLista' /\ ListaSeguida'
    BY <1>1, <1>4, <2>1 DEF TipoHistLista, ListaSeguida
  <2> QED BY <1>2, <1>3, <2>2 DEF TiposHistorico
<1>6. CASE CarregarMais
  <2>1. /\ UNCHANGED <<linhasSrv, linhas, totalHist, offset, erroHist, vistas>>
        /\ cliques < MaxCliques /\ cliques' = cliques + 1
        /\ pedidosHist' = pedidosHist \cup {<<cliques', OffsetPedido>>}
        /\ mudou' = (mudou \/ pedidosHist # {})
        /\ linhas # {} /\ Cardinality(linhas) < totalHist
        /\ parteHist \in {"execucoes", "cwv"}
    BY <1>6 DEF CarregarMais, BotaoCarregarMais
  <2>2. cliques' \in 0..MaxCliques /\ cliques' > 0
    BY <1>4, <2>1, PaginaHistoricoAssumption DEF TipoHistLista
  <2>3. OffsetPedido \in Nat
    <3>1. IsFiniteSet(Linhas)
      BY PaginaHistoricoAssumption, FS_Interval DEF Linhas
    <3>2. Cardinality(linhas) \in Nat
      BY <1>4, <3>1, FS_Subset, FS_CardinalityType DEF TipoHistLista
    <3> QED BY <1>4, <3>2, PaginaHistoricoAssumption DEF OffsetPedido, TipoHistLista
  <2>4. TipoHistLista'
    <3>1. pedidosHist' \subseteq (0..MaxCliques) \X Nat
      BY <1>4, <2>1, <2>2, <2>3 DEF TipoHistLista
    <3> QED BY <1>1, <1>4, <2>1, <2>2, <3>1 DEF TipoHistLista
  <2>5. ListaSeguida'
    <3> SUFFICES ASSUME ~mudou'
                 PROVE  /\ linhasSrv' = 1..(MaxLinhas - 1)
                        /\ erroHist' = FALSE
                        /\ \/ parteHist = "execucoes" /\ ExecucoesVistas'
                           \/ parteHist = "cwv" /\ UrlsVistas'
      BY <1>1 DEF ListaSeguida
    <3>1. ~mudou /\ pedidosHist = {}
      BY <2>1
    <3>2. /\ linhasSrv = 1..(MaxLinhas - 1) /\ erroHist = FALSE
          /\ \/ parteHist = "execucoes" /\ ExecucoesVistas
             \/ parteHist = "cwv" /\ UrlsVistas
      BY <2>1, <3>1 DEF ListaSeguida, NadaRespondido
    <3>3. pedidosHist' = {<<cliques', OffsetPedido>>}
      BY <2>1, <3>1
    <3>4. CASE parteHist = "execucoes"
      <4>1. vistas = Primeiras(offset + Limite)
        BY <3>2, <3>4 DEF ExecucoesVistas
      <4>2. vistas' = Primeiras(offset + Limite)'
        BY <1>1, <2>1, <4>1 DEF Primeiras, Posicao
      <4>3. OffsetPedido = offset + Limite
        BY <3>4 DEF OffsetPedido
      <4> QED BY <2>1, <2>2, <3>2, <3>3, <3>4, <4>2, <4>3 DEF ExecucoesVistas
    <3>5. CASE parteHist = "cwv"
      <4> DEFINE K == Limite * (cliques + 1)
      <4>1. K \in Nat
        BY <1>4, PaginaHistoricoAssumption DEF TipoHistLista
      <4>2. linhas = Primeiras(K) /\ vistas = linhas /\ totalHist = Cardinality(linhasSrv)
        BY <3>1, <3>2, <3>5 DEF UrlsVistas
      <4>3. OffsetPedido = K
        <5>1. OffsetPedido = Cardinality(linhas)
          BY <3>5 DEF OffsetPedido
        <5> HIDE DEF K
        <5>2. Cardinality(Primeiras(K)) = K
          BY <2>1, <3>2, <3>5, <4>1, <4>2, PrimeirasContadas
        <5> QED BY <4>2, <5>1, <5>2
      <4>4. K = Limite * cliques'
        BY <2>1
      <4>5. linhas' = Primeiras(Limite * cliques)'
        BY <1>1, <2>1, <4>2, <4>4 DEF Primeiras, Posicao
      <4>6. pedidosHist' = {<<cliques', Limite * cliques'>>}
        BY <3>3, <4>3, <4>4
      <4> QED BY <2>1, <2>2, <3>2, <3>5, <4>2, <4>5, <4>6 DEF UrlsVistas
    <3> QED BY <2>1, <3>2, <3>4, <3>5
  <2> QED BY <1>2, <1>3, <2>4, <2>5 DEF TiposHistorico
<1>7. CASE TentarNovamente
  <2>1. /\ UNCHANGED <<linhasSrv, linhas, totalHist, offset, cliques, vistas, mudou>>
        /\ erroHist /\ erroHist' = FALSE
        /\ pedidosHist' = pedidosHist \cup {<<0, 0>>}
        /\ parteHist \in {"execucoes", "cwv"}
    BY <1>7 DEF TentarNovamente
  <2>2. TipoHistLista'
    <3>1. pedidosHist' \subseteq (0..MaxCliques) \X Nat
      BY <1>4, <2>1, PaginaHistoricoAssumption DEF TipoHistLista
    <3> QED BY <1>1, <1>4, <2>1, <3>1 DEF TipoHistLista
  <2>3. ListaSeguida'
    BY <2>1 DEF ListaSeguida
  <2> QED BY <1>2, <1>3, <2>2, <2>3 DEF TiposHistorico
<1>8. ASSUME NEW p \in pedidosHist, ListaPerdida(p)
      PROVE  IndHistorico'
  <2>1. /\ UNCHANGED <<linhasSrv, linhas, totalHist, cliques, vistas>>
        /\ erroHist' \in BOOLEAN /\ mudou' = TRUE
        /\ pedidosHist' \subseteq pedidosHist
        /\ offset' \in {offset, offset + Limite}
    BY <1>4, <1>8 DEF ListaPerdida, AvancarOffset, TipoHistLista
  <2>2. offset' \in Nat
    BY <1>4, <2>1, PaginaHistoricoAssumption DEF TipoHistLista
  <2>3. TipoHistLista' /\ ListaSeguida'
    BY <1>1, <1>4, <2>1, <2>2 DEF TipoHistLista, ListaSeguida
  <2> QED BY <1>2, <1>3, <2>3 DEF TiposHistorico
<1>9. ASSUME NEW p \in pedidosHist, ListaRespondida(p)
      PROVE  IndHistorico'
  <2>1. /\ UNCHANGED <<linhasSrv, cliques, mudou>>
        /\ parteHist \in {"execucoes", "cwv"}
        /\ pedidosHist' = pedidosHist \ {p}
        /\ linhas' = IF parteHist = "execucoes" \/ p[1] = 0 THEN PaginaDe(p[2])
                     ELSE linhas \cup PaginaDe(p[2])
        /\ vistas' = vistas \cup linhas'
        /\ totalHist' = Cardinality(linhasSrv)
        /\ erroHist' = IF p[1] = 0 THEN FALSE ELSE erroHist
        /\ offset' = IF parteHist = "execucoes" /\ p[1] # 0 THEN offset + Limite ELSE offset
    BY <1>9 DEF ListaRespondida, AvancarOffset
  <2>2. TipoHistLista'
    <3>1. linhas' \subseteq Linhas
      BY <1>4, <2>1 DEF TipoHistLista, PaginaDe
    <3>2. vistas' \subseteq Linhas
      BY <1>4, <2>1, <3>1 DEF TipoHistLista
    <3>3. totalHist' \in 0..MaxLinhas
      <4>1. IsFiniteSet(Linhas) /\ Cardinality(Linhas) = MaxLinhas
        BY PaginaHistoricoAssumption, FS_Interval DEF Linhas
      <4>2. Cardinality(linhasSrv) \in Nat /\ Cardinality(linhasSrv) <= MaxLinhas
        BY <1>4, <4>1, FS_Subset, FS_CardinalityType DEF TipoHistLista
      <4> QED BY <2>1, <4>2, PaginaHistoricoAssumption
    <3>4. offset' \in Nat
      BY <1>4, <2>1, PaginaHistoricoAssumption DEF TipoHistLista
    <3> QED BY <1>1, <1>4, <2>1, <3>1, <3>2, <3>3, <3>4 DEF TipoHistLista
  <2>3. ListaSeguida'
    <3> SUFFICES ASSUME ~mudou
                 PROVE  /\ linhasSrv' = 1..(MaxLinhas - 1)
                        /\ erroHist' = FALSE
                        /\ \/ parteHist = "execucoes" /\ ExecucoesVistas'
                           \/ parteHist = "cwv" /\ UrlsVistas'
      BY <1>1, <2>1 DEF ListaSeguida
    <3>1. /\ linhasSrv = 1..(MaxLinhas - 1) /\ erroHist = FALSE
          /\ \/ NadaRespondido
             \/ parteHist = "execucoes" /\ ExecucoesVistas
             \/ parteHist = "cwv" /\ UrlsVistas
      BY <2>1 DEF ListaSeguida
    <3>2. linhasSrv' = 1..(MaxLinhas - 1) /\ erroHist' = FALSE
      BY <2>1, <3>1
    <3>3. ASSUME NEW k
          PROVE  {r \in linhasSrv' : Posicao(r)' < k} = Primeiras(k)
      BY <1>1, <2>1 DEF Primeiras, Posicao
    <3>4. CASE NadaRespondido
      <4>1. p = <<0, 0>> /\ pedidosHist' = {} /\ offset' = 0 /\ cliques' = 0
        BY <2>1, <3>4 DEF NadaRespondido
      <4>2. linhas' = Primeiras(Limite) /\ vistas' = Primeiras(Limite)
        BY <1>4, <2>1, <3>4, <4>1, PaginaEmSeguida DEF NadaRespondido
      <4>3. offset' + Limite = Limite /\ Limite * (cliques' + 1) = Limite
        BY <4>1, PaginaHistoricoAssumption
      <4>4. vistas' = Primeiras(offset + Limite)'
        BY <3>3, <4>2, <4>3 DEF Primeiras
      <4>5. linhas' = Primeiras(Limite * (cliques + 1))'
        BY <3>3, <4>2, <4>3 DEF Primeiras
      <4>6. ExecucoesVistas'
        BY <4>1, <4>4 DEF ExecucoesVistas
      <4>7. UrlsVistas'
        BY <2>1, <4>1, <4>2, <4>5 DEF UrlsVistas
      <4> QED BY <2>1, <3>2, <4>6, <4>7
    <3>5. CASE parteHist = "execucoes" /\ ExecucoesVistas
      <4>1. p = <<cliques, offset + Limite>> /\ pedidosHist' = {} /\ cliques > 0
        BY <2>1, <3>5 DEF ExecucoesVistas
      <4>2. p[1] # 0 /\ p[2] = offset + Limite
        BY <1>4, <4>1 DEF TipoHistLista
      <4>3. vistas' = Primeiras(offset + Limite) \cup PaginaDe(offset + Limite)
        BY <2>1, <3>5, <4>2 DEF ExecucoesVistas
      <4>4. vistas' = Primeiras(offset + Limite + Limite)
        BY <1>4, <4>3, PaginaEmSeguida, PaginaHistoricoAssumption DEF TipoHistLista
      <4>5. offset' + Limite = offset + Limite + Limite
        BY <2>1, <3>5, <4>2
      <4>6. vistas' = Primeiras(offset + Limite)'
        BY <3>3, <4>4, <4>5 DEF Primeiras
      <4> QED BY <3>2, <3>5, <4>1, <4>6 DEF ExecucoesVistas
    <3>6. CASE parteHist = "cwv" /\ UrlsVistas
      <4> DEFINE K == Limite * cliques
      <4>1. p = <<cliques, K>> /\ pedidosHist' = {} /\ cliques > 0 /\ linhas = Primeiras(K)
            /\ vistas = linhas
        BY <2>1, <3>6 DEF UrlsVistas
      <4>2. p[1] # 0 /\ p[2] = K /\ K \in Nat
        BY <1>4, <4>1, PaginaHistoricoAssumption DEF TipoHistLista
      <4>3. linhas' = Primeiras(K) \cup PaginaDe(K)
        BY <2>1, <3>6, <4>1, <4>2
      <4>4. K + Limite = Limite * (cliques' + 1)
        BY <1>4, <2>1, PaginaHistoricoAssumption DEF TipoHistLista
      <4> HIDE DEF K
      <4>5. linhas' = Primeiras(K + Limite)
        BY <1>4, <4>2, <4>3, PaginaEmSeguida
      <4>6. linhas' = Primeiras(Limite * (cliques + 1))'
        BY <3>3, <4>4, <4>5 DEF Primeiras
      <4>7. vistas' = linhas'
        BY <2>1, <4>1, <4>3
      <4> QED BY <2>1, <3>2, <3>6, <4>1, <4>6, <4>7 DEF UrlsVistas
    <3> QED BY <3>1, <3>4, <3>5, <3>6
  <2> QED BY <1>2, <1>3, <2>2, <2>3 DEF TiposHistorico
<1> QED BY <1>5, <1>6, <1>7, <1>8, <1>9 DEF ListarHistorico

LEMMA NextIndHistorico == IndHistorico /\ [NextHistorico]_historicoVars => IndHistorico'
<1>1. IndHistorico /\ UNCHANGED historicoVars => IndHistorico'
  <2> SUFFICES ASSUME IndHistorico, UNCHANGED historicoVars
               PROVE  IndHistorico'
    OBVIOUS
  <2> USE DEF IndHistorico, historicoVars
  <2>1. TiposHistorico'
    BY DEF TiposHistorico, TipoHistLista, TipoHistFiltro, TipoHistUrl, listaHistVars,
           filtroHistVars, urlHistVars
  <2>2. FiltroPedido' /\ EvolucaoSeguida' /\ ComparacaoSeguida'
    BY DEF FiltroPedido, EvolucaoSeguida, ComparacaoSeguida, QuantasDe, filtroHistVars,
           urlHistVars
  <2>3. ListaSeguida'
    BY DEF ListaSeguida, NadaRespondido, ExecucoesVistas, UrlsVistas, Primeiras, Posicao,
           listaHistVars
  <2> QED BY <2>1, <2>2, <2>3
<1> QED BY <1>1, ListarMantem, FiltrarMantem, PainelMantem DEF NextHistorico

LEMMA IndHistoricoBasta == IndHistorico => HistoricoTypeOK /\ HistoricoConfere
<1> SUFFICES ASSUME IndHistorico
             PROVE  HistoricoTypeOK /\ HistoricoConfere
  OBVIOUS
<1> USE DEF IndHistorico
<1>1. HistoricoTypeOK
  BY DEF TiposHistorico, TipoHistLista, TipoHistFiltro, TipoHistUrl, HistoricoTypeOK
<1>2. ASSUME ~mudou PROVE NadaPulado
  <2> SUFFICES ASSUME parteHist \in {"execucoes", "cwv"}, pedidosHist = {}
               PROVE  vistas = Primeiras(IF parteHist = "execucoes" THEN offset + Limite
                                         ELSE Limite * (cliques + 1))
    BY DEF NadaPulado, Primeiras
  <2>1. \/ parteHist = "execucoes" /\ ExecucoesVistas
        \/ parteHist = "cwv" /\ UrlsVistas
    BY <1>2 DEF ListaSeguida, NadaRespondido
  <2> QED BY <2>1 DEF ExecucoesVistas, UrlsVistas
<1>3. ASSUME ~mudou PROVE EvolucaoCerta
  BY <1>3 DEF EvolucaoCerta, EvolucaoSeguida, ComparacaoSeguida
<1>4. ASSUME ~mudou PROVE FiltroCerto
  BY <1>4 DEF FiltroCerto, FiltroPedido
<1> QED BY <1>1, <1>2, <1>3, <1>4 DEF HistoricoConfere

LEMMA SempreIndHistorico == SpecHistorico => []IndHistorico
BY InitIndHistorico, NextIndHistorico, PTL DEF SpecHistorico

\* historico/page.tsx, cwv-historico-client.tsx, parecer-historico-client.tsx and
\* cwv-url-client.tsx: the pages leave no row out and show what they were last
\* asked for, for any size of a page and any number of rows, clicks and changes.
THEOREM HistoricoMostraOPedido == SpecHistorico => [](HistoricoTypeOK /\ HistoricoConfere)
BY SempreIndHistorico, IndHistoricoBasta, PTL

-----------------------------------------------------------------------------
(* The progress bar: the types, and that a page that missed nothing shows    *)
(* where the work has ever been.                                             *)

\* The steps of a bar.
Barra(f) == {ETAPAS_ORDER(f)[i] : i \in DOMAIN ETAPAS_ORDER(f)}

\* Where the worker of a tool may be.
Trabalhos(f) ==
  Barra(f) \cup {"fim"} \cup
    CASE f = "distribuir_inlinks" -> {"persistir_falha_alvo"}
      [] f = "inlinks_automaticos" -> {"falha_pilar"}
      [] OTHER -> {"marcar_aguardando", "decisao"}

TipoWorker ==
  /\ ferrB \in FerramentasBarra
  /\ no \in Trabalhos(ferrB)
  /\ fase \in {"antes", "anunciado", "gravado"}
  /\ etapaRow \in Nos(ferrB)
  /\ aguarda \in BOOLEAN
  /\ no \in {"decisao", "fim"} => fase = "antes"

TipoCaminho ==
  /\ escuta \in {"fora", "ligado", "inscrito"}
  /\ fila \in Seq(Nos(ferrB) \X BOOLEAN)
  /\ Len(fila) <= MaxFila

TipoContas ==
  /\ voltas \in 0..MaxVoltas
  /\ quedas \in 0..MaxQuedas
  /\ perdas \in 0..MaxPerdas

TipoPagina ==
  /\ {etapaTela, refTela, ultimo} \subseteq Nos(ferrB)
  /\ completos \subseteq Nos(ferrB)
  /\ aguardaTela \in BOOLEAN

TipoAlto == alto \in 0..(2 * Len(Ordem))

\* The steps whose end the page can tell from their start.
Contados(f) == Barra(f) \ FimComReticencias

\* The nodes whose end was published: the page has them, or will.
Anunciados ==
  {n \in Nos(ferrB) \ FimComReticencias : \E i \in 1..Len(fila) : fila[i] = <<n, TRUE>>}
Feitos == completos \cup Anunciados

\* Every step before that of n is through.
Alcancado(n) == \A m \in Contados(ferrB) : Indice(m) < Indice(n) => m \in Feitos

\* An article is worked on, its stage is written before its node is through, and
\* it waits for the user from the node that marks it on.
EtapaDoArtigo ==
  ferrB = "gerar_artigo" =>
    /\ fase = "gravado" => etapaRow = no
    /\ no = "marcar_aguardando" =>
         IF fase = "gravado" THEN aguarda ELSE etapaRow \in Barra(ferrB)
    /\ no = "decisao" => aguarda
    /\ etapaRow \notin {"falha_pilar", "persistir_falha_alvo"}

WorkerAlcanca ==
  /\ no \in Nos(ferrB) => Alcancado(no)
  /\ no \in {"marcar_aguardando", "decisao"} => Alcancado("aguardar_aprovacao")

PaginaAlcanca ==
  /\ Alcancado(etapaRow)
  /\ Alcancado(etapaTela)
  /\ Alcancado(refTela)
  /\ Alcancado(ultimo)
  /\ \A i \in 1..Len(fila) : Alcancado(fila[i][1])

\* How far the bar may be when m is through: the step after it is active, or that
\* which comes after salvar_vetorial.
Alem(m) == 2 * Indice(m) + (IF m = "aguardar_aprovacao" THEN 5 ELSE 3)

AltoAlcancado == alto <= 1 \/ \E m \in Feitos \cap Barra(ferrB) : alto <= Alem(m)

\* The last event published.
UltimoEvento == IF fila = <<>> THEN ultimo ELSE fila[Len(fila)][1]

\* After a decision the worker is yet to take it up, or it has announced a step.
DecisaoTomada ==
  (/\ ferrB = "gerar_artigo" /\ ~aguarda
   /\ etapaRow \notin Barra(ferrB) \cup {"nada"})
     => no = "aguardar_aprovacao" \/ UltimoEvento \in Barra(ferrB)

TiposBarra == TipoWorker /\ TipoCaminho /\ TipoContas /\ TipoPagina /\ TipoAlto

IndBarra ==
  /\ TiposBarra
  /\ EtapaDoArtigo
  /\ perdas = 0 => WorkerAlcanca /\ PaginaAlcanca /\ AltoAlcancado /\ DecisaoTomada

\* What the page shows, the row and the stream hold: a stage was announced, and an
\* end was published.
TipoAndado == andado \in 0..(2 * Len(Ordem))

Folga == IF ferrB = "distribuir_inlinks" THEN 1 ELSE 0

Comecou(n) == 2 * Indice(n) + 1 <= andado
Acabou(n) == 2 * (Indice(n) + 1) <= andado

NaoAdianta ==
  /\ Comecou(etapaRow) /\ Comecou(etapaTela) /\ Comecou(refTela) /\ Comecou(ultimo)
  /\ \A i \in 1..Len(fila) :
       Comecou(fila[i][1]) /\ (fila[i][2] => Acabou(fila[i][1]))
  /\ \A n \in completos : 2 * (Indice(n) + 1) <= andado + Folga
  /\ fase # "antes" => Comecou(no)

IndAndado == TipoAndado /\ NaoAdianta

LEMMA OrdemArtigo ==
  /\ Len(ETAPAS_ORDER_ARTIGO) = 8 /\ DOMAIN ETAPAS_ORDER_ARTIGO = 1..8
  /\ \A i, j \in 1..8 : ETAPAS_ORDER_ARTIGO[i] = ETAPAS_ORDER_ARTIGO[j] => i = j
<1>1. DOMAIN ETAPAS_ORDER_ARTIGO = 1..8 /\ Len(ETAPAS_ORDER_ARTIGO) = 8
  BY DEF ETAPAS_ORDER_ARTIGO
<1>2. ASSUME NEW i \in 1..8, NEW j \in 1..8,
             ETAPAS_ORDER_ARTIGO[i] = ETAPAS_ORDER_ARTIGO[j]
      PROVE  i = j
  BY <1>2 DEF ETAPAS_ORDER_ARTIGO
<1> QED BY <1>1, <1>2

LEMMA OrdemInlinks ==
  /\ Len(ETAPAS_ORDER_INLINKS) = 9 /\ DOMAIN ETAPAS_ORDER_INLINKS = 1..9
  /\ \A i, j \in 1..9 : ETAPAS_ORDER_INLINKS[i] = ETAPAS_ORDER_INLINKS[j] => i = j
<1>1. DOMAIN ETAPAS_ORDER_INLINKS = 1..9 /\ Len(ETAPAS_ORDER_INLINKS) = 9
  BY DEF ETAPAS_ORDER_INLINKS
<1>2. ASSUME NEW i \in 1..9, NEW j \in 1..9,
             ETAPAS_ORDER_INLINKS[i] = ETAPAS_ORDER_INLINKS[j]
      PROVE  i = j
  BY <1>2 DEF ETAPAS_ORDER_INLINKS
<1> QED BY <1>1, <1>2

LEMMA OrdemDistribuir ==
  /\ Len(ETAPAS_ORDER_DISTRIBUIR) = 7 /\ DOMAIN ETAPAS_ORDER_DISTRIBUIR = 1..7
  /\ \A i, j \in 1..7 : ETAPAS_ORDER_DISTRIBUIR[i] = ETAPAS_ORDER_DISTRIBUIR[j] => i = j
<1>1. DOMAIN ETAPAS_ORDER_DISTRIBUIR = 1..7 /\ Len(ETAPAS_ORDER_DISTRIBUIR) = 7
  BY DEF ETAPAS_ORDER_DISTRIBUIR
<1>2. ASSUME NEW i \in 1..7, NEW j \in 1..7,
             ETAPAS_ORDER_DISTRIBUIR[i] = ETAPAS_ORDER_DISTRIBUIR[j]
      PROVE  i = j
  BY <1>2 DEF ETAPAS_ORDER_DISTRIBUIR
<1> QED BY <1>1, <1>2

\* The three together.
LEMMA OrdemBoa ==
  ASSUME NEW f \in FerramentasBarra
  PROVE  /\ Len(ETAPAS_ORDER(f)) \in 7..9
         /\ DOMAIN ETAPAS_ORDER(f) = 1..Len(ETAPAS_ORDER(f))
         /\ \A i, j \in DOMAIN ETAPAS_ORDER(f) :
              ETAPAS_ORDER(f)[i] = ETAPAS_ORDER(f)[j] => i = j
<1>1. f \in {"gerar_artigo", "inlinks_automaticos", "distribuir_inlinks"}
  BY PainelProgressoAssumption
<1>2. CASE f = "gerar_artigo"
  <2>1. ETAPAS_ORDER(f) = ETAPAS_ORDER_ARTIGO
    BY <1>2 DEF ETAPAS_ORDER
  <2> QED BY <2>1, OrdemArtigo
<1>3. CASE f = "inlinks_automaticos"
  <2>1. ETAPAS_ORDER(f) = ETAPAS_ORDER_INLINKS
    BY <1>3 DEF ETAPAS_ORDER
  <2> QED BY <2>1, OrdemInlinks
<1>4. CASE f = "distribuir_inlinks"
  <2>1. ETAPAS_ORDER(f) = ETAPAS_ORDER_DISTRIBUIR
    BY <1>4 DEF ETAPAS_ORDER
  <2> QED BY <2>1, OrdemDistribuir
<1> QED BY <1>1, <1>2, <1>3, <1>4

\* indexOf.
LEMMA IndicesDaBarra ==
  ASSUME NEW f \in FerramentasBarra
  PROVE  /\ \A i \in 1..Len(ETAPAS_ORDER(f)) : Indices[f][ETAPAS_ORDER(f)[i]] = i - 1
         /\ \A n \in Nos(f) : n \notin Barra(f) => Indices[f][n] = -1
<1> DEFINE O == ETAPAS_ORDER(f)
<1>1. \A n \in Nos(f) :
        Indices[f][n] = IF \E i \in DOMAIN O : O[i] = n
                          THEN (CHOOSE i \in DOMAIN O : O[i] = n) - 1 ELSE -1
  BY DEF Indices
<1>2. /\ DOMAIN O = 1..Len(O)
      /\ \A i, j \in DOMAIN O : O[i] = O[j] => i = j
  BY OrdemBoa
<1>3. ASSUME NEW i \in 1..Len(O)
      PROVE  Indices[f][O[i]] = i - 1
  <2>1. O[i] \in Nos(f) /\ i \in DOMAIN O
    BY <1>2 DEF Nos
  <2> DEFINE c == CHOOSE j \in DOMAIN O : O[j] = O[i]
  <2>2. c \in DOMAIN O /\ O[c] = O[i]
    BY <2>1
  <2>3. c = i
    BY <1>2, <2>1, <2>2
  <2> QED BY <1>1, <2>1, <2>3
<1>4. ASSUME NEW n \in Nos(f), n \notin Barra(f)
      PROVE  Indices[f][n] = -1
  BY <1>1, <1>4 DEF Barra
<1> QED BY <1>3, <1>4

LEMMA BarraSemFora ==
  ASSUME NEW f \in FerramentasBarra
  PROVE  \A n \in ForaDaBarra \cup {"nada", "decisao", "fim"} : n \notin Barra(f)
<1>1. f \in {"gerar_artigo", "inlinks_automaticos", "distribuir_inlinks"}
  BY PainelProgressoAssumption
<1> SUFFICES ASSUME NEW i \in DOMAIN ETAPAS_ORDER(f)
             PROVE  ETAPAS_ORDER(f)[i] \notin ForaDaBarra \cup {"nada", "decisao", "fim"}
  BY DEF Barra
<1>2. CASE f = "gerar_artigo"
  <2>1. ETAPAS_ORDER(f) = ETAPAS_ORDER_ARTIGO /\ i \in 1..8
    BY <1>2, OrdemArtigo DEF ETAPAS_ORDER
  <2> QED BY <2>1 DEF ETAPAS_ORDER_ARTIGO, ForaDaBarra
<1>3. CASE f = "inlinks_automaticos"
  <2>1. ETAPAS_ORDER(f) = ETAPAS_ORDER_INLINKS /\ i \in 1..9
    BY <1>3, OrdemInlinks DEF ETAPAS_ORDER
  <2> QED BY <2>1 DEF ETAPAS_ORDER_INLINKS, ForaDaBarra
<1>4. CASE f = "distribuir_inlinks"
  <2>1. ETAPAS_ORDER(f) = ETAPAS_ORDER_DISTRIBUIR /\ i \in 1..7
    BY <1>4, OrdemDistribuir DEF ETAPAS_ORDER
  <2> QED BY <2>1 DEF ETAPAS_ORDER_DISTRIBUIR, ForaDaBarra
<1> QED BY <1>1, <1>2, <1>3, <1>4

\* indexOf numbers the steps from zero, one by one.
LEMMA Numeradas ==
  ASSUME ferrB \in FerramentasBarra
  PROVE  /\ Len(Ordem) \in 7..9
         /\ Barra(ferrB) \subseteq Nos(ferrB)
         /\ \A n \in Barra(ferrB) : Indice(n) \in 0..(Len(Ordem) - 1)
         /\ \A n \in Nos(ferrB) : n \notin Barra(ferrB) => Indice(n) = -1
         /\ \A m, n \in Barra(ferrB) : Indice(m) = Indice(n) => m = n
         /\ \A k \in 0..(Len(Ordem) - 1) : \E m \in Barra(ferrB) : Indice(m) = k
         /\ Ordem[1] \in Barra(ferrB) /\ Indice(Ordem[1]) = 0
<1>1. /\ Len(Ordem) \in 7..9
      /\ DOMAIN Ordem = 1..Len(Ordem)
      /\ \A i \in 1..Len(Ordem) : Indice(Ordem[i]) = i - 1
      /\ \A n \in Nos(ferrB) : n \notin Barra(ferrB) => Indice(n) = -1
  BY OrdemBoa, IndicesDaBarra DEF Ordem, Indice
<1>2. /\ Barra(ferrB) = {Ordem[i] : i \in 1..Len(Ordem)}
      /\ Barra(ferrB) \subseteq Nos(ferrB)
  BY <1>1 DEF Barra, Nos, Ordem
<1>3. \A n \in Barra(ferrB) : Indice(n) \in 0..(Len(Ordem) - 1) /\ n = Ordem[Indice(n) + 1]
  <2> SUFFICES ASSUME NEW i \in 1..Len(Ordem)
               PROVE  /\ Indice(Ordem[i]) \in 0..(Len(Ordem) - 1)
                      /\ Ordem[i] = Ordem[Indice(Ordem[i]) + 1]
    BY <1>2
  <2>1. Indice(Ordem[i]) = i - 1
    BY <1>1
  <2> HIDE DEF Indice, Ordem
  <2>2. i - 1 \in 0..(Len(Ordem) - 1) /\ (i - 1) + 1 = i
    BY <1>1
  <2> QED BY <2>1, <2>2
<1>4. ASSUME NEW k \in 0..(Len(Ordem) - 1)
      PROVE  \E m \in Barra(ferrB) : Indice(m) = k
  <2>1. k + 1 \in 1..Len(Ordem)
    BY <1>1
  <2>2. Indice(Ordem[k + 1]) = (k + 1) - 1
    BY <1>1, <2>1
  <2> QED BY <1>2, <2>1, <2>2
<1>5. 1 \in 1..Len(Ordem)
  BY <1>1
<1>6. Ordem[1] \in Barra(ferrB) /\ Indice(Ordem[1]) = 0
  <2>1. Indice(Ordem[1]) = 1 - 1
    BY <1>1, <1>5
  <2> QED BY <1>2, <1>5, <2>1
<1> QED BY <1>1, <1>2, <1>3, <1>4, <1>6

LEMMA IndicesInteiros ==
  ASSUME ferrB \in FerramentasBarra, NEW n \in Nos(ferrB)
  PROVE  /\ Indice(n) \in -1..(Len(Ordem) - 1)
         /\ n \in Barra(ferrB) <=> Indice(n) >= 0
BY Numeradas

LEMMA SeguintesArtigo ==
  ASSUME ferrB = "gerar_artigo", ferrB \in FerramentasBarra,
         NEW i \in 1..8, NEW n \in Seguintes(Ordem[i])
  PROVE  \/ \E j \in 1..8 : j <= i + 1 /\ n = Ordem[j]
         \/ n = "marcar_aguardando" /\ Ordem[i] = "revisar"
         \/ n = "fim"
<1>1. Ordem = ETAPAS_ORDER_ARTIGO
  BY DEF Ordem, ETAPAS_ORDER
<1>2. Len(Ordem) = 8 /\ Indice(Ordem[i]) + 2 = i + 1
  <2>1. Indice(Ordem[i]) = i - 1
    BY <1>1, OrdemArtigo, IndicesDaBarra DEF Indice, Ordem
  <2> HIDE DEF Indice, Ordem
  <2> QED BY <1>1, <2>1, OrdemArtigo
<1> HIDE DEF Indice, Ordem
<1>3. Seguintes(Ordem[i]) =
        CASE Ordem[i] = "revisar" -> {"redigir", "marcar_aguardando"}
          [] Ordem[i] = "marcar_aguardando" -> {"decisao"}
          [] Ordem[i] = "aguardar_aprovacao" -> {"redigir", "salvar_vetorial"}
          [] Ordem[i] = "extrair_pilar" -> {"extrair_candidatos", "falha_pilar"}
          [] Ordem[i] = "extrair_alvo" -> {"extrair_candidatas", "persistir_falha_alvo"}
          [] Ordem[i] \in {"falha_pilar", "persistir_falha_alvo", Ordem[8]} -> {"fim"}
          [] OTHER -> {Ordem[i + 1]}
  BY <1>2 DEF Seguintes
<1>4. /\ Ordem[1] = "pesquisar" /\ Ordem[2] = "analisar" /\ Ordem[3] = "criar_brief"
      /\ Ordem[4] = "redigir" /\ Ordem[5] = "revisar" /\ Ordem[6] = "aguardar_aprovacao"
      /\ Ordem[7] = "salvar_vetorial" /\ Ordem[8] = "gerar_imagem"
  BY <1>1 DEF ETAPAS_ORDER_ARTIGO
<1>5. CASE i \in {1, 2, 3}
  BY <1>3, <1>4, <1>5
<1>6. CASE i = 4
  BY <1>3, <1>4, <1>6
<1>7. CASE i = 5
  BY <1>3, <1>4, <1>7
<1>8. CASE i = 6
  BY <1>3, <1>4, <1>8
<1>9. CASE i = 7
  BY <1>3, <1>4, <1>9
<1>10. CASE i = 8
  BY <1>3, <1>4, <1>10
<1> QED BY <1>5, <1>6, <1>7, <1>8, <1>9, <1>10

LEMMA SeguintesInlinks ==
  ASSUME ferrB = "inlinks_automaticos", ferrB \in FerramentasBarra,
         NEW i \in 1..9, NEW n \in Seguintes(Ordem[i])
  PROVE  (\E j \in 1..9 : j <= i + 1 /\ n = Ordem[j]) \/ n \in {"falha_pilar", "fim"}
<1>1. Ordem = ETAPAS_ORDER_INLINKS
  BY DEF Ordem, ETAPAS_ORDER
<1>2. Len(Ordem) = 9 /\ Indice(Ordem[i]) + 2 = i + 1
  <2>1. Indice(Ordem[i]) = i - 1
    BY <1>1, OrdemInlinks, IndicesDaBarra DEF Indice, Ordem
  <2> HIDE DEF Indice, Ordem
  <2> QED BY <1>1, <2>1, OrdemInlinks
<1> HIDE DEF Indice, Ordem
<1>3. Seguintes(Ordem[i]) =
        CASE Ordem[i] = "marcar_aguardando" -> {"decisao"}
          [] Ordem[i] = "aguardar_aprovacao" -> {"redigir", "salvar_vetorial"}
          [] Ordem[i] = "extrair_pilar" -> {"extrair_candidatos", "falha_pilar"}
          [] Ordem[i] = "extrair_alvo" -> {"extrair_candidatas", "persistir_falha_alvo"}
          [] Ordem[i] \in {"falha_pilar", "persistir_falha_alvo", Ordem[9]} -> {"fim"}
          [] OTHER -> {Ordem[i + 1]}
  BY <1>2 DEF Seguintes
<1>4. /\ Ordem[1] = "validar_urls" /\ Ordem[2] = "extrair_pilar"
      /\ Ordem[3] = "extrair_candidatos" /\ Ordem[4] = "enriquecer"
      /\ Ordem[5] = "match_rerank" /\ Ordem[6] = "inserir" /\ Ordem[7] = "revisar"
      /\ Ordem[8] = "formatar" /\ Ordem[9] = "persistir"
  BY <1>1 DEF ETAPAS_ORDER_INLINKS
<1>5. CASE i = 2
  BY <1>3, <1>4, <1>5
<1>6. CASE i \in {1, 3, 4}
  BY <1>3, <1>4, <1>6
<1>7. CASE i \in {5, 6, 7, 8}
  BY <1>3, <1>4, <1>7
<1>8. CASE i = 9
  BY <1>3, <1>4, <1>8
<1> QED BY <1>5, <1>6, <1>7, <1>8

LEMMA SeguintesDistribuir ==
  ASSUME ferrB = "distribuir_inlinks", ferrB \in FerramentasBarra,
         NEW i \in 1..7, NEW n \in Seguintes(Ordem[i])
  PROVE  \/ \E j \in 1..7 : j <= i + 1 /\ n = Ordem[j]
         \/ n \in {"persistir_falha_alvo", "fim"}
<1>1. Ordem = ETAPAS_ORDER_DISTRIBUIR
  BY DEF Ordem, ETAPAS_ORDER
<1>2. Len(Ordem) = 7 /\ Indice(Ordem[i]) + 2 = i + 1
  <2>1. Indice(Ordem[i]) = i - 1
    BY <1>1, OrdemDistribuir, IndicesDaBarra DEF Indice, Ordem
  <2> HIDE DEF Indice, Ordem
  <2> QED BY <1>1, <2>1, OrdemDistribuir
<1> HIDE DEF Indice, Ordem
<1>3. Seguintes(Ordem[i]) =
        CASE Ordem[i] = "marcar_aguardando" -> {"decisao"}
          [] Ordem[i] = "aguardar_aprovacao" -> {"redigir", "salvar_vetorial"}
          [] Ordem[i] = "extrair_pilar" -> {"extrair_candidatos", "falha_pilar"}
          [] Ordem[i] = "extrair_alvo" -> {"extrair_candidatas", "persistir_falha_alvo"}
          [] Ordem[i] \in {"falha_pilar", "persistir_falha_alvo", Ordem[7]} -> {"fim"}
          [] OTHER -> {Ordem[i + 1]}
  BY <1>2 DEF Seguintes
<1>4. /\ Ordem[1] = "validar_urls" /\ Ordem[2] = "extrair_alvo"
      /\ Ordem[3] = "extrair_candidatas" /\ Ordem[4] = "enriquecer"
      /\ Ordem[5] = "filtrar_similaridade" /\ Ordem[6] = "inserir_em_cada"
      /\ Ordem[7] = "persistir"
  BY <1>1 DEF ETAPAS_ORDER_DISTRIBUIR
<1>5. CASE i = 2
  BY <1>3, <1>4, <1>5
<1>6. CASE i \in {1, 3, 4}
  BY <1>3, <1>4, <1>6
<1>7. CASE i \in {5, 6}
  BY <1>3, <1>4, <1>7
<1>8. CASE i = 7
  BY <1>3, <1>4, <1>8
<1> QED BY <1>5, <1>6, <1>7, <1>8

\* The node that comes next is at most a step ahead, and only the review of an
\* article leads to the user.
LEMMA SeguintesDeNo ==
  ASSUME ferrB \in FerramentasBarra, NEW x \in Trabalhos(ferrB), x \notin {"decisao", "fim"},
         NEW n \in Seguintes(x)
  PROVE  /\ n \in Trabalhos(ferrB)
         /\ n \in Barra(ferrB) => x \in Barra(ferrB) /\ Indice(n) <= Indice(x) + 1
         /\ n = "marcar_aguardando" => x = "revisar" /\ ferrB = "gerar_artigo"
         /\ n = "decisao" => x = "marcar_aguardando"
<1>f. \A y \in ForaDaBarra \cup {"nada", "decisao", "fim"} : y \notin Barra(ferrB)
  BY BarraSemFora
<1>1. ferrB \in {"gerar_artigo", "inlinks_automaticos", "distribuir_inlinks"}
  BY PainelProgressoAssumption
<1>2. CASE x \notin Barra(ferrB)
  <2>1. x \in {"persistir_falha_alvo", "falha_pilar", "marcar_aguardando"}
    BY <1>2 DEF Trabalhos
  <2>2. x = "marcar_aguardando" => ferrB = "gerar_artigo"
    BY <1>1, <1>2 DEF Trabalhos
  <2>3. CASE x = "marcar_aguardando"
    <3>1. n = "decisao"
      BY <2>3, <2>2, <1>1, Numeradas, <1>f, OrdemArtigo DEF Seguintes, Ordem, ETAPAS_ORDER, Barra, ETAPAS_ORDER_ARTIGO
    <3>2. "decisao" \in Trabalhos(ferrB)
      BY <2>2, <2>3 DEF Trabalhos
    <3> QED BY <1>f, <2>3, <3>1, <3>2
  <2>4. CASE x # "marcar_aguardando"
    <3>1. n = "fim"
      BY <2>1, <2>4 DEF Seguintes
    <3> QED BY <1>f, <3>1 DEF Trabalhos
  <2> QED BY <2>3, <2>4
<1>3. CASE x \in Barra(ferrB)
  <2>1. PICK i \in DOMAIN Ordem : x = Ordem[i]
    BY <1>3 DEF Barra, Ordem
  <2>2. /\ DOMAIN Ordem = 1..Len(Ordem)
        /\ \A j \in 1..Len(Ordem) : Indice(Ordem[j]) = j - 1 /\ Ordem[j] \in Barra(ferrB)
    BY OrdemBoa, IndicesDaBarra DEF Ordem, Indice, Barra
  <2>3. ASSUME NEW j \in 1..Len(Ordem), j <= i + 1, n = Ordem[j]
        PROVE  n \in Barra(ferrB) /\ Indice(n) <= Indice(x) + 1
    <3>1. Indice(n) = j - 1 /\ Indice(x) = i - 1 /\ i \in Int /\ n \in Barra(ferrB)
      BY <2>1, <2>2, <2>3
    <3> HIDE DEF Indice, Ordem
    <3> QED BY <2>3, <3>1
  <2>4. \/ \E j \in 1..Len(Ordem) : j <= i + 1 /\ n = Ordem[j]
        \/ n = "marcar_aguardando" /\ x = "revisar" /\ ferrB = "gerar_artigo"
        \/ n = "fim"
        \/ n = "falha_pilar" /\ ferrB = "inlinks_automaticos"
        \/ n = "persistir_falha_alvo" /\ ferrB = "distribuir_inlinks"
    <3>1. CASE ferrB = "gerar_artigo"
      <4>1. Len(Ordem) = 8
        BY <3>1, OrdemArtigo DEF Ordem, ETAPAS_ORDER
      <4> HIDE DEF Indice, Ordem
      <4> QED BY <2>1, <2>2, <3>1, <4>1, SeguintesArtigo
    <3>2. CASE ferrB = "inlinks_automaticos"
      <4>1. Len(Ordem) = 9
        BY <3>2, OrdemInlinks DEF Ordem, ETAPAS_ORDER
      <4> HIDE DEF Indice, Ordem
      <4> QED BY <2>1, <2>2, <3>2, <4>1, SeguintesInlinks
    <3>3. CASE ferrB = "distribuir_inlinks"
      <4>1. Len(Ordem) = 7
        BY <3>3, OrdemDistribuir DEF Ordem, ETAPAS_ORDER
      <4> HIDE DEF Indice, Ordem
      <4> QED BY <2>1, <2>2, <3>3, <4>1, SeguintesDistribuir
    <3> QED BY <1>1, <3>1, <3>2, <3>3
  <2>5. CASE \E j \in 1..Len(Ordem) : j <= i + 1 /\ n = Ordem[j]
    <3>1. n \in Barra(ferrB) /\ Indice(n) <= Indice(x) + 1
      BY <2>3, <2>5
    <3>2. n \notin {"marcar_aguardando", "decisao"}
      BY <1>f, <3>1 DEF ForaDaBarra
    <3> QED BY <1>3, <3>1, <3>2 DEF Trabalhos
  <2>6. CASE n \in {"marcar_aguardando", "fim", "falha_pilar", "persistir_falha_alvo"}
    <3>1. n \notin Barra(ferrB)
      BY <1>f, <2>6 DEF ForaDaBarra
    <3>2. n \in Trabalhos(ferrB)
      BY <2>4, <2>6, <3>1, <2>3 DEF Trabalhos
    <3> QED BY <2>3, <2>4, <2>6, <3>1, <3>2
  <2> QED BY <2>4, <2>5, <2>6
<1> QED BY <1>2, <1>3

LEMMA EsperaNaOrdem ==
  ASSUME ferrB = "gerar_artigo", ferrB \in FerramentasBarra
  PROVE  /\ {"revisar", "aguardar_aprovacao"} \subseteq Barra(ferrB)
         /\ Indice("aguardar_aprovacao") = Indice("revisar") + 1
<1>1. Ordem = ETAPAS_ORDER_ARTIGO /\ Barra(ferrB) = {Ordem[i] : i \in 1..8}
  BY OrdemArtigo DEF Ordem, ETAPAS_ORDER, Barra
<1>2. Ordem[5] = "revisar" /\ Ordem[6] = "aguardar_aprovacao"
  BY <1>1 DEF ETAPAS_ORDER_ARTIGO
<1>3. Indice(Ordem[5]) = 4 /\ Indice(Ordem[6]) = 5
  <2>1. \A i \in 1..8 : Indice(Ordem[i]) = i - 1
    BY <1>1, OrdemArtigo, IndicesDaBarra DEF Indice, Ordem
  <2> HIDE DEF Indice, Ordem
  <2> QED BY <2>1
<1> HIDE DEF Indice, Ordem
<1> QED BY <1>1, <1>2, <1>3

\* The one step whose end is not counted comes after the decision.
LEMMA SalvarNaOrdem ==
  ASSUME ferrB \in FerramentasBarra, "salvar_vetorial" \in Barra(ferrB)
  PROVE  /\ "aguardar_aprovacao" \in Barra(ferrB)
         /\ "aguardar_aprovacao" \in Contados(ferrB)
         /\ Indice("aguardar_aprovacao") + 1 = Indice("salvar_vetorial")
<1>1. ferrB = "gerar_artigo"
  <2>1. ferrB \in {"gerar_artigo", "inlinks_automaticos", "distribuir_inlinks"}
    BY PainelProgressoAssumption
  <2>2. ferrB # "inlinks_automaticos"
    <3> SUFFICES ASSUME ferrB = "inlinks_automaticos"
                 PROVE  "salvar_vetorial" \notin Barra(ferrB)
      OBVIOUS
    <3>1. Barra(ferrB) = {ETAPAS_ORDER_INLINKS[i] : i \in 1..9}
      BY OrdemInlinks DEF ETAPAS_ORDER, Barra
    <3> QED BY <3>1 DEF ETAPAS_ORDER_INLINKS
  <2>3. ferrB # "distribuir_inlinks"
    <3> SUFFICES ASSUME ferrB = "distribuir_inlinks"
                 PROVE  "salvar_vetorial" \notin Barra(ferrB)
      OBVIOUS
    <3>1. Barra(ferrB) = {ETAPAS_ORDER_DISTRIBUIR[i] : i \in 1..7}
      BY OrdemDistribuir DEF ETAPAS_ORDER, Barra
    <3> QED BY <3>1 DEF ETAPAS_ORDER_DISTRIBUIR
  <2> QED BY <2>1, <2>2, <2>3
<1>2. Ordem = ETAPAS_ORDER_ARTIGO /\ Barra(ferrB) = {Ordem[i] : i \in 1..8}
  BY <1>1, OrdemArtigo DEF Ordem, ETAPAS_ORDER, Barra
<1>3. Ordem[6] = "aguardar_aprovacao" /\ Ordem[7] = "salvar_vetorial"
  BY <1>2 DEF ETAPAS_ORDER_ARTIGO
<1>4. Indice(Ordem[6]) = 5 /\ Indice(Ordem[7]) = 6
  <2>1. \A i \in 1..8 : Indice(Ordem[i]) = i - 1
    BY <1>2, OrdemArtigo, IndicesDaBarra DEF Indice, Ordem
  <2> HIDE DEF Indice, Ordem
  <2> QED BY <2>1
<1> HIDE DEF Indice, Ordem
<1>5. "aguardar_aprovacao" \in Barra(ferrB)
  BY <1>2, <1>3
<1> QED BY <1>3, <1>4, <1>5 DEF Contados, FimComReticencias

LEMMA AlvoSoDistribui ==
  ASSUME ferrB \in FerramentasBarra, "extrair_alvo" \in Nos(ferrB)
  PROVE  ferrB = "distribuir_inlinks"
<1>1. ferrB \in {"gerar_artigo", "inlinks_automaticos", "distribuir_inlinks"}
  BY PainelProgressoAssumption
<1>2. "extrair_alvo" \in Barra(ferrB)
  BY DEF Nos, Barra, ForaDaBarra
<1>3. ferrB # "gerar_artigo"
  <2> SUFFICES ASSUME ferrB = "gerar_artigo"
               PROVE  "extrair_alvo" \notin Barra(ferrB)
    BY <1>2
  <2>1. Barra(ferrB) = {ETAPAS_ORDER_ARTIGO[i] : i \in 1..8}
    BY OrdemArtigo DEF ETAPAS_ORDER, Barra
  <2> QED BY <2>1 DEF ETAPAS_ORDER_ARTIGO
<1>4. ferrB # "inlinks_automaticos"
  <2> SUFFICES ASSUME ferrB = "inlinks_automaticos"
               PROVE  "extrair_alvo" \notin Barra(ferrB)
    BY <1>2
  <2>1. Barra(ferrB) = {ETAPAS_ORDER_INLINKS[i] : i \in 1..9}
    BY OrdemInlinks DEF ETAPAS_ORDER, Barra
  <2> QED BY <2>1 DEF ETAPAS_ORDER_INLINKS
<1> QED BY <1>1, <1>3, <1>4

\* The step that is shown as active, if any.
LEMMA EfetivaNaBarra ==
  ASSUME ferrB \in FerramentasBarra, TipoPagina
  PROVE  \/ etapaEfetiva \in {etapaTela, refTela, ultimo} \cap Barra(ferrB)
         \/ /\ etapaEfetiva = "nada"
            /\ {etapaTela, refTela, ultimo} \cap Barra(ferrB) = {}
<1>1. \A n \in {etapaTela, refTela, ultimo} : emOrdem(n) <=> n \in Barra(ferrB)
  BY IndicesInteiros DEF TipoPagina, emOrdem
<1> QED BY <1>1 DEF etapaEfetiva

\* The last step that is through.
LEMMA UltimoCompleto ==
  ASSUME ferrB \in FerramentasBarra, TipoPagina
  PROVE  /\ lastCompletedIndex \in -1..(Len(Ordem) - 1)
         /\ \A n \in completos : Indice(n) <= lastCompletedIndex
         /\ lastCompletedIndex >= 0 =>
              \E m \in completos \cap Barra(ferrB) : Indice(m) = lastCompletedIndex
<1> DEFINE S == {-1} \cup {Indice(n) : n \in completos}
           k == Len(Ordem) - 1
<1>1. k \in 6..8
  BY Numeradas
<1> HIDE DEF k
<1>2. \A n \in completos : Indice(n) \in -1..k /\ (n \in Barra(ferrB) <=> Indice(n) >= 0)
  BY IndicesInteiros DEF TipoPagina, k
<1>3. S \in SUBSET Int /\ S # {} /\ k \in Int /\ \A x \in S : x \in -1..k
  <2>1. -1 \in -1..k
    BY <1>1
  <2> HIDE DEF Indice
  <2> QED BY <1>1, <1>2, <2>1
<1>4. Max(S) \in S /\ \A y \in S : y <= Max(S)
  <2>1. \A x \in S : x <= k
    <3> HIDE DEF S
    <3> QED BY <1>1, <1>3
  <2> HIDE DEF S
  <2> QED BY <1>3, <2>1, MaximoExiste
<1>5. lastCompletedIndex = Max(S)
  BY DEF lastCompletedIndex
<1>6. lastCompletedIndex \in S /\ \A y \in S : y <= lastCompletedIndex
  <2> HIDE DEF S, lastCompletedIndex
  <2> QED BY <1>4, <1>5
<1> HIDE DEF lastCompletedIndex, Indice
<1>7. lastCompletedIndex >= 0 =>
        \E m \in completos \cap Barra(ferrB) : Indice(m) = lastCompletedIndex
  <2> SUFFICES ASSUME lastCompletedIndex >= 0
               PROVE  \E m \in completos \cap Barra(ferrB) : Indice(m) = lastCompletedIndex
    OBVIOUS
  <2>1. PICK m \in completos : Indice(m) = lastCompletedIndex
    BY <1>6
  <2> QED BY <1>2, <2>1
<1>8. lastCompletedIndex \in -1..k /\ \A n \in completos : Indice(n) <= lastCompletedIndex
  BY <1>3, <1>6
<1> QED BY <1>7, <1>8 DEF k

\* How far the bar is.
LEMMA BaseDaBarra ==
  ASSUME ferrB \in FerramentasBarra, TipoPagina
  PROVE  /\ progressoBase \in 0..(2 * Len(Ordem))
         /\ progressoBase >= 2 * (lastCompletedIndex + 1)
         /\ \/ progressoBase = 0
            \/ progressoBase = 2 * (lastCompletedIndex + 1)
            \/ /\ etapaEfetiva \in {etapaTela, refTela, ultimo} \cap Barra(ferrB)
               /\ progressoBase = 2 * Indice(etapaEfetiva) + 1
<1> DEFINE a == 2 * (lastCompletedIndex + 1)
           b == IF etapaEfetiva = "nada" THEN 0 ELSE 2 * Indice(etapaEfetiva) + 1
<1>1. Len(Ordem) \in 7..9 /\ \A n \in Barra(ferrB) : Indice(n) \in 0..(Len(Ordem) - 1)
  BY Numeradas
<1>2. lastCompletedIndex \in -1..(Len(Ordem) - 1)
  BY UltimoCompleto
<1>3. progressoBase = Max({a, b})
  BY DEF progressoBase
<1>4. "nada" \notin Barra(ferrB)
  BY BarraSemFora
<1> HIDE DEF lastCompletedIndex, Indice, etapaEfetiva, Ordem, progressoBase
<1>5. a \in 0..(2 * Len(Ordem))
  BY <1>1, <1>2
<1>6. \/ b = 0
      \/ /\ etapaEfetiva \in {etapaTela, refTela, ultimo} \cap Barra(ferrB)
         /\ b = 2 * Indice(etapaEfetiva) + 1
         /\ b \in 0..(2 * Len(Ordem))
  <2>1. CASE etapaEfetiva = "nada"
    BY <2>1
  <2>2. CASE etapaEfetiva # "nada"
    <3>1. etapaEfetiva \in {etapaTela, refTela, ultimo} \cap Barra(ferrB)
      BY <2>2, EfetivaNaBarra
    <3>2. b = 2 * Indice(etapaEfetiva) + 1
      BY <2>2
    <3>3. Indice(etapaEfetiva) \in 0..(Len(Ordem) - 1)
      BY <1>1, <3>1
    <3>4. 2 * Indice(etapaEfetiva) + 1 \in 0..(2 * Len(Ordem))
      BY <1>1, <3>3
    <3> QED BY <3>1, <3>2, <3>4
  <2> QED BY <2>1, <2>2
<1> HIDE DEF a, b
<1>7. a \in Int /\ b \in Int /\ b \in 0..(2 * Len(Ordem))
  BY <1>1, <1>5, <1>6
<1>8. Max({a, b}) = IF a >= b THEN a ELSE b
  BY <1>7, MaiorDeDois
<1>9. (progressoBase = a /\ a >= b) \/ (progressoBase = b /\ b >= a)
  BY <1>3, <1>7, <1>8
<1>10. progressoBase \in 0..(2 * Len(Ordem)) /\ progressoBase >= a
  BY <1>1, <1>5, <1>7, <1>9
<1> QED BY <1>6, <1>9, <1>10 DEF a

\* The end: what follows from the invariant.
LEMMA IndBarraBasta ==
  IndBarra /\ TipoAndado => ProgressoTypeOK /\ BarraConfere
<1> SUFFICES ASSUME IndBarra, TipoAndado
             PROVE  ProgressoTypeOK /\ BarraConfere
  OBVIOUS
<1> USE DEF IndBarra, TiposBarra
<1>0. ferrB \in FerramentasBarra
  BY DEF TipoWorker
<1>1. ProgressoTypeOK
  <2>1. no \in Nos(ferrB) \cup {"decisao", "fim"}
    BY <1>0, Numeradas DEF TipoWorker, Trabalhos, Nos, ForaDaBarra
  <2>2. fase \in {"antes", "anunciado", "gravado"} /\ aguarda \in BOOLEAN
        /\ aguardaTela \in BOOLEAN /\ escuta \in {"fora", "ligado", "inscrito"}
    BY DEF TipoWorker, TipoPagina, TipoCaminho
  <2>3. /\ voltas \in 0..MaxVoltas /\ quedas \in 0..MaxQuedas
        /\ perdas \in 0..MaxPerdas /\ Len(fila) <= MaxFila
        /\ alto \in 0..(2 * Len(Ordem)) /\ andado \in 0..(2 * Len(Ordem))
    BY DEF TipoContas, TipoCaminho, TipoAlto, TipoAndado
  <2>4. {etapaRow, etapaTela, refTela, ultimo} \subseteq Nos(ferrB) /\ completos \subseteq Nos(ferrB)
    BY DEF TipoWorker, TipoPagina
  <2> QED BY <1>0, <2>1, <2>2, <2>3, <2>4 DEF ProgressoTypeOK
<1>2. ASSUME perdas = 0, fila = <<>>
      PROVE  progressoBase >= alto - (IF "aguardar_aprovacao" \in completos THEN 3 ELSE 1)
  <2>1. Anunciados = {} /\ Feitos = completos
    BY <1>2 DEF Anunciados, Feitos
  <2>2. /\ lastCompletedIndex \in -1..(Len(Ordem) - 1)
        /\ \A n \in completos : Indice(n) <= lastCompletedIndex
    BY <1>0, UltimoCompleto DEF TipoPagina
  <2>3. progressoBase \in 0..(2 * Len(Ordem)) /\ progressoBase >= 2 * (lastCompletedIndex + 1)
    BY <1>0, BaseDaBarra DEF TipoPagina
  <2>4. Len(Ordem) \in 7..9 /\ \A n \in Barra(ferrB) : Indice(n) \in 0..(Len(Ordem) - 1)
    BY <1>0, Numeradas
  <2>5. alto \in 0..(2 * Len(Ordem))
    BY DEF TipoAlto
  <2>6. alto <= 1 \/ \E m \in completos \cap Barra(ferrB) : alto <= Alem(m)
    BY <1>2, <2>1 DEF AltoAlcancado
  <2> HIDE DEF IndBarra, lastCompletedIndex, Indice, Ordem, progressoBase
  <2>7. CASE alto <= 1
    BY <2>3, <2>4, <2>5, <2>7
  <2>8. CASE \E m \in completos \cap Barra(ferrB) : alto <= Alem(m)
    <3>1. PICK m \in completos \cap Barra(ferrB) : alto <= Alem(m)
      BY <2>8
    <3>2. Indice(m) <= lastCompletedIndex /\ Indice(m) \in 0..(Len(Ordem) - 1)
      BY <2>2, <2>4, <3>1
    <3>3. CASE m = "aguardar_aprovacao"
      <4>1. alto <= 2 * Indice(m) + 5 /\ "aguardar_aprovacao" \in completos
        BY <3>1, <3>3 DEF Alem
      <4>2. progressoBase >= alto - 3
        BY <2>2, <2>3, <2>4, <2>5, <3>2, <4>1
      <4> QED BY <4>1, <4>2
    <3>4. CASE m # "aguardar_aprovacao"
      <4>1. alto <= 2 * Indice(m) + 3
        BY <3>1, <3>4 DEF Alem
      <4>2. progressoBase >= alto - 1
        BY <2>2, <2>3, <2>4, <2>5, <3>2, <4>1
      <4> QED BY <2>3, <2>4, <2>5, <4>2
    <3> QED BY <3>3, <3>4
  <2> QED BY <2>6, <2>7, <2>8
<1>3. ASSUME perdas = 0, fila = <<>>, NEW i \in DOMAIN Ordem
      PROVE  Passo(Ordem[i]) = "vazio" => Ordem[i] = "salvar_vetorial"
  <2> DEFINE n == Ordem[i]
             e == etapaEfetiva
  <2>1. Feitos = completos
    BY <1>3 DEF Anunciados, Feitos
  <2>2. n \in Barra(ferrB)
    BY DEF Barra, Ordem
  <2>3. \A m \in Barra(ferrB) : Indice(m) \in 0..(Len(Ordem) - 1)
    BY <1>0, Numeradas
  <2>4. Len(Ordem) \in 7..9 /\ "nada" \in Nos(ferrB) /\ Indice("nada") = -1
    BY <1>0, Numeradas, BarraSemFora DEF Nos
  <2>5. CASE e = "nada"
    <3>1. Indice(n) > Indice(e)
      <4> HIDE DEF Indice, e, n, Ordem
      <4> QED BY <2>2, <2>3, <2>4, <2>5
    <3> QED BY <3>1 DEF Passo
  <2>6. CASE e # "nada"
    <3>1. e \in {etapaTela, refTela, ultimo} \cap Barra(ferrB)
      BY <1>0, <2>6, EfetivaNaBarra DEF TipoPagina
    <3>2. Alcancado(e)
      BY <1>3, <3>1 DEF PaginaAlcanca
    <3>3. n = e \/ Indice(n) > Indice(e) \/ Indice(n) < Indice(e)
      <4>1. Indice(n) = Indice(e) => n = e
        BY <1>0, <2>2, <3>1, Numeradas
      <4>2. Indice(n) \in Int /\ Indice(e) \in Int
        BY <2>2, <2>3, <2>4, <3>1
      <4> HIDE DEF Indice, e, n, Ordem
      <4> QED BY <4>1, <4>2
    <3>4. Indice(n) < Indice(e) => n \in completos \/ n = "salvar_vetorial"
      <4>1. n \in Contados(ferrB) \/ n = "salvar_vetorial"
        BY <1>0, <2>2, BarraSemFora DEF Contados, FimComReticencias, ForaDaBarra
      <4> QED BY <2>1, <2>2, <3>2, <4>1 DEF Alcancado
    <3> QED BY <3>3, <3>4 DEF Passo
  <2> QED BY <2>5, <2>6
<1>4. ASSUME fila = <<>>, perdas = 0,
             ferrB = "gerar_artigo", etapaTela # "nada", etapaTela = etapaRow,
             aguardaTela = aguarda, Atividade = "iniciando"
      PROVE  no = "aguardar_aprovacao"
  <2>1. ~aguarda
    BY <1>4 DEF Atividade
  <2>2. etapaEfetiva \in {"nada", "iniciando"}
    BY <1>4 DEF Atividade
  <2>3. "iniciando" \notin Barra(ferrB)
    BY <1>4, OrdemArtigo DEF Barra, ETAPAS_ORDER, ETAPAS_ORDER_ARTIGO
  <2>4. {etapaTela, refTela, ultimo} \cap Barra(ferrB) = {}
    BY <1>0, <2>2, <2>3, EfetivaNaBarra, BarraSemFora DEF TipoPagina
  <2>5. UltimoEvento = ultimo
    BY <1>4 DEF UltimoEvento
  <2> QED BY <1>4, <2>1, <2>4, <2>5 DEF DecisaoTomada
<1>5. BarraConfere
  BY <1>2, <1>3, <1>4 DEF BarraConfere
<1> QED BY <1>1, <1>5

LEMMA InitIndBarra == InitProgresso => IndBarra
<1> SUFFICES ASSUME InitProgresso
             PROVE  IndBarra
  OBVIOUS
<1>0. ferrB \in FerramentasBarra
  BY DEF InitProgresso
<1>1. /\ Len(Ordem) \in 7..9 /\ Ordem[1] \in Barra(ferrB)
      /\ Indice(Ordem[1]) = 0
      /\ \A n \in Barra(ferrB) : Indice(n) \in 0..(Len(Ordem) - 1)
      /\ \A n \in Nos(ferrB) : n \notin Barra(ferrB) => Indice(n) = -1
  BY <1>0, Numeradas
<1>2. \A n \in ForaDaBarra \cup {"nada", "decisao", "fim"} : n \notin Barra(ferrB)
  BY <1>0, BarraSemFora
<1>3. no = Ordem[1] /\ no \in Barra(ferrB) /\ "nada" \in Nos(ferrB)
  BY <1>1 DEF InitProgresso, Nos
<1>4. TipoWorker
  BY <1>0, <1>2, <1>3 DEF InitProgresso, TipoWorker, Trabalhos
<1>5. TipoCaminho
  BY PainelProgressoAssumption DEF InitProgresso, TipoCaminho
<1>6. TipoContas
  BY PainelProgressoAssumption DEF InitProgresso, TipoContas
<1>7. TipoPagina
  BY <1>3 DEF InitProgresso, TipoPagina
<1>8. TipoAlto
  BY <1>1 DEF InitProgresso, TipoAlto
<1>9. EtapaDoArtigo
  BY <1>2, <1>3 DEF InitProgresso, EtapaDoArtigo, ForaDaBarra
<1>10. WorkerAlcanca
  <2>1. Alcancado(no)
    <3> HIDE DEF Indice, Ordem
    <3> QED BY <1>1, <1>3 DEF Alcancado, Contados
  <2> QED BY <1>2, <1>3, <2>1 DEF WorkerAlcanca, ForaDaBarra
<1>11. PaginaAlcanca
  <2>1. Alcancado("nada")
    <3>1. Indice("nada") = -1
      BY <1>1, <1>2, <1>3
    <3> HIDE DEF Indice, Ordem
    <3> QED BY <1>1, <3>1 DEF Alcancado, Contados
  <2> QED BY <2>1 DEF InitProgresso, PaginaAlcanca
<1>12. AltoAlcancado
  BY DEF InitProgresso, AltoAlcancado
<1>13. DecisaoTomada
  BY DEF InitProgresso, DecisaoTomada
<1> QED BY <1>4, <1>5, <1>6, <1>7, <1>8, <1>9, <1>10, <1>11, <1>12, <1>13 DEF IndBarra, TiposBarra

\* What a step of a page that misses nothing may do: the steps that are through
\* stay so, and what it shows and the row and the stream hold was there, or is
\* where the worker is.
NosVistos == {etapaRow, etapaTela, refTela, ultimo} \cup {fila[i][1] : i \in 1..Len(fila)}

SoAvanca ==
  /\ perdas = 0
  /\ ferrB' = ferrB
  /\ Feitos \subseteq Feitos'
  /\ NosVistos' \subseteq NosVistos \cup ({no} \cap Nos(ferrB))

LEMMA AlcancadoFica ==
  ASSUME ferrB' = ferrB, Feitos \subseteq Feitos', NEW n, Alcancado(n)
  PROVE  Alcancado(n)'
BY DEF Alcancado, Indice

LEMMA AvancaAlcanca ==
  ASSUME TiposBarra, SoAvanca, WorkerAlcanca, PaginaAlcanca
  PROVE  PaginaAlcanca'
<1>1. \A n \in NosVistos \cup ({no} \cap Nos(ferrB)) : Alcancado(n)
  BY DEF NosVistos, PaginaAlcanca, WorkerAlcanca
<1>2. \A n \in NosVistos' : \A m \in Contados(ferrB') : Indices[ferrB'][m] < Indices[ferrB'][n] => m \in Feitos'
  BY <1>1 DEF SoAvanca, Alcancado, Indice
<1>3. {etapaRow', etapaTela', refTela', ultimo'} \subseteq NosVistos'
      /\ \A i \in 1..Len(fila') : fila'[i][1] \in NosVistos'
  BY DEF NosVistos
<1> QED BY <1>2, <1>3 DEF PaginaAlcanca, Alcancado, Indice

LEMMA AlemBasta ==
  ASSUME NEW m, Indice(m) \in Int, NEW k \in Int, k <= 2 * Indice(m) + 3
  PROVE  k <= Alem(m)
<1> HIDE DEF Indice
<1>1. k <= 2 * Indice(m) + 5
  OBVIOUS
<1> QED BY <1>1 DEF Alem

LEMMA AvancaAlto ==
  ASSUME TiposBarra, SoAvanca, PaginaAlcanca, AltoAlcancado,
         alto' = Max({alto, progressoBase})
  PROVE  AltoAlcancado'
<1>0. ferrB \in FerramentasBarra /\ TipoPagina
  BY DEF TiposBarra, TipoWorker
<1>1. /\ Len(Ordem) \in 7..9
      /\ \A n \in Barra(ferrB) : Indice(n) \in 0..(Len(Ordem) - 1)
      /\ \A k \in 0..(Len(Ordem) - 1) : \E m \in Barra(ferrB) : Indice(m) = k
  BY <1>0, Numeradas
<1>2. progressoBase \in Int /\ alto \in Int
  BY <1>0, <1>1, BaseDaBarra DEF TiposBarra, TipoAlto
<1>3. alto' = alto \/ alto' = progressoBase
  BY <1>2, MaiorDeDois
<1>4. progressoBase <= 1 \/ \E m \in Feitos \cap Barra(ferrB) : progressoBase <= Alem(m)
  <2>1. CASE progressoBase = 0
    BY <2>1
  <2>2. CASE progressoBase = 2 * (lastCompletedIndex + 1)
    <3>1. /\ lastCompletedIndex \in -1..(Len(Ordem) - 1)
          /\ lastCompletedIndex >= 0 =>
               \E m \in completos \cap Barra(ferrB) : Indice(m) = lastCompletedIndex
      BY <1>0, UltimoCompleto
    <3> HIDE DEF lastCompletedIndex, Indice, Ordem, progressoBase
    <3>2. CASE lastCompletedIndex = -1
      BY <2>2, <3>2
    <3>3. CASE lastCompletedIndex # -1
      <4>1. lastCompletedIndex >= 0
        BY <1>1, <3>1, <3>3
      <4>2. PICK m \in completos \cap Barra(ferrB) : Indice(m) = lastCompletedIndex
        BY <3>1, <4>1
      <4>3. m \in Feitos \cap Barra(ferrB)
        BY <4>2 DEF Feitos
      <4>4. progressoBase <= 2 * Indice(m) + 3
        BY <1>1, <2>2, <3>1, <4>2
      <4> QED BY <1>1, <1>2, <4>3, <4>4, AlemBasta
    <3> QED BY <3>2, <3>3
  <2>3. CASE /\ etapaEfetiva \in {etapaTela, refTela, ultimo} \cap Barra(ferrB)
             /\ progressoBase = 2 * Indice(etapaEfetiva) + 1
    <3> DEFINE e == etapaEfetiva
    <3>1. Alcancado(e) /\ e \in Barra(ferrB)
      BY <2>3 DEF PaginaAlcanca
    <3>2. \A m \in Contados(ferrB) : Indice(m) < Indice(e) => m \in Feitos
      BY <3>1 DEF Alcancado
    <3> HIDE DEF e, Indice, Ordem, progressoBase
    <3>3. progressoBase = 2 * Indice(e) + 1
      BY <2>3 DEF e
    <3>4. CASE Indice(e) = 0
      BY <3>3, <3>4
    <3>5. CASE Indice(e) # 0
      <4>1. Indice(e) - 1 \in 0..(Len(Ordem) - 1) /\ Indice(e) \in Int
        BY <1>1, <3>1, <3>5
      <4>2. PICK m \in Barra(ferrB) : Indice(m) = Indice(e) - 1
        BY <1>1, <4>1
      <4>3. CASE m \in Contados(ferrB)
        <5>1. m \in Feitos
          BY <3>2, <4>1, <4>2, <4>3
        <5>2. progressoBase <= 2 * Indice(m) + 3
          BY <3>3, <4>1, <4>2
        <5> QED BY <1>1, <1>2, <4>2, <5>1, <5>2, AlemBasta
      <4>4. CASE m \notin Contados(ferrB)
        <5>1. m = "salvar_vetorial"
          BY <1>0, <4>2, <4>4, BarraSemFora DEF Contados, FimComReticencias, ForaDaBarra
        <5> DEFINE a == "aguardar_aprovacao"
        <5>2. a \in Contados(ferrB) /\ a \in Barra(ferrB) /\ Indice(a) + 1 = Indice(m)
          BY <1>0, <4>2, <5>1, SalvarNaOrdem
        <5>3. a \in Feitos
          BY <1>1, <3>2, <4>1, <4>2, <5>2
        <5>4. progressoBase <= 2 * Indice(a) + 5
          BY <1>1, <3>3, <4>1, <4>2, <5>2
        <5> QED BY <5>2, <5>3, <5>4 DEF Alem
      <4> QED BY <4>3, <4>4
    <3> QED BY <3>4, <3>5
  <2> QED BY <1>0, <2>1, <2>2, <2>3, BaseDaBarra
<1>5. alto' <= 1 \/ \E m \in Feitos \cap Barra(ferrB) : alto' <= Alem(m)
  BY <1>3, <1>4 DEF AltoAlcancado
<1> QED BY <1>5 DEF SoAvanca, AltoAlcancado, Alem, Indice

\* What publish_event does to a page that misses nothing.
LEMMA PublicarFeitos ==
  ASSUME TipoCaminho, TipoContas, TipoPagina, NEW n \in Nos(ferrB), NEW b \in BOOLEAN,
         Publicar(n, b), UNCHANGED <<ferrB, escuta, quedas, completos, ultimo>>
  PROVE  /\ TipoCaminho'
         /\ perdas' \in 0..MaxPerdas
         /\ perdas' = 0 =>
              /\ perdas = 0
              /\ Feitos \subseteq Feitos'
              /\ b /\ n \notin FimComReticencias => n \in Feitos'
              /\ UltimoEvento' = n
              /\ \A i \in 1..Len(fila') : fila'[i][1] \in {n} \cup {fila[j][1] : j \in 1..Len(fila)}
<1>1. CASE PerderEvento(1) /\ UNCHANGED fila
  <2>1. TipoCaminho'
    BY <1>1 DEF TipoCaminho, Nos
  <2>2. perdas' \in 0..MaxPerdas /\ perdas' # 0
    BY <1>1, PainelProgressoAssumption DEF PerderEvento, TipoContas
  <2> QED BY <2>1, <2>2
<1>2. CASE /\ Len(fila) < MaxFila
           /\ fila' = Append(fila, <<n, b>>)
           /\ UNCHANGED perdas
  <2>0. fila \in Seq(Nos(ferrB) \X BOOLEAN)
    BY DEF TipoCaminho
  <2>1. /\ fila' \in Seq(Nos(ferrB) \X BOOLEAN)
        /\ Len(fila') = Len(fila) + 1
        /\ fila'[Len(fila) + 1] = <<n, b>>
        /\ \A i \in 1..Len(fila) : fila'[i] = fila[i]
        /\ Len(fila) \in Nat /\ fila' # <<>>
    BY <1>2, <2>0
  <2>2. TipoCaminho'
    <3>1. Nos(ferrB') = Nos(ferrB)
      OBVIOUS
    <3>2. Len(fila') <= MaxFila
      BY <1>2, <2>1, PainelProgressoAssumption
    <3> QED BY <2>1, <3>1, <3>2 DEF TipoCaminho
  <2>3. perdas' \in 0..MaxPerdas
    BY <1>2 DEF TipoContas
  <2>4. Feitos \subseteq Feitos'
    <3>1. Anunciados \subseteq Anunciados'
      <4> SUFFICES ASSUME NEW m \in Nos(ferrB) \ FimComReticencias,
                          NEW i \in 1..Len(fila), fila[i] = <<m, TRUE>>
                   PROVE  \E j \in 1..Len(fila') : fila'[j] = <<m, TRUE>>
        BY DEF Anunciados, Nos
      <4>1. i \in 1..Len(fila')
        BY <2>1
      <4>2. fila'[i] = fila[i]
        BY <2>1
      <4> QED BY <4>1, <4>2
    <3> QED BY <3>1 DEF Feitos
  <2>5. b /\ n \notin FimComReticencias => n \in Feitos'
    <3>1. Len(fila) + 1 \in 1..Len(fila')
      BY <2>1
    <3>2. b => fila'[Len(fila) + 1] = <<n, TRUE>>
      BY <2>1
    <3>3. Nos(ferrB') = Nos(ferrB)
      OBVIOUS
    <3> QED BY <3>1, <3>2, <3>3 DEF Feitos, Anunciados
  <2>6. UltimoEvento' = n
    BY <2>1 DEF UltimoEvento
  <2>7. ASSUME NEW i \in 1..Len(fila')
        PROVE  fila'[i][1] \in {n} \cup {fila[j][1] : j \in 1..Len(fila)}
    <3>1. CASE i = Len(fila) + 1
      BY <2>1, <3>1
    <3>2. CASE i # Len(fila) + 1
      <4>1. i \in 1..Len(fila)
        BY <2>1, <3>2
      <4> QED BY <2>1, <4>1
    <3> QED BY <3>1, <3>2
  <2>8. perdas' = 0 => perdas = 0
    BY <1>2
  <2> QED BY <2>2, <2>3, <2>4, <2>5, <2>6, <2>7, <2>8
<1> QED BY <1>1, <1>2 DEF Publicar

\* A node_progress event: what it brings was on its way.
LEMMA ReceberFeitos ==
  ASSUME TipoCaminho, TipoPagina, ReceberEvento
  PROVE  /\ TipoCaminho'
         /\ ultimo' \in Nos(ferrB) /\ completos' \subseteq Nos(ferrB)
         /\ Feitos \subseteq Feitos'
         /\ UltimoEvento' = UltimoEvento
         /\ ultimo' \in {fila[j][1] : j \in 1..Len(fila)}
         /\ \A i \in 1..Len(fila') : fila'[i][1] \in {fila[j][1] : j \in 1..Len(fila)}
<1>0. /\ fila \in Seq(Nos(ferrB) \X BOOLEAN) /\ fila # <<>> /\ fila' = Tail(fila)
      /\ ultimo' = Head(fila)[1]
      /\ completos' = IF DizQueAcabou(Head(fila)) THEN completos \cup {Head(fila)[1]}
                                                  ELSE completos
      /\ ferrB' = ferrB
      /\ escuta' = escuta
  BY DEF TipoCaminho, ReceberEvento, trabalhoVars
<1>1. /\ fila' \in Seq(Nos(ferrB) \X BOOLEAN)
      /\ Len(fila) \in Nat \ {0}
      /\ Len(fila') = Len(fila) - 1
      /\ \A i \in 1..Len(fila') : fila'[i] = fila[i + 1]
      /\ Head(fila) = fila[1]
      /\ fila[1] \in Nos(ferrB) \X BOOLEAN
      /\ Len(fila') = 0 => fila' = <<>>
      /\ fila' = <<>> => Len(fila') = 0
  <2> DEFINE T == Nos(ferrB) \X BOOLEAN
  <2> HIDE DEF T
  <2>1. fila \in Seq(T) /\ fila # <<>> /\ fila' = Tail(fila)
    BY <1>0 DEF T
  <2>2. Len(fila) \in Nat \ {0} /\ fila' \in Seq(T) /\ Len(fila') = Len(fila) - 1
    BY <2>1
  <2>3. \A i \in 1..Len(fila') : fila'[i] = fila[i + 1]
    BY <2>1, <2>2
  <2>4. Head(fila) = fila[1] /\ fila[1] \in T
    BY <2>1, <2>2
  <2>5. fila' = <<>> => Len(fila') = 0
    OBVIOUS
  <2>6. Len(fila') = 0 => fila' = <<>>
    BY <2>2
  <2> QED BY <2>2, <2>3, <2>4, <2>5, <2>6 DEF T
<1>2. Nos(ferrB') = Nos(ferrB)
  BY <1>0
<1>3. TipoCaminho'
  <2>1. Len(fila') <= MaxFila
    BY <1>1, PainelProgressoAssumption DEF TipoCaminho
  <2> QED BY <1>0, <1>1, <1>2, <2>1 DEF TipoCaminho
<1>4. ultimo' \in Nos(ferrB) /\ completos' \subseteq Nos(ferrB)
  BY <1>0, <1>1 DEF TipoPagina
<1>5. Feitos \subseteq Feitos'
  <2>1. completos \subseteq completos'
    BY <1>0
  <2>2. ASSUME NEW m \in Nos(ferrB) \ FimComReticencias,
               NEW i \in 1..Len(fila), fila[i] = <<m, TRUE>>
        PROVE  m \in Feitos'
    <3>1. CASE i = 1
      <4>1. Head(fila) = <<m, TRUE>>
        BY <1>1, <2>2, <3>1
      <4> DEFINE h == Head(fila)
      <4>2. completos' = IF DizQueAcabou(h) THEN completos \cup {h[1]} ELSE completos
        BY <1>0
      <4> HIDE DEF h
      <4>3. h = <<m, TRUE>>
        BY <4>1 DEF h
      <4>4. h[1] = m
        BY <4>3
      <4>5. h[2]
        BY <4>3
      <4>6. DizQueAcabou(h)
        BY <2>2, <4>4, <4>5, Zenon DEF DizQueAcabou
      <4> QED BY <4>2, <4>4, <4>6, Zenon DEF Feitos
    <3>2. CASE i # 1
      <4>1. i - 1 \in 1..Len(fila') /\ (i - 1) + 1 = i
        BY <1>1, <3>2
      <4>2. fila'[i - 1] = <<m, TRUE>>
        BY <1>1, <2>2, <4>1
      <4> QED BY <1>2, <4>1, <4>2 DEF Feitos, Anunciados
    <3> QED BY <3>1, <3>2
  <2> QED BY <2>1, <2>2 DEF Feitos, Anunciados
<1>6. ASSUME NEW i \in 1..Len(fila')
      PROVE  fila'[i][1] \in {fila[j][1] : j \in 1..Len(fila)}
  <2>1. i + 1 \in 1..Len(fila) /\ fila'[i] = fila[i + 1]
    BY <1>1
  <2> QED BY <2>1
<1>7. ultimo' \in {fila[j][1] : j \in 1..Len(fila)}
  <2>1. 1 \in 1..Len(fila)
    BY <1>1
  <2> QED BY <1>0, <1>1, <2>1
<1>8. UltimoEvento' = UltimoEvento
  <2>1. UltimoEvento = fila[Len(fila)][1]
    BY <1>0 DEF UltimoEvento
  <2>2. CASE fila' = <<>>
    <3>1. Len(fila) = 1
      BY <1>1, <2>2
    <3> QED BY <1>0, <1>1, <2>1, <2>2, <3>1 DEF UltimoEvento
  <2>3. CASE fila' # <<>>
    <3>1. Len(fila') \in 1..Len(fila') /\ Len(fila') + 1 = Len(fila)
      BY <1>1, <2>3
    <3>2. fila'[Len(fila')] = fila[Len(fila)]
      BY <1>1, <3>1
    <3> QED BY <2>1, <2>3, <3>2 DEF UltimoEvento
  <2> QED BY <2>2, <2>3
<1> QED BY <1>3, <1>4, <1>5, <1>6, <1>7, <1>8

\* What is left to show of a step.
LEMMA PassoDaBarra ==
  ASSUME IndBarra, alto' = Max({alto, progressoBase}), ferrB' = ferrB,
         TipoWorker', TipoCaminho', TipoContas', TipoPagina', EtapaDoArtigo',
         perdas' = 0 => SoAvanca /\ WorkerAlcanca' /\ DecisaoTomada'
  PROVE  IndBarra'
<1>1. TipoAlto'
  <2>1. progressoBase \in 0..(2 * Len(Ordem))
    BY BaseDaBarra DEF IndBarra, TiposBarra, TipoWorker
  <2>2. alto \in 0..(2 * Len(Ordem)) /\ Len(Ordem) \in 7..9
    BY Numeradas DEF IndBarra, TiposBarra, TipoWorker, TipoAlto
  <2>3. alto' = alto \/ alto' = progressoBase
    <3>1. progressoBase \in Int /\ alto \in Int
      BY <2>1, <2>2
    <3> QED BY <3>1, MaiorDeDois
  <2>4. Ordem' = Ordem
    BY DEF Ordem
  <2> HIDE DEF Ordem, progressoBase
  <2> QED BY <2>1, <2>2, <2>3, <2>4 DEF TipoAlto
<1>2. perdas' = 0 => PaginaAlcanca' /\ AltoAlcancado'
  BY AvancaAlcanca, AvancaAlto DEF IndBarra, SoAvanca
<1> QED BY <1>1, <1>2 DEF IndBarra, TiposBarra

\* Where the worker is does not matter to who has already reached it.
LEMMA WorkerFica ==
  ASSUME ferrB' = ferrB, Feitos \subseteq Feitos', no' = no, WorkerAlcanca
  PROVE  WorkerAlcanca'
<1>1. \A n : Alcancado(n) =>
        \A m \in Contados(ferrB') : Indices[ferrB'][m] < Indices[ferrB'][n] => m \in Feitos'
  BY DEF Alcancado, Indice
<1> QED BY <1>1 DEF WorkerAlcanca, Alcancado, Indice, Nos

LEMMA AnunciarMantem ==
  ASSUME IndBarra, Anunciar, alto' = Max({alto, progressoBase})
  PROVE  IndBarra'
<1> USE DEF IndBarra, TiposBarra
<1>0. /\ no \in Trabalhos(ferrB) /\ no \notin {"decisao", "fim"}
      /\ UNCHANGED <<ferrB, no, voltas, etapaRow, aguarda, escuta, quedas>>
      /\ UNCHANGED <<etapaTela, refTela, aguardaTela, completos, ultimo>>
      /\ fase = "antes" /\ fase' = "anunciado"
      /\ Publicar(no, FALSE)
      /\ ferrB \in FerramentasBarra
  BY DEF Anunciar, Parado, TipoWorker, barraVars
<1>1. no \in Nos(ferrB)
  BY <1>0 DEF Trabalhos, Nos, Barra, ForaDaBarra
<1>2. /\ TipoCaminho'
      /\ perdas' \in 0..MaxPerdas
      /\ perdas' = 0 =>
           /\ perdas = 0
           /\ Feitos \subseteq Feitos'
           /\ UltimoEvento' = no
           /\ \A i \in 1..Len(fila') : fila'[i][1] \in {no} \cup {fila[j][1] : j \in 1..Len(fila)}
  BY <1>0, <1>1, PublicarFeitos
<1>3. TipoWorker'
  BY <1>0 DEF TipoWorker
<1>4. TipoContas'
  BY <1>0, <1>2 DEF TipoContas
<1>5. TipoPagina'
  BY <1>0 DEF TipoPagina
<1>6. EtapaDoArtigo'
  BY <1>0 DEF EtapaDoArtigo
<1>7. ASSUME perdas' = 0
      PROVE  SoAvanca /\ WorkerAlcanca' /\ DecisaoTomada'
  <2>1. SoAvanca
    BY <1>0, <1>1, <1>2, <1>7 DEF SoAvanca, NosVistos
  <2>2. WorkerAlcanca'
    BY <1>0, <1>2, <1>7, WorkerFica
  <2>3. DecisaoTomada'
    <3> SUFFICES ASSUME ferrB = "gerar_artigo", ~aguarda,
                        etapaRow \notin Barra(ferrB) \cup {"nada"}
                 PROVE  no = "aguardar_aprovacao" \/ UltimoEvento' \in Barra(ferrB)
      BY <1>0 DEF DecisaoTomada
    <3>1. no # "marcar_aguardando"
      BY <1>0 DEF EtapaDoArtigo
    <3>2. no \in Barra(ferrB)
      BY <1>0, <3>1 DEF Trabalhos
    <3> QED BY <1>2, <1>7, <3>2
  <2> QED BY <2>1, <2>2, <2>3
<1> QED BY <1>0, <1>2, <1>3, <1>4, <1>5, <1>6, <1>7, PassoDaBarra

LEMMA GravarMantem ==
  ASSUME IndBarra, Gravar, alto' = Max({alto, progressoBase})
  PROVE  IndBarra'
<1> USE DEF IndBarra, TiposBarra
<1>0. /\ no \in Trabalhos(ferrB) /\ no \notin {"decisao", "fim"}
      /\ UNCHANGED <<ferrB, no, voltas, escuta, quedas, fila, perdas>>
      /\ UNCHANGED <<etapaTela, refTela, aguardaTela, completos, ultimo>>
      /\ fase = "anunciado" /\ fase' = "gravado"
      /\ etapaRow' = no \/ etapaRow' = etapaRow
      /\ ferrB = "gerar_artigo" => etapaRow' = no
      /\ aguarda' = (no = "marcar_aguardando")
      /\ ferrB \in FerramentasBarra
  BY DEF Gravar, TipoWorker, caminhoVars, barraVars
<1>1. no \in Nos(ferrB)
  BY <1>0 DEF Trabalhos, Nos, Barra, ForaDaBarra
<1>2. TipoWorker'
  BY <1>0, <1>1 DEF TipoWorker
<1>3. TipoCaminho'
  BY <1>0 DEF TipoCaminho, Nos
<1>4. TipoContas'
  BY <1>0 DEF TipoContas
<1>5. TipoPagina'
  BY <1>0 DEF TipoPagina
<1>6. EtapaDoArtigo'
  <2>1. ferrB = "gerar_artigo" => no \notin {"falha_pilar", "persistir_falha_alvo"}
    BY <1>0, BarraSemFora DEF Trabalhos, ForaDaBarra
  <2> QED BY <1>0, <2>1 DEF EtapaDoArtigo
<1>7. ASSUME perdas' = 0
      PROVE  SoAvanca /\ WorkerAlcanca' /\ DecisaoTomada'
  <2>0. Feitos' = Feitos /\ UltimoEvento' = UltimoEvento
    BY <1>0 DEF Feitos, Anunciados, UltimoEvento, Nos
  <2>1. SoAvanca
    BY <1>0, <1>1, <1>7, <2>0 DEF SoAvanca, NosVistos
  <2>2. WorkerAlcanca'
    BY <1>0, <1>7, <2>0, WorkerFica
  <2>3. DecisaoTomada'
    BY <1>0 DEF DecisaoTomada, Trabalhos
  <2> QED BY <2>1, <2>2, <2>3
<1> QED BY <1>0, <1>2, <1>3, <1>4, <1>5, <1>6, <1>7, PassoDaBarra

LEMMA CompletarMantem ==
  ASSUME IndBarra, Completar, alto' = Max({alto, progressoBase})
  PROVE  IndBarra'
<1> USE DEF IndBarra, TiposBarra
<1>0. /\ no \in Trabalhos(ferrB) /\ no \notin {"decisao", "fim"}
      /\ UNCHANGED <<ferrB, etapaRow, aguarda, escuta, quedas>>
      /\ UNCHANGED <<etapaTela, refTela, aguardaTela, completos, ultimo>>
      /\ fase' = "antes"
      /\ no' \in Seguintes(no)
      /\ Publicar(no, TRUE)
      /\ ferrB \in FerramentasBarra
  BY DEF Completar, Parado, TipoWorker, barraVars
<1>1. no \in Nos(ferrB)
  BY <1>0 DEF Trabalhos, Nos, Barra, ForaDaBarra
<1>2. /\ TipoCaminho'
      /\ perdas' \in 0..MaxPerdas
      /\ perdas' = 0 =>
           /\ perdas = 0
           /\ Feitos \subseteq Feitos'
           /\ no \notin FimComReticencias => no \in Feitos'
           /\ UltimoEvento' = no
           /\ \A i \in 1..Len(fila') : fila'[i][1] \in {no} \cup {fila[j][1] : j \in 1..Len(fila)}
  BY <1>0, <1>1, PublicarFeitos
<1>3. /\ no' \in Trabalhos(ferrB)
      /\ no' \in Barra(ferrB) => no \in Barra(ferrB) /\ Indice(no') <= Indice(no) + 1
      /\ no' = "marcar_aguardando" => no = "revisar" /\ ferrB = "gerar_artigo"
      /\ no' = "decisao" => no = "marcar_aguardando"
  BY <1>0, SeguintesDeNo
<1>4. no \in {"revisar", "marcar_aguardando"} /\ ferrB = "gerar_artigo" => fase = "gravado"
  BY DEF Completar, SemInicio, Desligaveis
<1>5. no = "marcar_aguardando" => ferrB = "gerar_artigo"
  BY <1>0, BarraSemFora, PainelProgressoAssumption DEF Trabalhos, ForaDaBarra
<1>6. TipoWorker'
  BY <1>0, <1>3 DEF TipoWorker
<1>7. TipoContas'
  <2>1. voltas' \in 0..MaxVoltas
    <3>1. voltas' \in {voltas, voltas + 1} /\ voltas' <= MaxVoltas
      BY DEF Completar
    <3> QED BY <3>1, PainelProgressoAssumption DEF TipoContas
  <2> QED BY <1>0, <1>2, <2>1 DEF TipoContas
<1>8. TipoPagina'
  BY <1>0 DEF TipoPagina
<1>9. EtapaDoArtigo'
  <2>1. ferrB = "gerar_artigo" /\ no' = "marcar_aguardando" => etapaRow \in Barra(ferrB)
    BY <1>0, <1>3, <1>4, EsperaNaOrdem DEF EtapaDoArtigo
  <2>2. ferrB = "gerar_artigo" /\ no' = "decisao" => aguarda
    BY <1>3, <1>4 DEF EtapaDoArtigo
  <2> QED BY <1>0, <2>1, <2>2 DEF EtapaDoArtigo
<1>10. ASSUME perdas' = 0
       PROVE  SoAvanca /\ WorkerAlcanca' /\ DecisaoTomada'
  <2>0. /\ perdas = 0 /\ Feitos \subseteq Feitos'
        /\ no \in Contados(ferrB) => no \in Feitos'
        /\ UltimoEvento' = no
        /\ WorkerAlcanca
    BY <1>2, <1>10 DEF Contados
  <2>1. SoAvanca
    BY <1>0, <1>1, <1>2, <1>10 DEF SoAvanca, NosVistos
  <2>2. WorkerAlcanca'
    <3>0. /\ \A n \in Barra(ferrB) : Indice(n) \in 0..(Len(Ordem) - 1)
          /\ \A n \in Nos(ferrB) : n \notin Barra(ferrB) => Indice(n) = -1
          /\ \A m, n \in Barra(ferrB) : Indice(m) = Indice(n) => m = n
          /\ Len(Ordem) \in 7..9
      BY <1>0, Numeradas
    <3>a. \A m \in Contados(ferrB) : Indice(m) < Indice(no) => m \in Feitos'
      BY <1>1, <2>0 DEF WorkerAlcanca, Alcancado
    <3>1. ASSUME NEW x \in Barra(ferrB), no \in Barra(ferrB), Indice(x) <= Indice(no) + 1,
                 NEW m \in Contados(ferrB), Indice(m) < Indice(x)
          PROVE  m \in Feitos'
      <4>0. m \in Barra(ferrB)
        BY DEF Contados
      <4>1. Indice(m) < Indice(no) \/ Indice(m) = Indice(no)
        <5> HIDE DEF Indice, Ordem
        <5> QED BY <3>0, <3>1, <4>0
      <4> QED BY <2>0, <3>0, <3>a, <3>1, <4>0, <4>1
    <3>2. ASSUME no' \in Nos(ferrB), NEW m \in Contados(ferrB), Indice(m) < Indice(no')
          PROVE  m \in Feitos'
      <4>1. no' \in Barra(ferrB)
        <5>1. m \in Barra(ferrB)
          BY DEF Contados
        <5> HIDE DEF Indice, Ordem
        <5> QED BY <3>0, <3>2, <5>1
      <4> QED BY <1>3, <3>1, <3>2, <4>1
    <3>3. ASSUME no' \in {"marcar_aguardando", "decisao"},
                 NEW m \in Contados(ferrB), Indice(m) < Indice("aguardar_aprovacao")
          PROVE  m \in Feitos'
      <4>1. CASE no' = "marcar_aguardando"
        <5>1. /\ no = "revisar" /\ {"revisar", "aguardar_aprovacao"} \subseteq Barra(ferrB)
              /\ Indice("aguardar_aprovacao") = Indice("revisar") + 1
          BY <1>0, <1>3, <4>1, EsperaNaOrdem
        <5>2. Indice("aguardar_aprovacao") <= Indice(no) + 1
          <6> HIDE DEF Indice, Ordem
          <6> QED BY <3>0, <5>1
        <5> QED BY <3>1, <3>3, <5>1, <5>2
      <4>2. CASE no' = "decisao"
        <5>1. Alcancado("aguardar_aprovacao")
          BY <1>3, <2>0, <4>2 DEF WorkerAlcanca
        <5> QED BY <2>0, <3>3, <5>1 DEF Alcancado
      <4> QED BY <3>3, <4>1, <4>2
    <3>4. Nos(ferrB') = Nos(ferrB) /\ Contados(ferrB') = Contados(ferrB) /\ Indices[ferrB'] = Indices[ferrB]
      BY <1>0
    <3> QED BY <3>2, <3>3, <3>4 DEF WorkerAlcanca, Alcancado, Indice
  <2>3. DecisaoTomada'
    <3> SUFFICES ASSUME ferrB = "gerar_artigo", ~aguarda,
                        etapaRow \notin Barra(ferrB) \cup {"nada"}
                 PROVE  UltimoEvento' \in Barra(ferrB)
      BY <1>0 DEF DecisaoTomada
    <3>1. no # "marcar_aguardando"
      BY <1>4 DEF EtapaDoArtigo
    <3>2. no \in Barra(ferrB)
      BY <1>0, <3>1 DEF Trabalhos
    <3> QED BY <2>0, <3>2
  <2> QED BY <2>1, <2>2, <2>3
<1> QED BY <1>0, <1>2, <1>6, <1>7, <1>8, <1>9, <1>10, PassoDaBarra

LEMMA DecidirEsperaMantem ==
  ASSUME IndBarra, DecidirEspera, alto' = Max({alto, progressoBase})
  PROVE  IndBarra'
<1> USE DEF IndBarra, TiposBarra
<1>0. /\ no = "decisao" /\ no' = "aguardar_aprovacao" /\ aguarda' = FALSE
      /\ UNCHANGED <<ferrB, fase, voltas, etapaRow, escuta, quedas, fila, perdas>>
      /\ UNCHANGED <<etapaTela, refTela, aguardaTela, completos, ultimo>>
      /\ ferrB \in FerramentasBarra /\ no \in Trabalhos(ferrB) /\ fase = "antes"
  BY DEF DecidirEspera, barraVars, TipoWorker
<1>1. ferrB = "gerar_artigo"
  BY <1>0, BarraSemFora, PainelProgressoAssumption DEF Trabalhos
<1>2. "aguardar_aprovacao" \in Barra(ferrB) /\ Barra(ferrB) \subseteq Nos(ferrB)
  BY <1>0, <1>1, EsperaNaOrdem, Numeradas
<1>3. TipoWorker'
  BY <1>0, <1>2 DEF TipoWorker, Trabalhos
<1>4. TipoCaminho'
  BY <1>0 DEF TipoCaminho, Nos
<1>5. TipoContas'
  BY <1>0 DEF TipoContas
<1>6. TipoPagina'
  BY <1>0 DEF TipoPagina
<1>7. EtapaDoArtigo'
  BY <1>0 DEF EtapaDoArtigo
<1>8. ASSUME perdas' = 0
      PROVE  SoAvanca /\ WorkerAlcanca' /\ DecisaoTomada'
  <2>0. Feitos' = Feitos
    BY <1>0 DEF Feitos, Anunciados, Nos
  <2>1. SoAvanca
    BY <1>0, <1>8, <2>0 DEF SoAvanca, NosVistos
  <2>2. Alcancado("aguardar_aprovacao")
    BY <1>0, <1>8 DEF WorkerAlcanca
  <2>3. Alcancado("aguardar_aprovacao")'
    BY <1>0, <2>0, <2>2, AlcancadoFica
  <2>4. WorkerAlcanca'
    BY <1>0, <2>3 DEF WorkerAlcanca
  <2> QED BY <1>0, <2>1, <2>4 DEF DecisaoTomada
<1> QED BY <1>0, <1>3, <1>4, <1>5, <1>6, <1>7, <1>8, PassoDaBarra

\* The stream and the page; the worker stays where it is.
LEMMA FluxoMantem ==
  ASSUME IndBarra, Ligar \/ Inscrever \/ Cair, alto' = Max({alto, progressoBase})
  PROVE  IndBarra'
<1> USE DEF IndBarra, TiposBarra
<1>0. /\ UNCHANGED <<ferrB, no, fase, voltas, etapaRow, aguarda>>
      /\ UNCHANGED <<etapaTela, refTela, aguardaTela, completos, ultimo>>
      /\ escuta' \in {"fora", "ligado", "inscrito"}
  BY DEF Ligar, Inscrever, Cair, HistoricoFica, trabalhoVars, barraVars
<1>1. TipoWorker'
  BY <1>0 DEF TipoWorker
<1>2. TipoCaminho'
  <2>1. CASE Ligar \/ Inscrever
    BY <1>0, <2>1 DEF Ligar, Inscrever, TipoCaminho, Nos
  <2>2. CASE Cair
    BY <1>0, <2>2, PainelProgressoAssumption DEF Cair, TipoCaminho
  <2> QED BY <2>1, <2>2
<1>3. TipoContas'
  <2>1. CASE Ligar \/ Inscrever
    BY <1>0, <2>1 DEF Ligar, Inscrever, TipoContas
  <2>2. CASE Cair
    <3>1. Len(fila) \in Nat
      BY DEF TipoCaminho
    <3>2. perdas' = perdas + Len(fila) /\ perdas' <= MaxPerdas
      BY <2>2 DEF Cair, PerderEvento
    <3>3. perdas' \in 0..MaxPerdas
      BY <3>1, <3>2, PainelProgressoAssumption DEF TipoContas
    <3>4. quedas' \in 0..MaxQuedas
      BY <2>2, PainelProgressoAssumption DEF Cair, TipoContas
    <3> QED BY <1>0, <3>3, <3>4 DEF TipoContas
  <2> QED BY <2>1, <2>2
<1>4. TipoPagina'
  BY <1>0 DEF TipoPagina
<1>5. EtapaDoArtigo'
  BY <1>0 DEF EtapaDoArtigo
<1>6. ASSUME perdas' = 0
      PROVE  SoAvanca /\ WorkerAlcanca' /\ DecisaoTomada'
  <2>0. perdas = 0 /\ fila' = fila
    <3>1. CASE Ligar \/ Inscrever
      BY <1>6, <3>1 DEF Ligar, Inscrever
    <3>2. CASE Cair
      <4>1. fila \in Seq(Nos(ferrB) \X BOOLEAN) /\ Len(fila) \in Nat /\ perdas \in Nat
        BY DEF TipoCaminho, TipoContas
      <4>2. perdas + Len(fila) = 0 /\ fila' = <<>>
        BY <1>6, <3>2 DEF Cair, PerderEvento
      <4>3. perdas = 0 /\ Len(fila) = 0
        BY <4>1, <4>2
      <4>4. fila = <<>>
        BY <4>1, <4>3
      <4> QED BY <4>2, <4>3, <4>4
    <3> QED BY <3>1, <3>2
  <2>1. Feitos' = Feitos /\ UltimoEvento' = UltimoEvento
    BY <1>0, <2>0 DEF Feitos, Anunciados, UltimoEvento, Nos
  <2>2. SoAvanca
    BY <1>0, <2>0, <2>1 DEF SoAvanca, NosVistos
  <2>3. WorkerAlcanca'
    BY <1>0, <2>0, <2>1, WorkerFica
  <2>4. DecisaoTomada'
    BY <1>0, <2>0, <2>1 DEF DecisaoTomada
  <2> QED BY <2>2, <2>3, <2>4
<1> QED BY <1>0, <1>1, <1>2, <1>3, <1>4, <1>5, <1>6, PassoDaBarra

LEMMA TelaMantem ==
  ASSUME IndBarra, PassoDaTela, alto' = Max({alto, progressoBase})
  PROVE  IndBarra'
<1> USE DEF IndBarra, TiposBarra
<1>0. /\ UNCHANGED <<ferrB, no, fase, voltas, etapaRow, aguarda>>
      /\ UNCHANGED <<escuta, quedas, perdas>>
      /\ refTela' \in {refTela, etapaTela}
      /\ etapaTela' \in {etapaTela, etapaRow}
      /\ aguardaTela' \in {aguardaTela, aguarda}
  BY DEF PassoDaTela, Repintar, ReceberStatus, ReceberEvento, Renderizar, trabalhoVars,
         caminhoVars
<1>1. /\ TipoCaminho'
      /\ ultimo' \in Nos(ferrB) /\ completos' \subseteq Nos(ferrB)
      /\ Feitos \subseteq Feitos'
      /\ UltimoEvento' = UltimoEvento
      /\ ultimo' \in {ultimo} \cup {fila[j][1] : j \in 1..Len(fila)}
      /\ \A i \in 1..Len(fila') : fila'[i][1] \in {fila[j][1] : j \in 1..Len(fila)}
  <2>1. CASE ReceberEvento
    BY <2>1, ReceberFeitos
  <2>2. CASE Repintar \/ ReceberStatus
    <3>1. UNCHANGED <<ferrB, fila, completos, ultimo, escuta>>
      BY <1>0, <2>2 DEF Repintar, ReceberStatus, caminhoVars
    <3>2. Feitos' = Feitos /\ UltimoEvento' = UltimoEvento
      BY <3>1 DEF Feitos, Anunciados, UltimoEvento, Nos
    <3>3. TipoCaminho'
      BY <3>1 DEF TipoCaminho, Nos
    <3> QED BY <3>1, <3>2, <3>3 DEF TipoPagina
  <2> QED BY <2>1, <2>2 DEF PassoDaTela
<1>2. TipoWorker'
  BY <1>0 DEF TipoWorker
<1>3. TipoContas'
  BY <1>0 DEF TipoContas
<1>4. TipoPagina'
  <2>1. Nos(ferrB') = Nos(ferrB)
    BY <1>0
  <2>2. {etapaTela', refTela', ultimo'} \subseteq Nos(ferrB) /\ completos' \subseteq Nos(ferrB)
    BY <1>0, <1>1 DEF TipoPagina, TipoWorker
  <2>3. aguardaTela' \in BOOLEAN
    BY <1>0 DEF TipoPagina, TipoWorker
  <2> QED BY <2>1, <2>2, <2>3 DEF TipoPagina
<1>5. EtapaDoArtigo'
  BY <1>0 DEF EtapaDoArtigo
<1>6. ASSUME perdas' = 0
      PROVE  SoAvanca /\ WorkerAlcanca' /\ DecisaoTomada'
  <2>1. SoAvanca
    BY <1>0, <1>1, <1>6 DEF SoAvanca, NosVistos
  <2>2. WorkerAlcanca'
    BY <1>0, <1>1, <1>6, WorkerFica
  <2>3. DecisaoTomada'
    BY <1>0, <1>1, <1>6 DEF DecisaoTomada
  <2> QED BY <2>1, <2>2, <2>3
<1> QED BY <1>0, <1>1, <1>2, <1>3, <1>4, <1>5, <1>6, PassoDaBarra

LEMMA NextIndBarra == IndBarra /\ [NextProgresso]_progressoVars => IndBarra'
<1>1. ASSUME IndBarra, NextProgresso
      PROVE  IndBarra'
  BY <1>1, AnunciarMantem, GravarMantem, CompletarMantem, DecidirEsperaMantem, FluxoMantem,
     TelaMantem
     DEF NextProgresso, PassoDoWorker
<1>2. ASSUME IndBarra, UNCHANGED progressoVars
      PROVE  IndBarra'
  <2>0. /\ UNCHANGED <<ferrB, no, fase, voltas, etapaRow, aguarda, escuta, quedas, fila>>
        /\ UNCHANGED <<etapaTela, refTela, aguardaTela, completos, ultimo, perdas, alto>>
    BY <1>2 DEF progressoVars, trabalhoVars, caminhoVars, barraVars
  <2>1. TiposBarra'
    BY <1>2, <2>0 DEF IndBarra, TiposBarra, TipoWorker, TipoCaminho, TipoContas, TipoPagina,
       TipoAlto, Ordem, Nos
  <2>2. EtapaDoArtigo'
    BY <1>2, <2>0 DEF IndBarra, EtapaDoArtigo
  <2>3. Feitos' = Feitos /\ UltimoEvento' = UltimoEvento
    BY <2>0 DEF Feitos, Anunciados, UltimoEvento, Nos
  <2>4. ASSUME perdas = 0
        PROVE  WorkerAlcanca' /\ PaginaAlcanca' /\ AltoAlcancado' /\ DecisaoTomada'
    <3>1. WorkerAlcanca'
      BY <1>2, <2>0, <2>3, <2>4, WorkerFica DEF IndBarra
    <3>2. SoAvanca
      BY <2>0, <2>3, <2>4 DEF SoAvanca, NosVistos
    <3>3. PaginaAlcanca'
      BY <1>2, <2>4, <3>2, AvancaAlcanca DEF IndBarra
    <3>4. AltoAlcancado'
      BY <1>2, <2>0, <2>3, <2>4 DEF IndBarra, AltoAlcancado, Alem, Indice
    <3>5. DecisaoTomada'
      BY <1>2, <2>0, <2>3, <2>4 DEF IndBarra, DecisaoTomada
    <3> QED BY <3>1, <3>3, <3>4, <3>5
  <2> QED BY <2>0, <2>1, <2>2, <2>4 DEF IndBarra
<1> QED BY <1>1, <1>2

LEMMA SempreIndBarra == SpecProgresso => []IndBarra
BY InitIndBarra, NextIndBarra, PTL DEF SpecProgresso

LEMMA NaoAdiantaBasta == IndBarra /\ IndAndado => BarraNaoAdianta
<1> SUFFICES ASSUME IndBarra, IndAndado
             PROVE  progressoBase <= andado + Folga
  BY DEF BarraNaoAdianta, Folga
<1>0. ferrB \in FerramentasBarra /\ TipoPagina
  BY DEF IndBarra, TiposBarra, TipoWorker
<1>1. /\ Len(Ordem) \in 7..9
      /\ \A n \in Barra(ferrB) : Indice(n) \in 0..(Len(Ordem) - 1)
  BY <1>0, Numeradas
<1>2. andado \in Nat /\ Folga \in 0..1
  BY <1>1 DEF IndAndado, TipoAndado, Folga
<1>3. CASE progressoBase = 0
  BY <1>2, <1>3
<1>4. CASE progressoBase = 2 * (lastCompletedIndex + 1)
  <2>1. /\ lastCompletedIndex \in -1..(Len(Ordem) - 1)
        /\ lastCompletedIndex >= 0 =>
             \E m \in completos \cap Barra(ferrB) : Indice(m) = lastCompletedIndex
    BY <1>0, UltimoCompleto
  <2>2. \A m \in completos : 2 * (Indice(m) + 1) <= andado + Folga
    BY DEF IndAndado, NaoAdianta
  <2> HIDE DEF lastCompletedIndex, Indice, Ordem, progressoBase, Folga
  <2>3. CASE lastCompletedIndex >= 0
    BY <1>4, <2>1, <2>2, <2>3
  <2>4. CASE ~(lastCompletedIndex >= 0)
    BY <1>1, <1>2, <1>4, <2>1, <2>4
  <2> QED BY <2>3, <2>4
<1>5. CASE /\ etapaEfetiva \in {etapaTela, refTela, ultimo} \cap Barra(ferrB)
           /\ progressoBase = 2 * Indice(etapaEfetiva) + 1
  <2>1. Comecou(etapaEfetiva)
    BY <1>5 DEF IndAndado, NaoAdianta
  <2> HIDE DEF lastCompletedIndex, Indice, Ordem, progressoBase, Folga, etapaEfetiva
  <2>2. 2 * Indice(etapaEfetiva) + 1 <= andado /\ Indice(etapaEfetiva) \in Int
    BY <1>1, <1>5, <2>1 DEF Comecou
  <2> QED BY <1>2, <1>5, <2>2
<1> QED BY <1>0, <1>3, <1>4, <1>5, BaseDaBarra

LEMMA InitIndAndado == InitProgresso => IndAndado
<1> SUFFICES ASSUME InitProgresso
             PROVE  IndAndado
  OBVIOUS
<1>0. ferrB \in FerramentasBarra
  BY DEF InitProgresso
<1>1. Len(Ordem) \in 7..9 /\ Indice("nada") = -1
  BY <1>0, Numeradas, BarraSemFora DEF Nos
<1>2. andado = 0 /\ fila = <<>> /\ fase = "antes" /\ completos = {}
      /\ etapaRow = "nada" /\ etapaTela = "nada" /\ refTela = "nada" /\ ultimo = "nada"
  BY DEF InitProgresso
<1> HIDE DEF Indice, Ordem
<1>3. TipoAndado
  BY <1>1, <1>2 DEF TipoAndado
<1>4. Comecou("nada")
  BY <1>1, <1>2 DEF Comecou
<1> QED BY <1>2, <1>3, <1>4 DEF IndAndado, NaoAdianta

\* The worker never goes back in what it has reached.
LEMMA AndadoCresce ==
  ASSUME ferrB \in FerramentasBarra, TipoAndado, ferrB' = ferrB,
         NEW k \in -1..(2 * Len(Ordem)), Andar(k)
  PROVE  /\ TipoAndado'
         /\ k <= andado'
         /\ andado <= andado'
<1>1. Len(Ordem) \in 7..9 /\ Ordem' = Ordem
  BY Numeradas DEF Ordem
<1>2. andado \in Int /\ k \in Int /\ andado \in 0..(2 * Len(Ordem))
  BY <1>1 DEF TipoAndado
<1>3. andado' = IF andado >= k THEN andado ELSE k
  BY <1>2, MaiorDeDois DEF Andar
<1> HIDE DEF Ordem
<1>4. andado' \in 0..(2 * Len(Ordem)) /\ k <= andado' /\ andado <= andado'
  BY <1>1, <1>2, <1>3
<1> QED BY <1>1, <1>4 DEF TipoAndado

LEMMA ComecouFica ==
  ASSUME ferrB' = ferrB, andado \in Int, andado' \in Int, andado <= andado', NEW n,
         Indice(n) \in Int
  PROVE  /\ Comecou(n) => Comecou(n)'
         /\ Acabou(n) => Acabou(n)'
         /\ 2 * (Indice(n) + 1) <= andado + Folga =>
              2 * (Indice(n) + 1) <= andado' + Folga
<1>1. /\ Comecou(n)' <=> 2 * Indice(n) + 1 <= andado'
      /\ Acabou(n)' <=> 2 * (Indice(n) + 1) <= andado'
  BY DEF Comecou, Acabou, Indice
<1>2. Folga \in 0..1
  BY DEF Folga
<1> HIDE DEF Indice, Folga
<1>3. 2 * Indice(n) + 1 <= andado => 2 * Indice(n) + 1 <= andado'
  OBVIOUS
<1>4. 2 * (Indice(n) + 1) <= andado => 2 * (Indice(n) + 1) <= andado'
  OBVIOUS
<1>5. 2 * (Indice(n) + 1) <= andado + Folga => 2 * (Indice(n) + 1) <= andado' + Folga
  BY <1>2
<1> QED BY <1>1, <1>3, <1>4, <1>5 DEF Comecou, Acabou

\* What is left to show of a step.
LEMMA PassoAndado ==
  ASSUME IndBarra, IndBarra', IndAndado, ferrB' = ferrB, TipoAndado', andado <= andado',
         \A n \in NosVistos' : n \in NosVistos \/ Comecou(n)',
         \A i \in 1..Len(fila') :
           \/ \E j \in 1..Len(fila) : fila'[i] = fila[j]
           \/ fila'[i][2] => 2 * (Indice(fila'[i][1]) + 1) <= andado',
         \A n \in completos' :
           n \in completos \/ 2 * (Indice(n) + 1) <= andado' + Folga,
         fase' # "antes" => Comecou(no)'
  PROVE  IndAndado'
<1>0. ferrB \in FerramentasBarra /\ Nos(ferrB') = Nos(ferrB)
  BY DEF IndBarra, TiposBarra, TipoWorker
<1>1. \A n \in Nos(ferrB) : Indice(n) \in Int
  <2>1. \A n \in Nos(ferrB) : Indice(n) \in -1..(Len(Ordem) - 1)
    BY <1>0, IndicesInteiros
  <2>2. Len(Ordem) \in 7..9
    BY <1>0, Numeradas
  <2> HIDE DEF Indice, Ordem
  <2> QED BY <2>1, <2>2
<1>2. andado \in Int /\ andado' \in Int
  <2>1. Len(Ordem) \in 7..9 /\ Ordem' = Ordem
    BY <1>0, Numeradas DEF Ordem
  <2> HIDE DEF Ordem
  <2> QED BY <2>1 DEF IndAndado, TipoAndado
<1>3. NosVistos \subseteq Nos(ferrB) /\ completos \subseteq Nos(ferrB)
      /\ \A i \in 1..Len(fila) : fila[i] \in Nos(ferrB) \X BOOLEAN
  BY DEF IndBarra, TiposBarra, TipoWorker, TipoPagina, TipoCaminho, NosVistos
<1>4. \A n \in Nos(ferrB) :
        /\ Comecou(n) => Comecou(n)'
        /\ Acabou(n) => 2 * (Indice(n) + 1) <= andado'
        /\ (2 * (Indice(n) + 1) <= andado + Folga => 2 * (Indice(n) + 1) <= andado' + Folga)
  BY <1>1, <1>2, ComecouFica DEF Acabou, Indice
<1>5. \A n \in NosVistos' : Comecou(n)'
  <2>1. \A n \in NosVistos : Comecou(n)
    BY DEF IndAndado, NaoAdianta, NosVistos
  <2> QED BY <1>3, <1>4, <2>1
<1>6. ASSUME NEW i \in 1..Len(fila'), fila'[i][2]
      PROVE  2 * (Indice(fila'[i][1]) + 1) <= andado'
  <2>1. CASE \E j \in 1..Len(fila) : fila'[i] = fila[j]
    <3>1. PICK j \in 1..Len(fila) : fila'[i] = fila[j]
      BY <2>1
    <3> DEFINE n == fila[j][1]
    <3>2. n \in Nos(ferrB) /\ n = fila'[i][1]
      BY <1>3, <3>1
    <3>3. fila[j][2] => Acabou(n)
      BY DEF IndAndado, NaoAdianta
    <3>4. fila[j][2]
      BY <1>6, <3>1
    <3>5. Acabou(n)
      BY <3>3, <3>4, Zenon
    <3> HIDE DEF n
    <3>6. 2 * (Indice(n) + 1) <= andado'
      BY <1>4, <3>2, <3>5
    <3> QED BY <3>2, <3>6
  <2> QED BY <1>6, <2>1, Zenon
<1>7. \A n \in completos' : 2 * (Indice(n) + 1) <= andado' + Folga
  BY <1>3, <1>4 DEF IndAndado, NaoAdianta
<1>8. \A n \in completos' : (2 * (Indice(n) + 1) <= andado + Folga)'
  BY <1>7 DEF Indice, Folga
<1>9. Comecou(etapaRow)' /\ Comecou(etapaTela)' /\ Comecou(refTela)' /\ Comecou(ultimo)'
      /\ \A i \in 1..Len(fila') : Comecou(fila[i][1])'
  BY <1>5 DEF NosVistos, Comecou, Indice
<1>10. \A i \in 1..Len(fila') : (fila'[i][2] => Acabou(fila[i][1])')
  <2>1. \A i \in 1..Len(fila') : Acabou(fila[i][1])' <=> 2 * (Indice(fila'[i][1]) + 1) <= andado'
    BY DEF Acabou, Indice
  <2> QED BY <1>6, <2>1, Zenon
<1> QED BY <1>8, <1>9, <1>10 DEF IndAndado, NaoAdianta

LEMMA PublicarFila ==
  ASSUME TipoCaminho, NEW n \in Nos(ferrB), NEW b \in BOOLEAN, Publicar(n, b)
  PROVE  \A i \in 1..Len(fila') :
           (\E j \in 1..Len(fila) : fila'[i] = fila[j]) \/ fila'[i] = <<n, b>>
<1>1. CASE UNCHANGED fila
  BY <1>1
<1>2. CASE fila' = Append(fila, <<n, b>>)
  <2>1. /\ Len(fila) \in Nat
        /\ Len(fila') = Len(fila) + 1
        /\ fila'[Len(fila) + 1] = <<n, b>>
        /\ \A i \in 1..Len(fila) : fila'[i] = fila[i]
    BY <1>2 DEF TipoCaminho
  <2> SUFFICES ASSUME NEW i \in 1..Len(fila'), i # Len(fila) + 1
               PROVE  \E j \in 1..Len(fila) : fila'[i] = fila[j]
    BY <2>1
  <2>2. i \in 1..Len(fila)
    BY <2>1
  <2> QED BY <2>1, <2>2
<1> QED BY <1>1, <1>2 DEF Publicar

\* Publishing what the worker has just reached.
LEMMA AnuncioAndado ==
  ASSUME IndBarra, IndBarra', IndAndado, NEW b \in BOOLEAN, NEW k \in Int,
         no \in Nos(ferrB), Publicar(no, b), Andar(k),
         k = IF b THEN 2 * (Indice(no) + 1) ELSE 2 * Indice(no) + 1,
         UNCHANGED <<ferrB, etapaRow, barraVars>>,
         IF b THEN fase' = "antes" ELSE no' = no
  PROVE  IndAndado'
<1> DEFINE n == no
<1>0. ferrB \in FerramentasBarra /\ ferrB' = ferrB /\ TipoCaminho
      /\ UNCHANGED <<etapaRow, etapaTela, refTela, completos, ultimo>>
  BY DEF IndBarra, TiposBarra, TipoWorker, barraVars
<1>1. Indice(n) \in -1..(Len(Ordem) - 1) /\ Len(Ordem) \in 7..9
  BY <1>0, IndicesInteiros, Numeradas
<1>2. k \in -1..(2 * Len(Ordem)) /\ 2 * Indice(n) + 1 <= k
      /\ (b => 2 * (Indice(n) + 1) <= k)
  <2> HIDE DEF Indice, Ordem, n
  <2>1. k = IF b THEN 2 * (Indice(n) + 1) ELSE 2 * Indice(n) + 1
    BY DEF n
  <2>2. CASE b = TRUE
    BY <1>1, <2>1, <2>2
  <2>3. CASE b = FALSE
    BY <1>1, <2>1, <2>3
  <2> QED BY <2>2, <2>3
<1>3. TipoAndado' /\ k <= andado' /\ andado <= andado'
  BY <1>0, <1>2, AndadoCresce DEF IndAndado
<1>4. andado' \in Int
  <2>1. Ordem' = Ordem
    BY <1>0 DEF Ordem
  <2> HIDE DEF Ordem
  <2> QED BY <1>1, <1>3, <2>1 DEF TipoAndado
<1>5. 2 * Indice(n) + 1 <= andado' /\ (b => 2 * (Indice(n) + 1) <= andado')
  <2> HIDE DEF Indice, n
  <2>1. Indice(n) \in Int
    BY <1>1
  <2>2. 2 * Indice(n) + 1 <= andado'
    BY <1>2, <1>3, <1>4, <2>1
  <2>3. ASSUME 2 * (Indice(n) + 1) <= k
        PROVE  2 * (Indice(n) + 1) <= andado'
    BY <1>3, <1>4, <2>1, <2>3
  <2> QED BY <1>2, <2>2, <2>3, Zenon
<1>6. \A x : x = n => (Comecou(x)' <=> 2 * Indice(n) + 1 <= andado')
  BY <1>0 DEF Comecou, Indice
<1>7. \A i \in 1..Len(fila') :
        (\E j \in 1..Len(fila) : fila'[i] = fila[j]) \/ fila'[i] = <<n, b>>
  BY <1>0, PublicarFila
<1>8. \A x \in NosVistos' : x \in NosVistos \/ Comecou(x)'
  BY <1>0, <1>5, <1>6, <1>7 DEF NosVistos
<1>9. ASSUME NEW i \in 1..Len(fila'), fila'[i][2], fila'[i] = <<n, b>>
       PROVE  2 * (Indice(fila'[i][1]) + 1) <= andado'
  <2>1. fila'[i][1] = n
    BY <1>9
  <2>2. fila'[i][2] = b
    BY <1>9
  <2>3. b
    BY <1>9, <2>2, Zenon
  <2>4. 2 * (Indice(n) + 1) <= andado'
    BY <1>5, <2>3, Zenon
  <2> QED BY <2>1, <2>4
<1>10. fase' # "antes" => Comecou(no)'
  <2>1. CASE b = TRUE
    BY <2>1
  <2>2. CASE b = FALSE
    <3>1. no' = n
      BY <2>2
    <3> QED BY <1>0, <1>5, <3>1 DEF Comecou, Indice
  <2> QED BY <2>1, <2>2
<1>11. \A i \in 1..Len(fila') :
         \/ \E j \in 1..Len(fila) : fila'[i] = fila[j]
         \/ fila'[i][2] => 2 * (Indice(fila'[i][1]) + 1) <= andado'
  BY <1>7, <1>9, Zenon
<1> QED BY <1>0, <1>3, <1>8, <1>10, <1>11, PassoAndado

\* An event that reads as an end is one, or the page is half a step ahead.
LEMMA EventoAndado ==
  ASSUME IndBarra, IndAndado, ReceberEvento
  PROVE  \A n \in completos' : n \in completos \/ 2 * (Indice(n) + 1) <= andado + Folga
<1> DEFINE h == Head(fila)
<1>0. ferrB \in FerramentasBarra
  BY DEF IndBarra, TiposBarra, TipoWorker
<1>1. completos' = IF DizQueAcabou(h) THEN completos \cup {h[1]} ELSE completos
  BY DEF ReceberEvento
<1>2. 1 \in 1..Len(fila) /\ h = fila[1] /\ h \in Nos(ferrB) \X BOOLEAN
  BY DEF IndBarra, TiposBarra, TipoCaminho, ReceberEvento
<1>3. Comecou(h[1]) /\ (h[2] => Acabou(h[1]))
  <2>1. Comecou(fila[1][1]) /\ (fila[1][2] => Acabou(fila[1][1]))
    BY <1>2 DEF IndAndado, NaoAdianta
  <2> HIDE DEF h
  <2>2. h[1] = fila[1][1] /\ h[2] = fila[1][2]
    BY <1>2
  <2> QED BY <2>1, <2>2, Zenon
<1> HIDE DEF h
<1> SUFFICES ASSUME DizQueAcabou(h)
             PROVE  2 * (Indice(h[1]) + 1) <= andado + Folga
  BY <1>1
<1>4. Indice(h[1]) \in -1..(Len(Ordem) - 1) /\ Len(Ordem) \in 7..9
      /\ (h[1] \in Barra(ferrB) <=> Indice(h[1]) >= 0) /\ h[1] \in Nos(ferrB)
  BY <1>0, <1>2, IndicesInteiros, Numeradas
<1>5. andado \in Nat /\ Folga \in 0..1
  <2> HIDE DEF Ordem
  <2> QED BY <1>4 DEF IndAndado, TipoAndado, Folga
<1>6. CASE h[2]
  <2>1. 2 * (Indice(h[1]) + 1) <= andado
    BY <1>3, <1>6, Zenon DEF Acabou
  <2> HIDE DEF Indice, Folga, Ordem
  <2> QED BY <1>4, <1>5, <2>1
<1>7. CASE ~h[2]
  <2>1. h[1] \in {"extrair_alvo", "persistir_falha_alvo"}
    BY <1>7, Zenon DEF DizQueAcabou, InicioSemReticencias
  <2>2. 2 * Indice(h[1]) + 1 <= andado
    BY <1>3 DEF Comecou
  <2>3. CASE h[1] = "persistir_falha_alvo"
    <3>1. h[1] \notin Barra(ferrB)
      BY <1>0, <2>3, BarraSemFora DEF ForaDaBarra
    <3> HIDE DEF Indice, Folga, Ordem
    <3>2. Indice(h[1]) = -1
      BY <1>4, <3>1
    <3> QED BY <1>5, <3>2
  <2>4. CASE h[1] = "extrair_alvo"
    <3>1. ferrB = "distribuir_inlinks"
      BY <1>0, <1>4, <2>4, AlvoSoDistribui
    <3>2. Folga = 1
      BY <3>1 DEF Folga
    <3> HIDE DEF Indice, Folga, Ordem
    <3> QED BY <1>4, <1>5, <2>2, <3>2
  <2> QED BY <2>1, <2>3, <2>4
<1> QED BY <1>6, <1>7

LEMMA NextIndAndado ==
  ASSUME IndBarra, IndBarra', IndAndado, NextProgresso
  PROVE  IndAndado'
<1>0. ferrB \in FerramentasBarra /\ no \in Trabalhos(ferrB) /\ TipoCaminho
  BY DEF IndBarra, TiposBarra, TipoWorker
<1>1. no \notin {"decisao", "fim"} => no \in Nos(ferrB)
  BY <1>0 DEF Trabalhos, Nos, Barra, ForaDaBarra
<1>2. Len(Ordem) \in 7..9 /\ \A n \in Nos(ferrB) : Indice(n) \in -1..(Len(Ordem) - 1)
  BY <1>0, IndicesInteiros, Numeradas
<1>3. ASSUME UNCHANGED <<ferrB, andado>>
      PROVE  TipoAndado' /\ andado <= andado'
             /\ \A n : Comecou(n)' <=> Comecou(n)
  <2>1. Ordem' = Ordem /\ \A n : Comecou(n)' <=> Comecou(n)
    BY <1>3 DEF Ordem, Comecou, Indice
  <2>2. TipoAndado'
    BY <1>3, <2>1 DEF IndAndado, TipoAndado
  <2>3. andado <= andado'
    <3> HIDE DEF Ordem
    <3> QED BY <1>2, <1>3 DEF IndAndado, TipoAndado
  <2> QED BY <2>1, <2>2, <2>3
<1>4. CASE Anunciar
  <2>1. no \in Nos(ferrB)
    BY <1>1, <1>4 DEF Anunciar, Parado
  <2>2. Publicar(no, FALSE) /\ Andar(2 * Indice(no) + 1) /\ no' = no
        /\ UNCHANGED <<ferrB, etapaRow, barraVars>>
    BY <1>4 DEF Anunciar
  <2>3. 2 * Indice(no) + 1 \in Int
    <3> HIDE DEF Indice, Ordem
    <3> QED BY <1>2, <2>1
  <2> QED BY <2>1, <2>2, <2>3, AnuncioAndado
<1>5. CASE Completar
  <2>1. no \in Nos(ferrB)
    BY <1>1, <1>5 DEF Completar, Parado
  <2>2. Publicar(no, TRUE) /\ Andar(2 * (Indice(no) + 1)) /\ fase' = "antes"
        /\ UNCHANGED <<ferrB, etapaRow, barraVars>>
    BY <1>5 DEF Completar
  <2>3. 2 * (Indice(no) + 1) \in Int
    <3> HIDE DEF Indice, Ordem
    <3> QED BY <1>2, <2>1
  <2> QED BY <2>1, <2>2, <2>3, AnuncioAndado
<1>6. CASE Gravar
  <2>0. /\ UNCHANGED <<ferrB, andado, no, fila, etapaTela, refTela, completos, ultimo>>
        /\ etapaRow' \in {no, etapaRow} /\ fase # "antes"
    BY <1>6 DEF Gravar, caminhoVars, barraVars
  <2>1. Comecou(no) /\ Comecou(no)'
    BY <1>3, <2>0 DEF IndAndado, NaoAdianta, Comecou, Indice
  <2>2. \A n \in NosVistos' : n \in NosVistos \/ Comecou(n)'
    BY <1>3, <2>0, <2>1 DEF NosVistos
  <2> QED BY <1>3, <2>0, <2>1, <2>2, PassoAndado
<1>7. CASE DecidirEspera
  <2>0. /\ UNCHANGED <<ferrB, andado, fase, fila, etapaRow, etapaTela, refTela, completos, ultimo>>
        /\ fase = "antes"
    BY <1>7 DEF DecidirEspera, barraVars, IndBarra, TiposBarra, TipoWorker
  <2>1. \A n \in NosVistos' : n \in NosVistos
    BY <2>0 DEF NosVistos
  <2> QED BY <1>3, <2>0, <2>1, PassoAndado
<1>8. ASSUME UNCHANGED <<ferrB, andado, fase, no, completos>>, NosVistos' \subseteq NosVistos,
             \A i \in 1..Len(fila') : \E j \in 1..Len(fila) : fila'[i] = fila[j]
      PROVE  IndAndado'
  <2>1. fase' # "antes" => Comecou(no)'
    BY <1>8 DEF IndAndado, NaoAdianta, Comecou, Indice
  <2> QED BY <1>3, <1>8, <2>1, PassoAndado
<1>9. CASE Ligar \/ Inscrever \/ Cair
  <2>0. /\ UNCHANGED <<ferrB, andado, fase, no, etapaRow, etapaTela, refTela, completos, ultimo>>
        /\ fila' = fila \/ fila' = <<>>
    BY <1>9 DEF Ligar, Inscrever, Cair, HistoricoFica, trabalhoVars, barraVars
  <2>1. \A i \in 1..Len(fila') : \E j \in 1..Len(fila) : fila'[i] = fila[j]
    BY <2>0
  <2>2. NosVistos' \subseteq NosVistos
    BY <2>0, <2>1 DEF NosVistos
  <2> QED BY <1>8, <2>0, <2>1, <2>2
<1>10. CASE Repintar \/ ReceberStatus
  <2>0. /\ UNCHANGED <<ferrB, andado, fase, no, etapaRow, completos, ultimo, fila>>
        /\ refTela' \in {refTela, etapaTela} /\ etapaTela' \in {etapaTela, etapaRow}
    BY <1>10 DEF Repintar, ReceberStatus, Renderizar, trabalhoVars, caminhoVars
  <2>2. NosVistos' \subseteq NosVistos
    BY <2>0 DEF NosVistos
  <2> QED BY <1>8, <2>0, <2>2
<1>11. CASE ReceberEvento
  <2>0. /\ UNCHANGED <<ferrB, andado, fase, no, etapaRow, etapaTela>>
        /\ refTela' \in {refTela, etapaTela} /\ ultimo' = Head(fila)[1]
        /\ fila' = Tail(fila) /\ fila # <<>> /\ fila \in Seq(Nos(ferrB) \X BOOLEAN)
    BY <1>11 DEF ReceberEvento, Renderizar, trabalhoVars, IndBarra, TiposBarra, TipoCaminho
  <2>1. /\ Len(fila) \in Nat \ {0} /\ Len(fila') = Len(fila) - 1
        /\ \A i \in 1..Len(fila') : fila'[i] = fila[i + 1]
        /\ Head(fila) = fila[1]
    <3> DEFINE T == Nos(ferrB) \X BOOLEAN
    <3> HIDE DEF T
    <3>1. fila \in Seq(T) /\ fila # <<>> /\ fila' = Tail(fila)
      BY <2>0 DEF T
    <3>2. Len(fila) \in Nat \ {0} /\ Len(fila') = Len(fila) - 1
      BY <3>1
    <3> QED BY <3>1, <3>2
  <2>2. \A i \in 1..Len(fila') : \E j \in 1..Len(fila) : fila'[i] = fila[j]
    <3> SUFFICES ASSUME NEW i \in 1..Len(fila')
                 PROVE  i + 1 \in 1..Len(fila)
      BY <2>1
    <3> QED BY <2>1
  <2>3. ultimo' \in NosVistos
    BY <2>0, <2>1 DEF NosVistos
  <2>4. \A i \in 1..Len(fila') : fila'[i][1] \in NosVistos
    BY <2>2 DEF NosVistos
  <2>5. {etapaRow', etapaTela', refTela'} \subseteq NosVistos
    BY <2>0 DEF NosVistos
  <2>6. NosVistos' = {etapaRow', etapaTela', refTela', ultimo'}
                       \cup {fila'[i][1] : i \in 1..Len(fila')}
    BY DEF NosVistos
  <2>7. NosVistos' \subseteq NosVistos
    BY <2>3, <2>4, <2>5, <2>6
  <2>8. \A n \in completos' : n \in completos \/ 2 * (Indice(n) + 1) <= andado' + Folga
    BY <1>11, <2>0, EventoAndado
  <2>9. fase' # "antes" => Comecou(no)'
    BY <2>0 DEF IndAndado, NaoAdianta, Comecou, Indice
  <2> QED BY <1>3, <2>0, <2>2, <2>7, <2>8, <2>9, PassoAndado
<1> QED BY <1>4, <1>5, <1>6, <1>7, <1>9, <1>10, <1>11
        DEF NextProgresso, PassoDoWorker, PassoDaTela

LEMMA SempreIndAndado == SpecProgresso => [](IndBarra /\ IndAndado)
<1>1. InitProgresso => IndBarra /\ IndAndado
  BY InitIndBarra, InitIndAndado
<1>2. IndBarra /\ IndAndado /\ [NextProgresso]_progressoVars => (IndBarra /\ IndAndado)'
  <2> SUFFICES ASSUME IndBarra, IndAndado, [NextProgresso]_progressoVars
               PROVE  IndBarra' /\ IndAndado'
    OBVIOUS
  <2>1. IndBarra'
    BY NextIndBarra
  <2>2. CASE NextProgresso
    BY <2>1, <2>2, NextIndAndado
  <2>3. CASE UNCHANGED progressoVars
    <3>1. UNCHANGED <<ferrB, andado, fase, no, etapaRow, etapaTela, refTela, completos, ultimo, fila>>
      BY <2>3 DEF progressoVars, trabalhoVars, caminhoVars, barraVars
    <3>2. TipoAndado' <=> TipoAndado
      BY <3>1 DEF TipoAndado, Ordem
    <3>3. NaoAdianta' <=> NaoAdianta
      BY <3>1 DEF NaoAdianta, Comecou, Acabou, Indice, Folga
    <3> QED BY <2>1, <3>2, <3>3 DEF IndAndado
  <2> QED BY <2>1, <2>2, <2>3
<1> QED BY <1>1, <1>2, PTL DEF SpecProgresso

\* barra-progresso-workflow.tsx:230-231, 286-297: for the three tools, however often
\* an article is written again, the bar is never further than the work was, by more
\* than the half step of extrair_alvo, whatever is lost or late; and a page that
\* missed nothing shows a bar that is where it has ever been, within the step or so
\* that BarraConfere names, with no blank step but that of salvar_vetorial.
THEOREM BarraMostraOTrabalho ==
  SpecProgresso => [](ProgressoTypeOK /\ BarraConfere /\ BarraNaoAdianta)
<1>1. IndBarra /\ IndAndado => ProgressoTypeOK /\ BarraConfere /\ BarraNaoAdianta
  BY IndBarraBasta, NaoAdiantaBasta DEF IndAndado
<1> QED BY <1>1, SempreIndAndado, PTL

-----------------------------------------------------------------------------
(* The technical opinion: what was paid for is followed, or given up aloud. *)

TipoGeracao ==
  /\ laudos \in [Pareceres -> {"livre", "rodando", "concluida", "falhou"}]
  /\ estadoPar \in {"idle", "gerando", "pronto", "erro"}
  /\ passoPar \in {"nada", "post", "postVazio", "poll", "espera", "doc"}
  /\ alvo \in 0..MaxPareceres
  /\ docPar \in 0..MaxPareceres
  /\ abandonados \subseteq Pareceres

TipoContagem == errosPar \in 0..3 /\ tempo \in 0..MaxRodadas

TipoEditorPar ==
  /\ comCliente \in BOOLEAN
  /\ conteudo \in {Vazio, Branco} \cup 0..MaxImagens
  /\ colando \in BOOLEAN

TipoCustoPar ==
  /\ relogio \in BOOLEAN
  /\ orcamentos \subseteq 0..MaxImagens
  /\ custo \in 0..PrecoParecer(MaxImagens)

TiposParecer == TipoGeracao /\ TipoContagem /\ TipoEditorPar /\ TipoCustoPar

\* What gerar knows of the execution it follows, at each of its awaits.
AlvoConhecido ==
  /\ estadoPar = "gerando" <=> passoPar # "nada"
  /\ passoPar \in {"poll", "espera", "doc"} => alvo \in Pareceres /\ laudos[alvo] # "livre"
  /\ passoPar = "doc" => laudos[alvo] = "concluida"
  /\ estadoPar = "pronto" =>
       alvo \in Pareceres /\ docPar = alvo /\ laudos[alvo] = "concluida"

\* The third error in a row was the last.
ErrosContados == passoPar \in {"poll", "espera"} => errosPar <= 2

\* What still runs is followed, or gerar has said that it gave up on it.
RodandoSeguido ==
  \A p \in Pareceres :
    laudos[p] = "rodando" =>
      p \in abandonados \/ (p = alvo /\ passoPar \in {"poll", "espera"})

IndParecer == TiposParecer /\ AlvoConhecido /\ ErrosContados /\ RodandoSeguido

LEMMA InitIndParecer == InitParecer => IndParecer
<1> SUFFICES ASSUME InitParecer
             PROVE  IndParecer
  OBVIOUS
<1> USE DEF InitParecer
<1>1. TipoGeracao
  <2>1. 0 \in 0..MaxPareceres
    BY PaginaParecerAssumption
  <2> QED BY <2>1 DEF TipoGeracao
<1>2. TipoContagem
  BY PaginaParecerAssumption DEF TipoContagem
<1>3. TipoEditorPar
  BY DEF TipoEditorPar
<1>4. TipoCustoPar
  <2>1. SemCusto \in 0..PrecoParecer(MaxImagens)
    BY PaginaParecerAssumption DEF SemCusto, PrecoParecer
  <2> QED BY <2>1 DEF TipoCustoPar
<1>5. AlvoConhecido /\ ErrosContados /\ RodandoSeguido
  BY DEF AlvoConhecido, ErrosContados, RodandoSeguido
<1> QED BY <1>1, <1>2, <1>3, <1>4, <1>5 DEF IndParecer, TiposParecer

\* The editor and the price leave the opinion alone.
LEMMA RedigirMantem == IndParecer /\ (Redigir \/ Orcar) => IndParecer'
<1> SUFFICES ASSUME IndParecer, Redigir \/ Orcar
             PROVE  IndParecer'
  OBVIOUS
<1>1. UNCHANGED geracaoVars
  BY DEF Redigir, Orcar, EscolherClienteParecer, Escrever, Colar, Colado, LoadCusto,
         OrcamentoChegou
<1>2. /\ TipoGeracao' /\ TipoContagem'
      /\ AlvoConhecido' /\ ErrosContados' /\ RodandoSeguido'
  BY <1>1 DEF IndParecer, TiposParecer, TipoGeracao, TipoContagem, AlvoConhecido,
         ErrosContados, RodandoSeguido, geracaoVars
<1>3. TipoEditorPar' /\ TipoCustoPar'
  <2>0. TipoEditorPar /\ TipoCustoPar
    BY DEF IndParecer, TiposParecer
  <2>1. CASE EscolherClienteParecer \/ Escrever \/ Colar
    BY <2>0, <2>1 DEF EscolherClienteParecer, Escrever, Colar, Reorcar, TipoEditorPar,
         TipoCustoPar, custoVars
  <2>2. CASE Colado
    <3>1. conteudo' \in {Vazio, Branco} \cup 0..MaxImagens
      <4>1. CASE UNCHANGED conteudo
        BY <2>0, <4>1 DEF TipoEditorPar
      <4>2. CASE /\ conteudo' = IF TemBloco THEN conteudo + 1 ELSE 1
                 /\ conteudo' <= MaxImagens
        BY <2>0, <4>2, PaginaParecerAssumption
           DEF TipoEditorPar, TemBloco, Vazio, Branco
      <4> QED BY <2>2, <4>1, <4>2 DEF Colado
    <3>2. relogio' \in BOOLEAN /\ UNCHANGED <<comCliente, orcamentos, custo>>
          /\ colando' = FALSE
      BY <2>0, <2>2 DEF Colado, Reorcar, TipoCustoPar
    <3> QED BY <2>0, <3>1, <3>2 DEF TipoEditorPar, TipoCustoPar
  <2>3. CASE LoadCusto
    <3>1. UNCHANGED editorVars /\ relogio' = FALSE
      BY <2>3 DEF LoadCusto
    <3>2. orcamentos' \subseteq 0..MaxImagens
      <4>1. TemBloco => conteudo \in 0..MaxImagens
        BY <2>0 DEF TipoEditorPar, TemBloco, Vazio, Branco
      <4> QED BY <2>0, <2>3, <4>1 DEF LoadCusto, TipoCustoPar
    <3>3. custo' \in 0..PrecoParecer(MaxImagens)
      <4>1. SemCusto \in 0..PrecoParecer(MaxImagens)
        BY PaginaParecerAssumption DEF SemCusto, PrecoParecer
      <4> QED BY <2>0, <2>3, <4>1 DEF LoadCusto, TipoCustoPar
    <3> QED BY <2>0, <3>1, <3>2, <3>3 DEF TipoEditorPar, TipoCustoPar, editorVars
  <2>4. CASE \E n \in 0..MaxImagens : OrcamentoChegou(n)
    <3> PICK n \in 0..MaxImagens : OrcamentoChegou(n)
      BY <2>4
    <3>1. UNCHANGED editorVars /\ UNCHANGED relogio
      BY DEF OrcamentoChegou
    <3>2. custo' \in 0..PrecoParecer(MaxImagens)
      <4>1. {PrecoParecer(n), SemCusto} \subseteq 0..PrecoParecer(MaxImagens)
        BY PaginaParecerAssumption DEF SemCusto, PrecoParecer
      <4> QED BY <4>1 DEF OrcamentoChegou
    <3>3. orcamentos' \subseteq 0..MaxImagens
      BY <2>0 DEF OrcamentoChegou, TipoCustoPar
    <3> QED BY <2>0, <3>1, <3>2, <3>3 DEF TipoEditorPar, TipoCustoPar, editorVars
  <2> QED BY <2>1, <2>2, <2>3, <2>4 DEF Redigir, Orcar
<1> QED BY <1>2, <1>3 DEF IndParecer, TiposParecer

\* gerar, up to the answer of its POST.
LEMMA PostarMantem == IndParecer /\ (Gerar \/ Postar \/ ResetParecer) => IndParecer'
<1> SUFFICES ASSUME IndParecer, Gerar \/ Postar \/ ResetParecer
             PROVE  IndParecer'
  OBVIOUS
<1>0. TipoGeracao /\ TipoContagem /\ AlvoConhecido /\ RodandoSeguido
  BY DEF IndParecer, TiposParecer
<1>1. TipoEditorPar' /\ TipoCustoPar'
  <2>1. UNCHANGED <<editorVars, custoVars>>
    BY DEF Gerar, Postar, PostCriou, PostRecusado, PostSemResposta, ResetParecer
  <2> QED BY <2>1 DEF IndParecer, TiposParecer, TipoEditorPar, TipoCustoPar, editorVars,
             custoVars
<1>2. CASE Gerar
  <2>1. UNCHANGED <<laudos, alvo, docPar, abandonados, errosPar, tempo>>
        /\ estadoPar' = "gerando" /\ passoPar' \in {"post", "postVazio"}
    BY <1>2 DEF Gerar
  <2>2. estadoPar \in {"idle", "erro"}
    BY <1>2 DEF Gerar, BotaoGerar
  <2>3. TipoGeracao' /\ TipoContagem'
    BY <1>0, <2>1 DEF TipoGeracao, TipoContagem
  <2>4. AlvoConhecido' /\ ErrosContados' /\ RodandoSeguido'
    BY <1>0, <2>1, <2>2 DEF AlvoConhecido, ErrosContados, RodandoSeguido, TipoGeracao
  <2> QED BY <1>1, <2>3, <2>4 DEF IndParecer, TiposParecer
<1>3. CASE PostCriou
  <2> PICK p \in Pareceres : Criar(p) /\ alvo' = p
    BY <1>3 DEF PostCriou
  <2>1. /\ passoPar = "post" /\ passoPar' = "poll" /\ estadoPar' = estadoPar
        /\ laudos' = [laudos EXCEPT ![p] = "rodando"]
        /\ UNCHANGED <<docPar, abandonados>>
    BY <1>3 DEF PostCriou, Criar
  <2>2. errosPar' = 0 /\ tempo' = 0
    BY <1>3 DEF PostCriou, ZerarErros
  <2>3. alvo' \in 0..MaxPareceres
    BY DEF Pareceres
  <2>4. TipoGeracao'
    BY <1>0, <2>1, <2>3 DEF TipoGeracao
  <2>5. TipoContagem' /\ ErrosContados'
    BY <2>2, PaginaParecerAssumption DEF TipoContagem, ErrosContados
  <2>6. AlvoConhecido'
    BY <1>0, <2>1 DEF AlvoConhecido, TipoGeracao
  <2>7. RodandoSeguido'
    BY <1>0, <2>1 DEF RodandoSeguido, TipoGeracao
  <2> QED BY <1>1, <2>4, <2>5, <2>6, <2>7 DEF IndParecer, TiposParecer
<1>4. CASE PostRecusado
  <2>1. /\ UNCHANGED <<laudos, alvo, docPar, abandonados, errosPar, tempo>>
        /\ estadoPar' = "erro" /\ passoPar' = "nada"
        /\ passoPar \in {"post", "postVazio"}
    BY <1>4 DEF PostRecusado, DesistirDe
  <2>2. TipoGeracao' /\ TipoContagem'
    BY <1>0, <2>1 DEF TipoGeracao, TipoContagem
  <2>3. AlvoConhecido' /\ ErrosContados' /\ RodandoSeguido'
    BY <1>0, <2>1 DEF AlvoConhecido, ErrosContados, RodandoSeguido
  <2> QED BY <1>1, <2>2, <2>3 DEF IndParecer, TiposParecer
<1>5. CASE PostSemResposta
  <2> PICK p \in Pareceres : Criar(p) /\ DesistirDe({p})
    BY <1>5 DEF PostSemResposta
  <2>1. /\ passoPar = "post" /\ passoPar' = "nada" /\ estadoPar' = "erro"
        /\ laudos' = [laudos EXCEPT ![p] = "rodando"]
        /\ abandonados' = abandonados \cup {p}
        /\ UNCHANGED <<alvo, docPar, errosPar, tempo>>
    BY <1>5 DEF PostSemResposta, Criar, DesistirDe
  <2>2. TipoGeracao' /\ TipoContagem'
    BY <1>0, <2>1 DEF TipoGeracao, TipoContagem
  <2>3. AlvoConhecido' /\ ErrosContados'
    BY <2>1 DEF AlvoConhecido, ErrosContados
  <2>4. RodandoSeguido'
    BY <1>0, <2>1 DEF RodandoSeguido, TipoGeracao
  <2> QED BY <1>1, <2>2, <2>3, <2>4 DEF IndParecer, TiposParecer
<1>6. CASE ResetParecer
  <2>1. /\ UNCHANGED <<laudos, passoPar, abandonados, errosPar, tempo>>
        /\ estadoPar = "pronto" /\ estadoPar' = "idle" /\ alvo' = 0 /\ docPar' = 0
    BY <1>6 DEF ResetParecer
  <2>2. passoPar = "nada"
    BY <1>0, <2>1 DEF AlvoConhecido
  <2>3. 0 \in 0..MaxPareceres
    BY PaginaParecerAssumption
  <2>4. TipoGeracao' /\ TipoContagem'
    BY <1>0, <2>1, <2>3 DEF TipoGeracao, TipoContagem
  <2>5. AlvoConhecido' /\ ErrosContados' /\ RodandoSeguido'
    BY <1>0, <2>1, <2>2 DEF AlvoConhecido, ErrosContados, RodandoSeguido
  <2> QED BY <1>1, <2>4, <2>5 DEF IndParecer, TiposParecer
<1> QED BY <1>2, <1>3, <1>4, <1>5, <1>6 DEF Postar

\* The polls, to a document or to the end of patience.
LEMMA SondarMantem == IndParecer /\ Sondar => IndParecer'
<1> SUFFICES ASSUME IndParecer, Sondar
             PROVE  IndParecer'
  OBVIOUS
<1>0. TipoGeracao /\ TipoContagem /\ AlvoConhecido /\ ErrosContados /\ RodandoSeguido
  BY DEF IndParecer, TiposParecer
<1>1. TipoEditorPar' /\ TipoCustoPar'
  <2>1. UNCHANGED <<editorVars, custoVars>>
    BY DEF Sondar, PollRespondido, PollPerdido, PollDeNovo, DocChegou, DocPerdido
  <2> QED BY <2>1 DEF IndParecer, TiposParecer, TipoEditorPar, TipoCustoPar, editorVars,
             custoVars
<1>2. UNCHANGED <<laudos, alvo>> /\ passoPar \in {"poll", "espera", "doc"}
  BY DEF Sondar, PollRespondido, PollPerdido, PollDeNovo, DocChegou, DocPerdido
<1>3. /\ alvo \in Pareceres /\ laudos[alvo] \in {"rodando", "concluida", "falhou"}
      /\ estadoPar = "gerando"
  BY <1>0, <1>2 DEF AlvoConhecido, TipoGeracao
<1>4. TipoContagem' /\ ErrosContados'
  <2>1. CASE PollRespondido
    BY <1>0, <2>1 DEF PollRespondido, TipoContagem, ErrosContados
  <2>2. CASE PollPerdido
    <3>1. errosPar' \in 0..3 /\ tempo' = tempo
      BY <1>0, <2>2 DEF PollPerdido, TipoContagem, ErrosContados
    <3>2. errosPar' <= 2 \/ passoPar' = "nada"
      BY <3>1, <2>2 DEF PollPerdido, DesistirDe
    <3> QED BY <1>0, <3>1, <3>2 DEF TipoContagem, ErrosContados
  <2>3. CASE PollDeNovo
    <3>1. errosPar' = errosPar /\ errosPar <= 2
      BY <1>0, <2>3 DEF PollDeNovo, ErrosContados
    <3>2. tempo' \in 0..MaxRodadas
      BY <1>0, <2>3, PaginaParecerAssumption DEF PollDeNovo, TipoContagem
    <3> QED BY <1>0, <3>1, <3>2 DEF TipoContagem, ErrosContados
  <2>4. CASE DocChegou \/ DocPerdido
    BY <1>0, <2>4 DEF DocChegou, DocPerdido, DesistirDe, TipoContagem, ErrosContados
  <2> QED BY <2>1, <2>2, <2>3, <2>4 DEF Sondar
\* Every step of the polls is one of four.
<1>5. \/ /\ passoPar' \in {"poll", "espera"} /\ passoPar \in {"poll", "espera"}
         /\ UNCHANGED <<estadoPar, abandonados, docPar>>
      \/ /\ passoPar' = "doc" /\ laudos[alvo] = "concluida"
         /\ UNCHANGED <<estadoPar, abandonados, docPar>>
      \/ /\ passoPar' = "nada" /\ estadoPar' = "erro" /\ docPar' = docPar
         /\ \/ abandonados' = abandonados \cup {alvo}
            \/ laudos[alvo] = "falhou" /\ abandonados' = abandonados
      \/ /\ passoPar = "doc" /\ passoPar' = "nada" /\ estadoPar' = "pronto"
         /\ docPar' = alvo /\ abandonados' = abandonados
  <2>1. CASE PollRespondido
    BY <1>3, <2>1 DEF PollRespondido, DesistirDe
  <2>2. CASE PollPerdido
    BY <2>2 DEF PollPerdido, DesistirDe
  <2>3. CASE PollDeNovo
    BY <2>3 DEF PollDeNovo, DesistirDe
  <2>4. CASE DocChegou \/ DocPerdido
    BY <2>4 DEF DocChegou, DocPerdido, DesistirDe
  <2> QED BY <2>1, <2>2, <2>3, <2>4 DEF Sondar
<1>6. TipoGeracao'
  BY <1>0, <1>2, <1>3, <1>5 DEF TipoGeracao
<1>7. AlvoConhecido'
  BY <1>0, <1>2, <1>3, <1>5 DEF AlvoConhecido
<1>8. RodandoSeguido'
  BY <1>0, <1>2, <1>3, <1>5 DEF RodandoSeguido, AlvoConhecido
<1> QED BY <1>1, <1>4, <1>6, <1>7, <1>8 DEF IndParecer, TiposParecer

LEMMA TerminarMantem ==
  ASSUME IndParecer, NEW p \in Pareceres, TerminarParecer(p)
  PROVE  IndParecer'
<1>0. TipoGeracao /\ AlvoConhecido /\ RodandoSeguido
  BY DEF IndParecer, TiposParecer
<1>1. /\ laudos[p] = "rodando"
      /\ \/ laudos' = [laudos EXCEPT ![p] = "concluida"]
         \/ laudos' = [laudos EXCEPT ![p] = "falhou"]
      /\ UNCHANGED <<estadoPar, passoPar, alvo, docPar, abandonados>>
  BY DEF TerminarParecer
<1>2. UNCHANGED <<passoPar, errosPar, tempo, editorVars, custoVars>>
  BY DEF TerminarParecer
<1>3. TipoGeracao' /\ AlvoConhecido' /\ RodandoSeguido'
  BY <1>0, <1>1 DEF TipoGeracao, AlvoConhecido, RodandoSeguido
<1>4. TipoContagem' /\ TipoEditorPar' /\ TipoCustoPar' /\ ErrosContados'
  BY <1>2 DEF IndParecer, TiposParecer, TipoContagem, TipoEditorPar, TipoCustoPar,
         ErrosContados, editorVars, custoVars
<1> QED BY <1>3, <1>4 DEF IndParecer, TiposParecer

LEMMA NextIndParecer == IndParecer /\ [NextParecer]_parecerVars => IndParecer'
<1> SUFFICES ASSUME IndParecer, [NextParecer]_parecerVars
             PROVE  IndParecer'
  OBVIOUS
<1>1. CASE UNCHANGED parecerVars
  <2>1. UNCHANGED geracaoVars /\ UNCHANGED editorVars /\ UNCHANGED custoVars
    BY <1>1 DEF parecerVars
  <2>2. TipoGeracao' /\ TipoContagem' /\ AlvoConhecido' /\ ErrosContados' /\ RodandoSeguido'
    BY <2>1 DEF IndParecer, TiposParecer, TipoGeracao, TipoContagem, AlvoConhecido,
           ErrosContados, RodandoSeguido, geracaoVars
  <2>3. TipoEditorPar' /\ TipoCustoPar'
    BY <2>1 DEF IndParecer, TiposParecer, TipoEditorPar, TipoCustoPar, editorVars,
           custoVars
  <2> QED BY <2>2, <2>3 DEF IndParecer, TiposParecer
<1> QED BY <1>1, RedigirMantem, PostarMantem, SondarMantem, TerminarMantem
        DEF NextParecer

LEMMA IndParecerBasta == IndParecer => ParecerTypeOK /\ ParecerAcompanhado
BY DEF IndParecer, TiposParecer, TipoGeracao, TipoContagem, TipoEditorPar, TipoCustoPar,
       AlvoConhecido, RodandoSeguido, ParecerTypeOK, ParecerAcompanhado

\* use-parecer.ts:68: every opinion that was paid for and runs is being polled, or
\* the form has said that it gave up on it, for any number of them and of polls;
\* and the document shown is that of the opinion last asked for.
THEOREM ParecerSeguido == SpecParecer => [](ParecerTypeOK /\ ParecerAcompanhado)
<1>1. SpecParecer => []IndParecer
  BY InitIndParecer, NextIndParecer, PTL DEF SpecParecer
<1> QED BY <1>1, IndParecerBasta, PTL

-----------------------------------------------------------------------------
(* The clients: the list under removals, and the card of the index. *)

TipoListaCli ==
  /\ ativos \subseteq Clientes
  /\ listagens \subseteq [filtro : Filtros, contados : Nat, lidos : SUBSET Clientes,
                          cruzada : BOOLEAN]
  /\ filtroCli \in Filtros \cup {{}}
  /\ vistos \subseteq Clientes
  /\ totalCli \in Int
  /\ removendo \in Clientes \cup {Ninguem}
  /\ {exclusoes, achadas, feitas} \subseteq [Clientes -> 0..MaxExclusoes]
  /\ gravando \subseteq Clientes
  /\ descompasso \in BOOLEAN

TipoFichaCli ==
  /\ nomeValido \in BOOLEAN
  /\ personas \in 0..MaxPersonas
  /\ pedindoPersona \in BOOLEAN
  /\ personaValida \in BOOLEAN
  /\ salvando \in -1..MaxPersonas
  /\ gravadas \in -1..MaxPersonas
  /\ rumoCli \in BOOLEAN

TipoIndiceCli ==
  /\ indiceSrv \in StatusIndice
  /\ semCommit \in BOOLEAN
  /\ trabalhos \in 0..MaxPedidos
  /\ indice \in StatusIndice \cup {"nulo"}
  /\ carregandoIndice \in BOOLEAN
  /\ leituras \in [StatusIndice -> 0..MaxPedidos]
  /\ indexando \in BOOLEAN
  /\ engano \in BOOLEAN

\* What an answer on its way says was so when it was read.  It has every client
\* there is that was asked for, and none whose DELETE has been answered unless
\* the two crossed.
ListagemEmDia(l) ==
  /\ l.filtro \cap ativos \subseteq l.lidos
  /\ l.lidos \subseteq l.filtro
  /\ ~l.cruzada => l.lidos \cap Respondidos = {} /\ l.contados = Cardinality(l.lidos)

\* The DELETEs of a client are counted from the click to the answer.
ExclusoesContadas ==
  \A c \in Clientes : exclusoes[c] + achadas[c] + feitas[c] <= MaxExclusoes

\* A DELETE is answered after its row is written.
ListaEmDia ==
  /\ \A c \in Clientes : feitas[c] > 0 => c \in gravando \/ c \notin ativos
  /\ \A l \in listagens : ListagemEmDia(l)
  /\ ListaConfere

\* From the answer that said so, the card shows that the index is being made for
\* as long as it is, or is about to be.
IndiceEmDia ==
  ~engano /\ (indiceSrv = "indexando" \/ semCommit) => indice = "indexando"

TiposClientes ==
  /\ parteCli \in {"lista", "ficha", "indice"}
  /\ TipoListaCli
  /\ TipoFichaCli
  /\ TipoIndiceCli

IndClientes == TiposClientes /\ ExclusoesContadas /\ ListaEmDia /\ IndiceEmDia

LEMMA LeituraEmDia ==
  ASSUME TipoListaCli, NEW f \in Filtros
  PROVE  /\ Listagem(f) \in [filtro : Filtros, contados : Nat, lidos : SUBSET Clientes,
                             cruzada : BOOLEAN]
         /\ ListagemEmDia(Listagem(f))
<1>1. f \cap ativos \subseteq Clientes
  BY DEF TipoListaCli
<1>2. Cardinality(f \cap ativos) \in Nat
  BY <1>1, FS_Subset, FS_CardinalityType, PaginaClientesAssumption
<1> QED BY <1>1, <1>2 DEF Listagem, ListagemEmDia

LEMMA InitIndClientes == InitClientes => IndClientes
<1> SUFFICES ASSUME InitClientes
             PROVE  IndClientes
  OBVIOUS
<1> USE DEF InitClientes
<1>1. TipoListaCli /\ ListaEmDia /\ ExclusoesContadas
  <2>1. Nenhuma \in [Clientes -> 0..MaxExclusoes]
    BY PaginaClientesAssumption DEF Nenhuma
  <2>2. Clientes \in Filtros
    BY DEF Filtros
  <2>3. Listagem(Clientes) \in [filtro : Filtros, contados : Nat, lidos : SUBSET Clientes,
                                cruzada : BOOLEAN]
    <3>1. Cardinality(Clientes \cap ativos) \in Nat
      BY FS_CardinalityType, PaginaClientesAssumption
    <3> QED BY <2>2, <3>1 DEF Listagem
  <2>4. TipoListaCli
    <3>1. {exclusoes, achadas, feitas} \subseteq [Clientes -> 0..MaxExclusoes]
      BY <2>1
    <3>2. filtroCli \in Filtros \cup {{}}
      OBVIOUS
    <3>3. listagens \subseteq [filtro : Filtros, contados : Nat, lidos : SUBSET Clientes,
                               cruzada : BOOLEAN]
      BY <2>3
    <3>4. ativos \subseteq Clientes /\ vistos \subseteq Clientes /\ gravando \subseteq Clientes
      OBVIOUS
    <3>5. totalCli \in Int
      OBVIOUS
    <3>7. descompasso \in BOOLEAN
      OBVIOUS
    <3>6. removendo \in Clientes \cup {Ninguem}
      OBVIOUS
    <3> QED BY <3>1, <3>2, <3>3, <3>4, <3>5, <3>6, <3>7 DEF TipoListaCli
  <2>5. ListagemEmDia(Listagem(Clientes))
    BY <2>2, <2>4, LeituraEmDia
  <2>6. ListaConfere
    BY FS_EmptySet DEF ListaConfere
  <2>7. ExclusoesContadas
    BY PaginaClientesAssumption DEF ExclusoesContadas, Nenhuma
  <2> QED BY <2>4, <2>5, <2>6, <2>7 DEF ListaEmDia, Nenhuma
<1>2. TipoFichaCli
  <2>1. personas \in 0..MaxPersonas /\ salvando \in -1..MaxPersonas
        /\ gravadas \in -1..MaxPersonas
    BY PaginaClientesAssumption
  <2> QED BY <2>1 DEF TipoFichaCli
<1>3. TipoIndiceCli
  <2>1. trabalhos \in 0..MaxPedidos /\ leituras \in [StatusIndice -> 0..MaxPedidos]
    BY PaginaClientesAssumption
  <2> QED BY <2>1 DEF TipoIndiceCli, StatusIndice
<1>4. IndiceEmDia
  BY DEF IndiceEmDia
<1> QED BY <1>1, <1>2, <1>3, <1>4 DEF IndClientes, TiposClientes

\* Nothing but the list changes, and the DELETEs stay where they are.
LEMMA ListarClientesMantem ==
  ASSUME TipoListaCli, ListaEmDia, Listar
  PROVE  TipoListaCli' /\ ListaEmDia'
         /\ UNCHANGED <<parteCli, removerVars, fichaVars, indiceVars>>
<1> DEFINE Respostas == [filtro : Filtros, contados : Nat, lidos : SUBSET Clientes,
                         cruzada : BOOLEAN]
           Fica == TipoListaCli' /\ ListaEmDia'
                   /\ UNCHANGED <<parteCli, removerVars, fichaVars, indiceVars>>
<1>1. ASSUME NEW f \in Filtros, HandleBuscar(f)
      PROVE  Fica
  <2>1. Listagem(f) \in Respostas /\ ListagemEmDia(Listagem(f))
    BY LeituraEmDia
  <2>2. TipoListaCli'
    BY <1>1, <2>1 DEF HandleBuscar, removerVars, TipoListaCli
  <2>3. ListaEmDia'
    BY <1>1, <2>1 DEF HandleBuscar, removerVars, ListaEmDia, ListagemEmDia, ListaConfere,
                      Respondidos
  <2> QED BY <1>1, <2>2, <2>3 DEF HandleBuscar
<1>2. ASSUME NEW l \in listagens, SelecionarLinhas(l)
      PROVE  Fica
  <2> DEFINE r == [l EXCEPT !.lidos = l.filtro \cap ativos, !.cruzada = TRUE]
  <2>1. l \in Respostas /\ ListagemEmDia(l)
    BY DEF TipoListaCli, ListaEmDia
  <2>2. r \in Respostas /\ ListagemEmDia(r)
    BY <2>1 DEF ListagemEmDia, TipoListaCli
  <2>3. listagens' = (listagens \ {l}) \cup {r}
        /\ UNCHANGED <<parteCli, ativos, filtroCli, vistos, totalCli, removendo,
                       removerVars, descompasso, fichaVars, indiceVars>>
    BY <1>2 DEF SelecionarLinhas
  <2> HIDE DEF r
  <2>4. TipoListaCli'
    BY <2>2, <2>3 DEF removerVars, TipoListaCli
  <2>5. ListaEmDia'
    BY <2>2, <2>3 DEF removerVars, ListaEmDia, ListagemEmDia, ListaConfere, Respondidos
  <2> QED BY <2>3, <2>4, <2>5
<1>3. ASSUME NEW l \in listagens, ListagemChegou(l)
      PROVE  Fica
  <2>1. l \in Respostas /\ ListagemEmDia(l)
    BY DEF TipoListaCli, ListaEmDia
  <2>2. l.filtro \in Filtros /\ l.lidos \subseteq Clientes /\ l.contados \in Int
        /\ l.cruzada \in BOOLEAN
    BY <2>1
  <2>3. TipoListaCli'
    BY <1>3, <2>2 DEF ListagemChegou, removerVars, TipoListaCli
  <2>4. ListaConfere'
    BY <1>3, <2>1 DEF ListagemChegou, removerVars, ListagemEmDia, ListaConfere, Respondidos
  <2>5. ListaEmDia'
    BY <1>3, <2>4 DEF ListagemChegou, removerVars, ListaEmDia, ListagemEmDia, Respondidos
  <2> QED BY <1>3, <2>3, <2>5 DEF ListagemChegou
<1>4. ASSUME NEW l \in listagens, ListagemPerdida(l)
      PROVE  Fica
  BY <1>4 DEF ListagemPerdida, removerVars, TipoListaCli, ListaEmDia, ListagemEmDia,
              ListaConfere, Respondidos
<1> QED BY <1>1, <1>2, <1>3, <1>4 DEF Listar

\* The answer of a DELETE makes its client one of Respondidos, and marks the GETs
\* on their way.
LEMMA ListagensCruzadas ==
  ASSUME TipoListaCli, ListaEmDia, NEW c \in Clientes, listagens' = Cruzadas(c),
         feitas' = [feitas EXCEPT ![c] = @ - 1], UNCHANGED <<ativos, gravando>>
  PROVE  /\ listagens' \subseteq [filtro : Filtros, contados : Nat, lidos : SUBSET Clientes,
                                  cruzada : BOOLEAN]
         /\ \A l \in listagens' : ListagemEmDia(l)'
<1> DEFINE Respostas == [filtro : Filtros, contados : Nat, lidos : SUBSET Clientes,
                         cruzada : BOOLEAN]
<1> SUFFICES ASSUME NEW l \in listagens'
             PROVE  l \in Respostas /\ ListagemEmDia(l)'
  OBVIOUS
<1>1. PICK m \in listagens : l = [m EXCEPT !.cruzada = @ \/ c \in m.filtro]
  BY DEF Cruzadas
<1>2. m \in Respostas /\ ListagemEmDia(m)
  BY DEF TipoListaCli, ListaEmDia
<1>3. l \in Respostas /\ l.filtro = m.filtro /\ l.lidos = m.lidos /\ l.contados = m.contados
      /\ l.cruzada = (m.cruzada \/ c \in m.filtro)
  BY <1>1, <1>2
<1>4. Respondidos' \subseteq Respondidos \cup {c}
  BY DEF Respondidos, TipoListaCli
<1> QED BY <1>2, <1>3, <1>4 DEF ListagemEmDia

LEMMA ContadasFicam ==
  ASSUME TipoListaCli, ExclusoesContadas, Excluir
  PROVE  ExclusoesContadas'
<1> PICK c \in Clientes :
      HandleRemover(c) \/ BuscarCliente(c) \/ RemoverCliente(c) \/ ConfirmarRemocao(c)
      \/ RemocaoConcluida(c) \/ RemocaoFalhou(c)
  BY DEF Excluir
<1> SUFFICES ASSUME NEW d \in Clientes
             PROVE  exclusoes'[d] + achadas'[d] + feitas'[d] <= MaxExclusoes
  BY DEF ExclusoesContadas
<1>0. /\ exclusoes \in [Clientes -> 0..MaxExclusoes]
      /\ achadas \in [Clientes -> 0..MaxExclusoes]
      /\ feitas \in [Clientes -> 0..MaxExclusoes]
      /\ MaxExclusoes \in Nat
  BY PaginaClientesAssumption DEF TipoListaCli
<1>1. exclusoes[d] + achadas[d] + feitas[d] <= MaxExclusoes
  BY DEF ExclusoesContadas
<1>2. CASE HandleRemover(c)
  BY <1>0, <1>1, <1>2 DEF HandleRemover
<1>3. CASE BuscarCliente(c)
  BY <1>0, <1>1, <1>3 DEF BuscarCliente
<1>4. CASE RemoverCliente(c)
  BY <1>0, <1>1, <1>4 DEF RemoverCliente
<1>5. CASE ConfirmarRemocao(c)
  BY <1>1, <1>5 DEF ConfirmarRemocao
<1>6. CASE RemocaoConcluida(c)
  BY <1>0, <1>1, <1>6 DEF RemocaoConcluida
<1>7. CASE RemocaoFalhou(c)
  BY <1>0, <1>1, <1>7 DEF RemocaoFalhou
<1> QED BY <1>2, <1>3, <1>4, <1>5, <1>6, <1>7

\* What is removed from the screen was there, so that the total goes down with it.
LEMMA ExcluirMantem ==
  ASSUME TipoListaCli, ExclusoesContadas, ListaEmDia, Excluir
  PROVE  TipoListaCli' /\ ListaEmDia' /\ UNCHANGED <<parteCli, fichaVars, indiceVars>>
<1> PICK c \in Clientes :
      HandleRemover(c) \/ BuscarCliente(c) \/ RemoverCliente(c) \/ ConfirmarRemocao(c)
      \/ RemocaoConcluida(c) \/ RemocaoFalhou(c)
  BY DEF Excluir
<1> DEFINE Tabelas == [Clientes -> 0..MaxExclusoes]
<1>0. /\ exclusoes \in Tabelas /\ achadas \in Tabelas /\ feitas \in Tabelas
      /\ MaxExclusoes \in Nat
  BY PaginaClientesAssumption DEF TipoListaCli
<1>a. exclusoes[c] + achadas[c] + feitas[c] <= MaxExclusoes
      /\ exclusoes[c] \in Nat /\ achadas[c] \in Nat /\ feitas[c] \in Nat
  BY <1>0 DEF ExclusoesContadas
<1>1. CASE HandleRemover(c)
  <2>1. exclusoes[c] + 1 \in 0..MaxExclusoes
    BY <1>0, <1>1 DEF HandleRemover
  <2>2. exclusoes' \in Tabelas
    BY <1>0, <1>1, <2>1 DEF HandleRemover
  <2>3. TipoListaCli'
    BY <1>1, <2>2 DEF HandleRemover, TipoListaCli
  <2>4. ListaEmDia'
    BY <1>1 DEF HandleRemover, ListaEmDia, ListagemEmDia, ListaConfere, Respondidos
  <2> QED BY <1>1, <2>3, <2>4 DEF HandleRemover
<1>2. CASE BuscarCliente(c)
  <2>1. exclusoes' \in Tabelas
    BY <1>0, <1>2 DEF BuscarCliente
  <2>2. achadas' \in Tabelas
    <3>1. achadas[c] + 1 \in 0..MaxExclusoes
      BY <1>0, <1>a, <1>2 DEF BuscarCliente
    <3> QED BY <1>0, <1>2, <3>1 DEF BuscarCliente
  <2>3. TipoListaCli'
    BY <1>2, <2>1, <2>2 DEF BuscarCliente, TipoListaCli
  <2>4. ListaEmDia'
    BY <1>2 DEF BuscarCliente, ListaEmDia, ListagemEmDia, ListaConfere, Respondidos
  <2> QED BY <1>2, <2>3, <2>4 DEF BuscarCliente
<1>3. CASE RemoverCliente(c)
  <2>1. achadas' \in Tabelas /\ feitas' \in Tabelas
    <3>1. achadas[c] - 1 \in 0..MaxExclusoes /\ feitas[c] + 1 \in 0..MaxExclusoes
      BY <1>0, <1>a, <1>3 DEF RemoverCliente
    <3> QED BY <1>0, <1>3, <3>1 DEF RemoverCliente
  <2>2. TipoListaCli'
    BY <1>3, <2>1 DEF RemoverCliente, TipoListaCli
  <2>3. Respondidos' \subseteq Respondidos
    BY <1>0, <1>3 DEF RemoverCliente, Respondidos
  <2>4. \A d \in Clientes : feitas'[d] > 0 => d \in gravando' \/ d \notin ativos'
    BY <1>0, <1>3 DEF RemoverCliente, ListaEmDia
  <2>5. ListaEmDia'
    BY <1>3, <2>3, <2>4 DEF RemoverCliente, ListaEmDia, ListagemEmDia, ListaConfere
  <2> QED BY <1>3, <2>2, <2>5 DEF RemoverCliente
<1>4. CASE ConfirmarRemocao(c)
  <2>1. /\ gravando' = gravando \ {c} /\ ativos' = ativos \ {c}
        /\ UNCHANGED <<parteCli, listagens, filtroCli, vistos, totalCli, removendo,
                       exclusoes, achadas, feitas, descompasso, fichaVars, indiceVars>>
        /\ c \in gravando
    BY <1>4 DEF ConfirmarRemocao
  <2>2. TipoListaCli'
    BY <2>1 DEF TipoListaCli
  <2>3. Respondidos' = Respondidos
    BY <2>1 DEF Respondidos
  <2>4. ListaEmDia'
    BY <2>1, <2>3 DEF ListaEmDia, ListagemEmDia, ListaConfere
  <2> QED BY <2>1, <2>2, <2>4
<1>5. CASE RemocaoConcluida(c)
  <2>1. /\ vistos' = vistos \ {c} /\ totalCli' = totalCli - 1
        /\ feitas[c] > 0 /\ feitas' = [feitas EXCEPT ![c] = @ - 1]
        /\ descompasso' = (descompasso \/ c \notin vistos)
        /\ listagens' = Cruzadas(c) /\ removendo' = Ninguem
        /\ UNCHANGED <<parteCli, ativos, filtroCli, exclusoes, achadas, gravando,
                       fichaVars, indiceVars>>
    BY <1>5 DEF RemocaoConcluida, Remover
  <2>2. feitas' \in Tabelas
    BY <1>0, <2>1
  <2>3. TipoListaCli'
    <3>1. totalCli' \in Int
      BY <2>1 DEF TipoListaCli
    <3>2. vistos' \subseteq Clientes /\ descompasso' \in BOOLEAN
      BY <2>1 DEF TipoListaCli
    <3> QED BY <2>1, <2>2, <3>1, <3>2, ListagensCruzadas DEF TipoListaCli
  <2>4. Respondidos' \subseteq Respondidos \cup {c}
    BY <1>0, <2>1 DEF Respondidos
  <2>5. \A d \in Clientes : feitas'[d] > 0 => feitas[d] > 0
    BY <1>0, <2>1
  <2>6. (filtroCli' \cap ativos') \ gravando' \subseteq vistos'
    BY <2>1 DEF ListaEmDia, ListaConfere
  <2>7. ASSUME ~descompasso'
        PROVE  /\ vistos' \subseteq filtroCli'
               /\ vistos' \cap Respondidos' = {}
               /\ totalCli' = Cardinality(vistos')
    <3>1. c \in vistos /\ vistos \subseteq filtroCli /\ vistos \cap Respondidos = {}
          /\ totalCli = Cardinality(vistos)
      BY <2>1, <2>7 DEF ListaEmDia, ListaConfere
    <3>2. IsFiniteSet(vistos)
      BY FS_Subset, PaginaClientesAssumption DEF TipoListaCli
    <3>3. Cardinality(vistos \ {c}) = Cardinality(vistos) - 1
      BY <3>1, <3>2, FS_RemoveElement
    <3> QED BY <2>1, <2>4, <3>1, <3>3
  <2>8. ListaConfere'
    BY <2>6, <2>7 DEF ListaConfere
  <2>9. ListaEmDia'
    BY <2>1, <2>5, <2>8, ListagensCruzadas DEF ListaEmDia
  <2> QED BY <2>1, <2>3, <2>9
<1>6. CASE RemocaoFalhou(c)
  <2>1. /\ removendo' = Ninguem
        /\ UNCHANGED <<parteCli, ativos, filtroCli, vistos, totalCli, gravando, fichaVars,
                       indiceVars>>
    BY <1>6 DEF RemocaoFalhou
  <2>2. CASE /\ exclusoes[c] > 0 /\ exclusoes' = [exclusoes EXCEPT ![c] = @ - 1]
             /\ UNCHANGED <<listagens, achadas, feitas, descompasso>>
    <3>1. exclusoes' \in Tabelas
      BY <1>0, <2>2
    <3>2. TipoListaCli'
      BY <2>1, <2>2, <3>1 DEF TipoListaCli
    <3> QED BY <2>1, <2>2, <3>2 DEF ListaEmDia, ListagemEmDia, ListaConfere, Respondidos
  <2>3. CASE /\ achadas[c] > 0 /\ achadas' = [achadas EXCEPT ![c] = @ - 1]
             /\ UNCHANGED <<listagens, exclusoes, feitas, descompasso>>
    <3>1. achadas' \in Tabelas
      BY <1>0, <2>3
    <3>2. TipoListaCli'
      BY <2>1, <2>3, <3>1 DEF TipoListaCli
    <3> QED BY <2>1, <2>3, <3>2 DEF ListaEmDia, ListagemEmDia, ListaConfere, Respondidos
  <2>4. CASE /\ feitas[c] > 0 /\ feitas' = [feitas EXCEPT ![c] = @ - 1]
             /\ descompasso' = TRUE /\ listagens' = Cruzadas(c)
             /\ UNCHANGED <<exclusoes, achadas>>
    <3>1. feitas' \in Tabelas
      BY <1>0, <2>4
    <3>2. TipoListaCli'
      BY <2>1, <2>4, <3>1, ListagensCruzadas DEF TipoListaCli
    <3>3. \A d \in Clientes : feitas'[d] > 0 => feitas[d] > 0
      BY <1>0, <2>4
    <3>4. ListaEmDia'
      BY <2>1, <2>4, <3>3, ListagensCruzadas DEF ListaEmDia, ListaConfere
    <3> QED BY <2>1, <3>2, <3>4
  <2> QED BY <1>6, <2>2, <2>3, <2>4 DEF RemocaoFalhou
<1> QED BY <1>1, <1>2, <1>3, <1>4, <1>5, <1>6

LEMMA EditarMantem ==
  ASSUME TipoFichaCli, Editar
  PROVE  TipoFichaCli' /\ UNCHANGED <<parteCli, listaVars, indiceVars>>
<1>1. UNCHANGED <<parteCli, listaVars, indiceVars>>
  BY DEF Editar, EscreverFicha, AbrirPersona, EscreverPersona, DesistirDaPersona,
         AdicionarPersona, RemoverPersona, Salvar, SalvarRespondido
<1>2. /\ nomeValido' \in BOOLEAN /\ pedindoPersona' \in BOOLEAN
      /\ personaValida' \in BOOLEAN /\ rumoCli' \in BOOLEAN
  BY DEF Editar, EscreverFicha, AbrirPersona, EscreverPersona, DesistirDaPersona,
         AdicionarPersona, RemoverPersona, Salvar, SalvarRespondido, FecharPersona,
         TipoFichaCli
<1>3. personas' \in 0..MaxPersonas
  BY PaginaClientesAssumption
     DEF Editar, EscreverFicha, AbrirPersona, EscreverPersona, DesistirDaPersona,
         AdicionarPersona, RemoverPersona, Salvar, SalvarRespondido, TipoFichaCli
<1>4. salvando' \in -1..MaxPersonas /\ gravadas' \in -1..MaxPersonas
  BY PaginaClientesAssumption
     DEF Editar, EscreverFicha, AbrirPersona, EscreverPersona, DesistirDaPersona,
         AdicionarPersona, RemoverPersona, Salvar, SalvarRespondido, TipoFichaCli
<1> QED BY <1>1, <1>2, <1>3, <1>4 DEF TipoFichaCli

\* The answers on their way, after one is taken out or one more is asked for.
LEMMA FilaDeLeituras ==
  ASSUME NEW q \in [StatusIndice -> 0..MaxPedidos], NEW s \in StatusIndice
  PROVE  /\ MaisUma(q, s) \in [StatusIndice -> 0..MaxPedidos]
         /\ q[s] > 0 => [q EXCEPT ![s] = @ - 1] \in [StatusIndice -> 0..MaxPedidos]
<1>1. q[s] \in 0..MaxPedidos /\ MaxPedidos \in Nat
  BY PaginaClientesAssumption
<1>2. (IF q[s] < MaxPedidos THEN q[s] + 1 ELSE q[s]) \in 0..MaxPedidos
  BY <1>1
<1>3. q[s] > 0 => q[s] - 1 \in 0..MaxPedidos
  BY <1>1
<1> QED BY <1>2, <1>3 DEF MaisUma

\* setIndice with any status keeps the types.
LEMMA VerIndiceTipa ==
  ASSUME TipoIndiceCli, NEW s \in StatusIndice \cup {"nulo"},
         NEW q \in [StatusIndice -> 0..MaxPedidos], VerIndice(s, q)
  PROVE  indice' = s /\ leituras' \in [StatusIndice -> 0..MaxPedidos]
BY FilaDeLeituras DEF VerIndice, TipoIndiceCli

LEMMA IndiceMantem ==
  ASSUME TipoIndiceCli, IndiceEmDia, ReceberIndice \/ PollIndice \/ PedirIndexacao
  PROVE  TipoIndiceCli' /\ IndiceEmDia' /\ UNCHANGED <<parteCli, listaVars, fichaVars>>
<1>1. ASSUME NEW s \in StatusIndice, CarregarIndice(s)
      PROVE  TipoIndiceCli' /\ IndiceEmDia' /\ UNCHANGED <<parteCli, listaVars, fichaVars>>
  <2> DEFINE q == [leituras EXCEPT ![s] = @ - 1]
  <2>1. q \in [StatusIndice -> 0..MaxPedidos] /\ VerIndice(s, q)
    BY <1>1, FilaDeLeituras DEF CarregarIndice, TipoIndiceCli
  <2> HIDE DEF q
  <2>2. indice' = s /\ leituras' \in [StatusIndice -> 0..MaxPedidos]
    BY <2>1, VerIndiceTipa
  <2>3. /\ UNCHANGED <<parteCli, listaVars, fichaVars, indiceSrv, semCommit, trabalhos,
                       indexando>>
        /\ carregandoIndice' \in BOOLEAN /\ engano' = (s # indiceSrv \/ semCommit)
    BY <1>1 DEF CarregarIndice, PedeAoMudar
  <2>4. TipoIndiceCli'
    BY <2>2, <2>3 DEF TipoIndiceCli
  <2> QED BY <2>2, <2>3, <2>4 DEF IndiceEmDia
<1>2. ASSUME NEW s \in StatusIndice, CarregarIndicePerdido(s)
      PROVE  TipoIndiceCli' /\ IndiceEmDia' /\ UNCHANGED <<parteCli, listaVars, fichaVars>>
  <2> DEFINE q == [leituras EXCEPT ![s] = @ - 1]
  <2>1. q \in [StatusIndice -> 0..MaxPedidos] /\ VerIndice("nulo", q)
    BY <1>2, FilaDeLeituras DEF CarregarIndicePerdido, TipoIndiceCli
  <2> HIDE DEF q
  <2>2. indice' = "nulo" /\ leituras' \in [StatusIndice -> 0..MaxPedidos]
    BY <2>1, VerIndiceTipa
  <2>3. /\ UNCHANGED <<parteCli, listaVars, fichaVars, indiceSrv, semCommit, trabalhos,
                       indexando>>
        /\ carregandoIndice' \in BOOLEAN /\ engano' = TRUE
    BY <1>2 DEF CarregarIndicePerdido, PedeAoMudar
  <2> QED BY <2>2, <2>3 DEF TipoIndiceCli, IndiceEmDia
<1>3. CASE PollIndice
  <2>1. leituras' \in [StatusIndice -> 0..MaxPedidos]
    BY <1>3, FilaDeLeituras DEF PollIndice, TipoIndiceCli
  <2> QED BY <1>3, <2>1 DEF PollIndice, TipoIndiceCli, IndiceEmDia
<1>4. CASE Indexar \/ IndexarRecusado
  <2>1. /\ UNCHANGED <<parteCli, listaVars, fichaVars, indiceSrv, semCommit, trabalhos,
                       indice, carregandoIndice, leituras, engano>>
        /\ indexando' \in BOOLEAN
    BY <1>4 DEF Indexar, IndexarRecusado
  <2> QED BY <2>1 DEF TipoIndiceCli, IndiceEmDia
<1>5. CASE IndexarAceito
  <2>1. indice' = "indexando" /\ leituras' \in [StatusIndice -> 0..MaxPedidos]
    <3>1. leituras \in [StatusIndice -> 0..MaxPedidos] /\ "indexando" \in StatusIndice
      BY DEF TipoIndiceCli, StatusIndice
    <3> QED BY <1>5, <3>1, VerIndiceTipa DEF IndexarAceito, MarcaIndexando
  <2>2. trabalhos' \in 0..MaxPedidos
    BY <1>5, PaginaClientesAssumption DEF IndexarAceito, TipoIndiceCli
  <2>3. /\ UNCHANGED <<parteCli, listaVars, fichaVars, indiceSrv>>
        /\ carregandoIndice' \in BOOLEAN /\ engano' = FALSE /\ semCommit' = TRUE
        /\ indexando' = FALSE
    BY <1>5 DEF IndexarAceito, MarcaIndexando, PedeAoMudar, TipoIndiceCli
  <2>4. indice' \in StatusIndice
    BY <2>1 DEF StatusIndice
  <2> QED BY <2>1, <2>2, <2>3, <2>4 DEF TipoIndiceCli, IndiceEmDia
<1>6. CASE IndexarSemResposta
  <2>1. trabalhos' \in 0..MaxPedidos
    BY <1>6, PaginaClientesAssumption DEF IndexarSemResposta, TipoIndiceCli
  <2> QED BY <1>6, <2>1 DEF IndexarSemResposta, TipoIndiceCli, IndiceEmDia
<1> QED BY <1>1, <1>2, <1>3, <1>4, <1>5, <1>6 DEF ReceberIndice, PedirIndexacao

LEMMA ServidorIndiceMantem ==
  ASSUME TipoIndiceCli, IndiceEmDia, ServidorIndice
  PROVE  TipoIndiceCli' /\ IndiceEmDia' /\ UNCHANGED <<parteCli, listaVars, fichaVars>>
<1>1. CASE ConfirmarSessao
  BY <1>1 DEF ConfirmarSessao, TipoIndiceCli, IndiceEmDia, StatusIndice
<1>2. CASE TerminarTrabalho
  <2>1. trabalhos' \in 0..MaxPedidos
    BY <1>2, PaginaClientesAssumption DEF TerminarTrabalho, TipoIndiceCli
  <2>2. \/ indiceSrv' = indiceSrv
        \/ indiceSrv' \in {"pronto", "falhou"} /\ ~semCommit
    <3> DEFINE S == IF semCommit THEN {} ELSE {"pronto", "falhou"}
    <3>1. indiceSrv' \in {indiceSrv} \cup S
      BY <1>2 DEF TerminarTrabalho
    <3>2. CASE semCommit
      BY <3>1, <3>2
    <3>3. CASE ~semCommit
      BY <3>1, <3>3
    <3> QED BY <3>2, <3>3
  <2>3. TipoIndiceCli'
    BY <1>2, <2>1, <2>2 DEF TerminarTrabalho, TipoIndiceCli, StatusIndice
  <2> QED BY <1>2, <2>2, <2>3 DEF TerminarTrabalho, IndiceEmDia
<1> QED BY <1>1, <1>2 DEF ServidorIndice

LEMMA NextIndClientes == IndClientes /\ [NextClientes]_clientesVars => IndClientes'
<1> SUFFICES ASSUME IndClientes, [NextClientes]_clientesVars
             PROVE  IndClientes'
  OBVIOUS
<1>0. /\ parteCli \in {"lista", "ficha", "indice"}
      /\ TipoListaCli /\ TipoFichaCli /\ TipoIndiceCli
      /\ ExclusoesContadas /\ ListaEmDia /\ IndiceEmDia
  BY DEF IndClientes, TiposClientes
<1>1. UNCHANGED listaVars => TipoListaCli' /\ ExclusoesContadas' /\ ListaEmDia'
  BY <1>0 DEF listaVars, TipoListaCli, ExclusoesContadas, ListaEmDia, ListagemEmDia,
              ListaConfere, Respondidos
<1>2. UNCHANGED fichaVars => TipoFichaCli'
  BY <1>0 DEF fichaVars, TipoFichaCli
<1>3. UNCHANGED indiceVars => TipoIndiceCli' /\ IndiceEmDia'
  BY <1>0 DEF indiceVars, TipoIndiceCli, IndiceEmDia
<1>4. CASE UNCHANGED clientesVars
  BY <1>0, <1>1, <1>2, <1>3, <1>4 DEF clientesVars, IndClientes, TiposClientes
<1>5. CASE Listar
  BY <1>0, <1>2, <1>3, <1>5, ListarClientesMantem
     DEF IndClientes, TiposClientes, ExclusoesContadas, removerVars
<1>a. CASE Excluir
  BY <1>0, <1>2, <1>3, <1>a, ExcluirMantem, ContadasFicam DEF IndClientes, TiposClientes
<1>6. CASE Editar
  BY <1>0, <1>1, <1>3, <1>6, EditarMantem DEF IndClientes, TiposClientes
<1>7. CASE ReceberIndice \/ PollIndice \/ PedirIndexacao
  BY <1>0, <1>1, <1>2, <1>7, IndiceMantem DEF IndClientes, TiposClientes
<1>8. CASE ServidorIndice
  BY <1>0, <1>1, <1>2, <1>8, ServidorIndiceMantem DEF IndClientes, TiposClientes
<1> QED BY <1>4, <1>5, <1>6, <1>7, <1>8, <1>a DEF NextClientes

LEMMA IndClientesBasta == IndClientes => ClientesTypeOK /\ ListaConfere /\ IndiceSabido
BY DEF IndClientes, TiposClientes, TipoListaCli, TipoFichaCli, TipoIndiceCli, ListaEmDia,
       IndiceEmDia, ClientesTypeOK, ListaConfere, IndiceSabido, BotaoIndexar

LEMMA SempreIndClientes == SpecClientes => []IndClientes
BY InitIndClientes, NextIndClientes, PTL DEF SpecClientes

\* use-clientes.ts:91: no client the user still has is missing from the list, and
\* the list and its number agree unless an answer was lost or crossed another, for
\* any set of clients, any number of DELETEs and any order of reads, commits and
\* answers.
THEOREM ListaDosClientes == SpecClientes => [](ClientesTypeOK /\ ListaConfere)
BY SempreIndClientes, IndClientesBasta, PTL

\* card-indice-site.tsx:49: the button that pays for an index is not offered
\* while one is being made, unless a reading was lost or came before the commit.
THEOREM IndiceSemSegundoPagamento == SpecClientes => []IndiceSabido
BY SempreIndClientes, IndClientesBasta, PTL

-----------------------------------------------------------------------------
(* The Web Vitals audit: optimistic edits with their rollbacks. *)

EdicoesAud == [item : Itens, marcado : BOOLEAN, anterior : Retratos, so : BOOLEAN,
               lida : Retratos \cup {NaoLida}]

TipoRetrato ==
  /\ retrato \in Retratos
  /\ reauditoria \in {"nenhuma", "andando", "falhou"}
  /\ auditoria \in Retratos \cup {NaoLida}
  /\ avanco \in Retratos \cup {SemAvanco, AvancoPedido}
  /\ reauditando \in BOOLEAN
  /\ cruzou \in BOOLEAN

TipoEdicoesAud ==
  /\ edicoes \subseteq EdicoesAud
  /\ salvandoId \in Itens \cup {SemItem}

TipoFichaAud ==
  /\ filtroAud \in {"todos", "implementados"}
  /\ notasAbertas \in Itens \cup {SemItem}
  /\ detalheItem \in {"nenhum", "pedindo", "com"}
  /\ artefatoSrv \in BOOLEAN
  /\ artefato \in {"nenhum", "erro", "pronto"}
  /\ carregandoArt \in BOOLEAN
  /\ gerandoArt \in BOOLEAN

TipoConsol ==
  /\ consolSrv \in StatusConsolidacao
  /\ consolSemCommit \in BOOLEAN
  /\ consolVista \in StatusConsolidacao
  /\ consolidados \in BOOLEAN
  /\ consolidando \in BOOLEAN
  /\ pedindoConsol \in BOOLEAN
  /\ ligados \subseteq 1..MaxConsolidar
  /\ consultas \subseteq [rodada : 1..MaxConsolidar, lido : StatusConsolidacao]

TipoRelatorio ==
  /\ relatorioSrv \in StatusRelatorio
  /\ relatorioVisto \in StatusRelatorio
  /\ gerandoRel \in {"nada", "pedindo", "esperando"}

\* Each job of consolidation was queued by a POST, and the POST that is on its
\* way is the next round.
Enfileiradas == IF consolSemCommit THEN rodada + 1 ELSE rodada
Pedidas == IF pedindoConsol THEN rodada + 1 ELSE rodada

FilaDasRodadas ==
  /\ rodada \in Nat /\ consolFila \in Nat
  /\ consolSemCommit => pedindoConsol
  /\ Pedidas <= MaxConsolidar
  /\ consolFila <= Enfileiradas

\* An edit is alone (so) from its click on if no other edit and no answer to
\* the phase crosses it: then what its rollback puts back is the server's.
EdicaoSozinha ==
  \A e \in edicoes :
    e.so => /\ edicoes = {e}
            /\ avanco \in {SemAvanco, AvancoPedido}
            /\ ~cruzou /\ e.lida = NaoLida => e.anterior = retrato

EmRepousoConfere ==
  edicoes = {} /\ avanco \in {SemAvanco, AvancoPedido} /\ ~cruzou => auditoria = retrato

\* Nothing is edited before it is loaded.
EditaOCarregado == auditoria = NaoLida => edicoes = {}

ChecklistEmDia == EdicaoSozinha /\ EmRepousoConfere /\ EditaOCarregado

TiposAuditoria ==
  /\ parteAud \in {"checklist", "ficha", "plano"}
  /\ TipoRetrato
  /\ TipoEdicoesAud
  /\ TipoFichaAud
  /\ TipoConsol
  /\ FilaDasRodadas
  /\ TipoRelatorio

IndAuditoria == TiposAuditoria /\ ChecklistEmDia

LEMMA NaoSaoRetratos ==
  /\ NaoLida \notin Retratos
  /\ SemAvanco \notin Retratos
  /\ AvancoPedido \notin Retratos
  /\ SemAvanco # AvancoPedido
<1>1. \A r \in Retratos : r.fase \in Fases
  BY DEF Retratos
<1>2. NaoLida.fase = "nenhuma" /\ SemAvanco.fase = "sem_avanco"
      /\ AvancoPedido.fase = "pedido"
  BY DEF NaoLida, SemAvanco, AvancoPedido
<1> QED BY <1>1, <1>2 DEF Fases

LEMMA MarcadoTipado ==
  ASSUME NEW r \in Retratos, NEW e \in EdicoesAud
  PROVE  Marcado(r, e) \in Retratos
BY DEF Marcado, Retratos, EdicoesAud

LEMMA InitIndAuditoria == InitAuditoria => IndAuditoria
<1> SUFFICES ASSUME InitAuditoria
             PROVE  IndAuditoria
  OBVIOUS
<1>1. TipoRetrato /\ TipoEdicoesAud
  BY DEF InitAuditoria, InitChecklist, TipoRetrato, TipoEdicoesAud, Retratos, Fases
<1>2. TipoFichaAud
  BY DEF InitAuditoria, InitFicha, TipoFichaAud
<1>3. TipoConsol /\ TipoRelatorio
  BY DEF InitAuditoria, InitPlano, TipoConsol, TipoRelatorio, StatusConsolidacao,
         StatusRelatorio
<1>4. FilaDasRodadas
  BY PaginaAuditoriaAssumption
     DEF InitAuditoria, InitPlano, FilaDasRodadas, Pedidas, Enfileiradas
<1>5. ChecklistEmDia
  BY DEF InitAuditoria, InitChecklist, ChecklistEmDia, EdicaoSozinha, EmRepousoConfere,
         EditaOCarregado
<1> QED BY <1>1, <1>2, <1>3, <1>4, <1>5 DEF IndAuditoria, TiposAuditoria, InitAuditoria

\* The edits of the checklist.
LEMMA EditarChecklistMantem ==
  ASSUME TipoRetrato, TipoEdicoesAud, ChecklistEmDia, EditarChecklist
  PROVE  /\ TipoRetrato' /\ TipoEdicoesAud' /\ ChecklistEmDia'
         /\ UNCHANGED <<parteAud, fichaAudVars, planoVars>>
<1>0. EdicaoSozinha /\ EmRepousoConfere /\ EditaOCarregado
  BY DEF ChecklistEmDia
<1>1. CASE CarregarAuditoria
  <2>1. edicoes = {} /\ auditoria' = retrato /\ UNCHANGED <<retrato, edicoes, avanco>>
        /\ cruzou' = FALSE
    BY <1>0, <1>1 DEF CarregarAuditoria, VerAuditoria, EditaOCarregado
  <2>2. TipoRetrato' /\ TipoEdicoesAud'
    BY <1>1, <2>1 DEF CarregarAuditoria, TipoRetrato, TipoEdicoesAud
  <2>3. ChecklistEmDia'
    BY <2>1 DEF ChecklistEmDia, EdicaoSozinha, EmRepousoConfere, EditaOCarregado
  <2> QED BY <1>1, <2>2, <2>3 DEF CarregarAuditoria
<1>2. ASSUME NEW i \in Itens, NEW m \in BOOLEAN, AtualizarItem(i, m)
      PROVE  /\ TipoRetrato' /\ TipoEdicoesAud' /\ ChecklistEmDia'
             /\ UNCHANGED <<parteAud, fichaAudVars, planoVars>>
  <2> DEFINE n == [item |-> i, marcado |-> m, anterior |-> auditoria,
                   so |-> edicoes = {} /\ avanco \in {SemAvanco, AvancoPedido},
                   lida |-> NaoLida]
             V == {[e EXCEPT !.so = FALSE] : e \in edicoes}
  <2>1. auditoria \in Retratos
    BY <1>2 DEF AtualizarItem, TipoRetrato
  <2>2. n \in EdicoesAud
    <3>1. (edicoes = {} /\ avanco \in {SemAvanco, AvancoPedido}) \in BOOLEAN
      OBVIOUS
    <3> QED BY <2>1, <3>1 DEF EdicoesAud
  <2>3. V \subseteq EdicoesAud /\ \A e \in V : e.so = FALSE
    BY DEF TipoEdicoesAud, EdicoesAud
  <2>4. n.so => V = {} /\ avanco \in {SemAvanco, AvancoPedido}
    OBVIOUS
  <2>5. n.so /\ ~cruzou => n.anterior = retrato
    BY <1>0 DEF EmRepousoConfere
  <2>6. edicoes' = V \cup {n} /\ UNCHANGED <<retrato, avanco, cruzou>>
        /\ auditoria' = [auditoria EXCEPT !.marcas = IF m THEN @ \cup {i} ELSE @ \ {i}]
    BY <1>2 DEF AtualizarItem
  <2> HIDE DEF n, V
  <2>7. auditoria' \in Retratos
    BY <2>1, <2>6 DEF Retratos
  <2>8. TipoRetrato'
    BY <1>2, <2>7 DEF AtualizarItem, TipoRetrato
  <2>9. TipoEdicoesAud'
    BY <1>2, <2>2, <2>3, <2>6 DEF AtualizarItem, TipoEdicoesAud
  <2>10. EdicaoSozinha'
    <3> SUFFICES ASSUME NEW e \in V \cup {n}, e.so
                 PROVE  /\ V \cup {n} = {e}
                        /\ avanco \in {SemAvanco, AvancoPedido}
                        /\ ~cruzou /\ e.lida = NaoLida => e.anterior = retrato
      BY <2>6 DEF EdicaoSozinha
    <3>1. e = n
      BY <2>3
    <3> QED BY <2>4, <2>5, <3>1
  <2>11. EmRepousoConfere' /\ EditaOCarregado'
    BY <2>6, <2>7, NaoSaoRetratos DEF EmRepousoConfere, EditaOCarregado
  <2> QED BY <1>2, <2>8, <2>9, <2>10, <2>11 DEF AtualizarItem, ChecklistEmDia
<1>3. ASSUME NEW e \in edicoes, ItemSalvo(e)
      PROVE  /\ TipoRetrato' /\ TipoEdicoesAud' /\ ChecklistEmDia'
             /\ UNCHANGED <<parteAud, fichaAudVars, planoVars>>
  <2> DEFINE n == [e EXCEPT !.lida = retrato']
  <2>1. e \in EdicoesAud
    BY DEF TipoEdicoesAud
  <2>2. retrato' \in Retratos
    BY <1>3, <2>1, MarcadoTipado DEF ItemSalvo, TipoRetrato
  <2>3. n \in EdicoesAud /\ n.lida # NaoLida /\ n.so = e.so
    BY <2>1, <2>2, NaoSaoRetratos DEF EdicoesAud
  <2>4. edicoes' = (edicoes \ {e}) \cup {n}
        /\ UNCHANGED <<auditoria, avanco, cruzou>>
    BY <1>3 DEF ItemSalvo
  <2> HIDE DEF n
  <2>5. TipoRetrato' /\ TipoEdicoesAud'
    BY <1>3, <2>2, <2>3, <2>4 DEF ItemSalvo, TipoRetrato, TipoEdicoesAud
  <2>6. EdicaoSozinha'
    <3> SUFFICES ASSUME NEW x \in (edicoes \ {e}) \cup {n}, x.so
                 PROVE  /\ (edicoes \ {e}) \cup {n} = {x}
                        /\ avanco \in {SemAvanco, AvancoPedido}
                        /\ x.lida # NaoLida
      BY <2>4 DEF EdicaoSozinha
    <3>1. CASE x = n
      BY <1>0, <2>3, <3>1 DEF EdicaoSozinha
    <3>2. CASE x \in edicoes \ {e}
      BY <1>0, <3>2 DEF EdicaoSozinha
    <3> QED BY <3>1, <3>2
  <2>7. EmRepousoConfere' /\ EditaOCarregado'
    BY <1>0, <2>4 DEF EmRepousoConfere, EditaOCarregado
  <2> QED BY <1>3, <2>5, <2>6, <2>7 DEF ItemSalvo, ChecklistEmDia
\* An edit that was alone leaves none behind; one that was not leaves none alone.
<1>4. \A e \in edicoes : \A x \in edicoes \ {e} : ~x.so /\ ~e.so
  BY <1>0 DEF EdicaoSozinha
<1>5. ASSUME NEW e \in edicoes, ItemRelido(e)
      PROVE  /\ TipoRetrato' /\ TipoEdicoesAud' /\ ChecklistEmDia'
             /\ UNCHANGED <<parteAud, fichaAudVars, planoVars>>
  <2> PICK r \in {e.lida, retrato} : VerAuditoria(r)
    BY <1>5 DEF ItemRelido
  <2>1. r \in Retratos
    BY <1>5 DEF ItemRelido, TipoRetrato, TipoEdicoesAud, EdicoesAud
  <2>2. auditoria' = r /\ cruzou' = (r # retrato) /\ edicoes' = edicoes \ {e}
        /\ UNCHANGED <<retrato, avanco>>
    BY <1>5 DEF ItemRelido, VerAuditoria
  <2>3. TipoRetrato' /\ TipoEdicoesAud'
    BY <1>5, <2>1, <2>2 DEF ItemRelido, TipoRetrato, TipoEdicoesAud
  <2>4. ChecklistEmDia'
    BY <1>4, <2>1, <2>2, NaoSaoRetratos
       DEF ChecklistEmDia, EdicaoSozinha, EmRepousoConfere, EditaOCarregado
  <2> QED BY <1>5, <2>3, <2>4 DEF ItemRelido
<1>6. ASSUME NEW e \in edicoes, ItemFalhou(e)
      PROVE  /\ TipoRetrato' /\ TipoEdicoesAud' /\ ChecklistEmDia'
             /\ UNCHANGED <<parteAud, fichaAudVars, planoVars>>
  <2>1. e \in EdicoesAud
    BY DEF TipoEdicoesAud
  <2>2. e.anterior \in Retratos
    BY <2>1 DEF EdicoesAud
  <2>3. retrato' \in Retratos
    BY <1>6, <2>1, MarcadoTipado DEF ItemFalhou, TipoRetrato
  <2>4. edicoes' = edicoes \ {e} /\ auditoria' = e.anterior /\ avanco' = avanco
        /\ cruzou' = (cruzou \/ ~e.so \/ e.lida # NaoLida \/ retrato' # retrato)
    BY <1>6 DEF ItemFalhou, Desfazer
  <2>5. TipoRetrato' /\ TipoEdicoesAud'
    BY <1>6, <2>2, <2>3, <2>4 DEF ItemFalhou, TipoRetrato, TipoEdicoesAud
  <2>6. EdicaoSozinha' /\ EditaOCarregado'
    BY <1>4, <2>2, <2>4, NaoSaoRetratos DEF EdicaoSozinha, EditaOCarregado
  <2>7. EmRepousoConfere'
    BY <1>0, <2>4 DEF EdicaoSozinha, EmRepousoConfere
  <2> QED BY <1>6, <2>5, <2>6, <2>7 DEF ItemFalhou, ChecklistEmDia
<1> QED BY <1>1, <1>2, <1>3, <1>5, <1>6 DEF EditarChecklist

\* The phase and the re-audit.
LEMMA MudarFaseMantem ==
  ASSUME TipoRetrato, TipoEdicoesAud, ChecklistEmDia, MudarFase
  PROVE  /\ TipoRetrato' /\ TipoEdicoesAud' /\ ChecklistEmDia'
         /\ UNCHANGED <<parteAud, fichaAudVars, planoVars>>
<1>0. EdicaoSozinha /\ EmRepousoConfere /\ EditaOCarregado
  BY DEF ChecklistEmDia
<1>1. CASE AvancarFaseCwv
  <2>1. avanco = SemAvanco /\ avanco' = AvancoPedido
        /\ UNCHANGED <<retrato, auditoria, edicoes, cruzou>>
    BY <1>1 DEF AvancarFaseCwv
  <2>2. TipoRetrato' /\ TipoEdicoesAud'
    BY <1>1, <2>1 DEF AvancarFaseCwv, TipoRetrato, TipoEdicoesAud
  <2>3. ChecklistEmDia'
    BY <1>0, <2>1 DEF ChecklistEmDia, EdicaoSozinha, EmRepousoConfere, EditaOCarregado
  <2> QED BY <1>1, <2>2, <2>3 DEF AvancarFaseCwv
<1>2. CASE FaseAvancada
  <2>1. retrato' \in Retratos
    BY <1>2 DEF FaseAvancada, TipoRetrato, Retratos, Fases
  <2>2. /\ avanco' = retrato' /\ auditoria' = auditoria
        /\ edicoes' = {[e EXCEPT !.so = FALSE] : e \in edicoes}
    BY <1>2 DEF FaseAvancada
  <2>3. edicoes' \subseteq EdicoesAud /\ \A e \in edicoes' : ~e.so
    BY <2>2 DEF TipoEdicoesAud, EdicoesAud
  <2>4. TipoRetrato' /\ TipoEdicoesAud'
    BY <1>2, <2>1, <2>2, <2>3 DEF FaseAvancada, TipoRetrato, TipoEdicoesAud
  <2>5. ChecklistEmDia'
    BY <1>0, <2>1, <2>2, <2>3, NaoSaoRetratos
       DEF ChecklistEmDia, EdicaoSozinha, EmRepousoConfere, EditaOCarregado
  <2> QED BY <1>2, <2>4, <2>5 DEF FaseAvancada
<1>3. CASE FaseRespondida
  <2>1. avanco \in Retratos /\ avanco' = SemAvanco /\ auditoria' = avanco
        /\ cruzou' = (avanco # retrato) /\ UNCHANGED <<retrato, edicoes>>
    BY <1>3 DEF FaseRespondida, VerAuditoria
  <2>2. TipoRetrato' /\ TipoEdicoesAud'
    BY <1>3, <2>1 DEF FaseRespondida, TipoRetrato, TipoEdicoesAud
  <2>3. \A e \in edicoes : ~e.so
    BY <1>0, <2>1, NaoSaoRetratos DEF EdicaoSozinha
  <2>4. ChecklistEmDia'
    BY <2>1, <2>3, NaoSaoRetratos
       DEF ChecklistEmDia, EdicaoSozinha, EmRepousoConfere, EditaOCarregado
  <2> QED BY <1>3, <2>2, <2>4 DEF FaseRespondida
<1>4. CASE FaseNaoRespondida
  <2>1. avanco' = SemAvanco /\ cruzou' = (cruzou \/ avanco # AvancoPedido)
        /\ UNCHANGED <<retrato, auditoria, edicoes>>
    BY <1>4 DEF FaseNaoRespondida
  <2>2. TipoRetrato' /\ TipoEdicoesAud'
    BY <1>4, <2>1 DEF FaseNaoRespondida, TipoRetrato, TipoEdicoesAud
  <2>3. ChecklistEmDia'
    BY <1>0, <2>1 DEF ChecklistEmDia, EdicaoSozinha, EmRepousoConfere, EditaOCarregado
  <2> QED BY <1>4, <2>2, <2>3 DEF FaseNaoRespondida
<1>5. CASE Reauditar \/ ReauditarRecusado \/ ReauditoriaFalhou
  <2>1. UNCHANGED <<parteAud, retrato, auditoria, edicoes, salvandoId, avanco, cruzou,
                    fichaAudVars, planoVars>>
    BY <1>5 DEF Reauditar, ReauditarRecusado, ReauditoriaFalhou
  <2>2. reauditando' \in BOOLEAN /\ reauditoria' \in {"nenhuma", "andando", "falhou"}
    BY <1>5 DEF Reauditar, ReauditarRecusado, ReauditoriaFalhou, TipoRetrato
  <2> QED BY <1>0, <2>1, <2>2
          DEF TipoRetrato, TipoEdicoesAud, ChecklistEmDia, EdicaoSozinha,
              EmRepousoConfere, EditaOCarregado
<1>6. CASE ReauditarAceito
  <2>1. retrato' \in Retratos
    BY <1>6 DEF ReauditarAceito, TipoRetrato, Retratos, Fases
  <2>2. cruzou' = TRUE /\ UNCHANGED <<auditoria, edicoes, avanco>>
    BY <1>6 DEF ReauditarAceito
  <2>3. TipoRetrato' /\ TipoEdicoesAud'
    BY <1>6, <2>1, <2>2 DEF ReauditarAceito, TipoRetrato, TipoEdicoesAud
  <2>4. ChecklistEmDia'
    BY <1>0, <2>2 DEF ChecklistEmDia, EdicaoSozinha, EmRepousoConfere, EditaOCarregado
  <2> QED BY <1>6, <2>3, <2>4 DEF ReauditarAceito
<1> QED BY <1>1, <1>2, <1>3, <1>4, <1>5, <1>6 DEF MudarFase

LEMMA AbrirFichaMantem ==
  ASSUME TipoFichaAud, AbrirFicha
  PROVE  TipoFichaAud' /\ UNCHANGED <<parteAud, checklistVars, planoVars>>
<1>1. ASSUME NEW f \in {"todos", "implementados"}, MudarFiltro(f)
      PROVE  TipoFichaAud' /\ UNCHANGED <<parteAud, checklistVars, planoVars>>
  BY <1>1 DEF MudarFiltro, TipoFichaAud
<1>2. ASSUME NEW i \in Itens, AbrirNotas(i)
      PROVE  TipoFichaAud' /\ UNCHANGED <<parteAud, checklistVars, planoVars>>
  BY <1>2 DEF AbrirNotas, TipoFichaAud
<1>3. CASE FecharNotas \/ DetalheRespondido \/ GerarArtefato
  BY <1>3 DEF FecharNotas, DetalheRespondido, GerarArtefato, TipoFichaAud
<1>4. CASE ArtefatoLido
  <2>1. artefato' \in {"nenhum", "erro", "pronto"}
    BY <1>4 DEF ArtefatoLido, TipoFichaAud
  <2> QED BY <1>4, <2>1 DEF ArtefatoLido, TipoFichaAud
<1>5. CASE ArtefatoGerado
  BY <1>5 DEF ArtefatoGerado, TipoFichaAud
<1> QED BY <1>1, <1>2, <1>3, <1>4, <1>5 DEF AbrirFicha

\* The consolidation: no more jobs than rounds.
LEMMA ConsolidarMantem ==
  ASSUME TipoConsol, FilaDasRodadas, TipoRelatorio,
         Consolidar \/ ConsultarPlano \/ ResponderPlano
  PROVE  /\ TipoConsol' /\ FilaDasRodadas' /\ TipoRelatorio'
         /\ UNCHANGED <<parteAud, checklistVars, fichaAudVars>>
<1>0. MaxConsolidar \in Nat
  BY PaginaAuditoriaAssumption
<1>1. CASE LerPlano
  <2>1. UNCHANGED <<rodada, consolFila, consolSemCommit, pedindoConsol>>
    BY <1>1 DEF LerPlano
  <2>2. TipoConsol' /\ TipoRelatorio'
    BY <1>1 DEF LerPlano, TipoConsol, TipoRelatorio
  <2> QED BY <1>1, <2>1, <2>2 DEF LerPlano, FilaDasRodadas, Pedidas, Enfileiradas
<1>2. CASE HandleConsolidar
  <2>1. TipoConsol' /\ TipoRelatorio'
    BY <1>2 DEF HandleConsolidar, TipoConsol, TipoRelatorio, relatorioVars
  <2>2. FilaDasRodadas'
    BY <1>0, <1>2 DEF HandleConsolidar, FilaDasRodadas, Pedidas, Enfileiradas
  <2> QED BY <1>2, <2>1, <2>2 DEF HandleConsolidar
<1>3. CASE ConsolEnfileirada
  <2>1. TipoConsol' /\ TipoRelatorio'
    BY <1>3 DEF ConsolEnfileirada, TipoConsol, TipoRelatorio, relatorioVars
  <2>2. FilaDasRodadas'
    BY <1>0, <1>3 DEF ConsolEnfileirada, FilaDasRodadas, Pedidas, Enfileiradas
  <2> QED BY <1>3, <2>1, <2>2 DEF ConsolEnfileirada
<1>4. CASE ConsolAceita
  <2>1. rodada' \in 1..MaxConsolidar
    BY <1>0, <1>4 DEF ConsolAceita, FilaDasRodadas, Pedidas
  <2>2. TipoConsol' /\ TipoRelatorio'
    BY <1>4, <2>1
       DEF ConsolAceita, TipoConsol, TipoRelatorio, relatorioVars, StatusConsolidacao
  <2>3. FilaDasRodadas'
    BY <1>0, <1>4 DEF ConsolAceita, FilaDasRodadas, Pedidas, Enfileiradas
  <2> QED BY <1>4, <2>2, <2>3 DEF ConsolAceita
<1>5. CASE ConsolRecusada
  <2>1. consolSrv' \in StatusConsolidacao
    BY <1>5 DEF ConsolRecusada, TipoConsol, StatusConsolidacao
  <2>2. TipoConsol' /\ TipoRelatorio'
    BY <1>5, <2>1 DEF ConsolRecusada, TipoConsol, TipoRelatorio, relatorioVars
  <2>3. FilaDasRodadas'
    BY <1>0, <1>5 DEF ConsolRecusada, FilaDasRodadas, Pedidas, Enfileiradas
  <2> QED BY <1>5, <2>2, <2>3 DEF ConsolRecusada
<1>6. CASE ConsolTerminada
  <2>1. consolSrv' \in StatusConsolidacao
    BY <1>6 DEF ConsolTerminada, TipoConsol, StatusConsolidacao
  <2>2. TipoConsol' /\ TipoRelatorio'
    BY <1>6, <2>1 DEF ConsolTerminada, TipoConsol, TipoRelatorio, relatorioVars
  <2>3. FilaDasRodadas'
    BY <1>0, <1>6 DEF ConsolTerminada, FilaDasRodadas, Pedidas, Enfileiradas
  <2> QED BY <1>6, <2>2, <2>3 DEF ConsolTerminada
<1>7. ASSUME NEW c \in consultas, ConsultaPerdida(c) \/ ConsultaRespondida(c)
      PROVE  /\ TipoConsol' /\ FilaDasRodadas' /\ TipoRelatorio'
             /\ UNCHANGED <<parteAud, checklistVars, fichaAudVars>>
  <2>1. UNCHANGED <<parteAud, checklistVars, fichaAudVars, relatorioVars, rodada,
                    consolFila, consolSemCommit, pedindoConsol, consolSrv, consolVista>>
    BY <1>7 DEF ConsultaPerdida, ConsultaRespondida
  <2>2. consultas' = consultas \ {c} /\ ligados' \subseteq ligados
        /\ consolidando' \in BOOLEAN /\ consolidados' \in BOOLEAN
    BY <1>7 DEF ConsultaPerdida, ConsultaRespondida, TipoConsol
  <2>3. TipoConsol' /\ TipoRelatorio'
    BY <2>1, <2>2 DEF TipoConsol, TipoRelatorio, relatorioVars
  <2> QED BY <2>1, <2>3 DEF FilaDasRodadas, Pedidas, Enfileiradas
<1>8. ASSUME NEW n \in ligados, ConsultarConsol(n)
      PROVE  /\ TipoConsol' /\ FilaDasRodadas' /\ TipoRelatorio'
             /\ UNCHANGED <<parteAud, checklistVars, fichaAudVars>>
  <2>1. [rodada |-> n, lido |-> consolSrv]
          \in [rodada : 1..MaxConsolidar, lido : StatusConsolidacao]
    BY DEF TipoConsol
  <2>2. TipoConsol' /\ TipoRelatorio'
    BY <1>8, <2>1 DEF ConsultarConsol, TipoConsol, TipoRelatorio, relatorioVars
  <2>3. UNCHANGED <<rodada, consolFila, consolSemCommit, pedindoConsol>>
    BY <1>8 DEF ConsultarConsol
  <2> QED BY <1>8, <2>2, <2>3
          DEF ConsultarConsol, FilaDasRodadas, Pedidas, Enfileiradas
<1> QED BY <1>1, <1>2, <1>3, <1>4, <1>5, <1>6, <1>7, <1>8
        DEF Consolidar, ConsultarPlano, ResponderPlano

LEMMA RelatorioMantem ==
  ASSUME TipoConsol, TipoRelatorio, GerarRelatorio
  PROVE  /\ TipoConsol' /\ TipoRelatorio'
         /\ UNCHANGED <<parteAud, checklistVars, fichaAudVars, rodada, consolFila,
                        consolSemCommit, pedindoConsol>>
<1>1. CASE HandleGerarRelatorio \/ RelatorioRespondido \/ RelatorioEscrito
  <2>1. UNCHANGED <<parteAud, checklistVars, fichaAudVars, consolVars, relatorioVisto>>
    BY <1>1 DEF HandleGerarRelatorio, RelatorioRespondido, RelatorioEscrito
  <2>2. relatorioSrv' \in StatusRelatorio /\ gerandoRel' \in {"nada", "pedindo", "esperando"}
    BY <1>1 DEF HandleGerarRelatorio, RelatorioRespondido, RelatorioEscrito,
           TipoRelatorio, StatusRelatorio
  <2> QED BY <2>1, <2>2 DEF TipoConsol, TipoRelatorio, consolVars
<1>2. CASE RelatorioConsultado
  BY <1>2 DEF RelatorioConsultado, TipoConsol, TipoRelatorio, StatusRelatorio
<1> QED BY <1>1, <1>2 DEF GerarRelatorio

LEMMA NextIndAuditoria == IndAuditoria /\ [NextAuditoria]_auditoriaVars => IndAuditoria'
<1> SUFFICES ASSUME IndAuditoria, [NextAuditoria]_auditoriaVars
             PROVE  IndAuditoria'
  OBVIOUS
<1>0. /\ parteAud \in {"checklist", "ficha", "plano"}
      /\ TipoRetrato /\ TipoEdicoesAud /\ TipoFichaAud /\ TipoConsol /\ FilaDasRodadas
      /\ TipoRelatorio /\ ChecklistEmDia
  BY DEF IndAuditoria, TiposAuditoria
<1>1. UNCHANGED checklistVars => TipoRetrato' /\ TipoEdicoesAud' /\ ChecklistEmDia'
  BY <1>0 DEF checklistVars, TipoRetrato, TipoEdicoesAud, ChecklistEmDia, EdicaoSozinha,
         EmRepousoConfere, EditaOCarregado
<1>2. UNCHANGED fichaAudVars => TipoFichaAud'
  BY <1>0 DEF fichaAudVars, TipoFichaAud
<1>3. UNCHANGED <<rodada, consolFila, consolSemCommit, pedindoConsol>> => FilaDasRodadas'
  BY <1>0 DEF FilaDasRodadas, Pedidas, Enfileiradas
<1>4. UNCHANGED planoVars => TipoConsol' /\ FilaDasRodadas' /\ TipoRelatorio'
  <2> SUFFICES ASSUME UNCHANGED planoVars
               PROVE  TipoConsol' /\ FilaDasRodadas' /\ TipoRelatorio'
    OBVIOUS
  <2>1. UNCHANGED consolVars /\ UNCHANGED relatorioVars
    BY DEF planoVars
  <2>2. UNCHANGED <<rodada, consolFila, consolSemCommit, pedindoConsol>>
    BY <2>1 DEF consolVars
  <2> QED BY <1>0, <1>3, <2>1, <2>2 DEF consolVars, relatorioVars, TipoConsol, TipoRelatorio
<1>5. CASE UNCHANGED auditoriaVars
  BY <1>0, <1>1, <1>2, <1>4, <1>5 DEF auditoriaVars, IndAuditoria, TiposAuditoria
<1>6. CASE EditarChecklist \/ MudarFase
  BY <1>0, <1>2, <1>4, <1>6, EditarChecklistMantem, MudarFaseMantem
     DEF IndAuditoria, TiposAuditoria
<1>7. CASE AbrirFicha
  BY <1>0, <1>1, <1>4, <1>7, AbrirFichaMantem DEF IndAuditoria, TiposAuditoria
<1>8. CASE Consolidar \/ ConsultarPlano \/ ResponderPlano
  BY <1>0, <1>1, <1>2, <1>8, ConsolidarMantem DEF IndAuditoria, TiposAuditoria
<1>9. CASE GerarRelatorio
  BY <1>0, <1>1, <1>2, <1>3, <1>9, RelatorioMantem DEF IndAuditoria, TiposAuditoria
<1> QED BY <1>5, <1>6, <1>7, <1>8, <1>9 DEF NextAuditoria

LEMMA IndAuditoriaBasta == IndAuditoria => AuditoriaTypeOK /\ ChecklistConfere
<1> SUFFICES ASSUME IndAuditoria
             PROVE  AuditoriaTypeOK /\ ChecklistConfere
  OBVIOUS
<1>1. rodada \in 0..MaxConsolidar /\ consolFila \in 0..MaxConsolidar
  BY PaginaAuditoriaAssumption
     DEF IndAuditoria, TiposAuditoria, FilaDasRodadas, Pedidas, Enfileiradas
<1>2. AuditoriaTypeOK
  BY <1>1 DEF IndAuditoria, TiposAuditoria, TipoRetrato, TipoEdicoesAud, EdicoesAud,
         TipoFichaAud, TipoConsol, TipoRelatorio, AuditoriaTypeOK
<1>3. ChecklistConfere
  BY DEF IndAuditoria, ChecklistEmDia, EmRepousoConfere, ChecklistConfere
<1> QED BY <1>2, <1>3

\* cwv-auditoria-client.tsx:156, :166: after any number of edits, answered or
\* rolled back in any order, the checklist shown is the server's, unless an older
\* answer came last or a rollback undid more than its own edit.
THEOREM ChecklistDoServidor == SpecAuditoria => [](AuditoriaTypeOK /\ ChecklistConfere)
<1>1. SpecAuditoria => []IndAuditoria
  BY InitIndAuditoria, NextIndAuditoria, PTL DEF SpecAuditoria
<1> QED BY <1>1, IndAuditoriaBasta, PTL

-----------------------------------------------------------------------------
(* The three that poll, in one tab. *)

LEMMA PassoQueAcompanha ==
  [NextAcompanhamento]_acompanhamentoVars =>
    /\ [NextParecer]_parecerVars
    /\ [NextClientes]_clientesVars
    /\ [NextAuditoria]_auditoriaVars
BY DEF NextAcompanhamento, NoParecer, NosClientes, NaAuditoria, acompanhamentoVars

\* Whatever the others do, each behaves in the tab as it does alone.
LEMMA AcompanhamentoIndependente ==
  SpecAcompanhamento => SpecParecer /\ SpecClientes /\ SpecAuditoria
<1>1. InitAcompanhamento => InitParecer /\ InitClientes /\ InitAuditoria
  BY DEF InitAcompanhamento
<1> QED BY <1>1, PassoQueAcompanha, PTL
        DEF SpecAcompanhamento, SpecParecer, SpecClientes, SpecAuditoria

RotaTipada == rota \in Rotas

\* A page that is not shown stays as it rests.
LEMMA FechadasFicam ==
  RotaTipada /\ Fechadas /\ [NextAcompanhamento]_acompanhamentoVars
    => RotaTipada' /\ Fechadas'
<1> SUFFICES ASSUME RotaTipada, Fechadas, [NextAcompanhamento]_acompanhamentoVars
             PROVE  RotaTipada' /\ Fechadas'
  OBVIOUS
<1>1. rota' = rota
  BY DEF NextAcompanhamento, NoParecer, NosClientes, NaAuditoria, acompanhamentoVars
<1>2. rota # "clientes" => UNCHANGED <<parteCli, indiceSrv>>
  <2>1. rota # "clientes" => UNCHANGED clientesVars
    BY DEF NextAcompanhamento, NoParecer, NosClientes, NaAuditoria, acompanhamentoVars
  <2> QED BY <2>1 DEF clientesVars, indiceVars
<1>3. rota # "auditoria" => UNCHANGED parteAud
  <2>1. rota # "auditoria" => UNCHANGED auditoriaVars
    BY DEF NextAcompanhamento, NoParecer, NosClientes, NaAuditoria, acompanhamentoVars
  <2> QED BY <2>1 DEF auditoriaVars
<1> QED BY <1>1, <1>2, <1>3 DEF RotaTipada, Fechadas

\* Types of the tab, and only the page that is shown moves.
THEOREM AcompanhamentoTipado == SpecAcompanhamento => []AcompanhamentoTypeOK
<1>1. InitAcompanhamento => RotaTipada /\ Fechadas
  BY DEF InitAcompanhamento, RotaTipada
<1>2. RotaTipada /\ ParecerTypeOK /\ ClientesTypeOK /\ AuditoriaTypeOK /\ Fechadas
        => AcompanhamentoTypeOK
  BY DEF RotaTipada, AcompanhamentoTypeOK
<1> QED BY <1>1, <1>2, FechadasFicam, AcompanhamentoIndependente, ParecerSeguido,
           ListaDosClientes, ChecklistDoServidor, PTL DEF SpecAcompanhamento

\* What is promised of the opinion, the clients and the audit (use-parecer.ts:68,
\* use-clientes.ts:91, card-indice-site.tsx:49, cwv-auditoria-client.tsx:156) holds
\* in the tab that composes them.
THEOREM QuemAcompanhaConfere ==
  SpecAcompanhamento =>
    [](ParecerAcompanhado /\ ListaConfere /\ IndiceSabido /\ ChecklistConfere)
BY AcompanhamentoIndependente, ParecerSeguido, ListaDosClientes, IndiceSemSegundoPagamento,
   ChecklistDoServidor, PTL
=============================================================================
