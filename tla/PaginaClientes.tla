--------------------------- MODULE PaginaClientes ---------------------------
(***************************************************************************)
(* The pages of the clients: the list (ClientesPage over useClientes), the *)
(* form of one client (FormularioCliente) and the card of the index of its *)
(* site (CardIndiceSite).  One of the three is followed at a time: on the  *)
(* client's own page the form and the card share nothing.                  *)
(*                                                                         *)
(* A GET is read by the server when it is sent and answered any time       *)
(* later: the page cannot tell that from one that waits to be read.  That  *)
(* of the list is two statements, the count and the rows.  The session of  *)
(* a request commits after the answer has left (get_db is a dependency     *)
(* that yields), and holds until then the rows it has written.             *)
(***************************************************************************)
EXTENDS Integers, FiniteSets

CONSTANTS
  Clientes,    \* clients the user starts with, at most a page of them
  Achados,     \* those of them a search finds
  MaxExclusoes, \* bound: DELETEs of one client under way
  MaxPedidos,  \* bound: GETs on their way, and jobs of an index
  MaxPersonas  \* bound: personas of the form

ASSUME PaginaClientesAssumption ==
  /\ IsFiniteSet(Clientes)
  /\ Achados \subseteq Clientes
  /\ MaxExclusoes \in Nat
  /\ MaxPedidos \in Nat \ {0}
  /\ MaxPersonas \in Nat

Ninguem == "ninguem"

StatusIndice == {"nao_indexado", "indexando", "pronto", "falhou"}

VARIABLES
  parteCli,   \* the part of the pages that is open
  ativos,     \* server: the clients with ativo
  listagens,  \* answers of GET /clientes on their way: [filtro, contados, lidos,
              \* cruzada]
  filtroCli,  \* what the list shown was asked with; empty before there is one
  vistos,     \* clientes
  totalCli,   \* total
  removendo,  \* the card without its button
  exclusoes,  \* DELETEs on their way to the server, of each client
  achadas,    \* those that have found the client and not yet written its row
  gravando,   \* clients whose row is written and not committed
  feitas,     \* answers of done DELETEs on their way, of each client
  descompasso, \* history: the answer of a DELETE was lost, or came to a list
               \* without its client, or crossed the GET of the list
  nomeValido, \* the browser takes the name in the form
  personas,   \* config.personas of the form
  pedindoPersona, \* mostrarPersonas
  personaValida,  \* FormularioPersona has a name, and not too many words
  salvando,   \* the save on its way: what the form held
  gravadas,   \* server: what the last save left
  rumoCli,    \* router.push has been called
  indiceSrv,  \* server: the index of the site
  semCommit,  \* the answered POST has not been committed
  trabalhos,  \* jobs of indexing
  indice,     \* indice?.status, or "nulo"
  carregandoIndice,
  leituras,   \* answers of GET indice-site on their way, of each status
  indexando,  \* the POST is on its way
  engano      \* history: a GET of the card was lost, or read before the commit

listaVars == <<ativos, listagens, filtroCli, vistos, totalCli, removendo, exclusoes,
               achadas, gravando, feitas, descompasso>>
removerVars == <<exclusoes, achadas, gravando, feitas>>
fichaVars == <<nomeValido, personas, pedindoPersona, personaValida, salvando, gravadas, rumoCli>>
indiceVars == <<indiceSrv, semCommit, trabalhos, indice, carregandoIndice, leituras,
                indexando, engano>>
clientesVars == <<parteCli, listaVars, fichaVars, indiceVars>>

Filtros == {Clientes, Achados}

\* Clients whose DELETE the page has been told is done, or has given up on.
Respondidos == {c \in Clientes : feitas[c] = 0 /\ (c \in gravando \/ c \notin ativos)}

\* What the two statements of a GET find when nothing comes between them.  It is
\* crossed by a DELETE answered before and committed after.
Listagem(f) ==
  [filtro |-> f, contados |-> Cardinality(f \cap ativos), lidos |-> f \cap ativos,
   cruzada |-> f \cap ativos \cap Respondidos # {}]

Nenhuma == [c \in Clientes |-> 0]

InitClientes ==
  /\ parteCli \in {"lista", "ficha", "indice"}
  /\ ativos = Clientes
  /\ filtroCli = {}
  /\ vistos = {}
  /\ totalCli = 0
  /\ removendo = Ninguem
  /\ exclusoes = Nenhuma
  /\ achadas = Nenhuma
  /\ gravando = {}
  /\ feitas = Nenhuma
  /\ listagens = {Listagem(Clientes)}
  /\ descompasso = FALSE
  /\ nomeValido \in {FALSE, parteCli = "ficha"}
  /\ personas = 0
  /\ pedindoPersona = FALSE
  /\ personaValida = FALSE
  /\ salvando = -1
  /\ gravadas = -1
  /\ rumoCli = FALSE
  /\ indiceSrv \in {"nao_indexado", "pronto"}
  /\ semCommit = FALSE
  /\ trabalhos = 0
  /\ indice = "nulo"
  /\ carregandoIndice = TRUE
  /\ leituras = [s \in StatusIndice |-> IF s = indiceSrv THEN 1 ELSE 0]
  /\ indexando = FALSE
  /\ engano = TRUE

-----------------------------------------------------------------------------
(* The list. *)

\* handleBuscar: the requests on their way are not forgotten.
HandleBuscar(f) ==
  /\ parteCli = "lista"
  /\ Cardinality(listagens) < MaxPedidos
  /\ listagens' = listagens \cup {Listagem(f)}
  /\ UNCHANGED <<parteCli, ativos, filtroCli, vistos, totalCli, removendo, removerVars,
                 descompasso, fichaVars, indiceVars>>

\* The rows are selected after the count, and another session may commit between.
SelecionarLinhas(l) ==
  /\ parteCli = "lista"
  /\ l \in listagens
  /\ l.lidos # l.filtro \cap ativos
  /\ listagens' = (listagens \ {l}) \cup
                    {[l EXCEPT !.lidos = l.filtro \cap ativos, !.cruzada = TRUE]}
  /\ UNCHANGED <<parteCli, ativos, filtroCli, vistos, totalCli, removendo, removerVars,
                 descompasso, fichaVars, indiceVars>>

\* The last answer to arrive is kept.
ListagemChegou(l) ==
  /\ parteCli = "lista"
  /\ l \in listagens
  /\ listagens' = listagens \ {l}
  /\ filtroCli' = l.filtro
  /\ vistos' = l.lidos
  /\ totalCli' = l.contados
  /\ descompasso' = l.cruzada
  /\ UNCHANGED <<parteCli, ativos, removendo, removerVars, fichaVars, indiceVars>>

ListagemPerdida(l) ==
  /\ parteCli = "lista"
  /\ l \in listagens
  /\ listagens' = listagens \ {l}
  /\ UNCHANGED <<parteCli, ativos, filtroCli, vistos, totalCli, removendo, removerVars,
                 descompasso, fichaVars, indiceVars>>

\* Only the client removed last is without its button.
HandleRemover(c) ==
  /\ parteCli = "lista"
  /\ c \in vistos
  /\ removendo # c
  /\ exclusoes[c] + achadas[c] + feitas[c] < MaxExclusoes
  /\ removendo' = c
  /\ exclusoes' = [exclusoes EXCEPT ![c] = @ + 1]
  /\ UNCHANGED <<parteCli, ativos, listagens, filtroCli, vistos, totalCli, achadas,
                 gravando, feitas, descompasso, fichaVars, indiceVars>>

\* DELETE /clientes/c: remover_cliente reads the client without a lock ...
BuscarCliente(c) ==
  /\ parteCli = "lista"
  /\ exclusoes[c] > 0
  /\ c \in ativos
  /\ exclusoes' = [exclusoes EXCEPT ![c] = @ - 1]
  /\ achadas' = [achadas EXCEPT ![c] = @ + 1]
  /\ UNCHANGED <<parteCli, ativos, listagens, filtroCli, vistos, totalCli, removendo,
                 gravando, feitas, descompasso, fichaVars, indiceVars>>

\* ... flushes ativo = False, once no other session holds the row, and answers;
RemoverCliente(c) ==
  /\ parteCli = "lista"
  /\ achadas[c] > 0
  /\ c \notin gravando
  /\ achadas' = [achadas EXCEPT ![c] = @ - 1]
  /\ gravando' = gravando \cup {c}
  /\ feitas' = [feitas EXCEPT ![c] = @ + 1]
  /\ UNCHANGED <<parteCli, ativos, listagens, filtroCli, vistos, totalCli, removendo,
                 exclusoes, descompasso, fichaVars, indiceVars>>

\* get_db commits.
ConfirmarRemocao(c) ==
  /\ parteCli = "lista"
  /\ c \in gravando
  /\ gravando' = gravando \ {c}
  /\ ativos' = ativos \ {c}
  /\ UNCHANGED <<parteCli, listagens, filtroCli, vistos, totalCli, removendo, exclusoes,
                 achadas, feitas, descompasso, fichaVars, indiceVars>>

\* Mutant: the total is left to the next listing.
Remover_SemTotal(c) ==
  /\ vistos' = vistos \ {c}
  /\ UNCHANGED totalCli

\* What remover does when the DELETE is answered.
Remover(c) ==
  /\ vistos' = vistos \ {c}
  /\ totalCli' = totalCli - 1

\* The GETs on their way when the DELETE of c is answered.
Cruzadas(c) == {[l EXCEPT !.cruzada = @ \/ c \in l.filtro] : l \in listagens}

\* The number goes down even when the client is not on the screen any more: a
\* search has come between, or another DELETE of the same client.
RemocaoConcluida(c) ==
  /\ parteCli = "lista"
  /\ feitas[c] > 0
  /\ feitas' = [feitas EXCEPT ![c] = @ - 1]
  /\ removendo' = Ninguem
  /\ Remover(c)
  /\ descompasso' = (descompasso \/ c \notin vistos)
  /\ listagens' = Cruzadas(c)
  /\ UNCHANGED <<parteCli, ativos, filtroCli, exclusoes, achadas, gravando, fichaVars,
                 indiceVars>>

\* Refused with 404 or 500, or lost before the server or after it.
RemocaoFalhou(c) ==
  /\ parteCli = "lista"
  /\ \/ /\ exclusoes[c] > 0
        /\ exclusoes' = [exclusoes EXCEPT ![c] = @ - 1]
        /\ UNCHANGED <<listagens, achadas, feitas, descompasso>>
     \/ /\ achadas[c] > 0
        /\ achadas' = [achadas EXCEPT ![c] = @ - 1]
        /\ UNCHANGED <<listagens, exclusoes, feitas, descompasso>>
     \/ /\ feitas[c] > 0
        /\ feitas' = [feitas EXCEPT ![c] = @ - 1]
        /\ descompasso' = TRUE
        /\ listagens' = Cruzadas(c)
        /\ UNCHANGED <<exclusoes, achadas>>
  /\ removendo' = Ninguem
  /\ UNCHANGED <<parteCli, ativos, filtroCli, vistos, totalCli, gravando, fichaVars,
                 indiceVars>>

-----------------------------------------------------------------------------
(* The form.  While it saves its fields are closed, but not the form of a  *)
(* new persona.                                                            *)

EscreverFicha ==
  /\ parteCli = "ficha"
  /\ salvando = -1
  /\ nomeValido' \in BOOLEAN
  /\ UNCHANGED <<parteCli, listaVars, personas, pedindoPersona, personaValida, salvando,
                 gravadas, rumoCli, indiceVars>>

\* The form of a persona opens empty.
AbrirPersona ==
  /\ parteCli = "ficha"
  /\ ~pedindoPersona
  /\ pedindoPersona' = TRUE
  /\ UNCHANGED <<parteCli, listaVars, nomeValido, personas, personaValida, salvando,
                 gravadas, rumoCli, indiceVars>>

EscreverPersona ==
  /\ parteCli = "ficha"
  /\ pedindoPersona
  /\ personaValida' \in BOOLEAN
  /\ UNCHANGED <<parteCli, listaVars, nomeValido, personas, pedindoPersona, salvando,
                 gravadas, rumoCli, indiceVars>>

FecharPersona == pedindoPersona' = FALSE /\ personaValida' = FALSE

DesistirDaPersona ==
  /\ parteCli = "ficha"
  /\ pedindoPersona
  /\ FecharPersona
  /\ UNCHANGED <<parteCli, listaVars, nomeValido, personas, salvando, gravadas, rumoCli,
                 indiceVars>>

AdicionarPersona ==
  /\ parteCli = "ficha"
  /\ pedindoPersona
  /\ personaValida
  /\ personas < MaxPersonas
  /\ personas' = personas + 1
  /\ FecharPersona
  /\ UNCHANGED <<parteCli, listaVars, nomeValido, salvando, gravadas, rumoCli,
                 indiceVars>>

RemoverPersona ==
  /\ parteCli = "ficha"
  /\ salvando = -1
  /\ personas > 0
  /\ personas' = personas - 1
  /\ UNCHANGED <<parteCli, listaVars, nomeValido, pedindoPersona, personaValida, salvando,
                 gravadas, rumoCli, indiceVars>>

Salvar ==
  /\ parteCli = "ficha"
  /\ nomeValido
  /\ salvando = -1
  /\ salvando' = personas
  /\ UNCHANGED <<parteCli, listaVars, nomeValido, personas, pedindoPersona, personaValida,
                 gravadas, rumoCli, indiceVars>>

\* A new client's form goes to the client's page; the button is back before
\* it is there.  An error says so, whether or not the server had saved.
SalvarRespondido ==
  /\ parteCli = "ficha"
  /\ salvando # -1
  /\ salvando' = -1
  /\ \/ gravadas' = salvando /\ rumoCli' = TRUE
     \/ gravadas' \in {gravadas, salvando} /\ UNCHANGED rumoCli
  /\ UNCHANGED <<parteCli, listaVars, nomeValido, personas, pedindoPersona, personaValida,
                 indiceVars>>

-----------------------------------------------------------------------------
(* The card of the index. *)

\* The effect that GETs the index depends on its status.
PedeAoMudar(s) == s # indice

MaisUma(q, s) == [q EXCEPT ![s] = IF @ < MaxPedidos THEN @ + 1 ELSE @]

\* setIndice; q is what is left of the answers on their way.
VerIndice(s, q) ==
  /\ indice' = s
  /\ leituras' = IF PedeAoMudar(s) THEN MaisUma(q, indiceSrv) ELSE q

\* Another answer may still be on its way.
CarregarIndice(s) ==
  /\ parteCli = "indice"
  /\ leituras[s] > 0
  /\ VerIndice(s, [leituras EXCEPT ![s] = @ - 1])
  /\ carregandoIndice' = PedeAoMudar(s)
  /\ engano' = (s # indiceSrv \/ semCommit)
  /\ UNCHANGED <<parteCli, listaVars, fichaVars, indiceSrv, semCommit, trabalhos,
                 indexando>>

\* The card forgets what it knew.
CarregarIndicePerdido(s) ==
  /\ parteCli = "indice"
  /\ leituras[s] > 0
  /\ VerIndice("nulo", [leituras EXCEPT ![s] = @ - 1])
  /\ carregandoIndice' = PedeAoMudar("nulo")
  /\ engano' = TRUE
  /\ UNCHANGED <<parteCli, listaVars, fichaVars, indiceSrv, semCommit, trabalhos,
                 indexando>>

\* Mutant: the interval sees the status of the first render.
Intervalo_Primeiro == FALSE

Intervalo == indice = "indexando"

\* Every five seconds.
PollIndice ==
  /\ parteCli = "indice"
  /\ Intervalo
  /\ leituras[indiceSrv] < MaxPedidos
  /\ leituras' = MaisUma(leituras, indiceSrv)
  /\ carregandoIndice' = TRUE
  /\ UNCHANGED <<parteCli, listaVars, fichaVars, indiceSrv, semCommit, trabalhos,
                 indice, indexando, engano>>

BotaoIndexar == ~carregandoIndice /\ ~indexando /\ indice # "indexando"

Indexar ==
  /\ parteCli = "indice"
  /\ BotaoIndexar
  /\ indexando' = TRUE
  /\ UNCHANGED <<parteCli, listaVars, fichaVars, indiceSrv, semCommit, trabalhos,
                 indice, carregandoIndice, leituras, engano>>

\* Mutant: the answer is left for the next GET to show.
MarcaIndexando_NaoMarca == UNCHANGED <<indice, carregandoIndice, leituras>>

\* The card shows the index as being made before the server says so.
MarcaIndexando ==
  /\ VerIndice("indexando", leituras)
  /\ carregandoIndice' = (carregandoIndice \/ PedeAoMudar("indexando"))

\* The credits are reserved and the job is queued; the row changes when the
\* session commits.
IndexarAceito ==
  /\ parteCli = "indice"
  /\ indexando
  /\ ~semCommit
  /\ trabalhos < MaxPedidos
  /\ indexando' = FALSE
  /\ trabalhos' = trabalhos + 1
  /\ semCommit' = TRUE
  /\ MarcaIndexando
  /\ engano' = FALSE
  /\ UNCHANGED <<parteCli, listaVars, fichaVars, indiceSrv>>

IndexarRecusado ==
  /\ parteCli = "indice"
  /\ indexando
  /\ indexando' = FALSE
  /\ UNCHANGED <<parteCli, listaVars, fichaVars, indiceSrv, semCommit, trabalhos,
                 indice, carregandoIndice, leituras, engano>>

\* Its answer is lost.
IndexarSemResposta ==
  /\ parteCli = "indice"
  /\ indexando
  /\ ~semCommit
  /\ trabalhos < MaxPedidos
  /\ indexando' = FALSE
  /\ trabalhos' = trabalhos + 1
  /\ semCommit' = TRUE
  /\ engano' = TRUE
  /\ UNCHANGED <<parteCli, listaVars, fichaVars, indiceSrv, indice, carregandoIndice,
                 leituras>>

ConfirmarSessao ==
  /\ semCommit
  /\ semCommit' = FALSE
  /\ indiceSrv' = "indexando"
  /\ UNCHANGED <<parteCli, listaVars, fichaVars, trabalhos, indice, carregandoIndice,
                 leituras, indexando, engano>>

\* A job that ends writes the index; one that is cancelled, or that ran before
\* its row was committed, writes nothing.
TerminarTrabalho ==
  /\ trabalhos > 0
  /\ trabalhos' = trabalhos - 1
  /\ indiceSrv' \in {indiceSrv} \cup (IF semCommit THEN {} ELSE {"pronto", "falhou"})
  /\ UNCHANGED <<parteCli, listaVars, fichaVars, semCommit, indice, carregandoIndice,
                 leituras, indexando, engano>>

-----------------------------------------------------------------------------
Listar ==
  \/ \E f \in Filtros : HandleBuscar(f)
  \/ \E l \in listagens : SelecionarLinhas(l) \/ ListagemChegou(l) \/ ListagemPerdida(l)

Excluir ==
  \E c \in Clientes :
    \/ HandleRemover(c)
    \/ BuscarCliente(c) \/ RemoverCliente(c) \/ ConfirmarRemocao(c)
    \/ RemocaoConcluida(c) \/ RemocaoFalhou(c)

Editar ==
  \/ EscreverFicha
  \/ AbrirPersona
  \/ EscreverPersona
  \/ DesistirDaPersona
  \/ AdicionarPersona
  \/ RemoverPersona
  \/ Salvar
  \/ SalvarRespondido

\* The answers the card waits for, and its interval.
ReceberIndice ==
  \E s \in StatusIndice : CarregarIndice(s) \/ CarregarIndicePerdido(s)

PedirIndexacao ==
  Indexar \/ IndexarAceito \/ IndexarRecusado \/ IndexarSemResposta

ServidorIndice == ConfirmarSessao \/ TerminarTrabalho

NextClientes ==
  \/ Listar
  \/ Excluir
  \/ Editar
  \/ ReceberIndice
  \/ PollIndice
  \/ PedirIndexacao
  \/ ServidorIndice

SpecClientes == InitClientes /\ [][NextClientes]_clientesVars

-----------------------------------------------------------------------------
(* Properties. *)

ClientesTypeOK ==
  /\ parteCli \in {"lista", "ficha", "indice"}
  /\ ativos \subseteq Clientes
  /\ listagens \subseteq [filtro : Filtros, contados : Nat, lidos : SUBSET Clientes,
                      cruzada : BOOLEAN]
  /\ filtroCli \in Filtros \cup {{}}
  /\ vistos \subseteq Clientes
  /\ totalCli \in Int
  /\ removendo \in Clientes \cup {Ninguem}
  /\ {exclusoes, achadas, feitas} \subseteq [Clientes -> 0..MaxExclusoes]
  /\ gravando \subseteq Clientes
  /\ descompasso \in BOOLEAN
  /\ nomeValido \in BOOLEAN
  /\ personas \in 0..MaxPersonas
  /\ pedindoPersona \in BOOLEAN
  /\ personaValida \in BOOLEAN
  /\ salvando \in -1..MaxPersonas
  /\ gravadas \in -1..MaxPersonas
  /\ rumoCli \in BOOLEAN
  /\ indiceSrv \in StatusIndice
  /\ semCommit \in BOOLEAN
  /\ trabalhos \in 0..MaxPedidos
  /\ indice \in StatusIndice \cup {"nulo"}
  /\ carregandoIndice \in BOOLEAN
  /\ leituras \in [StatusIndice -> 0..MaxPedidos]
  /\ indexando \in BOOLEAN
  /\ engano \in BOOLEAN

\* use-clientes.ts:91.  However searches, removals, their answers and their
\* commits overtake one another, no client the user still has and the search finds
\* is missing from the list.  And a client that is listed is one of those, or the
\* answer that takes it away is on its way, and the number above the list is that
\* of its cards, as long as no such answer was lost, came to a list without its
\* client, or came while the list was being asked for.
ListaConfere ==
  /\ (filtroCli \cap ativos) \ gravando \subseteq vistos
  /\ ~descompasso =>
       /\ vistos \subseteq filtroCli
       /\ vistos \cap Respondidos = {}
       /\ totalCli = Cardinality(vistos)

\* card-indice-site.tsx:49 "Marca como indexando imediatamente para a UI
\* refletir".  The button that reserves credits for the whole site is not
\* offered while the site is being indexed, unless the card's last GET was lost
\* or read before the commit.
IndiceSabido ==
  ~engano /\ indiceSrv = "indexando" => ~BotaoIndexar

\* card-indice-site.tsx:35 "Polla enquanto estiver indexando".  The card does
\* not go on saying so when the index is made.
IndiceConverge ==
  (indice = "indexando" /\ indiceSrv # "indexando" /\ ~semCommit)
    ~> (indice # "indexando" \/ indiceSrv = "indexando" \/ semCommit)
=============================================================================
