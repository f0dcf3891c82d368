---------------------------- MODULE SessaoCliente ----------------------------
(***************************************************************************)
(* The browser's side of a session: the tokens lib/api.ts keeps in memory, *)
(* the renewal it shares between requests, the user lib/auth.tsx shows,    *)
(* and the server's sessions they meet through /auth/refresh, /auth/login, *)
(* /auth/me and /auth/logout.                                              *)
(*                                                                         *)
(* A tab is one JavaScript thread: an action runs from one await to the    *)
(* next.  The tabs of a browser share the cookie jar and nothing else.     *)
(* A session number stands for a refresh token and for the access token    *)
(* issued with it.                                                         *)
(*                                                                         *)
(* Left out: the refresh token kept in memory, which /auth/refresh reads   *)
(* only when the cookie is missing, and the CSRF pair, which the server    *)
(* compares on no path a signed-in page depends on.                        *)
(***************************************************************************)
EXTENDS Integers, FiniteSets

CONSTANTS
  Abas,      \* tabs of the browser
  Pedidos,   \* requests a page may have in flight
  Usuarios,
  ComMfa,    \* those with mfa_ativo
  MaxSessoes, \* bound: sessions the server issues
  Eventos,   \* which of TodosEventos may happen
  NINGUEM

TodosEventos ==
  {"rede",       \* fetch throws, or its answer is lost
   "recarregar", \* the tab is reloaded
   "vencer",     \* the fifteen minutes of an access token pass
   "sair"}       \* the user signs out

ASSUME SessaoClienteAssumption ==
  /\ ComMfa \subseteq Usuarios
  /\ MaxSessoes \in Nat
  /\ Eventos \subseteq TodosEventos
  /\ NINGUEM \notin Usuarios \cup Pedidos \cup {"inicio", "entrada"}
  /\ Pedidos \cap {"inicio", "entrada"} = {}

\* The asynchronous functions that may be suspended in a tab: init, the submit
\* handlers of the public forms, and the requests of the pages.
Fluxos == {"inicio", "entrada"} \cup Pedidos

Sessoes == 1..MaxSessoes

VARIABLES
  emitidas,   \* sessions issued so far
  dono,       \* sessoes.usuario_id
  ativa,      \* sessions with revogada = false
  vencida,    \* sessions whose access token has expired
  cookie,     \* refresh_token in the jar, or 0
  token,      \* accessToken of a tab, or 0
  usuario,    \* the user of its AuthContext
  carregando, \* AuthContext has not heard of the server yet
  mfa,        \* the user FormularioMfa asks a code of
  promessa,   \* the flow whose refreshAccessToken is refreshPromise
  pc,         \* where a flow stands
  etapa,      \* the endpoint it is calling
  cred,       \* the bearer token it sent, or 0
  aguarda,    \* the flow whose renewal it waits for
  chamada,    \* its own call of /auth/refresh
  cruzada,    \* history: tabs whose renewal another answer has overtaken
  trocada     \* history: tabs behind whose back the jar became another's

servidorVars == <<emitidas, dono, ativa, vencida>>
abaVars == <<token, usuario, carregando, mfa, promessa>>
navegacaoVars == <<pc, etapa, cred, aguarda, chamada>>
historiaVars == <<cruzada, trocada>>

vars == <<servidorVars, cookie, abaVars, navegacaoVars, historiaVars>>

SemChamada == [fase |-> "nao", tok |-> 0]

\* Modules are loaded, AuthProvider mounts and its effect calls init.
AbaNova(a) ==
  /\ token[a] = 0
  /\ usuario[a] = NINGUEM
  /\ carregando[a]

Init ==
  /\ emitidas = 0
  /\ dono = [s \in Sessoes |-> NINGUEM]
  /\ ativa = {}
  /\ vencida = {}
  /\ cookie = 0
  /\ token = [a \in Abas |-> 0]
  /\ usuario = [a \in Abas |-> NINGUEM]
  /\ carregando = [a \in Abas |-> TRUE]
  /\ mfa = [a \in Abas |-> NINGUEM]
  /\ promessa = [a \in Abas |-> NINGUEM]
  /\ pc = [a \in Abas |-> [f \in Fluxos |-> "fora"]]
  /\ etapa = [a \in Abas |-> [f \in Fluxos |-> "nada"]]
  /\ cred = [a \in Abas |-> [f \in Fluxos |-> 0]]
  /\ aguarda = [a \in Abas |-> [f \in Fluxos |-> NINGUEM]]
  /\ chamada = [a \in Abas |-> [f \in Fluxos |-> SemChamada]]
  /\ cruzada = {}
  /\ trocada = {}

-----------------------------------------------------------------------------
(* Sessions on the server. *)

Proxima == emitidas + 1

\* INSERT INTO sessoes, in the transaction that revokes the sessions in velhas.
Emitir(u, velhas) ==
  /\ emitidas < MaxSessoes
  /\ emitidas' = Proxima
  /\ dono' = [dono EXCEPT ![Proxima] = u]
  /\ ativa' = (ativa \ velhas) \cup {Proxima}
  /\ UNCHANGED vencida

Aceita(s) == s # 0 /\ s \notin vencida

EmVoo(a, f) == chamada[a][f].fase # "nao"

\* Tabs that have sent a cookie which is about to be replaced in the jar.
Ultrapassadas(A) == {b \in A : \E f \in Fluxos : EmVoo(b, f)}

\* The tabs that novo takes by surprise: when a renewal of one user is answered
\* after a sign-in of another, the jar is the first one's again.
Surpresas(a, novo) == IF dono[novo] = dono[cookie] THEN {} ELSE Abas \ {a}

\* f's call is over: what overtook it no longer matters to tab a.
Restantes(a, f) ==
  IF \E g \in Fluxos \ {f} : EmVoo(a, g) THEN cruzada ELSE cruzada \ {a}

\* refresh_access_token reads the session, without a lock ...
LerSessao(a, f) ==
  /\ chamada[a][f].fase = "enviada"
  /\ chamada' = [chamada EXCEPT ![a][f] =
       IF @.tok \in ativa THEN [@ EXCEPT !.fase = "lida"]
                          ELSE [fase |-> "feita", tok |-> 0]]
  /\ UNCHANGED <<servidorVars, cookie, abaVars, pc, etapa, cred, aguarda,
                 historiaVars>>

\* ... and revokes it and inserts another: the rotation.
GravarSessao(a, f) ==
  LET velha == chamada[a][f].tok IN
  /\ chamada[a][f].fase = "lida"
  /\ Emitir(dono[velha], {velha})
  /\ chamada' = [chamada EXCEPT ![a][f] = [fase |-> "feita", tok |-> Proxima]]
  /\ UNCHANGED <<cookie, abaVars, pc, etapa, cred, aguarda, historiaVars>>

-----------------------------------------------------------------------------
(* request() of lib/api.ts. *)

\* Mutant: a request that needs a token renews it whoever is doing so already.
DeveRenovar_Sempre(a) == TRUE

\* isRefreshing is false.
DeveRenovar(a) == promessa[a] = NINGUEM

\* Waits for refreshPromise, which f starts when there is none; jar is the
\* cookie the browser attaches.
EsperarRenovacao(a, f, onde, jar) ==
  LET minha == DeveRenovar(a) IN
  /\ pc' = [pc EXCEPT ![a][f] = onde]
  /\ cred' = [cred EXCEPT ![a][f] = 0]
  /\ promessa' = [promessa EXCEPT ![a] = IF minha THEN f ELSE @]
  /\ aguarda' = [aguarda EXCEPT ![a][f] = IF minha THEN f ELSE promessa[a]]
  /\ chamada' = [chamada EXCEPT ![a][f] =
       IF minha THEN [fase |-> "enviada", tok |-> jar] ELSE SemChamada]

\* getValidToken, and the fetch when there is a token.
Pedir(a, f, alvo, jar) ==
  /\ etapa' = [etapa EXCEPT ![a][f] = alvo]
  /\ IF token[a] = 0
       THEN EsperarRenovacao(a, f, "token", jar)
       ELSE /\ pc' = [pc EXCEPT ![a][f] = "ida"]
            /\ cred' = [cred EXCEPT ![a][f] = token[a]]
            /\ chamada' = [chamada EXCEPT ![a][f] = SemChamada]
            /\ UNCHANGED <<promessa, aguarda>>

\* What the flows in F do when their request throws: the pages show an error;
\* carregarUsuario drops the user, and both it and init stop "Carregando".
\* saiu tells that onAuthExpired has been called.
Rejeitar(a, F, saiu) ==
  LET perdeu == saiu \/ \E f \in F : etapa[a][f] = "me" IN
  /\ token' = [token EXCEPT ![a] = IF perdeu THEN 0 ELSE @]
  /\ usuario' = [usuario EXCEPT ![a] = IF perdeu THEN NINGUEM ELSE @]
  /\ carregando' = [carregando EXCEPT ![a] =
       @ /\ \A f \in F : etapa[a][f] \notin {"me", "refresh"}]

\* campo with valor for the flows in F of tab a.
Calar(a, F, campo, valor) ==
  [campo EXCEPT ![a] = [f \in Fluxos |-> IF f \in F THEN valor ELSE @[f]]]

Encerrar(a, F) ==
  /\ pc' = Calar(a, F, pc, "fora")
  /\ etapa' = Calar(a, F, etapa, "nada")
  /\ cred' = Calar(a, F, cred, 0)
  /\ aguarda' = Calar(a, F, aguarda, NINGUEM)

Quem(a, f, onde) == {g \in Fluxos : aguarda[a][g] = f /\ pc[a][g] = onde}

\* f's renewal is over.  The post init was waiting to send goes out, with the
\* cookie of that moment: it is itself a call of /auth/refresh, the second
\* rotation of a page load, and the client does not keep its token.
DepoisDe(a, f, W, jar) ==
  LET livre == [chamada EXCEPT ![a][f] = SemChamada] IN
  chamada' = [livre EXCEPT ![a]["inicio"] =
    IF "inicio" \in W /\ etapa[a]["inicio"] = "refresh"
      THEN [fase |-> "enviada", tok |-> jar] ELSE @]

\* refreshPromise resolves with a token: the flows that wait for it send their
\* requests, for the first time or again.
RenovarDeuCerto(a, f) ==
  LET novo == chamada[a][f].tok
      W == Quem(a, f, "token") \cup Quem(a, f, "espera") IN
  /\ pc[a][f] \in {"token", "espera"}
  /\ chamada[a][f].fase = "feita"
  /\ novo # 0
  /\ cookie' = novo
  /\ token' = [token EXCEPT ![a] = novo]
  /\ promessa' = [promessa EXCEPT ![a] = NINGUEM]
  /\ DepoisDe(a, f, W, novo)
  /\ pc' = [pc EXCEPT ![a] = [g \in Fluxos |->
              IF g \notin W THEN @[g]
              ELSE IF @[g] = "token" THEN "ida" ELSE "ida2"]]
  /\ cred' = Calar(a, W, cred, novo)
  /\ aguarda' = Calar(a, W, aguarda, NINGUEM)
  /\ cruzada' = Restantes(a, f) \cup Ultrapassadas(Abas \ {a})
  /\ trocada' = trocada \cup Surpresas(a, novo)
  /\ UNCHANGED <<servidorVars, usuario, carregando, mfa, etapa>>

\* It resolves with null.  Who waited before its first fetch goes on without a
\* token; who waited after a 401 calls onAuthExpired and throws.
RenovarFalhou(a, f) ==
  LET semToken == Quem(a, f, "token")
      expirados == Quem(a, f, "espera") IN
  /\ pc[a][f] \in {"token", "espera"}
  /\ \/ chamada[a][f] = [fase |-> "feita", tok |-> 0]
     \/ "rede" \in Eventos /\ chamada[a][f].fase # "nao"
  /\ promessa' = [promessa EXCEPT ![a] = NINGUEM]
  /\ DepoisDe(a, f, semToken, cookie)
  /\ pc' = Calar(a, expirados, Calar(a, semToken, pc, "ida"), "fora")
  /\ etapa' = Calar(a, expirados, etapa, "nada")
  /\ aguarda' = Calar(a, semToken \cup expirados, aguarda, NINGUEM)
  /\ Rejeitar(a, expirados, expirados # {})
  /\ cruzada' = Restantes(a, f)
  /\ UNCHANGED <<servidorVars, cookie, mfa, cred, trocada>>

\* The server answers a request that carries a bearer token.
Responder(a, f) ==
  /\ pc[a][f] \in {"ida", "ida2"}
  /\ etapa[a][f] \in {"me", "dados"}
  /\ \/ /\ Aceita(cred[a][f])
        /\ usuario' = [usuario EXCEPT ![a] =
             IF etapa[a][f] = "me" THEN dono[cred[a][f]] ELSE @]
        /\ carregando' = [carregando EXCEPT ![a] = @ /\ etapa[a][f] # "me"]
        /\ Encerrar(a, {f})
        /\ UNCHANGED <<token, promessa, chamada>>
     \/ /\ ~Aceita(cred[a][f])
        /\ pc[a][f] = "ida"
        /\ EsperarRenovacao(a, f, "espera", cookie)
        /\ UNCHANGED <<token, usuario, carregando, etapa>>
     \/ /\ ~Aceita(cred[a][f])
        /\ pc[a][f] = "ida2"
        /\ Rejeitar(a, {f}, FALSE)
        /\ Encerrar(a, {f})
        /\ UNCHANGED <<promessa, chamada>>
  /\ UNCHANGED <<servidorVars, cookie, mfa, historiaVars>>

PerderResposta(a, f) ==
  /\ "rede" \in Eventos
  /\ pc[a][f] \in {"ida", "ida2"}
  /\ etapa[a][f] \in {"me", "dados", "refresh"}
  /\ Rejeitar(a, {f}, FALSE)
  /\ Encerrar(a, {f})
  /\ chamada' = [chamada EXCEPT ![a][f] = SemChamada]
  /\ UNCHANGED <<servidorVars, cookie, mfa, promessa, historiaVars>>

-----------------------------------------------------------------------------
(* AuthProvider. *)

\* init(): a module just loaded has no token, so it posts to /auth/refresh --
\* through request(), whose getValidToken renews first.
Iniciar(a) ==
  /\ AbaNova(a)
  /\ pc[a]["inicio"] = "fora"
  /\ Pedir(a, "inicio", "refresh", cookie)
  /\ UNCHANGED <<servidorVars, cookie, token, usuario, carregando, mfa,
                 historiaVars>>

\* Its answer's cookie is kept, its body is not; carregarUsuario follows.
IniciarAceito(a) ==
  LET novo == chamada[a]["inicio"].tok IN
  /\ pc[a]["inicio"] \in {"ida", "ida2"}
  /\ chamada[a]["inicio"].fase = "feita"
  /\ novo # 0
  /\ cookie' = novo
  /\ Pedir(a, "inicio", "me", novo)
  /\ cruzada' = cruzada \cup Ultrapassadas(Abas \ {a}) \cup
       {b \in {a} : \E g \in Pedidos \cup {"entrada"} : EmVoo(b, g)}
  /\ trocada' = trocada \cup Surpresas(a, novo)
  /\ UNCHANGED <<servidorVars, token, usuario, carregando, mfa>>

\* Mutant: init's catch forgets setCarregando(false).
IniciarRecusado_SemCatch(a) ==
  /\ pc[a]["inicio"] \in {"ida", "ida2"}
  /\ chamada[a]["inicio"] = [fase |-> "feita", tok |-> 0]
  /\ Encerrar(a, {"inicio"})
  /\ chamada' = [chamada EXCEPT ![a]["inicio"] = SemChamada]
  /\ UNCHANGED <<servidorVars, cookie, abaVars, historiaVars>>

IniciarRecusado(a) ==
  /\ chamada[a]["inicio"] = [fase |-> "feita", tok |-> 0]
  /\ \/ /\ pc[a]["inicio"] = "ida"
        /\ EsperarRenovacao(a, "inicio", "espera", cookie)
        /\ UNCHANGED <<token, usuario, carregando, etapa>>
     \/ /\ pc[a]["inicio"] = "ida2"
        /\ Rejeitar(a, {"inicio"}, FALSE)
        /\ Encerrar(a, {"inicio"})
        /\ chamada' = [chamada EXCEPT ![a]["inicio"] = SemChamada]
        /\ UNCHANGED promessa
  /\ UNCHANGED <<servidorVars, cookie, mfa, historiaVars>>

-----------------------------------------------------------------------------
(* The public forms.  /login does not ask whether somebody is signed in, nor *)
(* whether init has ended.  While a form is being sent its button is         *)
(* disabled and nothing else depends on it: a submit is one action with its  *)
(* answer.  A refusal leaves the form as it was.                             *)

\* Mutant: a code is asked of everybody.
PedirCodigo_DeTodos(a, u) ==
  /\ pc[a]["entrada"] = "fora"
  /\ mfa[a] = NINGUEM
  /\ mfa' = [mfa EXCEPT ![a] = u]
  /\ UNCHANGED <<servidorVars, cookie, token, usuario, carregando, promessa,
                 navegacaoVars, historiaVars>>

\* POST /auth/login of a user with mfa_ativo: no session yet, FormularioMfa.
PedirCodigo(a, u) ==
  /\ pc[a]["entrada"] = "fora"
  /\ mfa[a] = NINGUEM
  /\ u \in ComMfa
  /\ mfa' = [mfa EXCEPT ![a] = u]
  /\ UNCHANGED <<servidorVars, cookie, token, usuario, carregando, promessa,
                 navegacaoVars, historiaVars>>

VoltarAoLogin(a) ==
  /\ pc[a]["entrada"] = "fora"
  /\ mfa[a] # NINGUEM
  /\ mfa' = [mfa EXCEPT ![a] = NINGUEM]
  /\ UNCHANGED <<servidorVars, cookie, token, usuario, carregando, promessa,
                 navegacaoVars, historiaVars>>

\* Mutant: the handlers return without carregarUsuario.
AbrirSessao_SemCarregar(a, u) ==
  /\ pc[a]["entrada"] = "fora"
  /\ Emitir(u, {})
  /\ cookie' = Proxima
  /\ token' = [token EXCEPT ![a] = Proxima]
  /\ mfa' = [mfa EXCEPT ![a] = NINGUEM]
  /\ UNCHANGED <<usuario, carregando, promessa, navegacaoVars, historiaVars>>

\* A new session, its cookie, setAccessToken and carregarUsuario.  The other
\* tabs get the cookie and are told nothing.
AbrirSessao(a, u) ==
  LET emVoo == Ultrapassadas(Abas)
      abrindo == {b \in Abas : pc[b]["inicio"] # "fora"} IN
  /\ pc[a]["entrada"] = "fora"
  /\ Emitir(u, {})
  /\ cookie' = Proxima
  /\ token' = [token EXCEPT ![a] = Proxima]
  /\ mfa' = [mfa EXCEPT ![a] = NINGUEM]
  /\ pc' = [pc EXCEPT ![a]["entrada"] = "ida"]
  /\ etapa' = [etapa EXCEPT ![a]["entrada"] = "me"]
  /\ cred' = [cred EXCEPT ![a]["entrada"] = Proxima]
  /\ cruzada' = cruzada \cup emVoo
  /\ trocada' = trocada \cup emVoo \cup abrindo \cup (Abas \ {a})
  /\ UNCHANGED <<usuario, carregando, promessa, aguarda, chamada>>

\* login without a second factor, and cadastro.
Entrar(a, u) == mfa[a] = NINGUEM /\ u \notin ComMfa /\ AbrirSessao(a, u)

VerificarMfa(a, u) == mfa[a] = u /\ AbrirSessao(a, u)

-----------------------------------------------------------------------------
(* logout, from the sidebar or the profile page. *)

NaPagina(a) == ~carregando[a] /\ usuario[a] # NINGUEM

\* POST /auth/logout wants a bearer token and is sent without one (noAuth): the
\* server revokes nothing and keeps the cookie, the client ignores the answer
\* and forgets its own state.
Sair(a) ==
  /\ "sair" \in Eventos
  /\ NaPagina(a)
  /\ token' = [token EXCEPT ![a] = 0]
  /\ usuario' = [usuario EXCEPT ![a] = NINGUEM]
  /\ UNCHANGED <<servidorVars, cookie, carregando, mfa, promessa, navegacaoVars,
                 historiaVars>>

-----------------------------------------------------------------------------
(* Pages, time, reloads. *)

\* AuthGuard renders a page only for a signed-in user.
PedirDados(a, p) ==
  /\ NaPagina(a)
  /\ pc[a][p] = "fora"
  /\ Pedir(a, p, "dados", cookie)
  /\ UNCHANGED <<servidorVars, cookie, token, usuario, carregando, mfa,
                 historiaVars>>

\* Of a token a tab holds: nobody else would notice.
Vencer(s) ==
  /\ "vencer" \in Eventos
  /\ \E a \in Abas : token[a] = s
  /\ s \notin vencida
  /\ vencida' = vencida \cup {s}
  /\ UNCHANGED <<emitidas, dono, ativa, cookie, abaVars, navegacaoVars, historiaVars>>

\* What the server was answering is lost with the page that asked.
Recarregar(a) ==
  /\ "recarregar" \in Eventos
  /\ ~AbaNova(a)
  /\ token' = [token EXCEPT ![a] = 0]
  /\ usuario' = [usuario EXCEPT ![a] = NINGUEM]
  /\ carregando' = [carregando EXCEPT ![a] = TRUE]
  /\ mfa' = [mfa EXCEPT ![a] = NINGUEM]
  /\ promessa' = [promessa EXCEPT ![a] = NINGUEM]
  /\ chamada' = Calar(a, Fluxos, chamada, SemChamada)
  /\ Encerrar(a, Fluxos)
  /\ cruzada' = cruzada \ {a}
  /\ trocada' = trocada \ {a}
  /\ UNCHANGED <<servidorVars, cookie>>

-----------------------------------------------------------------------------
\* What a tab does when nothing but the server's answers drives it.
Prosseguir(a) ==
  \/ Iniciar(a)
  \/ IniciarAceito(a)
  \/ IniciarRecusado(a)
  \/ \E f \in Fluxos :
       \/ LerSessao(a, f)
       \/ GravarSessao(a, f)
       \/ RenovarDeuCerto(a, f)
       \/ RenovarFalhou(a, f)
       \/ Responder(a, f)

Usar(a) ==
  \/ \E u \in Usuarios : PedirCodigo(a, u)
  \/ VoltarAoLogin(a)
  \/ \E u \in Usuarios : Entrar(a, u)
  \/ \E u \in Usuarios : VerificarMfa(a, u)
  \/ Sair(a)
  \/ \E p \in Pedidos : PedirDados(a, p)
  \/ \E f \in Fluxos : PerderResposta(a, f)
  \/ Recarregar(a)

Next ==
  \/ \E a \in Abas : Prosseguir(a)
  \/ \E a \in Abas : Usar(a)
  \/ \E s \in Sessoes : Vencer(s)

Spec == Init /\ [][Next]_vars

\* The browser runs what is due and the server answers.
SpecJusta == Spec /\ \A a \in Abas : WF_vars(Prosseguir(a))

-----------------------------------------------------------------------------
(* Properties. *)

\* The types; a code is asked only of a user with a second factor.
TypeOK ==
  /\ emitidas \in 0..MaxSessoes
  /\ dono \in [Sessoes -> Usuarios \cup {NINGUEM}]
  /\ ativa \subseteq Sessoes
  /\ vencida \subseteq Sessoes
  /\ cookie \in Sessoes \cup {0}
  /\ token \in [Abas -> Sessoes \cup {0}]
  /\ usuario \in [Abas -> Usuarios \cup {NINGUEM}]
  /\ carregando \in [Abas -> BOOLEAN]
  /\ mfa \in [Abas -> ComMfa \cup {NINGUEM}]
  /\ promessa \in [Abas -> Fluxos \cup {NINGUEM}]
  /\ pc \in [Abas -> [Fluxos -> {"fora", "token", "ida", "espera", "ida2"}]]
  /\ etapa \in [Abas -> [Fluxos -> {"nada", "refresh", "me", "dados"}]]
  /\ cred \in [Abas -> [Fluxos -> Sessoes \cup {0}]]
  /\ aguarda \in [Abas -> [Fluxos -> Fluxos \cup {NINGUEM}]]
  /\ chamada \in [Abas -> [Fluxos ->
       [fase : {"nao", "enviada", "lida", "feita"}, tok : Sessoes \cup {0}]]]
  /\ cruzada \subseteq Abas
  /\ trocada \subseteq Abas

\* The user a tab shows is the one its requests act for, whatever renewals,
\* expirations, sign-ins and sign-outs interleave -- unless somebody signed in
\* in another tab, or while a renewal was on its way.
IdentidadeDaTela ==
  \A a \in Abas :
    (/\ a \notin trocada
     /\ pc[a]["entrada"] = "fora"
     /\ usuario[a] # NINGUEM
     /\ token[a] # 0) => dono[token[a]] = usuario[a]

PerdeuUsuario(a) ==
  usuario[a] # NINGUEM /\ usuario'[a] = NINGUEM /\ ~carregando'[a]

\* No other action takes the user away without a step of a flow.
Saiu(a) == usuario[a] # NINGUEM /\ usuario'[a] = NINGUEM /\ UNCHANGED pc

\* An answer the server gave, or was giving, did not arrive.
RedeCaiu(a) ==
  \/ \E f \in Fluxos : /\ EmVoo(a, f)
                       /\ chamada[a][f] # [fase |-> "feita", tok |-> 0]
                       /\ chamada'[a][f].fase = "nao"
  \/ \E f \in Fluxos : etapa[a][f] = "me" /\ pc'[a][f] = "fora"

\* A tab does not sign its user out of a session that could be renewed: with
\* every refresh token good for one use, the requests of a tab must share one
\* renewal.  The exceptions are the user's own logout, the network, and an
\* answer to another tab or form that overtook the renewal.
SoSaiSemSessao ==
  [][\A a \in Abas : PerdeuUsuario(a) =>
       \/ Saiu(a)
       \/ cookie \notin ativa
       \/ a \in cruzada
       \/ RedeCaiu(a)]_vars

\* A tab does not stay in "Carregando...", whichever of init's calls fails (or
\* the model has issued all its sessions).
CarregandoTermina ==
  \A a \in Abas : carregando[a] ~> (~carregando[a] \/ emitidas = MaxSessoes)

\* SPEC_Login_e_Autenticacao, POST /api/auth/logout: "Destruir session no
\* servidor".  The session the browser holds does not outlive the logout.
SairRevoga ==
  [][\A a \in Abas : Saiu(a) => cookie \notin ativa']_vars
=============================================================================
