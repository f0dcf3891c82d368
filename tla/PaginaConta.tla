----------------------------- MODULE PaginaConta -----------------------------
(***************************************************************************)
(* The account of a signed-in user: the profile page with its form of the  *)
(* password, the page that turns the second factor on, the user AuthContext*)
(* shows them, and the server's copy of the user, kept for a minute.  The  *)
(* public pages that reset a password are open in a tab beside it; no code *)
(* sends the link they are opened with, so that it comes from outside.     *)
(*                                                                         *)
(* Of a password and of a code only whether they are right counts, and of  *)
(* the tab's session whether it is revoked: the renewal of tokens itself   *)
(* is in SessaoCliente.  Of the requests of these pages one is in flight   *)
(* at a time.  FormularioListarMfa is left out: its fields of a removal    *)
(* cannot be filled in.                                                    *)
(***************************************************************************)
EXTENDS Integers

CONSTANT MaxQuedasConta \* bound: renewals the network loses

ASSUME PaginaContaAssumption == MaxQuedasConta \in Nat

\* What the cache of the user may hold: nothing, or a copy with mfa_ativo false
\* or true.
Copias == {"frio", "sem", "com"}

Requisicoes == {"alterar", "configurar", "ativar", "me"}

\* What validarSenha asks of a password.
Regras == {"minimo", "maximo", "maiuscula", "minuscula", "digito", "especial"}

\* A new password: the rules it fails, none or one (which one is not told apart),
\* and whether it passes what only the server asks, zxcvbn and the leaks.
NovasSenhas == [falhas : {{}, {CHOOSE r \in Regras : TRUE}}, forte : BOOLEAN]

VARIABLES
  sessaoViva, \* the server: the tab's session is not revoked,
  mfaRow,     \* usuarios.mfa_ativo,
  cacheUsr,   \* the copy in Redis,
  leituraUsr, \* and one a request has read and not stored yet
  cracha,     \* the tab: its access token is accepted,
  secao,      \* the page it shows,
  mfaTela,    \* usuario.mfa_ativo,
  etapaMfa,   \* etapa of FormularioConfigurarMfa,
  pedidoCt,   \* and the request in flight
  etapaRec,   \* the public tab: what it shows,
  link,       \* and the token it was opened with
  quedasConta \* history: renewals the network lost

servidorCtVars == <<sessaoViva, mfaRow, cacheUsr, leituraUsr>>
abaCtVars == <<cracha, secao, mfaTela, etapaMfa, pedidoCt, quedasConta>>
recVars == <<etapaRec, link>>
contaVars == <<servidorCtVars, abaCtVars, recVars>>

Secoes == {"perfil", "alterar", "configurar", "carregando", "login"}

SemPedidoCt == [que |-> "nada", vez |-> "nao", certa |-> FALSE, codigo |-> "sem"]

NovoPedido(q, certa, codigo) ==
  [que |-> q, vez |-> "ida", certa |-> certa, codigo |-> codigo]

Livre == pedidoCt.que = "nada"

\* The user as a copy.
Copia(ativo) == IF ativo THEN "com" ELSE "sem"

InitConta ==
  /\ sessaoViva = TRUE
  /\ mfaRow = FALSE
  /\ cacheUsr = "frio"
  /\ leituraUsr = "frio"
  /\ cracha = TRUE
  /\ secao = "perfil"
  /\ mfaTela = FALSE
  /\ etapaMfa = "iniciar"
  /\ pedidoCt = SemPedidoCt
  /\ etapaRec \in {"solicitar", "invalido"}
  /\ link = "nenhum"
  /\ quedasConta = 0

-----------------------------------------------------------------------------
(* The user of the tab. *)

AbrirSecao(s) ==
  /\ secao = "perfil"
  /\ s \in {"alterar", "configurar"}
  /\ secao' = s
  /\ etapaMfa' = "iniciar"
  /\ UNCHANGED <<servidorCtVars, cracha, mfaTela, pedidoCt, quedasConta,
                 recVars>>

\* The way back from the password is not disabled while it is sent; that from the
\* second factor is.
VoltarAoPerfil ==
  /\ secao \in {"alterar", "configurar"}
  /\ secao = "configurar" => pedidoCt.que \notin {"configurar", "ativar"}
  /\ secao' = "perfil"
  /\ UNCHANGED <<servidorCtVars, cracha, mfaTela, etapaMfa, pedidoCt, quedasConta,
                 recVars>>

\* validarSenha.
validarSenha(s) == s.falhas = {}

\* The form has a field for the code when the user it is given has mfa_ativo.
CodigosPedidos == IF mfaTela THEN {"certo", "errado"} ELSE {"sem"}

\* handleSubmit of FormularioAlterarSenha.
EnviarAlterar(s, certa, codigo) ==
  /\ secao = "alterar"
  /\ Livre
  /\ validarSenha(s)
  /\ codigo \in CodigosPedidos
  /\ pedidoCt' = NovoPedido("alterar", certa /\ s.forte, codigo)
  /\ UNCHANGED <<servidorCtVars, cracha, secao, mfaTela, etapaMfa, quedasConta, recVars>>

\* Which of its three faces FormularioConfigurarMfa shows.
FaceMfa ==
  CASE mfaTela -> "ja_ativo"
    [] ~mfaTela /\ etapaMfa = "iniciar" -> "configurar"
    [] ~mfaTela /\ etapaMfa # "iniciar" -> "ativar"

\* handleConfigurar.
EnviarConfigurar ==
  /\ secao = "configurar"
  /\ FaceMfa = "configurar"
  /\ Livre
  /\ pedidoCt' = NovoPedido("configurar", TRUE, "sem")
  /\ UNCHANGED <<servidorCtVars, cracha, secao, mfaTela, etapaMfa, quedasConta, recVars>>

\* handleAtivar.
EnviarAtivar(certa, codigo) ==
  /\ secao = "configurar"
  /\ FaceMfa = "ativar"
  /\ Livre
  /\ codigo \in {"certo", "errado"}
  /\ etapaMfa' = "ativando"
  /\ pedidoCt' = NovoPedido("ativar", certa, codigo)
  /\ UNCHANGED <<servidorCtVars, cracha, secao, mfaTela, quedasConta,
                 recVars>>

\* logout leaves the server's session as it is.
SairConta ==
  /\ secao = "perfil"
  /\ Livre
  /\ secao' = "login"
  /\ UNCHANGED <<servidorCtVars, cracha, mfaTela, etapaMfa, pedidoCt, quedasConta,
                 recVars>>

\* AuthProvider asks for the user, after a sign-in and when the page is loaded,
\* which has no access token yet.
PedirUsuario(valeToken) ==
  /\ secao' = "carregando"
  /\ cracha' = valeToken
  /\ pedidoCt' = NovoPedido("me", TRUE, "sem")
  /\ UNCHANGED <<mfaRow, cacheUsr, leituraUsr, mfaTela, etapaMfa, quedasConta, recVars>>

EntrarConta ==
  /\ secao = "login"
  /\ Livre
  /\ sessaoViva' = TRUE
  /\ PedirUsuario(TRUE)

RecarregarConta ==
  /\ secao # "login"
  /\ PedirUsuario(FALSE)
  /\ UNCHANGED sessaoViva

-----------------------------------------------------------------------------
(* The server: get_current_user, then the handler. *)

\* The copy get_current_user leaves; one that is there is not looked at again.
CacheLida == IF cacheUsr = "frio" THEN Copia(mfaRow) ELSE cacheUsr

\* Another request of the same user reads it ...
OutroLe ==
  /\ cacheUsr = "frio"
  /\ leituraUsr = "frio"
  /\ leituraUsr' = Copia(mfaRow)
  /\ UNCHANGED <<sessaoViva, mfaRow, cacheUsr, abaCtVars, recVars>>

\* ... and stores what it read.
OutroGuarda ==
  /\ leituraUsr # "frio"
  /\ cacheUsr' = leituraUsr
  /\ leituraUsr' = "frio"
  /\ UNCHANGED <<sessaoViva, mfaRow, abaCtVars, recVars>>

\* Mutant: the copy is stored without ex=USER_CACHE_TTL.
CacheVence_Nunca == FALSE

\* USER_CACHE_TTL.
CacheVence ==
  /\ cacheUsr # "frio"
  /\ cacheUsr' = "frio"
  /\ UNCHANGED <<sessaoViva, mfaRow, leituraUsr, abaCtVars, recVars>>

\* MfaCodigoInvalido is answered with 401, as an expired token is.
Negado401 ==
  \/ ~cracha
  \/ /\ pedidoCt.que = "alterar" /\ pedidoCt.certa
     /\ mfaRow /\ pedidoCt.codigo # "certo"
  \/ pedidoCt.que = "ativar" /\ pedidoCt.certa /\ pedidoCt.codigo # "certo"

Recusado400 == cracha /\ ~pedidoCt.certa

\* A new password that was used before is refused after the code was looked at.
Recusavel == Recusado400 \/ (pedidoCt.que = "alterar" /\ ~Negado401)

\* _revogar_todas_sessoes, and invalidate_user after the commit.
TrocarSenha ==
  /\ sessaoViva' = FALSE
  /\ cacheUsr' = "frio"
  /\ UNCHANGED mfaRow

\* What an accepted request changes.  ativar_totp leaves the copy of the user that
\* its own get_current_user has found or stored.
Aceitar ==
  \/ /\ pedidoCt.que = "alterar"
     /\ TrocarSenha
  \/ /\ pedidoCt.que \in {"configurar", "ativar", "me"}
     /\ mfaRow' = (mfaRow \/ pedidoCt.que = "ativar")
     /\ cacheUsr' = CacheLida
     /\ UNCHANGED sessaoViva

\* A form whose page has gone hears of nothing; that of the password tells its
\* page, which leaves the form that is open then.  From a page that has its user
\* the tab goes to the profile.
Prosseguiu ==
  CASE pedidoCt.que = "alterar" ->
         IF secao = "alterar" THEN "perfil" ELSE secao
    [] pedidoCt.que = "configurar" -> secao
    [] OTHER -> "perfil"

ResponderAceito ==
  /\ pedidoCt.vez \in {"ida", "volta"}
  /\ ~Negado401 /\ ~Recusado400
  /\ Aceitar
  /\ pedidoCt' = SemPedidoCt
  /\ secao' = Prosseguiu
  /\ etapaMfa' = CASE pedidoCt.que = "configurar" -> "escanear"
                   [] pedidoCt.que = "ativar" -> "iniciar"
                   [] OTHER -> etapaMfa
  /\ mfaTela' = IF pedidoCt.que = "me" THEN CacheLida = "com" ELSE mfaTela
  /\ UNCHANGED <<leituraUsr, cracha, quedasConta, recVars>>

\* request() shows the error of anything but a first 401.
Desistir ==
  /\ pedidoCt' = SemPedidoCt
  /\ etapaMfa' = IF pedidoCt.que = "ativar" THEN "escanear" ELSE etapaMfa

\* onAuthExpired, and AuthGuard.
Expulsar ==
  /\ pedidoCt' = SemPedidoCt
  /\ secao' = "login"
  /\ UNCHANGED etapaMfa

\* Mutant: a request refused again ends the session.
NegadoDeNovo_Expulsa == Expulsar

NegadoDeNovo ==
  /\ Desistir
  /\ secao' = IF pedidoCt.que = "me" THEN "login" ELSE secao

\* A 401: the first time the token is renewed and the request repeated.
ResponderNegado ==
  /\ Negado401
  /\ \/ /\ pedidoCt.vez = "ida"
        /\ pedidoCt' = [pedidoCt EXCEPT !.vez = "renovar"]
        /\ UNCHANGED <<secao, etapaMfa>>
     \/ /\ pedidoCt.vez = "volta"
        /\ NegadoDeNovo
  /\ cacheUsr' = IF cracha THEN CacheLida ELSE cacheUsr
  /\ UNCHANGED <<sessaoViva, mfaRow, leituraUsr, cracha, mfaTela, quedasConta, recVars>>

ResponderRecusado ==
  /\ pedidoCt.vez \in {"ida", "volta"}
  /\ Recusavel
  /\ Desistir
  /\ cacheUsr' = CacheLida
  /\ UNCHANGED <<sessaoViva, mfaRow, leituraUsr, cracha, secao, mfaTela, quedasConta,
                 recVars>>

\* refreshAccessToken: a token, or the end of the session for this tab.
Renovar ==
  /\ pedidoCt.vez = "renovar"
  /\ IF sessaoViva
       THEN /\ cracha' = TRUE
            /\ pedidoCt' = [pedidoCt EXCEPT !.vez = "volta"]
            /\ UNCHANGED <<secao, etapaMfa>>
       ELSE Expulsar /\ cracha' = FALSE
  /\ UNCHANGED <<servidorCtVars, mfaTela, quedasConta, recVars>>

PerderRenovacao ==
  /\ pedidoCt.vez = "renovar"
  /\ quedasConta < MaxQuedasConta
  /\ quedasConta' = quedasConta + 1
  /\ cracha' = FALSE
  /\ Expulsar
  /\ UNCHANGED <<servidorCtVars, mfaTela, recVars>>

\* The answer is lost, with or without what it answers; without its user a tab is
\* at the login.
PerderConta ==
  /\ pedidoCt.vez \in {"ida", "volta"}
  /\ \/ ~Negado401 /\ ~Recusado400 /\ Aceitar
     \/ UNCHANGED <<sessaoViva, mfaRow, cacheUsr>>
  /\ Desistir
  /\ secao' = IF pedidoCt.que = "me" THEN "login" ELSE secao
  /\ UNCHANGED <<leituraUsr, cracha, mfaTela, quedasConta, recVars>>

\* The fifteen minutes of an access token.
CrachaVence ==
  /\ cracha
  /\ cracha' = FALSE
  /\ UNCHANGED <<servidorCtVars, secao, mfaTela, etapaMfa, pedidoCt, quedasConta, recVars>>

-----------------------------------------------------------------------------
(* The public tab. *)

\* handleSolicitar: a token is written for the address, and nothing sends it.
SolicitarReset ==
  /\ etapaRec = "solicitar"
  /\ etapaRec' = "sucesso"
  /\ UNCHANGED <<servidorCtVars, abaCtVars, link>>

\* Either of the two pages opened with a token; without one, /recuperar-senha asks
\* for an address and /resetar-senha says that the link is invalid.
AbrirLink(l) ==
  /\ etapaRec # "resetar"
  /\ l \in {"vale", "usado"}
  /\ link' = l
  /\ etapaRec' = "resetar"
  /\ UNCHANGED <<servidorCtVars, abaCtVars>>

\* What neither handleSubmit nor the server refuses: a token is good for one use.
ResetAceito(s) == validarSenha(s) /\ s.forte /\ link = "vale"

\* handleResetar, and handleSubmit of the other page.  The answer may be lost, and
\* the form stays.
EnviarReset(s) ==
  /\ etapaRec = "resetar"
  /\ ResetAceito(s)
  /\ TrocarSenha
  /\ link' = "usado"
  /\ etapaRec' \in {"sucesso", "resetar"}
  /\ UNCHANGED <<leituraUsr, abaCtVars>>

\* /resetar-senha sends who has no token to the other page, and both to the login.
VoltarRec ==
  /\ etapaRec \in {"invalido", "sucesso"}
  /\ etapaRec' = "solicitar"
  /\ link' = "nenhum"
  /\ UNCHANGED <<servidorCtVars, abaCtVars>>

-----------------------------------------------------------------------------
UsarConta ==
  \/ \E s \in Secoes : AbrirSecao(s)
  \/ VoltarAoPerfil
  \/ \E s \in NovasSenhas, certa \in BOOLEAN, c \in {"sem", "certo", "errado"} :
       EnviarAlterar(s, certa, c)
  \/ EnviarConfigurar
  \/ \E certa \in BOOLEAN, c \in {"certo", "errado"} : EnviarAtivar(certa, c)
  \/ SairConta
  \/ EntrarConta
  \/ RecarregarConta

AtenderConta ==
  \/ ResponderAceito
  \/ ResponderNegado
  \/ ResponderRecusado
  \/ Renovar
  \/ PerderRenovacao
  \/ PerderConta

PassarTempo == OutroLe \/ OutroGuarda \/ CacheVence \/ CrachaVence

RecuperarSenha ==
  \/ SolicitarReset
  \/ \E l \in {"vale", "usado"} : AbrirLink(l)
  \/ \E s \in NovasSenhas : EnviarReset(s)
  \/ VoltarRec

NextConta == UsarConta \/ AtenderConta \/ PassarTempo \/ RecuperarSenha

SpecConta == InitConta /\ [][NextConta]_contaVars

-----------------------------------------------------------------------------
(* Properties. *)

ContaTypeOK ==
  /\ sessaoViva \in BOOLEAN /\ mfaRow \in BOOLEAN /\ cracha \in BOOLEAN
  /\ mfaTela \in BOOLEAN
  /\ cacheUsr \in Copias /\ leituraUsr \in Copias
  /\ secao \in Secoes
  /\ etapaMfa \in {"iniciar", "escanear", "ativando"}
  /\ pedidoCt \in [que : Requisicoes \cup {"nada"},
                   vez : {"nao", "ida", "renovar", "volta"},
                   certa : BOOLEAN, codigo : {"sem", "certo", "errado"}]
  /\ etapaRec \in {"solicitar", "resetar", "sucesso", "invalido"}
  /\ link \in {"nenhum", "vale", "usado"}
  /\ quedasConta \in 0..MaxQuedasConta

\* api.ts answers every 401 as if the token had expired, and the server refuses a
\* wrong code with 401.  A tab that repeats such a request is sent to the login
\* only when its session was revoked, by a change of the password here or by the
\* reset of the other tab, or when the network lost the renewal.
SaiPorSenha ==
  [][(/\ pedidoCt.que \in {"alterar", "configurar", "ativar"}
      /\ secao # "login"
      /\ secao' = "login") => ~sessaoViva \/ quedasConta' > quedasConta]_contaVars

\* user_cache.py:20.  A copy without the factor may be stored after the factor is
\* turned on, by ativar_totp itself and by any request that read the user before;
\* but such copies do not follow one another for ever, and a user who is loaded
\* again and again is asked for the code the server wants.
FatorAparece ==
  []<><<ResponderAceito /\ pedidoCt.que = "me">>_contaVars => <>[](mfaTela = mfaRow)
=============================================================================
