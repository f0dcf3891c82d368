---------------------------- MODULE AplicacaoProofs ----------------------------
(***************************************************************************)
(* Proofs about the tab as a whole and the pages that are opened in it,    *)
(* for every bound on the network's failures, any number of versions and   *)
(* any forms.  First each page by itself: the account, the execution, the  *)
(* forms and the Web Vitals; the others are in PaginasProofs.  The pages   *)
(* share no state, so that each that no other opens behaves in the tab as  *)
(* it does alone; the execution page is opened by the forms, and the       *)
(* invariants of both are proved again of the tab.                         *)
(***************************************************************************)
EXTENDS Aplicacao, PaginasProofs

-----------------------------------------------------------------------------
(* The account: the types, and that only the end of the session sends the  *)
(* tab to the login.                                                       *)

\* What the tab is waiting for, by the page it shows: an action of AuthContext
\* leaves no form's request behind.
EsperaDaSecao ==
  /\ secao = "login" => pedidoCt.que = "nada"
  /\ secao = "carregando" => pedidoCt.que = "me" /\ pedidoCt.certa

Booleanos ==
  /\ sessaoViva \in BOOLEAN /\ mfaRow \in BOOLEAN /\ cracha \in BOOLEAN
  /\ mfaTela \in BOOLEAN

Textos ==
  /\ cacheUsr \in Copias /\ leituraUsr \in Copias
  /\ secao \in Secoes
  /\ etapaMfa \in {"iniciar", "escanear", "ativando"}
  /\ etapaRec \in {"solicitar", "resetar", "sucesso", "invalido"}
  /\ link \in {"nenhum", "vale", "usado"}

TipoPedidoCt ==
  pedidoCt \in [que : Requisicoes \cup {"nada"},
               vez : {"nao", "ida", "renovar", "volta"},
               certa : BOOLEAN, codigo : {"sem", "certo", "errado"}]

TipoQuedas == quedasConta \in 0..MaxQuedasConta

IndConta == Booleanos /\ Textos /\ TipoPedidoCt /\ TipoQuedas /\ EsperaDaSecao

LEMMA InitIndConta == InitConta => IndConta
<1> SUFFICES ASSUME InitConta
             PROVE  IndConta
  OBVIOUS
<1>1. Booleanos
  BY DEF InitConta, Booleanos
<1>2. Textos
  BY DEF InitConta, Textos, Copias, Secoes
<1>3. TipoPedidoCt
  BY DEF InitConta, TipoPedidoCt, SemPedidoCt
<1>4. TipoQuedas
  BY PaginaContaAssumption DEF InitConta, TipoQuedas
<1>5. EsperaDaSecao
  BY DEF InitConta, EsperaDaSecao
<1> QED BY <1>1, <1>2, <1>3, <1>4, <1>5 DEF IndConta

\* What the user does in the tab.
LEMMA UsarMantem == IndConta /\ UsarConta => IndConta'
<1> SUFFICES ASSUME IndConta, UsarConta
             PROVE  IndConta'
  OBVIOUS
<1> USE DEF IndConta, servidorCtVars, recVars
<1>1. CASE \E s \in Secoes : AbrirSecao(s)
  <2>1. Booleanos'
    BY <1>1 DEF AbrirSecao, Booleanos
  <2>2. Textos'
    BY <1>1 DEF AbrirSecao, Textos, Secoes, Copias
  <2>3. TipoPedidoCt'
    BY <1>1 DEF AbrirSecao, TipoPedidoCt, NovoPedido, Requisicoes
  <2>4. TipoQuedas'
    BY <1>1 DEF AbrirSecao, TipoQuedas
  <2>5. EsperaDaSecao'
    BY <1>1 DEF AbrirSecao, EsperaDaSecao, NovoPedido, Livre
  <2> QED BY <2>1, <2>2, <2>3, <2>4, <2>5
<1>2. CASE VoltarAoPerfil
  <2>1. Booleanos'
    BY <1>2 DEF VoltarAoPerfil, Booleanos
  <2>2. Textos'
    BY <1>2 DEF VoltarAoPerfil, Textos, Secoes, Copias
  <2>3. TipoPedidoCt'
    BY <1>2 DEF VoltarAoPerfil, TipoPedidoCt, NovoPedido, Requisicoes
  <2>4. TipoQuedas'
    BY <1>2 DEF VoltarAoPerfil, TipoQuedas
  <2>5. EsperaDaSecao'
    BY <1>2 DEF VoltarAoPerfil, EsperaDaSecao, NovoPedido, Livre
  <2> QED BY <2>1, <2>2, <2>3, <2>4, <2>5
<1>3. CASE \E s \in NovasSenhas, certa \in BOOLEAN, c \in {"sem", "certo", "errado"} :
             EnviarAlterar(s, certa, c)
  <2> PICK s \in NovasSenhas, certa \in BOOLEAN, c \in {"sem", "certo", "errado"} :
             EnviarAlterar(s, certa, c)
    BY <1>3
  <2>a. s.forte \in BOOLEAN
    BY DEF NovasSenhas
  <2>1. Booleanos'
    BY <2>a DEF EnviarAlterar, Booleanos
  <2>2. Textos'
    BY <2>a DEF EnviarAlterar, Textos, Secoes, Copias
  <2>3. TipoPedidoCt'
    BY <2>a DEF EnviarAlterar, TipoPedidoCt, NovoPedido, Requisicoes
  <2>4. TipoQuedas'
    BY <2>a DEF EnviarAlterar, TipoQuedas
  <2>5. EsperaDaSecao'
    BY <2>a DEF EnviarAlterar, EsperaDaSecao, NovoPedido, Livre
  <2> QED BY <2>1, <2>2, <2>3, <2>4, <2>5
<1>4. CASE EnviarConfigurar
  <2>1. Booleanos'
    BY <1>4 DEF EnviarConfigurar, Booleanos
  <2>2. Textos'
    BY <1>4 DEF EnviarConfigurar, Textos, Secoes, Copias
  <2>3. TipoPedidoCt'
    BY <1>4 DEF EnviarConfigurar, TipoPedidoCt, NovoPedido, Requisicoes
  <2>4. TipoQuedas'
    BY <1>4 DEF EnviarConfigurar, TipoQuedas
  <2>5. EsperaDaSecao'
    BY <1>4 DEF EnviarConfigurar, EsperaDaSecao, NovoPedido, Livre
  <2> QED BY <2>1, <2>2, <2>3, <2>4, <2>5
<1>5. CASE \E certa \in BOOLEAN, c \in {"certo", "errado"} : EnviarAtivar(certa, c)
  <2>1. Booleanos'
    BY <1>5 DEF EnviarAtivar, Booleanos
  <2>2. Textos'
    BY <1>5 DEF EnviarAtivar, Textos, Secoes, Copias
  <2>3. TipoPedidoCt'
    BY <1>5 DEF EnviarAtivar, TipoPedidoCt, NovoPedido, Requisicoes
  <2>4. TipoQuedas'
    BY <1>5 DEF EnviarAtivar, TipoQuedas
  <2>5. EsperaDaSecao'
    BY <1>5 DEF EnviarAtivar, EsperaDaSecao, NovoPedido, Livre
  <2> QED BY <2>1, <2>2, <2>3, <2>4, <2>5
<1>6. CASE SairConta
  <2>1. Booleanos'
    BY <1>6 DEF SairConta, Booleanos
  <2>2. Textos'
    BY <1>6 DEF SairConta, Textos, Secoes, Copias
  <2>3. TipoPedidoCt'
    BY <1>6 DEF SairConta, TipoPedidoCt, NovoPedido, Requisicoes
  <2>4. TipoQuedas'
    BY <1>6 DEF SairConta, TipoQuedas
  <2>5. EsperaDaSecao'
    BY <1>6 DEF SairConta, EsperaDaSecao, NovoPedido, Livre
  <2> QED BY <2>1, <2>2, <2>3, <2>4, <2>5
<1>7. CASE EntrarConta
  <2>1. Booleanos'
    BY <1>7 DEF EntrarConta, PedirUsuario, Booleanos
  <2>2. Textos'
    BY <1>7 DEF EntrarConta, PedirUsuario, Textos, Secoes, Copias
  <2>3. TipoPedidoCt'
    BY <1>7 DEF EntrarConta, PedirUsuario, TipoPedidoCt, NovoPedido, Requisicoes
  <2>4. TipoQuedas'
    BY <1>7 DEF EntrarConta, PedirUsuario, TipoQuedas
  <2>5. EsperaDaSecao'
    BY <1>7 DEF EntrarConta, PedirUsuario, EsperaDaSecao, NovoPedido, Livre
  <2> QED BY <2>1, <2>2, <2>3, <2>4, <2>5
<1>8. CASE RecarregarConta
  <2>1. Booleanos'
    BY <1>8 DEF RecarregarConta, PedirUsuario, Booleanos
  <2>2. Textos'
    BY <1>8 DEF RecarregarConta, PedirUsuario, Textos, Secoes, Copias
  <2>3. TipoPedidoCt'
    BY <1>8 DEF RecarregarConta, PedirUsuario, TipoPedidoCt, NovoPedido, Requisicoes
  <2>4. TipoQuedas'
    BY <1>8 DEF RecarregarConta, PedirUsuario, TipoQuedas
  <2>5. EsperaDaSecao'
    BY <1>8 DEF RecarregarConta, PedirUsuario, EsperaDaSecao, NovoPedido, Livre
  <2> QED BY <2>1, <2>2, <2>3, <2>4, <2>5
<1> QED BY <1>1, <1>2, <1>3, <1>4, <1>5, <1>6, <1>7, <1>8 DEF UsarConta

\* The server's answers, and those that do not come.
LEMMA AtenderMantem == IndConta /\ AtenderConta => IndConta'
<1> SUFFICES ASSUME IndConta, AtenderConta
             PROVE  IndConta'
  OBVIOUS
<1> USE DEF IndConta, servidorCtVars, recVars, SemPedidoCt
<1>a. CacheLida \in {"sem", "com"} /\ Copia(mfaRow) \in {"sem", "com"}
  BY DEF CacheLida, Copia, Textos, Copias
<1>c. ASSUME Aceitar
      PROVE  /\ sessaoViva' \in BOOLEAN /\ mfaRow' \in BOOLEAN /\ cacheUsr' \in Copias
  BY <1>a, <1>c DEF Aceitar, TrocarSenha, Booleanos, Copias
<1>d. ASSUME ResponderAceito
      PROVE  /\ secao' = Prosseguiu
             /\ Prosseguiu \in Secoes
             /\ Prosseguiu \in {secao, "perfil"}
             /\ pedidoCt.que \in {"me", "ativar"} => Prosseguiu = "perfil"
  BY <1>d DEF ResponderAceito, Prosseguiu, Textos, Secoes
<1>e. \A v \in {"renovar", "volta"} :
        /\ [pedidoCt EXCEPT !.vez = v] \in
              [que : Requisicoes \cup {"nada"}, vez : {"nao", "ida", "renovar", "volta"},
               certa : BOOLEAN, codigo : {"sem", "certo", "errado"}]
        /\ [pedidoCt EXCEPT !.vez = v].que = pedidoCt.que
        /\ [pedidoCt EXCEPT !.vez = v].certa = pedidoCt.certa
  BY DEF TipoPedidoCt
<1>1. CASE ResponderAceito
  <2> USE <1>1 DEF ResponderAceito
  <2>0. etapaMfa' \in {"iniciar", "escanear", "ativando"}
    BY DEF Textos
  <2>1. Booleanos'
    BY <1>c DEF Booleanos
  <2>2. Textos'
    BY <1>c, <1>d, <2>0 DEF Textos, Copias
  <2>3. TipoPedidoCt'
    BY DEF TipoPedidoCt
  <2>4. TipoQuedas'
    BY DEF TipoQuedas
  <2>5. EsperaDaSecao'
    BY <1>d DEF EsperaDaSecao
  <2> QED BY <2>1, <2>2, <2>3, <2>4, <2>5
<1>2. CASE ResponderNegado
  <2>a. pedidoCt' = SemPedidoCt \/ pedidoCt' = [pedidoCt EXCEPT !.vez = "renovar"]
    BY <1>2 DEF ResponderNegado, NegadoDeNovo, Desistir
  <2>1. Booleanos'
    BY <1>2 DEF ResponderNegado, NegadoDeNovo, Desistir, Booleanos
  <2>2. Textos'
    BY <1>2, <1>a DEF ResponderNegado, NegadoDeNovo, Desistir, Textos, Secoes, Copias
  <2>3. TipoPedidoCt'
    <3>1. CASE pedidoCt' = SemPedidoCt
      BY <3>1 DEF TipoPedidoCt
    <3>2. CASE pedidoCt' # SemPedidoCt
      BY <1>e, <2>a, <3>2, Zenon DEF TipoPedidoCt
    <3> QED BY <3>1, <3>2
  <2>4. TipoQuedas'
    BY <1>2 DEF ResponderNegado, NegadoDeNovo, Desistir, TipoQuedas
  <2>5. EsperaDaSecao'
    BY <1>2, <1>e DEF ResponderNegado, NegadoDeNovo, Desistir, EsperaDaSecao
  <2> QED BY <2>1, <2>2, <2>3, <2>4, <2>5
<1>3. CASE ResponderRecusado
  <2>a. secao # "carregando"
    BY <1>3 DEF ResponderRecusado, Recusavel, Recusado400, EsperaDaSecao
  <2>1. Booleanos'
    BY <1>3 DEF ResponderRecusado, Desistir, Booleanos
  <2>2. Textos'
    BY <1>3, <1>a DEF ResponderRecusado, Desistir, Textos, Secoes, Copias
  <2>3. TipoPedidoCt'
    BY <1>3 DEF ResponderRecusado, Desistir, TipoPedidoCt, Requisicoes
  <2>4. TipoQuedas'
    BY <1>3 DEF ResponderRecusado, Desistir, TipoQuedas
  <2>5. EsperaDaSecao'
    BY <1>3, <2>a DEF ResponderRecusado, Desistir, EsperaDaSecao
  <2> QED BY <2>1, <2>2, <2>3, <2>4, <2>5
<1>4. CASE Renovar
  <2>a. pedidoCt' = SemPedidoCt \/ pedidoCt' = [pedidoCt EXCEPT !.vez = "volta"]
    BY <1>4 DEF Renovar, Expulsar
  <2>1. Booleanos'
    BY <1>4 DEF Renovar, Expulsar, Booleanos
  <2>2. Textos'
    BY <1>4 DEF Renovar, Expulsar, Textos, Secoes, Copias
  <2>3. TipoPedidoCt'
    <3>1. CASE pedidoCt' = SemPedidoCt
      BY <3>1 DEF TipoPedidoCt
    <3>2. CASE pedidoCt' # SemPedidoCt
      BY <1>e, <2>a, <3>2, Zenon DEF TipoPedidoCt
    <3> QED BY <3>1, <3>2
  <2>4. TipoQuedas'
    BY <1>4 DEF Renovar, Expulsar, TipoQuedas
  <2>5. EsperaDaSecao'
    BY <1>4, <1>e DEF Renovar, Expulsar, EsperaDaSecao
  <2> QED BY <2>1, <2>2, <2>3, <2>4, <2>5
<1>5. CASE PerderRenovacao
  <2>1. Booleanos'
    BY <1>5 DEF PerderRenovacao, Expulsar, Booleanos
  <2>2. Textos'
    BY <1>5 DEF PerderRenovacao, Expulsar, Textos, Secoes, Copias
  <2>3. TipoPedidoCt'
    BY <1>5 DEF PerderRenovacao, Expulsar, TipoPedidoCt, Requisicoes
  <2>4. TipoQuedas'
    BY <1>5, PaginaContaAssumption DEF PerderRenovacao, Expulsar, TipoQuedas
  <2>5. EsperaDaSecao'
    BY <1>5 DEF PerderRenovacao, Expulsar, EsperaDaSecao
  <2> QED BY <2>1, <2>2, <2>3, <2>4, <2>5
<1>6. CASE PerderConta
  <2>a. /\ sessaoViva' \in BOOLEAN /\ mfaRow' \in BOOLEAN /\ cacheUsr' \in Copias
    <3>1. CASE Aceitar
      BY <1>c, <3>1
    <3>2. CASE UNCHANGED <<sessaoViva, mfaRow, cacheUsr>>
      BY <3>2 DEF Booleanos, Textos
    <3> QED BY <1>6, <3>1, <3>2 DEF PerderConta
  <2>1. Booleanos'
    BY <1>6, <2>a DEF PerderConta, Desistir, Booleanos
  <2>2. Textos'
    BY <1>6, <2>a DEF PerderConta, Desistir, Textos, Secoes, Copias
  <2>3. TipoPedidoCt'
    BY <1>6 DEF PerderConta, Desistir, TipoPedidoCt, Requisicoes
  <2>4. TipoQuedas'
    BY <1>6 DEF PerderConta, Desistir, TipoQuedas
  <2>5. EsperaDaSecao'
    BY <1>6 DEF PerderConta, Desistir, EsperaDaSecao
  <2> QED BY <2>1, <2>2, <2>3, <2>4, <2>5
<1> QED BY <1>1, <1>2, <1>3, <1>4, <1>5, <1>6 DEF AtenderConta

\* Time, other requests of the user, and the public tab.
LEMMA OutrosMantem == IndConta /\ (PassarTempo \/ RecuperarSenha) => IndConta'
<1> SUFFICES ASSUME IndConta, PassarTempo \/ RecuperarSenha
             PROVE  IndConta'
  OBVIOUS
<1> USE DEF IndConta, servidorCtVars, abaCtVars, recVars
<1>1. CASE PassarTempo
  <2> USE DEF PassarTempo, OutroLe, OutroGuarda, CacheVence, CrachaVence
  <2>1. Booleanos'
    BY <1>1 DEF Booleanos
  <2>2. Textos'
    BY <1>1 DEF Textos, Secoes, Copias, Copia
  <2>3. TipoPedidoCt'
    BY <1>1 DEF TipoPedidoCt, Requisicoes
  <2>4. TipoQuedas'
    BY <1>1 DEF TipoQuedas
  <2>5. EsperaDaSecao'
    BY <1>1 DEF EsperaDaSecao
  <2> QED BY <2>1, <2>2, <2>3, <2>4, <2>5
<1>2. CASE RecuperarSenha
  <2>a. PICK l \in {"vale", "usado"}, s \in NovasSenhas :
          SolicitarReset \/ AbrirLink(l) \/ EnviarReset(s) \/ VoltarRec
    <3>1. [falhas |-> {}, forte |-> TRUE] \in NovasSenhas
      BY DEF NovasSenhas
    <3> QED BY <1>2, <3>1 DEF RecuperarSenha
  <2> USE DEF SolicitarReset, AbrirLink, EnviarReset, TrocarSenha, VoltarRec
  <2>1. Booleanos'
    BY <2>a DEF Booleanos
  <2>2. Textos'
    BY <2>a DEF Textos, Secoes, Copias
  <2>3. TipoPedidoCt'
    BY <2>a DEF TipoPedidoCt, Requisicoes
  <2>4. TipoQuedas'
    BY <2>a DEF TipoQuedas
  <2>5. EsperaDaSecao'
    BY <2>a DEF EsperaDaSecao
  <2> QED BY <2>1, <2>2, <2>3, <2>4, <2>5
<1> QED BY <1>1, <1>2

LEMMA NextIndConta == IndConta /\ [NextConta]_contaVars => IndConta'
<1>1. IndConta /\ UNCHANGED contaVars => IndConta'
  BY DEF IndConta, Booleanos, Textos, TipoPedidoCt, TipoQuedas, EsperaDaSecao,
         contaVars, servidorCtVars, abaCtVars, recVars
<1> QED BY <1>1, UsarMantem, AtenderMantem, OutrosMantem DEF NextConta

LEMMA ContaTipada == SpecConta => []ContaTypeOK
<1>1. SpecConta => []IndConta
  BY InitIndConta, NextIndConta, PTL DEF SpecConta
<1>2. IndConta => ContaTypeOK
  BY DEF IndConta, ContaTypeOK, Booleanos, Textos, TipoPedidoCt, TipoQuedas
<1> QED BY <1>1, <1>2, PTL

\* request() of lib/api.ts: a wrong code, which is a 401 as well, does not send
\* the tab to the login; only a revoked session or a lost renewal does.
THEOREM ContaSaiPorSenha == SpecConta => SaiPorSenha
<1> DEFINE SaidaJusta ==
      (/\ pedidoCt.que \in {"alterar", "configurar", "ativar"}
       /\ secao # "login"
       /\ secao' = "login") => ~sessaoViva \/ quedasConta' > quedasConta
<1>1. ContaTypeOK /\ [NextConta]_contaVars => [SaidaJusta]_contaVars
  <2> SUFFICES ASSUME ContaTypeOK, NextConta,
                      pedidoCt.que \in {"alterar", "configurar", "ativar"},
                      secao # "login", secao' = "login",
                      sessaoViva
               PROVE  quedasConta' > quedasConta
    BY DEF contaVars, ContaTypeOK
  <2>1. ~UsarConta
    <3>1. ~SairConta
      BY DEF SairConta, Livre
    <3> QED BY <3>1 DEF UsarConta, AbrirSecao, VoltarAoPerfil, EnviarAlterar, EnviarConfigurar,
                        EnviarAtivar, EntrarConta, RecarregarConta, PedirUsuario, Secoes
  <2>2. ~PassarTempo /\ ~RecuperarSenha
    BY DEF PassarTempo, RecuperarSenha, OutroLe, OutroGuarda, CacheVence, CrachaVence,
           SolicitarReset, AbrirLink, EnviarReset, VoltarRec, abaCtVars, servidorCtVars
  <2>3. PerderRenovacao
    <3>1. ~ResponderAceito
      BY DEF ResponderAceito, Prosseguiu
    <3>2. ~ResponderNegado /\ ~ResponderRecusado /\ ~PerderConta
      BY DEF ResponderNegado, NegadoDeNovo, ResponderRecusado, PerderConta
    <3>3. ~Renovar
      BY DEF Renovar
    <3> QED BY <2>1, <2>2, <3>1, <3>2, <3>3 DEF NextConta, AtenderConta
  <2> QED BY <2>3, PaginaContaAssumption DEF PerderRenovacao, ContaTypeOK
<1>2. SpecConta => []ContaTypeOK
  BY ContaTipada, PTL
<1> QED BY <1>1, <1>2, PTL DEF SpecConta, SaiPorSenha

-----------------------------------------------------------------------------
(* The page of an execution: the types, and the three things it promises   *)
(* to who looks at it.                                                     *)

\* The types, and that nothing the page has asked for or shows is newer than
\* the last version.
TipoLinha ==
  /\ ferramenta \in Ferramentas
  /\ status \in StatusExecucao
  /\ resultado \in Resultados

TipoTela ==
  /\ exStatus \in StatusExecucao \cup {"nenhum"}
  /\ exLinha \in BOOLEAN
  /\ detalhe \in Resultados \cup {"nenhum"}
  /\ detalhes \subseteq Resultados

TipoBuscas == buscas \in [{"primeira", "acao"} -> StatusExecucao \cup {"fora", "enviada"}]

TipoVersoes ==
  /\ versao \in 0..MaxVersoes
  /\ mostrada \in 0..versao
  /\ listas \subseteq 0..versao

TipoFluxo ==
  /\ fluxo \in {"ligado", "espera", "fim", "desistiu"}
  /\ falhas \in 0..MaxFalhas
  /\ lido \in StatusExecucao \cup {"nenhum"}

TipoAcoes ==
  /\ envio \in {"nada", "decidir", "cancelar", "decidindo", "cancelando", "relendo"}
  /\ ordem \in {"certa", "pulou", "trocada"}

\* A final status the page shows is the row's, or the page knows that it has
\* to read the row again.
FinalVisto ==
  exStatus \in Finais /\ ordem # "trocada" => exStatus = status \/ envio = "relendo"

\* The stream ends by delivering a final status.
FimEntregue == fluxo = "fim" /\ ordem # "trocada" => exStatus \in Finais

\* A result is there when the execution ends and stays; the page only knows
\* of one that is there.
ResultadoSabido ==
  /\ status \in {"executando", "aguardando"} => resultado = "vazio"
  /\ "com" \in detalhes => resultado = "com"
  /\ detalhe = "com" => resultado = "com"

\* Only an article has versions, which are its result, and only of a version
\* does anybody decide.
SoArtigoEspera ==
  /\ versao > 0 => ferramenta = "gerar_artigo"
  /\ ferramenta = "gerar_artigo" => resultado = "vazio"
  /\ envio \in {"decidir", "decidindo"} => versao > 0

\* A page that shows the pause and has missed none has asked for the list of
\* the version it waits for, and keeps the answer.
ListaPedida ==
  exStatus = "aguardando" /\ ordem = "certa" =>
    /\ status # "executando"
    /\ status = "aguardando" => versao \in listas \/ mostrada \in {0, versao}

IndExecucao ==
  /\ TipoLinha
  /\ TipoTela
  /\ TipoBuscas
  /\ TipoVersoes
  /\ TipoFluxo
  /\ TipoAcoes
  /\ FinalVisto
  /\ FimEntregue
  /\ ResultadoSabido
  /\ SoArtigoEspera
  /\ ListaPedida

LEMMA InitIndExecucao == InitExecucaoPagina => IndExecucao
<1> SUFFICES ASSUME InitExecucaoPagina
             PROVE  IndExecucao
  OBVIOUS
<1> USE DEF InitExecucaoPagina
<1>1. TipoLinha /\ TipoTela
  BY DEF TipoLinha, TipoTela, StatusExecucao, Resultados, PedirDetalhe
<1>2. TipoBuscas
  BY DEF TipoBuscas
<1>3. TipoVersoes /\ TipoFluxo /\ TipoAcoes
  BY PaginaExecucaoAssumption DEF TipoVersoes, TipoFluxo, TipoAcoes
<1>4. FinalVisto
  BY DEF FinalVisto, Finais
<1>5. FimEntregue /\ ResultadoSabido /\ SoArtigoEspera /\ ListaPedida
  BY DEF FimEntregue, ResultadoSabido, SoArtigoEspera, ListaPedida, PedirDetalhe
<1> QED BY <1>1, <1>2, <1>3, <1>4, <1>5 DEF IndExecucao

\* The worker.
LEMMA TrabalharMantem == IndExecucao /\ Trabalhar => IndExecucao'
<1> SUFFICES ASSUME IndExecucao, Trabalhar
             PROVE  IndExecucao'
  OBVIOUS
<1> USE DEF IndExecucao, linhaVars, telaVars, fluxoVars
<1>1. CASE EscreverVersao
  <2>1. TipoLinha' /\ TipoTela'
    BY <1>1 DEF EscreverVersao, TipoLinha, TipoTela,
         StatusExecucao, Finais, Resultados, PedirDetalhe
  <2>2. TipoBuscas'
    BY <1>1 DEF EscreverVersao, TipoBuscas
  <2>3. TipoVersoes'
    BY <1>1, PaginaExecucaoAssumption DEF EscreverVersao, TipoVersoes
  <2>4. TipoFluxo' /\ TipoAcoes'
    BY <1>1 DEF EscreverVersao, TipoFluxo, TipoAcoes
  <2>5. FinalVisto'
    BY <1>1 DEF EscreverVersao, FinalVisto, Finais
  <2>6. FimEntregue'
    BY <1>1 DEF EscreverVersao, FimEntregue, Finais
  <2>7. ResultadoSabido'
    BY <1>1 DEF EscreverVersao, ResultadoSabido, PedirDetalhe, Resultados
  <2>8. SoArtigoEspera'
    BY <1>1 DEF EscreverVersao, TipoVersoes, SoArtigoEspera
  <2>9. ListaPedida'
    BY <1>1 DEF EscreverVersao, ListaPedida
  <2> QED BY <2>1, <2>2, <2>3, <2>4, <2>5, <2>6, <2>7, <2>8, <2>9
<1>2. CASE MarcarAguardando
  <2>1. TipoLinha' /\ TipoTela'
    BY <1>2 DEF MarcarAguardando, TipoLinha, TipoTela,
         StatusExecucao, Finais, Resultados, PedirDetalhe
  <2>2. TipoBuscas'
    BY <1>2 DEF MarcarAguardando, TipoBuscas
  <2>3. TipoVersoes'
    BY <1>2 DEF MarcarAguardando, TipoVersoes
  <2>4. TipoFluxo' /\ TipoAcoes'
    BY <1>2 DEF MarcarAguardando, TipoFluxo, TipoAcoes
  <2>5. FinalVisto'
    BY <1>2 DEF MarcarAguardando, FinalVisto, Finais
  <2>6. FimEntregue'
    BY <1>2 DEF MarcarAguardando, FimEntregue, Finais
  <2>7. ResultadoSabido'
    BY <1>2 DEF MarcarAguardando, ResultadoSabido, PedirDetalhe, Resultados
  <2>8. SoArtigoEspera'
    BY <1>2 DEF MarcarAguardando, SoArtigoEspera
  <2>9. ListaPedida'
    BY <1>2 DEF MarcarAguardando, ListaPedida
  <2> QED BY <2>1, <2>2, <2>3, <2>4, <2>5, <2>6, <2>7, <2>8, <2>9
<1>3. CASE Retomar
  <2>1. TipoLinha' /\ TipoTela'
    BY <1>3 DEF Retomar, Pular, TipoLinha, TipoTela,
         StatusExecucao, Finais, Resultados, PedirDetalhe
  <2>2. TipoBuscas'
    BY <1>3 DEF Retomar, Pular, TipoBuscas
  <2>3. TipoVersoes'
    BY <1>3 DEF Retomar, Pular, TipoVersoes
  <2>4. TipoFluxo' /\ TipoAcoes'
    BY <1>3 DEF Retomar, Pular, TipoFluxo, TipoAcoes
  <2>5. FinalVisto'
    BY <1>3 DEF Retomar, Pular, FinalVisto, Finais
  <2>6. FimEntregue'
    BY <1>3 DEF Retomar, Pular, FimEntregue, Finais
  <2>7. ResultadoSabido'
    BY <1>3 DEF Retomar, Pular, ResultadoSabido, PedirDetalhe, Resultados
  <2>8. SoArtigoEspera'
    BY <1>3 DEF Retomar, Pular, SoArtigoEspera
  <2>9. ListaPedida'
    BY <1>3 DEF Retomar, Pular, ListaPedida
  <2> QED BY <2>1, <2>2, <2>3, <2>4, <2>5, <2>6, <2>7, <2>8, <2>9
<1>4. CASE Concluir
  <2>1. TipoLinha' /\ TipoTela'
    <3>1. resultado' \in Resultados
      BY <1>4, PaginaExecucaoAssumption
         DEF Concluir, ResultadoFinal, TipoLinha, TodasFerramentas, DeInlinks, Resultados
    <3> QED BY <1>4, <3>1 DEF Concluir, TipoLinha, TipoTela, StatusExecucao, Finais
  <2>2. TipoBuscas'
    BY <1>4 DEF Concluir, TipoBuscas
  <2>3. TipoVersoes'
    BY <1>4 DEF Concluir, TipoVersoes
  <2>4. TipoFluxo' /\ TipoAcoes'
    BY <1>4 DEF Concluir, TipoFluxo, TipoAcoes
  <2>5. FinalVisto'
    BY <1>4 DEF Concluir, FinalVisto, Finais
  <2>6. FimEntregue'
    BY <1>4 DEF Concluir, FimEntregue, Finais
  <2>7. ResultadoSabido'
    BY <1>4 DEF Concluir, ResultadoSabido, PedirDetalhe, Resultados
  <2>8. SoArtigoEspera'
    BY <1>4 DEF Concluir, ResultadoFinal, SoArtigoEspera
  <2>9. ListaPedida'
    BY <1>4 DEF Concluir, ListaPedida
  <2> QED BY <2>1, <2>2, <2>3, <2>4, <2>5, <2>6, <2>7, <2>8, <2>9
<1>5. CASE Falhar
  <2>1. TipoLinha' /\ TipoTela'
    BY <1>5 DEF Falhar, TipoLinha, TipoTela,
         StatusExecucao, Finais, Resultados, PedirDetalhe
  <2>2. TipoBuscas'
    BY <1>5 DEF Falhar, TipoBuscas
  <2>3. TipoVersoes'
    BY <1>5 DEF Falhar, TipoVersoes
  <2>4. TipoFluxo' /\ TipoAcoes'
    BY <1>5 DEF Falhar, TipoFluxo, TipoAcoes
  <2>5. FinalVisto'
    BY <1>5 DEF Falhar, FinalVisto, Finais
  <2>6. FimEntregue'
    BY <1>5 DEF Falhar, FimEntregue, Finais
  <2>7. ResultadoSabido'
    BY <1>5 DEF Falhar, ResultadoSabido, PedirDetalhe, Resultados
  <2>8. SoArtigoEspera'
    BY <1>5 DEF Falhar, SoArtigoEspera
  <2>9. ListaPedida'
    BY <1>5 DEF Falhar, ListaPedida
  <2> QED BY <2>1, <2>2, <2>3, <2>4, <2>5, <2>6, <2>7, <2>8, <2>9
<1>6. CASE Sobrescrever
  <2>1. TipoLinha' /\ TipoTela'
    <3>1. resultado' \in Resultados
      BY <1>6, PaginaExecucaoAssumption
         DEF Sobrescrever, ResultadoFinal, TipoLinha, TodasFerramentas, DeInlinks, Resultados
    <3> QED BY <1>6, <3>1 DEF Sobrescrever, TipoLinha, TipoTela, StatusExecucao, Finais
  <2>2. TipoBuscas'
    BY <1>6 DEF Sobrescrever, TipoBuscas
  <2>3. TipoVersoes'
    BY <1>6 DEF Sobrescrever, TipoVersoes
  <2>4. TipoFluxo' /\ TipoAcoes'
    BY <1>6 DEF Sobrescrever, TipoFluxo, TipoAcoes
  <2>5. FinalVisto'
    BY <1>6 DEF Sobrescrever, FinalVisto, Finais
  <2>6. FimEntregue'
    BY <1>6 DEF Sobrescrever, FimEntregue, Finais
  <2>7. ResultadoSabido'
    BY <1>6 DEF Sobrescrever, ResultadoSabido, PedirDetalhe, Resultados
  <2>8. SoArtigoEspera'
    BY <1>6 DEF Sobrescrever, ResultadoFinal, SoArtigoEspera
  <2>9. ListaPedida'
    BY <1>6 DEF Sobrescrever, ListaPedida
  <2> QED BY <2>1, <2>2, <2>3, <2>4, <2>5, <2>6, <2>7, <2>8, <2>9
<1> QED BY <1>1, <1>2, <1>3, <1>4, <1>5, <1>6 DEF Trabalhar

\* carregarExecucao.
LEMMA BuscarMantem == IndExecucao /\ Buscar => IndExecucao'
<1> SUFFICES ASSUME IndExecucao, Buscar
             PROVE  IndExecucao'
  OBVIOUS
<1> USE DEF IndExecucao, linhaVars, telaVars, fluxoVars
<1>1. CASE \E k \in DOMAIN buscas : LerBusca(k)
  <2> PICK k \in DOMAIN buscas : LerBusca(k)
    BY <1>1
  <2>1. TipoLinha' /\ TipoTela'
    BY DEF LerBusca, TipoLinha, TipoTela,
         StatusExecucao, Finais, Resultados, PedirDetalhe
  <2>2. TipoBuscas'
    <3>1. k \in {"primeira", "acao"} /\ status \in StatusExecucao
      BY DEF TipoBuscas, TipoLinha
    <3> QED BY <3>1 DEF LerBusca, TipoBuscas
  <2>3. TipoVersoes'
    BY DEF LerBusca, TipoVersoes
  <2>4. TipoFluxo' /\ TipoAcoes'
    BY DEF LerBusca, TipoFluxo, TipoAcoes
  <2>5. FinalVisto'
    BY DEF LerBusca, FinalVisto, Finais
  <2>6. FimEntregue'
    BY DEF LerBusca, FimEntregue, Finais
  <2>7. ResultadoSabido'
    BY DEF LerBusca, ResultadoSabido, PedirDetalhe, Resultados
  <2>8. SoArtigoEspera'
    BY DEF LerBusca, SoArtigoEspera
  <2>9. ListaPedida'
    BY DEF LerBusca, ListaPedida
  <2> QED BY <2>1, <2>2, <2>3, <2>4, <2>5, <2>6, <2>7, <2>8, <2>9
<1>2. CASE \E k \in DOMAIN buscas : ChegarBusca(k)
  <2> PICK k \in DOMAIN buscas : ChegarBusca(k)
    BY <1>2
  <2>1. TipoLinha' /\ TipoTela'
    BY DEF ChegarBusca, FimDaBusca, VerStatus, PedeVersoes, TipoLinha, TipoTela,
         StatusExecucao, Finais, Resultados, PedirDetalhe
  <2>2. TipoBuscas'
    BY DEF ChegarBusca, FimDaBusca, VerStatus, PedeVersoes, TipoBuscas
  <2>3. TipoVersoes'
    BY DEF ChegarBusca, FimDaBusca, VerStatus, PedeVersoes, TipoVersoes
  <2>4. TipoFluxo' /\ TipoAcoes'
    BY DEF ChegarBusca, FimDaBusca, VerStatus, PedeVersoes, TipoFluxo, TipoAcoes
  <2>5. FinalVisto'
    BY DEF ChegarBusca, FimDaBusca, VerStatus, FinalVisto, Finais
  <2>6. FimEntregue'
    BY DEF ChegarBusca, FimDaBusca, VerStatus, PedeVersoes, FimEntregue, Finais
  <2>7. ResultadoSabido'
    BY DEF ChegarBusca, FimDaBusca, VerStatus, PedeVersoes, ResultadoSabido, PedirDetalhe, Resultados
  <2>8. SoArtigoEspera'
    BY DEF ChegarBusca, FimDaBusca, VerStatus, PedeVersoes, SoArtigoEspera
  <2>9. ListaPedida'
    BY DEF ChegarBusca, FimDaBusca, VerStatus, PedeVersoes, ListaPedida
  <2> QED BY <2>1, <2>2, <2>3, <2>4, <2>5, <2>6, <2>7, <2>8, <2>9
<1> QED BY <1>1, <1>2 DEF Buscar

\* The answers of the other requests.
LEMMA ReceberMantem == IndExecucao /\ Receber => IndExecucao'
<1> SUFFICES ASSUME IndExecucao, Receber
             PROVE  IndExecucao'
  OBVIOUS
<1> USE DEF IndExecucao, linhaVars, telaVars, fluxoVars
<1>1. CASE \E x \in Resultados : ChegarDetalhe(x)
  <2> PICK x \in Resultados : ChegarDetalhe(x)
    BY <1>1
  <2>1. TipoLinha' /\ TipoTela'
    BY DEF ChegarDetalhe, Menos, TipoLinha, TipoTela,
         StatusExecucao, Finais, Resultados, PedirDetalhe
  <2>2. TipoBuscas'
    BY DEF ChegarDetalhe, Menos, TipoBuscas
  <2>3. TipoVersoes'
    BY DEF ChegarDetalhe, Menos, TipoVersoes
  <2>4. TipoFluxo' /\ TipoAcoes'
    BY DEF ChegarDetalhe, Menos, TipoFluxo, TipoAcoes
  <2>5. FinalVisto'
    BY DEF ChegarDetalhe, Menos, FinalVisto, Finais
  <2>6. FimEntregue'
    BY DEF ChegarDetalhe, Menos, FimEntregue, Finais
  <2>7. ResultadoSabido'
    BY DEF ChegarDetalhe, Menos, ResultadoSabido, PedirDetalhe, Resultados
  <2>8. SoArtigoEspera'
    BY DEF ChegarDetalhe, Menos, SoArtigoEspera
  <2>9. ListaPedida'
    BY DEF ChegarDetalhe, Menos, ListaPedida
  <2> QED BY <2>1, <2>2, <2>3, <2>4, <2>5, <2>6, <2>7, <2>8, <2>9
<1>2. CASE \E v \in 0..MaxVersoes : ChegarLista(v)
  <2> PICK v \in 0..MaxVersoes : ChegarLista(v)
    BY <1>2
  <2>1. TipoLinha' /\ TipoTela'
    BY DEF ChegarLista, Menos, TipoLinha, TipoTela,
         StatusExecucao, Finais, Resultados, PedirDetalhe
  <2>2. TipoBuscas'
    BY DEF ChegarLista, Menos, TipoBuscas
  <2>3. TipoVersoes'
    BY DEF ChegarLista, Menos, TipoVersoes
  <2>4. TipoFluxo' /\ TipoAcoes'
    BY DEF ChegarLista, Menos, TipoFluxo, TipoAcoes
  <2>5. FinalVisto'
    BY DEF ChegarLista, Menos, FinalVisto, Finais
  <2>6. FimEntregue'
    BY DEF ChegarLista, Menos, FimEntregue, Finais
  <2>7. ResultadoSabido'
    BY DEF ChegarLista, Menos, ResultadoSabido, PedirDetalhe, Resultados
  <2>8. SoArtigoEspera'
    BY DEF ChegarLista, Menos, SoArtigoEspera
  <2>9. ListaPedida'
    <3> SUFFICES ASSUME exStatus = "aguardando", ordem' = "certa"
                 PROVE  /\ status # "executando"
                        /\ status = "aguardando" => versao \in listas' \/ mostrada' \in {0, versao}
      BY DEF ChegarLista, ListaPedida
    <3>1. ordem = "certa" /\ ~(mostrada' < versao) /\ mostrada' \in v..versao
      BY DEF ChegarLista
    <3>2. v \in Int /\ versao \in Int
      BY PaginaExecucaoAssumption DEF TipoVersoes
    <3>3. mostrada' = versao
      BY <3>1, <3>2
    <3> QED BY <3>1, <3>3 DEF ListaPedida
  <2> QED BY <2>1, <2>2, <2>3, <2>4, <2>5, <2>6, <2>7, <2>8, <2>9
<1>3. CASE Atender
  <2>1. TipoLinha' /\ TipoTela'
    BY <1>3 DEF Atender, TipoLinha, TipoTela,
         StatusExecucao, Finais, Resultados, PedirDetalhe
  <2>2. TipoBuscas'
    BY <1>3 DEF Atender, TipoBuscas
  <2>3. TipoVersoes'
    BY <1>3 DEF Atender, TipoVersoes
  <2>4. TipoFluxo' /\ TipoAcoes'
    BY <1>3 DEF Atender, TipoFluxo, TipoAcoes
  <2>5. FinalVisto'
    BY <1>3 DEF Atender, FinalVisto, Finais
  <2>6. FimEntregue'
    BY <1>3 DEF Atender, FimEntregue, Finais
  <2>7. ResultadoSabido'
    BY <1>3 DEF Atender, ResultadoSabido, PedirDetalhe, Resultados
  <2>8. SoArtigoEspera'
    BY <1>3 DEF Atender, SoArtigoEspera
  <2>9. ListaPedida'
    BY <1>3 DEF Atender, ListaPedida
  <2> QED BY <2>1, <2>2, <2>3, <2>4, <2>5, <2>6, <2>7, <2>8, <2>9
<1>4. CASE PostAceito
  <2>1. TipoLinha' /\ TipoTela'
    BY <1>4 DEF PostAceito, GravarStatus, Pular, TipoLinha, TipoTela,
         StatusExecucao, Finais, Resultados, PedirDetalhe
  <2>2. TipoBuscas'
    BY <1>4 DEF PostAceito, GravarStatus, Pular, TipoBuscas
  <2>3. TipoVersoes'
    BY <1>4 DEF PostAceito, GravarStatus, Pular, TipoVersoes
  <2>4. TipoFluxo' /\ TipoAcoes'
    BY <1>4 DEF PostAceito, GravarStatus, Pular, TipoFluxo, TipoAcoes
  <2>5. FinalVisto'
    BY <1>4 DEF PostAceito, GravarStatus, Pular, FinalVisto, Finais
  <2>6. FimEntregue'
    BY <1>4 DEF PostAceito, GravarStatus, Pular, FimEntregue, Finais
  <2>7. ResultadoSabido'
    BY <1>4 DEF PostAceito, GravarStatus, Pular, ResultadoSabido, SoArtigoEspera
  <2>8. SoArtigoEspera'
    BY <1>4 DEF PostAceito, GravarStatus, Pular, SoArtigoEspera
  <2>9. ListaPedida'
    BY <1>4 DEF PostAceito, GravarStatus, Pular, ListaPedida
  <2> QED BY <2>1, <2>2, <2>3, <2>4, <2>5, <2>6, <2>7, <2>8, <2>9
<1> QED BY <1>1, <1>2, <1>3, <1>4 DEF Receber

\* The stream.
LEMMA AcompanharMantem == IndExecucao /\ Acompanhar => IndExecucao'
<1> SUFFICES ASSUME IndExecucao, Acompanhar
             PROVE  IndExecucao'
  OBVIOUS
<1> USE DEF IndExecucao, linhaVars, telaVars, fluxoVars
<1>1. CASE FluxoLer
  <2>1. TipoLinha' /\ TipoTela'
    BY <1>1 DEF FluxoLer, TipoLinha, TipoTela,
         StatusExecucao, Finais, Resultados, PedirDetalhe
  <2>2. TipoBuscas'
    BY <1>1 DEF FluxoLer, TipoBuscas
  <2>3. TipoVersoes'
    BY <1>1 DEF FluxoLer, TipoVersoes
  <2>4. TipoFluxo' /\ TipoAcoes'
    BY <1>1 DEF FluxoLer, TipoFluxo, TipoAcoes, TipoLinha
  <2>5. FinalVisto'
    BY <1>1 DEF FluxoLer, FinalVisto, Finais
  <2>6. FimEntregue'
    BY <1>1 DEF FluxoLer, FimEntregue, Finais
  <2>7. ResultadoSabido'
    BY <1>1 DEF FluxoLer, ResultadoSabido, PedirDetalhe, Resultados
  <2>8. SoArtigoEspera'
    BY <1>1 DEF FluxoLer, SoArtigoEspera
  <2>9. ListaPedida'
    BY <1>1 DEF FluxoLer, ListaPedida
  <2> QED BY <2>1, <2>2, <2>3, <2>4, <2>5, <2>6, <2>7, <2>8, <2>9
<1>2. CASE FluxoEntregar
  <2>1. TipoLinha' /\ TipoTela'
    <3>1. lido \in StatusExecucao
      BY <1>2 DEF FluxoEntregar, TipoFluxo
    <3> QED BY <1>2, <3>1 DEF FluxoEntregar, VerStatus, TipoLinha, TipoTela, PedirDetalhe
  <2>2. TipoBuscas'
    BY <1>2 DEF FluxoEntregar, VerStatus, PedeVersoes, TipoBuscas
  <2>3. TipoVersoes'
    <3>1. UNCHANGED <<versao, mostrada>> /\ listas' \subseteq listas \cup {versao}
      BY <1>2 DEF FluxoEntregar, VerStatus
    <3> QED BY <3>1, PaginaExecucaoAssumption DEF TipoVersoes
  <2>4. TipoFluxo' /\ TipoAcoes'
    BY <1>2, PaginaExecucaoAssumption DEF FluxoEntregar, VerStatus, PedeVersoes, TipoFluxo, TipoAcoes
  <2>5. FinalVisto'
    BY <1>2 DEF FluxoEntregar, VerStatus, PedeVersoes, FinalVisto, Finais
  <2>6. FimEntregue'
    BY <1>2 DEF FluxoEntregar, VerStatus, PedeVersoes, FimEntregue, Finais
  <2>7. ResultadoSabido'
    BY <1>2 DEF FluxoEntregar, VerStatus, PedeVersoes, ResultadoSabido, PedirDetalhe, Resultados
  <2>8. SoArtigoEspera'
    BY <1>2 DEF FluxoEntregar, VerStatus, PedeVersoes, SoArtigoEspera
  <2>9. ListaPedida'
    BY <1>2 DEF FluxoEntregar, VerStatus, PedeVersoes, ListaPedida
  <2> QED BY <2>1, <2>2, <2>3, <2>4, <2>5, <2>6, <2>7, <2>8, <2>9
<1>3. CASE FluxoReconectar
  <2>1. TipoLinha' /\ TipoTela'
    BY <1>3 DEF FluxoReconectar, TipoLinha, TipoTela,
         StatusExecucao, Finais, Resultados, PedirDetalhe
  <2>2. TipoBuscas'
    BY <1>3 DEF FluxoReconectar, TipoBuscas
  <2>3. TipoVersoes'
    BY <1>3 DEF FluxoReconectar, TipoVersoes
  <2>4. TipoFluxo' /\ TipoAcoes'
    BY <1>3 DEF FluxoReconectar, TipoFluxo, TipoAcoes
  <2>5. FinalVisto'
    BY <1>3 DEF FluxoReconectar, FinalVisto, Finais
  <2>6. FimEntregue'
    BY <1>3 DEF FluxoReconectar, FimEntregue, Finais
  <2>7. ResultadoSabido'
    BY <1>3 DEF FluxoReconectar, ResultadoSabido, PedirDetalhe, Resultados
  <2>8. SoArtigoEspera'
    BY <1>3 DEF FluxoReconectar, SoArtigoEspera
  <2>9. ListaPedida'
    BY <1>3 DEF FluxoReconectar, ListaPedida
  <2> QED BY <2>1, <2>2, <2>3, <2>4, <2>5, <2>6, <2>7, <2>8, <2>9
<1> QED BY <1>1, <1>2, <1>3 DEF Acompanhar

\* What is lost.
LEMMA PerderMantem == IndExecucao /\ Perder => IndExecucao'
<1> SUFFICES ASSUME IndExecucao, Perder
             PROVE  IndExecucao'
  OBVIOUS
<1> USE DEF IndExecucao, linhaVars, telaVars, fluxoVars
<1>1. CASE \E k \in DOMAIN buscas : PerderBusca(k)
  <2> PICK k \in DOMAIN buscas : PerderBusca(k)
    BY <1>1
  <2>1. TipoLinha' /\ TipoTela'
    BY DEF PerderBusca, FimDaBusca, FimErrado, TipoLinha, TipoTela,
         StatusExecucao, Finais, Resultados, PedirDetalhe
  <2>2. TipoBuscas'
    BY DEF PerderBusca, FimDaBusca, FimErrado, TipoBuscas
  <2>3. TipoVersoes'
    BY DEF PerderBusca, FimDaBusca, FimErrado, TipoVersoes
  <2>4. TipoFluxo' /\ TipoAcoes'
    BY DEF PerderBusca, FimDaBusca, FimErrado, TipoFluxo, TipoAcoes
  <2>5. FinalVisto'
    BY DEF PerderBusca, FimDaBusca, FimErrado, FinalVisto, Finais
  <2>6. FimEntregue'
    BY DEF PerderBusca, FimDaBusca, FimErrado, FimEntregue, Finais
  <2>7. ResultadoSabido'
    BY DEF PerderBusca, FimDaBusca, FimErrado, ResultadoSabido, PedirDetalhe, Resultados
  <2>8. SoArtigoEspera'
    BY DEF PerderBusca, FimDaBusca, FimErrado, SoArtigoEspera
  <2>9. ListaPedida'
    BY DEF PerderBusca, FimDaBusca, FimErrado, ListaPedida
  <2> QED BY <2>1, <2>2, <2>3, <2>4, <2>5, <2>6, <2>7, <2>8, <2>9
<1>2. CASE \E x \in Resultados : PerderDetalhe(x)
  <2> PICK x \in Resultados : PerderDetalhe(x)
    BY <1>2
  <2>1. TipoLinha' /\ TipoTela'
    BY DEF PerderDetalhe, TipoLinha, TipoTela,
         StatusExecucao, Finais, Resultados, PedirDetalhe
  <2>2. TipoBuscas'
    BY DEF PerderDetalhe, TipoBuscas
  <2>3. TipoVersoes'
    BY DEF PerderDetalhe, TipoVersoes
  <2>4. TipoFluxo' /\ TipoAcoes'
    BY DEF PerderDetalhe, TipoFluxo, TipoAcoes
  <2>5. FinalVisto'
    BY DEF PerderDetalhe, FinalVisto, Finais
  <2>6. FimEntregue'
    BY DEF PerderDetalhe, FimEntregue, Finais
  <2>7. ResultadoSabido'
    BY DEF PerderDetalhe, ResultadoSabido, PedirDetalhe, Resultados
  <2>8. SoArtigoEspera'
    BY DEF PerderDetalhe, SoArtigoEspera
  <2>9. ListaPedida'
    BY DEF PerderDetalhe, ListaPedida
  <2> QED BY <2>1, <2>2, <2>3, <2>4, <2>5, <2>6, <2>7, <2>8, <2>9
<1>3. CASE \E v \in 0..MaxVersoes : PerderLista(v)
  <2> PICK v \in 0..MaxVersoes : PerderLista(v)
    BY <1>3
  <2>1. TipoLinha' /\ TipoTela'
    BY DEF PerderLista, TipoLinha, TipoTela,
         StatusExecucao, Finais, Resultados, PedirDetalhe
  <2>2. TipoBuscas'
    BY DEF PerderLista, TipoBuscas
  <2>3. TipoVersoes'
    BY DEF PerderLista, TipoVersoes
  <2>4. TipoFluxo' /\ TipoAcoes'
    BY DEF PerderLista, TipoFluxo, TipoAcoes
  <2>5. FinalVisto'
    BY DEF PerderLista, FinalVisto, Finais
  <2>6. FimEntregue'
    BY DEF PerderLista, FimEntregue, Finais
  <2>7. ResultadoSabido'
    BY DEF PerderLista, ResultadoSabido, PedirDetalhe, Resultados
  <2>8. SoArtigoEspera'
    BY DEF PerderLista, SoArtigoEspera
  <2>9. ListaPedida'
    BY DEF PerderLista, ListaPedida
  <2> QED BY <2>1, <2>2, <2>3, <2>4, <2>5, <2>6, <2>7, <2>8, <2>9
<1>4. CASE PostFalhou
  <2>1. TipoLinha' /\ TipoTela'
    BY <1>4 DEF PostFalhou, TipoLinha, TipoTela,
         StatusExecucao, Finais, Resultados, PedirDetalhe
  <2>2. TipoBuscas'
    BY <1>4 DEF PostFalhou, TipoBuscas
  <2>3. TipoVersoes'
    BY <1>4 DEF PostFalhou, TipoVersoes
  <2>4. TipoFluxo' /\ TipoAcoes'
    BY <1>4 DEF PostFalhou, TipoFluxo, TipoAcoes
  <2>5. FinalVisto'
    BY <1>4 DEF PostFalhou, FinalVisto, Finais
  <2>6. FimEntregue'
    BY <1>4 DEF PostFalhou, FimEntregue, Finais
  <2>7. ResultadoSabido'
    BY <1>4 DEF PostFalhou, ResultadoSabido, PedirDetalhe, Resultados
  <2>8. SoArtigoEspera'
    BY <1>4 DEF PostFalhou, SoArtigoEspera
  <2>9. ListaPedida'
    BY <1>4 DEF PostFalhou, ListaPedida
  <2> QED BY <2>1, <2>2, <2>3, <2>4, <2>5, <2>6, <2>7, <2>8, <2>9
<1>6. CASE RespostaPerdida
  <2>1. TipoLinha' /\ TipoTela'
    BY <1>6 DEF RespostaPerdida, GravarStatus, Pular, TipoLinha, TipoTela,
         StatusExecucao, Finais, Resultados, PedirDetalhe
  <2>2. TipoBuscas'
    BY <1>6 DEF RespostaPerdida, GravarStatus, Pular, TipoBuscas
  <2>3. TipoVersoes'
    BY <1>6 DEF RespostaPerdida, GravarStatus, Pular, TipoVersoes
  <2>4. TipoFluxo' /\ TipoAcoes'
    BY <1>6 DEF RespostaPerdida, GravarStatus, Pular, TipoFluxo, TipoAcoes
  <2>5. FinalVisto'
    BY <1>6 DEF RespostaPerdida, GravarStatus, Pular, FinalVisto, Finais
  <2>6. FimEntregue'
    BY <1>6 DEF RespostaPerdida, GravarStatus, Pular, FimEntregue, Finais
  <2>7. ResultadoSabido'
    BY <1>6 DEF RespostaPerdida, GravarStatus, Pular, ResultadoSabido, SoArtigoEspera
  <2>8. SoArtigoEspera'
    BY <1>6 DEF RespostaPerdida, GravarStatus, Pular, SoArtigoEspera
  <2>9. ListaPedida'
    BY <1>6 DEF RespostaPerdida, GravarStatus, Pular, ListaPedida
  <2> QED BY <2>1, <2>2, <2>3, <2>4, <2>5, <2>6, <2>7, <2>8, <2>9
<1>5. CASE FluxoCair
  <2>1. TipoLinha' /\ TipoTela'
    BY <1>5 DEF FluxoCair, HaTentativaSSE, TipoLinha, TipoTela,
         StatusExecucao, Finais, Resultados, PedirDetalhe
  <2>2. TipoBuscas'
    BY <1>5 DEF FluxoCair, HaTentativaSSE, TipoBuscas
  <2>3. TipoVersoes'
    BY <1>5 DEF FluxoCair, HaTentativaSSE, TipoVersoes
  <2>4. TipoFluxo' /\ TipoAcoes'
    BY <1>5, PaginaExecucaoAssumption DEF FluxoCair, HaTentativaSSE, TipoFluxo, TipoAcoes
  <2>5. FinalVisto'
    BY <1>5 DEF FluxoCair, HaTentativaSSE, FinalVisto, Finais
  <2>6. FimEntregue'
    BY <1>5 DEF FluxoCair, HaTentativaSSE, FimEntregue, Finais
  <2>7. ResultadoSabido'
    BY <1>5 DEF FluxoCair, HaTentativaSSE, ResultadoSabido, PedirDetalhe, Resultados
  <2>8. SoArtigoEspera'
    BY <1>5 DEF FluxoCair, HaTentativaSSE, SoArtigoEspera
  <2>9. ListaPedida'
    BY <1>5 DEF FluxoCair, HaTentativaSSE, ListaPedida
  <2> QED BY <2>1, <2>2, <2>3, <2>4, <2>5, <2>6, <2>7, <2>8, <2>9
<1> QED BY <1>1, <1>2, <1>3, <1>4, <1>5, <1>6 DEF Perder

\* The user.
LEMMA UsuarioMantem == IndExecucao /\ (Decidir \/ CancelarExecucao) => IndExecucao'
<1> SUFFICES ASSUME IndExecucao, (Decidir \/ CancelarExecucao)
             PROVE  IndExecucao'
  OBVIOUS
<1> USE DEF IndExecucao, linhaVars, telaVars, fluxoVars
<1>1. CASE Decidir
  <2>1. TipoLinha' /\ TipoTela'
    BY <1>1 DEF Decidir, TipoLinha, TipoTela,
         StatusExecucao, Finais, Resultados, PedirDetalhe
  <2>2. TipoBuscas'
    BY <1>1 DEF Decidir, TipoBuscas
  <2>3. TipoVersoes'
    BY <1>1 DEF Decidir, TipoVersoes
  <2>4. TipoFluxo' /\ TipoAcoes'
    BY <1>1 DEF Decidir, TipoFluxo, TipoAcoes
  <2>5. FinalVisto'
    BY <1>1 DEF Decidir, PainelVisivel, FinalVisto, Finais
  <2>6. FimEntregue'
    BY <1>1 DEF Decidir, FimEntregue, Finais
  <2>7. ResultadoSabido'
    BY <1>1 DEF Decidir, ResultadoSabido, PedirDetalhe, Resultados
  <2>8. SoArtigoEspera'
    BY <1>1 DEF Decidir, PainelVisivel, TipoVersoes, SoArtigoEspera
  <2>9. ListaPedida'
    BY <1>1 DEF Decidir, ListaPedida
  <2> QED BY <2>1, <2>2, <2>3, <2>4, <2>5, <2>6, <2>7, <2>8, <2>9
<1>2. CASE CancelarExecucao
  <2>1. TipoLinha' /\ TipoTela'
    BY <1>2 DEF CancelarExecucao, TipoLinha, TipoTela,
         StatusExecucao, Finais, Resultados, PedirDetalhe
  <2>2. TipoBuscas'
    BY <1>2 DEF CancelarExecucao, TipoBuscas
  <2>3. TipoVersoes'
    BY <1>2 DEF CancelarExecucao, TipoVersoes
  <2>4. TipoFluxo' /\ TipoAcoes'
    BY <1>2 DEF CancelarExecucao, TipoFluxo, TipoAcoes
  <2>5. FinalVisto'
    BY <1>2 DEF CancelarExecucao, BotaoCancelar, FinalVisto, Finais
  <2>6. FimEntregue'
    BY <1>2 DEF CancelarExecucao, FimEntregue, Finais
  <2>7. ResultadoSabido'
    BY <1>2 DEF CancelarExecucao, ResultadoSabido, PedirDetalhe, Resultados
  <2>8. SoArtigoEspera'
    BY <1>2 DEF CancelarExecucao, SoArtigoEspera
  <2>9. ListaPedida'
    BY <1>2 DEF CancelarExecucao, ListaPedida
  <2> QED BY <2>1, <2>2, <2>3, <2>4, <2>5, <2>6, <2>7, <2>8, <2>9
<1> QED BY <1>1, <1>2

LEMMA NextIndExecucao == IndExecucao /\ [NextExecucaoPagina]_execucaoVars => IndExecucao'
<1>1. IndExecucao /\ UNCHANGED execucaoVars => IndExecucao'
  BY DEF IndExecucao, TipoLinha, TipoTela, TipoBuscas, TipoVersoes, TipoFluxo, TipoAcoes,
         FinalVisto, Finais, FimEntregue, ResultadoSabido, SoArtigoEspera, ListaPedida,
         execucaoVars, linhaVars, telaVars, fluxoVars
<1> QED BY <1>1, TrabalharMantem, BuscarMantem, ReceberMantem, AcompanharMantem, PerderMantem,
           UsuarioMantem DEF NextExecucaoPagina

LEMMA IndExecucaoBasta ==
  IndExecucao => ExecucaoPaginaTypeOK /\ VersaoMostrada /\ VerdeComResultado /\ PaginaConverge
<1> SUFFICES ASSUME IndExecucao
             PROVE  ExecucaoPaginaTypeOK /\ VersaoMostrada /\ VerdeComResultado /\ PaginaConverge
  OBVIOUS
<1> USE DEF IndExecucao
<1>1. ExecucaoPaginaTypeOK
  BY PaginaExecucaoAssumption
     DEF ExecucaoPaginaTypeOK, TipoLinha, TipoTela, TipoBuscas, TipoVersoes, TipoFluxo, TipoAcoes
<1>2. VersaoMostrada
  BY DEF VersaoMostrada, PainelVisivel, ListaPedida, TipoVersoes
<1>3. VerdeComResultado
  BY DEF VerdeComResultado, FaixaVerde, SemLinks, AbreDashboard, ResultadoSabido
<1>4. PaginaConverge
  BY DEF PaginaConverge, FimEntregue, FinalVisto, Finais
<1> QED BY <1>1, <1>2, <1>3, <1>4

LEMMA SempreIndExecucao == SpecExecucaoPagina => []IndExecucao
BY InitIndExecucao, NextIndExecucao, PTL DEF SpecExecucaoPagina

\* Type correctness, and that whoever can approve an article looks at the
\* version the execution waits for (execucao-detalhe-conteudo.tsx:113), after
\* any number of rounds.
THEOREM DecideSobreAVersao == SpecExecucaoPagina => [](ExecucaoPaginaTypeOK /\ VersaoMostrada)
BY SempreIndExecucao, IndExecucaoBasta, PTL

\* No green banner with an empty result (execucao-detalhe-conteudo.tsx:238).
THEOREM SucessoTemResultado == SpecExecucaoPagina => []VerdeComResultado
BY SempreIndExecucao, IndExecucaoBasta, PTL

\* sse-client.ts:17: when the stream is over the page shows how the execution
\* ended, however often the stream broke, unless an older answer came last or the
\* row left a final status without telling the page.
THEOREM MostraComoTerminou == SpecExecucaoPagina => []PaginaConverge
BY SempreIndExecucao, IndExecucaoBasta, PTL

-----------------------------------------------------------------------------
(* Each page by itself. *)

LEMMA PassoDaPagina ==
  [NextAplicacao]_aplicacaoVars =>
    /\ [NextConta]_contaVars
    /\ [NextCwv]_cwvVars
    /\ [NextProgresso]_progressoVars
    /\ [NextSeo]_seoVars
    /\ [NextHistorico]_historicoVars
BY DEF NextAplicacao, NaExecucao, NoProgresso, NoFormulario, NoCwv, NoSeo, NoHistorico,
       NaConta, AbrirExecucao, aplicacaoVars

\* The pages the forms do not open with state of their own behave in the tab as
\* they do alone, whatever the others do.
THEOREM PaginasIndependentes ==
  SpecAplicacao => SpecConta /\ SpecCwv /\ SpecProgresso /\ SpecSeo /\ SpecHistorico
<1>1. InitAplicacao => InitConta /\ InitCwv /\ InitProgresso /\ InitSeo /\ InitHistorico
  BY DEF InitAplicacao
<1> QED BY <1>1, PassoDaPagina, PTL
        DEF SpecAplicacao, SpecConta, SpecCwv, SpecProgresso, SpecSeo, SpecHistorico

-----------------------------------------------------------------------------
(* The forms. *)

\* Without a reason nothing is left behind, and the only execution is that of
\* the form the browser is leaving.
SoUma ==
  ~motivo =>
    /\ orfas = 0
    /\ criadas = 0 \/ (criadas = 1 /\ ~enviando /\ rumoForm)

Formas == {"artigo", "cwv", "seletor"} \cup Inlinks

IndPaga ==
  /\ ferr \in Formas
  /\ enviando \in BOOLEAN /\ motivo \in BOOLEAN /\ rumoForm \in BOOLEAN
  /\ orfas \in Nat /\ criadas \in Nat
  /\ SoUma

LEMMA InitIndPaga == InitFormularios => IndPaga
<1> SUFFICES ASSUME InitFormularios
             PROVE  IndPaga
  OBVIOUS
<1>1. enviando \in BOOLEAN /\ motivo \in BOOLEAN /\ rumoForm \in BOOLEAN
  BY DEF InitFormularios
<1>2. orfas \in Nat /\ criadas \in Nat
  BY DEF InitFormularios
<1>3. SoUma
  BY DEF InitFormularios, SoUma
<1>4. ferr \in Formas
  BY DEF InitFormularios, Formas
<1> QED BY <1>1, <1>2, <1>3, <1>4 DEF IndPaga

LEMMA FormulariosMantem == IndPaga /\ [NextFormularios]_formulariosVars => IndPaga'
<1> SUFFICES ASSUME IndPaga, [NextFormularios]_formulariosVars
             PROVE  IndPaga'
  OBVIOUS
<1>1. CASE UNCHANGED <<ferr, envioVars>>
  BY <1>1 DEF envioVars, IndPaga, SoUma
<1>2. CASE \E f \in Inlinks \cup {"seletor"} : TrocarModo(f)
  <2>1. enviando' \in BOOLEAN /\ motivo' \in BOOLEAN /\ rumoForm' \in BOOLEAN
    BY <1>2 DEF TrocarModo, IndPaga
  <2>2. orfas' \in Nat /\ criadas' \in Nat
    BY <1>2 DEF TrocarModo, IndPaga
  <2>3. SoUma'
    BY <1>2 DEF TrocarModo, IndPaga, SoUma
  <2>4. ferr' \in Formas
    BY <1>2 DEF TrocarModo, IndPaga, Inlinks, Formas
  <2> QED BY <2>1, <2>2, <2>3, <2>4 DEF IndPaga
<1>3. CASE HandleSubmit
  <2>1. enviando' \in BOOLEAN /\ motivo' \in BOOLEAN /\ rumoForm' \in BOOLEAN
    BY <1>3 DEF HandleSubmit, IndPaga
  <2>2. orfas' \in Nat /\ criadas' \in Nat
    BY <1>3 DEF HandleSubmit, IndPaga
  <2>3. SoUma'
    BY <1>3 DEF HandleSubmit, BotaoEnviar, IndPaga, SoUma
  <2>4. ferr' \in Formas
    BY <1>3 DEF HandleSubmit, IndPaga, camposVars
  <2> QED BY <2>1, <2>2, <2>3, <2>4 DEF IndPaga
<1>4. CASE EnvioAceito
  <2>1. enviando' \in BOOLEAN /\ motivo' \in BOOLEAN /\ rumoForm' \in BOOLEAN
    BY <1>4 DEF EnvioAceito, FimDoPost, IndPaga
  <2>2. orfas' \in Nat /\ criadas' \in Nat
    BY <1>4 DEF EnvioAceito, FimDoPost, IndPaga
  <2>3. SoUma'
    BY <1>4 DEF EnvioAceito, FimDoPost, IndPaga, SoUma
  <2>4. ferr' \in Formas
    BY <1>4 DEF EnvioAceito, FimDoPost, IndPaga, camposVars
  <2> QED BY <2>1, <2>2, <2>3, <2>4 DEF IndPaga
<1>5. CASE EnvioFalhou
  <2>1. enviando' \in BOOLEAN /\ motivo' \in BOOLEAN /\ rumoForm' \in BOOLEAN
    BY <1>5 DEF EnvioFalhou, FimDoPost, IndPaga
  <2>2. orfas' \in Nat /\ criadas' \in Nat
    BY <1>5 DEF EnvioFalhou, FimDoPost, IndPaga
  <2>3. SoUma'
    BY <1>5 DEF EnvioFalhou, FimDoPost, IndPaga, SoUma
  <2>4. ferr' \in Formas
    BY <1>5 DEF EnvioFalhou, FimDoPost, IndPaga, camposVars
  <2> QED BY <2>1, <2>2, <2>3, <2>4 DEF IndPaga
<1>6. Avancar \/ Voltar \/ (\E p \in 0..2 : IrAoPasso(p)) => UNCHANGED <<ferr, envioVars>>
  BY DEF camposVars, Avancar, Voltar, IrAoPasso, MudarPasso
<1>7. Preencher => UNCHANGED <<ferr, envioVars>>
  BY DEF camposVars, Preencher, EscolherCliente, EscolherPersona, PreencherTopico, PreencherAlvo
<1>8. EditarLista \/ CustoChegou \/ (\E n \in 0..MaxLista : CustoAtrasado(n))
      => UNCHANGED <<ferr, envioVars>>
  BY DEF camposVars, EditarLista, AddUrl, AddUrlsEmLote, RemoveUrl, CustoChegou,
         CustoAtrasado
<1>9. Descobrir => UNCHANGED <<ferr, envioVars>>
  BY DEF camposVars, Descobrir, EscolherClienteD, IndiceDChegou, BuscarCandidatas, CandidatasChegaram,
         AdicionarSelecionadas
<1>10. UNCHANGED formulariosVars => UNCHANGED <<ferr, envioVars>>
  BY DEF camposVars, formulariosVars
<1> QED BY <1>1, <1>2, <1>3, <1>4, <1>5, <1>6, <1>7, <1>8, <1>9, <1>10
        DEF NextFormularios, Caminhar, Enviar

LEMMA PagaBasta == IndPaga => PagaUmaVez
BY DEF IndPaga, SoUma, PagaUmaVez

-----------------------------------------------------------------------------
(* The forms: the types, and that the price confirmed is that of the list. *)

\* The length of a list is a sum over its entries.
LEMMA EntradasFinitas == IsFiniteSet(Entradas)
<1>1. Templates = {"home"} \cup {"outros"}
  BY DEF Templates
<1>2. IsFiniteSet(Templates)
  BY <1>1, FS_Singleton, FS_Union
<1> QED BY <1>2, FormulariosAssumption, FS_Product DEF Entradas

LEMMA TamanhoSoma ==
  ASSUME NEW l
  PROVE  Tamanho(l) = Soma(l, Entradas)
BY DEF Tamanho, FoldSet, Soma, MapThenSumSet, MapThenFoldSet

LEMMA TamanhoLimita ==
  ASSUME NEW l \in [Entradas -> Nat]
  PROVE  Tamanho(l) \in Nat /\ \A i \in Entradas : l[i] <= Tamanho(l)
BY TamanhoSoma, SomaLimita, EntradasFinitas

LEMMA TamanhoVazio == Tamanho(ListaVazia) = 0
BY TamanhoSoma, SomaDeZeros, EntradasFinitas DEF ListaVazia

TipoCampos ==
  /\ ferr \in {"artigo", "cwv", "seletor"} \cup Inlinks
  /\ passo \in 0..3
  /\ cliF \in ClientesF \cup {Nenhum}
  /\ persona \in {cliF, Nenhum}
  /\ topico \in BOOLEAN
  /\ alvoF \in Alvos \cup {Nenhum, PorTexto}

TipoListaForm ==
  /\ lista \in [Entradas -> 0..MaxLista]
  /\ Tamanho(lista) \in 0..MaxLista

TipoPreco ==
  /\ orcUltimo \in -1..MaxLista
  /\ orcs \subseteq 0..MaxLista
  /\ custoN \in -1..MaxLista
  /\ furo \in BOOLEAN

TipoEnvioForm ==
  /\ enviando \in BOOLEAN /\ motivo \in BOOLEAN /\ rumoForm \in BOOLEAN
  /\ corpo \in 0..MaxLista
  /\ orfas \in 0..MaxOrfas
  /\ criadas \in 0..MaxCriadas

TipoDescoberta ==
  /\ cliD \in ClientesF \cup {Nenhum}
  /\ lendo \subseteq ClientesF
  /\ indD \in {"nulo", "pronto", "outro"}
  /\ buscando \in ClientesF \cup {Nenhum}
  /\ sugestoes \subseteq Urls

\* The last request, while it is on its way, is for the list as it is.
UltimoAtual ==
  ferr \in Inlinks \cup {"cwv"} /\ orcUltimo # SemPreco => orcUltimo = PrecoDaLista

PrecoSeguido == UltimoAtual /\ CustoDaTela

IndForm ==
  /\ TipoCampos /\ TipoListaForm /\ TipoPreco /\ TipoEnvioForm /\ TipoDescoberta
  /\ PrecoSeguido

LEMMA IndFormBasta == IndForm => FormulariosTypeOK /\ CustoDaTela
BY DEF IndForm, TipoCampos, TipoListaForm, TipoPreco, TipoEnvioForm, TipoDescoberta,
       PrecoSeguido, FormulariosTypeOK

LEMMA ListaVaziaTipada ==
  /\ ListaVazia \in [Entradas -> 0..MaxLista]
  /\ Tamanho(ListaVazia) \in 0..MaxLista
BY TamanhoVazio, FormulariosAssumption DEF ListaVazia

LEMMA SemPrecoTipado == SemPreco \in -1..MaxLista
BY FormulariosAssumption DEF SemPreco

LEMMA InitIndForm == InitFormularios => IndForm
<1> SUFFICES ASSUME InitFormularios
             PROVE  IndForm
  OBVIOUS
<1>1. TipoCampos
  <2>1. passo \in 0..3
    BY DEF InitFormularios
  <2> QED BY <2>1 DEF InitFormularios, TipoCampos
<1>2. TipoListaForm
  BY ListaVaziaTipada DEF InitFormularios, TipoListaForm
<1>3. TipoPreco
  <2>1. custoN \in -1..MaxLista /\ orcUltimo \in -1..MaxLista
    BY SemPrecoTipado DEF InitFormularios
  <2> QED BY <2>1 DEF InitFormularios, TipoPreco
<1>4. TipoEnvioForm
  <2>1. 0 \in 0..MaxLista /\ 0 \in 0..MaxOrfas /\ 0 \in 0..MaxCriadas
    BY FormulariosAssumption
  <2> QED BY <2>1 DEF InitFormularios, TipoEnvioForm
<1>5. TipoDescoberta
  BY DEF InitFormularios, TipoDescoberta
<1>6. PrecoSeguido
  BY TamanhoVazio DEF InitFormularios, PrecoSeguido, UltimoAtual, CustoDaTela, PrecoDaLista,
         Inlinks
<1> QED BY <1>1, <1>2, <1>3, <1>4, <1>5, <1>6 DEF IndForm

\* Every change of the list asks for the price of the new length, if it is one.
LEMMA MudarListaMantem ==
  ASSUME TipoListaForm, TipoPreco, PrecoSeguido, NEW l \in [Entradas -> Nat],
         MudarLista(l), ferr' = ferr
  PROVE  TipoListaForm' /\ TipoPreco' /\ PrecoSeguido'
<1> DEFINE n == Tamanho(l)
<1>1. n \in Nat /\ n <= MaxLista /\ \A i \in Entradas : l[i] <= n
  BY TamanhoLimita DEF MudarLista
<1>2. lista' = l /\ Tamanho(lista)' = n
  <2>1. lista' = l
    BY DEF MudarLista
  <2> QED BY <2>1
<1>3. TipoListaForm'
  <2>1. \A i \in Entradas : l[i] \in 0..MaxLista
    BY <1>1, FormulariosAssumption
  <2>2. l \in [Entradas -> 0..MaxLista]
    BY <2>1
  <2>3. n \in 0..MaxLista
    BY <1>1, FormulariosAssumption
  <2> QED BY <1>2, <2>2, <2>3 DEF TipoListaForm
<1>4. PedirPreco(n)
  BY DEF MudarLista
<1> HIDE DEF n
<1>5. CASE n = Tamanho(lista) /\ UNCHANGED precoVars
  <2>1. TipoPreco'
    BY <1>5 DEF TipoPreco, precoVars
  <2>2. PrecoSeguido'
    BY <1>2, <1>5 DEF PrecoSeguido, UltimoAtual, CustoDaTela, PrecoDaLista, precoVars
  <2> QED BY <1>3, <2>1, <2>2
<1>6. ASSUME DeixarUltimo
      PROVE  orcs' \subseteq 0..MaxLista
  <2>1. orcUltimo \in {SemPreco} \cup 0..MaxLista
    BY FormulariosAssumption DEF TipoPreco, SemPreco
  <2> QED BY <1>6, <2>1 DEF DeixarUltimo, TipoPreco
<1>7. CASE PedirCusto(n) /\ (ferr = "cwv" => n # 0)
  <2>1. TipoPreco'
    <3>1. orcUltimo' \in -1..MaxLista
      BY <1>1, <1>7, FormulariosAssumption DEF PedirCusto
    <3> QED BY <1>6, <1>7, <3>1 DEF PedirCusto, TipoPreco
  <2>2. orcUltimo' = n /\ n # SemPreco /\ PrecoDaLista' = n
    <3>1. n # SemPreco
      BY <1>1 DEF SemPreco
    <3> QED BY <1>2, <1>7, <3>1 DEF PedirCusto, PrecoDaLista
  <2>3. PrecoSeguido'
    BY <2>2 DEF PrecoSeguido, UltimoAtual, CustoDaTela
  <2> QED BY <1>3, <2>1, <2>3
<1>8. CASE /\ ferr = "cwv" /\ n = 0 /\ DeixarUltimo
           /\ orcUltimo' = SemPreco /\ custoN' = SemPreco /\ furo' = FALSE
  <2>1. TipoPreco'
    BY <1>6, <1>8, SemPrecoTipado DEF TipoPreco
  <2>2. PrecoSeguido'
    BY <1>2, <1>8 DEF PrecoSeguido, UltimoAtual, CustoDaTela, PrecoDaLista
  <2> QED BY <1>3, <2>1, <2>2
<1> QED BY <1>4, <1>5, <1>7, <1>8
        DEF PedirPreco, LoadCustoReceber, LoadCustoDistribuir, LoadCustoCwv, Inlinks

LEMMA SomarTipado ==
  ASSUME TipoListaForm, NEW m \in [Entradas -> Nat]
  PROVE  Somar(m) \in [Entradas -> Nat]
BY FormulariosAssumption DEF TipoListaForm, Somar

LEMMA LoteTipado ==
  ASSUME NEW t \in Templates, NEW lote \in [DoTemplate(t) -> 0..2], NEW A
  PROVE  NovasDoLote(lote, A) \in [Entradas -> Nat]
BY DEF NovasDoLote

LEMMA EditarListaMantem == IndForm /\ EditarLista => IndForm'
<1> SUFFICES ASSUME IndForm, EditarLista
             PROVE  IndForm'
  OBVIOUS
<1> USE DEF IndForm
<1>1. UNCHANGED <<camposVars, envioVars, descobertaVars>>
  BY DEF EditarLista, AddUrl, AddUrlsEmLote, RemoveUrl
<1>2. TipoCampos' /\ TipoEnvioForm' /\ TipoDescoberta' /\ ferr' = ferr
  BY <1>1 DEF TipoCampos, TipoEnvioForm, TipoDescoberta, camposVars, envioVars,
         descobertaVars
<1>3. \A i \in Entradas : lista[i] \in Nat
  BY FormulariosAssumption DEF TipoListaForm
<1>4. lista \in [Entradas -> Nat]
  BY <1>3 DEF TipoListaForm
<1>5. \E l \in [Entradas -> Nat] : MudarLista(l)
  <2>1. CASE AddUrl
    <3>1. \E i \in Entradas : MudarLista([lista EXCEPT ![i] = 1])
      BY <2>1 DEF AddUrl, AddUrlReceber, AddUrlDistribuir, AddUrlCwv, DoTemplate,
             Entradas
    <3>2. PICK i \in Entradas : MudarLista([lista EXCEPT ![i] = 1])
      BY <3>1
    <3>3. [lista EXCEPT ![i] = 1] \in [Entradas -> Nat]
      BY <1>4
    <3> QED BY <3>2, <3>3
  <2>2. CASE AddUrlsEmLote
    <3>1. PICK t \in Templates :
            \E lote \in [DoTemplate(t) -> 0..2] :
              LoteReceber(lote) \/ LoteDistribuir(lote) \/ LoteCwv(lote)
      BY <2>2 DEF AddUrlsEmLote
    <3>2. PICK lote \in [DoTemplate(t) -> 0..2] :
            LoteReceber(lote) \/ LoteDistribuir(lote) \/ LoteCwv(lote)
      BY <3>1
    <3>3. PICK A : MudarLista(Somar(NovasDoLote(lote, A)))
      BY <3>2 DEF LoteReceber, LoteDistribuir, LoteCwv
    <3>4. Somar(NovasDoLote(lote, A)) \in [Entradas -> Nat]
      BY LoteTipado, SomarTipado
    <3> QED BY <3>3, <3>4
  <2>3. ASSUME NEW i \in Entradas, RemoveUrl(i)
        PROVE  \E l \in [Entradas -> Nat] : MudarLista(l)
    <3>1. lista[i] > 0 /\ MudarLista([lista EXCEPT ![i] = lista[i] - 1])
      BY <2>3 DEF RemoveUrl
    <3>2. lista[i] - 1 \in Nat
      BY <1>3, <3>1
    <3>3. [lista EXCEPT ![i] = lista[i] - 1] \in [Entradas -> Nat]
      BY <1>4, <3>2
    <3> QED BY <3>1, <3>3
  <2> QED BY <2>1, <2>2, <2>3 DEF EditarLista
<1>6. TipoListaForm' /\ TipoPreco' /\ PrecoSeguido'
  BY <1>2, <1>5, MudarListaMantem
<1> QED BY <1>2, <1>6

LEMMA CaminharMantem == IndForm /\ Caminhar => IndForm'
<1> SUFFICES ASSUME IndForm, Caminhar
             PROVE  IndForm'
  OBVIOUS
<1> USE DEF IndForm
<1>1. ASSUME NEW f \in Inlinks \cup {"seletor"}, TrocarModo(f)
      PROVE  IndForm'
  <2>1. /\ ferr' = f /\ passo' = 0 /\ alvoF' = Nenhum /\ lista' = ListaVazia
        /\ orcUltimo' = Orcado(f) /\ orcs' = {} /\ custoN' = SemPreco /\ furo' = FALSE
        /\ corpo' = 0 /\ enviando' = FALSE /\ NovaDescoberta
        /\ UNCHANGED <<cliF, persona, topico, criadas, rumoForm>>
    BY <1>1 DEF TrocarModo
  <2>2. TipoCampos'
    <3>1. passo' \in 0..3
      BY <2>1
    <3> QED BY <2>1, <3>1 DEF TipoCampos
  <2>3. TipoListaForm'
    BY <2>1, ListaVaziaTipada DEF TipoListaForm
  <2>4. TipoPreco'
    <3>1. 0 \in -1..MaxLista
      BY FormulariosAssumption
    <3> QED BY <2>1, <3>1, SemPrecoTipado DEF TipoPreco, Orcado
  <2>5. TipoEnvioForm'
    <3>1. orfas' = (IF enviando THEN orfas + 1 ELSE orfas) /\ (enviando => orfas < MaxOrfas)
      BY <1>1 DEF TrocarModo
    <3>2. orfas' \in 0..MaxOrfas
      BY <3>1, FormulariosAssumption DEF TipoEnvioForm
    <3>3. corpo' \in 0..MaxLista
      BY <2>1, FormulariosAssumption
    <3>4. motivo' \in BOOLEAN
      BY <1>1 DEF TrocarModo, TipoEnvioForm
    <3> QED BY <2>1, <3>2, <3>3, <3>4 DEF TipoEnvioForm
  <2>6. TipoDescoberta'
    BY <2>1 DEF TipoDescoberta, NovaDescoberta
  <2>7. PrecoSeguido'
    BY <2>1, TamanhoVazio DEF PrecoSeguido, UltimoAtual, CustoDaTela, PrecoDaLista, Orcado,
                              Inlinks, SemPreco
  <2> QED BY <2>2, <2>3, <2>4, <2>5, <2>6, <2>7
<1>2. ASSUME NEW p \in 0..3, MudarPasso(p)
      PROVE  IndForm'
  <2>1. /\ UNCHANGED <<ferr, cliF, persona, topico, alvoF, lista, precoVars, envioVars>>
        /\ passo' = p /\ NovaDescoberta
    BY <1>2 DEF MudarPasso
  <2>2. TipoCampos' /\ TipoListaForm' /\ TipoPreco' /\ TipoEnvioForm'
    BY <2>1 DEF TipoCampos, TipoListaForm, TipoPreco, TipoEnvioForm, precoVars, envioVars
  <2>3. TipoDescoberta'
    BY <2>1 DEF TipoDescoberta, NovaDescoberta
  <2>4. PrecoSeguido'
    BY <2>1 DEF PrecoSeguido, UltimoAtual, CustoDaTela, PrecoDaLista, precoVars
  <2> QED BY <2>2, <2>3, <2>4
<1>3. passo \in 0..3
  BY DEF TipoCampos
<1>4. CASE Avancar
  <2>1. passo + 1 \in 0..3 /\ MudarPasso(passo + 1)
    BY <1>3, <1>4 DEF Avancar, Ultimo
  <2> QED BY <1>2, <2>1
<1>5. CASE Voltar
  <2>1. passo - 1 \in 0..3 /\ MudarPasso(passo - 1)
    BY <1>3, <1>5 DEF Voltar
  <2> QED BY <1>2, <2>1
<1>6. ASSUME NEW p \in 0..2, IrAoPasso(p)
      PROVE  IndForm'
  <2>1. p \in 0..3 /\ MudarPasso(p)
    BY <1>6 DEF IrAoPasso
  <2> QED BY <1>2, <2>1
<1> QED BY <1>1, <1>4, <1>5, <1>6 DEF Caminhar

LEMMA PreencherMantem == IndForm /\ Preencher => IndForm'
<1> SUFFICES ASSUME IndForm, Preencher
             PROVE  IndForm'
  OBVIOUS
<1> USE DEF IndForm
<1>1. UNCHANGED <<ferr, passo, lista, precoVars, envioVars, descobertaVars>>
  BY DEF Preencher, EscolherCliente, EscolherPersona, PreencherTopico, PreencherAlvo
<1>2. TipoListaForm' /\ TipoPreco' /\ TipoEnvioForm' /\ TipoDescoberta' /\ PrecoSeguido'
  BY <1>1 DEF TipoListaForm, TipoPreco, TipoEnvioForm, TipoDescoberta, PrecoSeguido,
         UltimoAtual, CustoDaTela, PrecoDaLista, precoVars, envioVars, descobertaVars
<1>3. TipoCampos'
  <2>1. cliF' \in ClientesF \cup {Nenhum} /\ persona' \in {cliF', Nenhum}
    BY DEF Preencher, EscolherCliente, EscolherPersona, PreencherTopico, PreencherAlvo,
           TipoCampos
  <2>2. topico' \in BOOLEAN
    BY DEF Preencher, EscolherCliente, EscolherPersona, PreencherTopico, PreencherAlvo,
           TipoCampos
  <2>3. alvoF' \in Alvos \cup {Nenhum, PorTexto}
    BY DEF Preencher, EscolherCliente, EscolherPersona, PreencherTopico, PreencherAlvo,
           TipoCampos
  <2> QED BY <1>1, <2>1, <2>2, <2>3 DEF TipoCampos
<1> QED BY <1>2, <1>3

\* The last request brings the price of the list; what one before it brings after
\* that is noted.
LEMMA CustoMantem ==
  ASSUME IndForm, CustoChegou \/ (\E n \in 0..MaxLista : CustoAtrasado(n))
  PROVE  IndForm'
<1> USE DEF IndForm
<1>1. UNCHANGED <<camposVars, lista, envioVars, descobertaVars>>
  BY DEF CustoChegou, CustoAtrasado
<1>2. TipoCampos' /\ TipoListaForm' /\ TipoEnvioForm' /\ TipoDescoberta'
  BY <1>1 DEF TipoCampos, TipoListaForm, TipoEnvioForm, TipoDescoberta, camposVars,
         envioVars, descobertaVars
<1>3. ferr' = ferr /\ PrecoDaLista' = PrecoDaLista
  BY <1>1 DEF PrecoDaLista, camposVars
<1>4. CASE CustoChegou
  <2>1. TipoPreco'
    BY <1>4, SemPrecoTipado DEF CustoChegou, TipoPreco
  <2>2. PrecoSeguido'
    BY <1>3, <1>4 DEF CustoChegou, PrecoSeguido, UltimoAtual, CustoDaTela
  <2> QED BY <1>2, <2>1, <2>2
<1>5. ASSUME NEW n \in 0..MaxLista, CustoAtrasado(n)
      PROVE  IndForm'
  <2>1. TipoPreco'
    <3>1. custoN' \in -1..MaxLista
      BY <1>5, FormulariosAssumption DEF CustoAtrasado, TipoPreco
    <3> QED BY <1>5, <3>1 DEF CustoAtrasado, TipoPreco
  <2>2. orcUltimo' = orcUltimo
    BY <1>5 DEF CustoAtrasado
  <2>3. UltimoAtual'
    BY <1>3, <2>2 DEF PrecoSeguido, UltimoAtual
  <2>4. CustoDaTela'
    <3>1. CASE orcUltimo # SemPreco
      BY <2>2, <3>1 DEF CustoDaTela
    <3>2. CASE orcUltimo = SemPreco /\ furo' = (orcUltimo = SemPreco)
      <4>1. furo' = TRUE
        BY <3>2
      <4> QED BY <4>1 DEF CustoDaTela
    <3>3. CASE UNCHANGED <<custoN, furo>>
      BY <1>3, <2>2, <3>3 DEF PrecoSeguido, CustoDaTela
    <3>4. furo' = (orcUltimo = SemPreco) \/ UNCHANGED <<custoN, furo>>
      BY <1>5 DEF CustoAtrasado
    <3> QED BY <3>1, <3>2, <3>3, <3>4
  <2> QED BY <1>2, <2>1, <2>3, <2>4 DEF PrecoSeguido
<1> QED BY <1>4, <1>5

LEMMA DescobrirMantem == IndForm /\ Descobrir => IndForm'
<1> SUFFICES ASSUME IndForm, Descobrir
             PROVE  IndForm'
  OBVIOUS
<1> USE DEF IndForm
<1>1. UNCHANGED <<camposVars, envioVars>>
  BY DEF Descobrir, EscolherClienteD, IndiceDChegou, BuscarCandidatas,
         CandidatasChegaram, AdicionarSelecionadas
<1>2. TipoCampos' /\ TipoEnvioForm' /\ ferr' = ferr
  BY <1>1 DEF TipoCampos, TipoEnvioForm, camposVars, envioVars
<1>3. TipoDescoberta'
  <2>1. cliD' \in ClientesF \cup {Nenhum} /\ lendo' \subseteq ClientesF
    BY DEF Descobrir, EscolherClienteD, IndiceDChegou, BuscarCandidatas,
           CandidatasChegaram, AdicionarSelecionadas, TipoDescoberta
  <2>2. indD' \in {"nulo", "pronto", "outro"}
    BY DEF Descobrir, EscolherClienteD, IndiceDChegou, BuscarCandidatas,
           CandidatasChegaram, AdicionarSelecionadas, TipoDescoberta
  <2>3. buscando' \in ClientesF \cup {Nenhum} /\ sugestoes' \subseteq Urls
    BY DEF Descobrir, EscolherClienteD, IndiceDChegou, BuscarCandidatas,
           CandidatasChegaram, AdicionarSelecionadas, TipoDescoberta
  <2> QED BY <2>1, <2>2, <2>3 DEF TipoDescoberta
<1>4. CASE UNCHANGED <<lista, precoVars>>
  <2>1. TipoListaForm' /\ TipoPreco' /\ PrecoSeguido'
    BY <1>2, <1>4 DEF TipoListaForm, TipoPreco, PrecoSeguido,
         UltimoAtual, CustoDaTela, PrecoDaLista, precoVars
  <2> QED BY <1>2, <1>3, <2>1
<1>5. CASE AdicionarSelecionadas
  <2>1. PICK m \in [Entradas -> Nat] : MudarLista(Somar(m))
    <3>1. PICK S \in SUBSET sugestoes :
            MudarLista(Somar([i \in Entradas |->
                                IF i \in {"home"} \X Novas(S) THEN 1 ELSE 0]))
      BY <1>5 DEF AdicionarSelecionadas
    <3>2. [i \in Entradas |-> IF i \in {"home"} \X Novas(S) THEN 1 ELSE 0]
            \in [Entradas -> Nat]
      OBVIOUS
    <3> QED BY <3>1, <3>2
  <2>2. TipoListaForm' /\ TipoPreco' /\ PrecoSeguido'
    BY <1>2, <2>1, SomarTipado, MudarListaMantem
  <2> QED BY <1>2, <1>3, <2>2
<1> QED BY <1>4, <1>5 DEF Descobrir, EscolherClienteD, IndiceDChegou, BuscarCandidatas,
                          CandidatasChegaram

LEMMA EnviarMantem == IndForm /\ Enviar => IndForm'
<1> SUFFICES ASSUME IndForm, Enviar
             PROVE  IndForm'
  OBVIOUS
<1> USE DEF IndForm
<1>1. UNCHANGED <<camposVars, lista, precoVars, descobertaVars>>
  BY DEF Enviar, HandleSubmit, EnvioAceito, EnvioFalhou, FimDoPost
<1>2. /\ TipoCampos' /\ TipoListaForm' /\ TipoPreco' /\ TipoDescoberta'
      /\ PrecoSeguido'
  BY <1>1 DEF TipoCampos, TipoListaForm, TipoPreco, TipoDescoberta, PrecoSeguido,
         UltimoAtual, CustoDaTela, PrecoDaLista, camposVars, precoVars, descobertaVars
<1>3. TipoEnvioForm'
  <2>1. CASE HandleSubmit
    <3>1. corpo' \in 0..MaxLista /\ orfas' = orfas /\ criadas' = criadas
      BY <2>1 DEF HandleSubmit, BotaoEnviar, TipoListaForm
    <3>2. enviando' \in BOOLEAN /\ motivo' \in BOOLEAN /\ rumoForm' \in BOOLEAN
      BY <2>1 DEF HandleSubmit, TipoEnvioForm
    <3> QED BY <3>1, <3>2 DEF TipoEnvioForm
  <2>2. ASSUME NEW criou \in BOOLEAN, FimDoPost(criou),
               motivo' \in BOOLEAN, rumoForm' \in BOOLEAN
        PROVE  TipoEnvioForm'
    <3>1. corpo' \in 0..MaxLista
      BY <2>2, FormulariosAssumption DEF FimDoPost, TipoEnvioForm
    <3>2. orfas' \in 0..MaxOrfas
      BY <2>2, FormulariosAssumption DEF FimDoPost, TipoEnvioForm
    <3>3. criadas' \in 0..MaxCriadas
      BY <2>2, FormulariosAssumption DEF FimDoPost, TipoEnvioForm
    <3>4. enviando' \in BOOLEAN
      BY <2>2 DEF FimDoPost, TipoEnvioForm
    <3> QED BY <2>2, <3>1, <3>2, <3>3, <3>4 DEF TipoEnvioForm
  <2>3. CASE EnvioAceito
    BY <2>2, <2>3 DEF EnvioAceito, TipoEnvioForm
  <2>4. CASE EnvioFalhou
    <3>1. PICK criou \in BOOLEAN :
            FimDoPost(criou) /\ motivo' = (motivo \/ criou) /\ UNCHANGED rumoForm
      BY <2>4 DEF EnvioFalhou
    <3>2. motivo' \in BOOLEAN /\ rumoForm' \in BOOLEAN
      BY <3>1 DEF TipoEnvioForm
    <3> QED BY <2>2, <3>1, <3>2
  <2> QED BY <2>1, <2>3, <2>4 DEF Enviar
<1> QED BY <1>2, <1>3

LEMMA NextIndForm == IndForm /\ [NextFormularios]_formulariosVars => IndForm'
<1>1. IndForm /\ UNCHANGED formulariosVars => IndForm'
  BY DEF IndForm, TipoCampos, TipoListaForm, TipoPreco, TipoEnvioForm, TipoDescoberta,
         PrecoSeguido, UltimoAtual, CustoDaTela, PrecoDaLista, formulariosVars, camposVars, precoVars, envioVars,
         descobertaVars
<1> QED BY <1>1, CaminharMantem, PreencherMantem, EditarListaMantem, CustoMantem,
           DescobrirMantem, EnviarMantem DEF NextFormularios

-----------------------------------------------------------------------------
(* The Web Vitals page. *)

TipoCwv ==
  /\ cwvLinha \in LinhasCwv
  /\ cwvTela \in LinhasCwv \cup {LinhaNula}
  /\ cwvResultado \in BOOLEAN /\ cwvErro \in BOOLEAN /\ cwvOrdem \in BOOLEAN
  /\ cwvFinal \in FinaisCwv \cup {"nenhum"}
  /\ cwvFluxo \in {"ligado", "fim", "fechado", "desistiu"}

\* The first GET was sent before the worker was through; the last one is sent
\* when the stream has said that it is.
PedidosCwv ==
  /\ cwvGets \in [{"primeiro", "ultimo"} -> LinhasCwv \cup {LinhaNula}]
  /\ cwvGets["primeiro"].status \in {"executando", "nula"}
  /\ cwvGets["ultimo"] # LinhaNula => cwvLinha.status = "concluida"

\* Unless an answer was lost or came late, the final status the page has is the
\* row's, its result is there or asked for, and the row itself has been shown once
\* the first GET is in.
FinalCwv ==
  cwvOrdem =>
    /\ cwvFinal # "nenhum" => cwvFinal = cwvLinha.status
    /\ cwvFinal = "concluida" /\ cwvGets["ultimo"] = LinhaNula => cwvResultado
    /\ cwvGets["primeiro"] = LinhaNula => cwvTela # LinhaNula

\* The stream ends with a final status, and is closed when the page has one.
FluxoCwvFim ==
  /\ cwvFluxo = "fim" => cwvLinha.status \in FinaisCwv
  /\ cwvFluxo = "fim" /\ cwvLinha.status # "cancelada" => cwvFinal # "nenhum"
  /\ cwvFluxo = "fechado" => cwvFinal # "nenhum"

IndCwv == TipoCwv /\ PedidosCwv /\ FinalCwv /\ FluxoCwvFim

LEMMA InitIndCwv == InitCwv => IndCwv
<1> SUFFICES ASSUME InitCwv
             PROVE  IndCwv
  OBVIOUS
<1>1. cwvLinha \in LinhasCwv /\ cwvLinha.status = "executando"
  BY DEF InitCwv, LinhasCwv, StatusCwv
<1>2. TipoCwv
  BY <1>1 DEF InitCwv, TipoCwv
<1>3. PedidosCwv
  <2>1. cwvGets = [primeiro |-> cwvLinha, ultimo |-> LinhaNula]
    BY DEF InitCwv
  <2>2. cwvGets \in [{"primeiro", "ultimo"} -> LinhasCwv \cup {LinhaNula}]
    BY <1>1, <2>1
  <2>3. cwvGets["primeiro"] = cwvLinha /\ cwvGets["ultimo"] = LinhaNula
    BY <2>1
  <2> QED BY <1>1, <2>2, <2>3 DEF PedidosCwv
<1>4. FinalCwv
  BY <1>1 DEF InitCwv, FinalCwv, LinhaNula
<1>5. FluxoCwvFim
  BY DEF InitCwv, FluxoCwvFim
<1> QED BY <1>2, <1>3, <1>4, <1>5 DEF IndCwv

LEMMA CwvMantem == IndCwv /\ [NextCwv]_cwvVars => IndCwv'
<1> SUFFICES ASSUME IndCwv, [NextCwv]_cwvVars
             PROVE  IndCwv'
  OBVIOUS
<1> USE DEF IndCwv, cwvServidorVars, cwvPaginaVars, cwvExtraVars
<1>1. CASE TerminarCwv
  <2>1. TipoCwv'
    BY <1>1 DEF TerminarCwv, TipoCwv, LinhasCwv, LinhaNula, StatusCwv, FinaisCwv
  <2>2. PedidosCwv'
    BY <1>1 DEF TerminarCwv, TipoCwv, PedidosCwv, LinhasCwv, LinhaNula, StatusCwv, FinaisCwv
  <2>3. FinalCwv'
    BY <1>1 DEF TerminarCwv, TipoCwv, PedidosCwv, FinalCwv, LinhasCwv, LinhaNula, StatusCwv, FinaisCwv
  <2>4. FluxoCwvFim'
    BY <1>1 DEF TerminarCwv, TipoCwv, PedidosCwv, FluxoCwvFim, LinhasCwv, StatusCwv, FinaisCwv
  <2> QED BY <2>1, <2>2, <2>3, <2>4
<1>2. CASE LigarAuditoria
  <2>1. TipoCwv'
    BY <1>2 DEF LigarAuditoria, TipoCwv, LinhasCwv, LinhaNula, StatusCwv, FinaisCwv
  <2>2. PedidosCwv'
    BY <1>2 DEF LigarAuditoria, TipoCwv, PedidosCwv, LinhasCwv, LinhaNula, StatusCwv, FinaisCwv
  <2>3. FinalCwv'
    BY <1>2 DEF LigarAuditoria, TipoCwv, PedidosCwv, FinalCwv, LinhasCwv, LinhaNula, StatusCwv, FinaisCwv
  <2>4. FluxoCwvFim'
    BY <1>2 DEF LigarAuditoria, TipoCwv, PedidosCwv, FluxoCwvFim, LinhasCwv, StatusCwv, FinaisCwv
  <2> QED BY <2>1, <2>2, <2>3, <2>4
<1>3. CASE \E r \in {cwvGets.primeiro, cwvLinha} : PrimeiroGet(r)
  <2> PICK r \in {cwvGets.primeiro, cwvLinha} : PrimeiroGet(r)
    BY <1>3
  <2>1. TipoCwv'
    <3>1. r \in LinhasCwv \cup {LinhaNula}
      BY DEF TipoCwv, PedidosCwv
    <3>2. cwvLinha' \in LinhasCwv /\ cwvTela' \in LinhasCwv \cup {LinhaNula}
      BY <3>1 DEF PrimeiroGet, TipoCwv
    <3>3. cwvResultado' \in BOOLEAN /\ cwvErro' \in BOOLEAN /\ cwvOrdem' \in BOOLEAN
      BY DEF PrimeiroGet, TipoCwv
    <3>4. /\ cwvFinal' \in FinaisCwv \cup {"nenhum"}
          /\ cwvFluxo' \in {"ligado", "fim", "fechado", "desistiu"}
      BY DEF PrimeiroGet, EfeitoFluxo, TipoCwv
    <3> QED BY <3>2, <3>3, <3>4 DEF TipoCwv
  <2>2. PedidosCwv'
    BY DEF PrimeiroGet, EfeitoFluxo, TipoCwv, PedidosCwv, LinhasCwv, LinhaNula, StatusCwv, FinaisCwv
  <2>3. FinalCwv'
    BY DEF PrimeiroGet, EfeitoFluxo, TipoCwv, PedidosCwv, FinalCwv, LinhasCwv, LinhaNula, StatusCwv, FinaisCwv
  <2>4. FluxoCwvFim'
    BY DEF PrimeiroGet, EfeitoFluxo, TipoCwv, PedidosCwv, FluxoCwvFim, LinhasCwv, StatusCwv, FinaisCwv
  <2> QED BY <2>1, <2>2, <2>3, <2>4
<1>4. CASE \E r \in {cwvGets.ultimo, cwvLinha} : GetFinal(r)
  <2> PICK r \in {cwvGets.ultimo, cwvLinha} : GetFinal(r)
    BY <1>4
  <2>1. TipoCwv'
    <3>1. r \in LinhasCwv \cup {LinhaNula}
      BY DEF TipoCwv, PedidosCwv
    <3> QED BY <3>1 DEF GetFinal, TipoCwv
  <2>2. PedidosCwv'
    BY DEF GetFinal, TipoCwv, PedidosCwv, LinhasCwv, LinhaNula, StatusCwv, FinaisCwv
  <2>3. FinalCwv'
    BY DEF GetFinal, TipoCwv, PedidosCwv, FinalCwv, LinhasCwv, LinhaNula, StatusCwv, FinaisCwv
  <2>4. FluxoCwvFim'
    BY DEF GetFinal, TipoCwv, PedidosCwv, FluxoCwvFim, LinhasCwv, StatusCwv, FinaisCwv
  <2> QED BY <2>1, <2>2, <2>3, <2>4
<1>5. CASE FluxoCwv
  <2>1. TipoCwv'
    BY <1>5 DEF FluxoCwv, EventoStatus, BuscarFinal, TipoCwv, LinhasCwv, LinhaNula, StatusCwv, FinaisCwv
  <2>2. PedidosCwv'
    BY <1>5 DEF FluxoCwv, EventoStatus, BuscarFinal, TipoCwv, PedidosCwv, LinhasCwv, LinhaNula, StatusCwv, FinaisCwv
  <2>3. FinalCwv'
    BY <1>5 DEF FluxoCwv, EventoStatus, BuscarFinal, TipoCwv, PedidosCwv, FinalCwv, LinhasCwv, LinhaNula, StatusCwv, FinaisCwv
  <2>4. FluxoCwvFim'
    BY <1>5 DEF FluxoCwv, EventoStatus, BuscarFinal, TipoCwv, PedidosCwv, FluxoCwvFim, LinhasCwv, StatusCwv, FinaisCwv
  <2> QED BY <2>1, <2>2, <2>3, <2>4
<1>6. CASE PrimeiroGetPerdido
  <2>1. TipoCwv'
    BY <1>6 DEF PrimeiroGetPerdido, EfeitoFluxo, TipoCwv, LinhasCwv, LinhaNula, StatusCwv, FinaisCwv
  <2>2. PedidosCwv'
    BY <1>6 DEF PrimeiroGetPerdido, EfeitoFluxo, TipoCwv, PedidosCwv, LinhasCwv, LinhaNula, StatusCwv, FinaisCwv
  <2>3. FinalCwv'
    BY <1>6 DEF PrimeiroGetPerdido, EfeitoFluxo, TipoCwv, PedidosCwv, FinalCwv, LinhasCwv, LinhaNula, StatusCwv, FinaisCwv
  <2>4. FluxoCwvFim'
    BY <1>6 DEF PrimeiroGetPerdido, EfeitoFluxo, TipoCwv, PedidosCwv, FluxoCwvFim, LinhasCwv, StatusCwv, FinaisCwv
  <2> QED BY <2>1, <2>2, <2>3, <2>4
<1>7. CASE GetFinalPerdido
  <2>1. TipoCwv'
    BY <1>7 DEF GetFinalPerdido, TipoCwv, LinhasCwv, LinhaNula, StatusCwv, FinaisCwv
  <2>2. PedidosCwv'
    BY <1>7 DEF GetFinalPerdido, TipoCwv, PedidosCwv, LinhasCwv, LinhaNula, StatusCwv, FinaisCwv
  <2>3. FinalCwv'
    BY <1>7 DEF GetFinalPerdido, TipoCwv, PedidosCwv, FinalCwv, LinhasCwv, LinhaNula, StatusCwv, FinaisCwv
  <2>4. FluxoCwvFim'
    BY <1>7 DEF GetFinalPerdido, TipoCwv, PedidosCwv, FluxoCwvFim, LinhasCwv, StatusCwv, FinaisCwv
  <2> QED BY <2>1, <2>2, <2>3, <2>4
<1>8. CASE UNCHANGED <<cwvLinha, cwvTela, cwvResultado, cwvFinal, cwvErro, cwvGets, cwvFluxo, cwvOrdem>>
  BY <1>8 DEF TipoCwv, PedidosCwv, FinalCwv, FluxoCwvFim
<1>9. CASE FluxoDesistiu
  BY <1>9 DEF FluxoDesistiu, TipoCwv, PedidosCwv, FinalCwv, FluxoCwvFim
<1>10. SaudeRespondida \/ PageExpRespondida \/ AuditarCwv =>
         UNCHANGED <<cwvLinha, cwvTela, cwvResultado, cwvFinal, cwvErro, cwvGets, cwvFluxo, cwvOrdem>>
  BY DEF SaudeRespondida, PageExpRespondida, AuditarCwv, HandleCriarAuditoria, AuditoriaCriada
<1> QED BY <1>1, <1>2, <1>3, <1>4, <1>5, <1>6, <1>7, <1>8, <1>9, <1>10
        DEF NextCwv, TrabalharCwv, ReceberCwv, PerderCwv, cwvVars

LEMMA CwvBasta == IndCwv => CwvConverge
<1> SUFFICES ASSUME IndCwv,
                    cwvFluxo \in {"fim", "fechado"},
                    cwvGets = [primeiro |-> LinhaNula, ultimo |-> LinhaNula],
                    cwvOrdem,
                    cwvLinha.status # "cancelada"
             PROVE  /\ PainelCwv = cwvLinha.status
                    /\ cwvLinha.status = "concluida" => cwvResultado
  BY DEF CwvConverge
<1>1. cwvFinal = cwvLinha.status /\ cwvFinal \in {"concluida", "falhou"}
  BY DEF IndCwv, TipoCwv, FinalCwv, FluxoCwvFim, FinaisCwv
<1>2. cwvTela # LinhaNula
  BY DEF IndCwv, FinalCwv
<1> QED BY <1>1, <1>2 DEF IndCwv, FinalCwv, PainelCwv

-----------------------------------------------------------------------------
(* The tab. *)

\* Who is at a form has opened no execution yet.
EmForma == tela = "formulario" => InitExecucaoPagina

IndAplicacao == EmForma /\ IndExecucao /\ IndPaga

LEMMA InitIndAplicacao == InitAplicacao => IndAplicacao
BY InitIndExecucao, InitIndPaga DEF InitAplicacao, IndAplicacao, EmForma

LEMMA InitIndExecucaoLinha == InitExecucaoPagina' => IndExecucao'
BY InitIndExecucao, PTL

LEMMA NextIndAplicacao == IndAplicacao /\ [NextAplicacao]_aplicacaoVars => IndAplicacao'
<1> SUFFICES ASSUME IndAplicacao, [NextAplicacao]_aplicacaoVars
             PROVE  IndAplicacao'
  OBVIOUS
<1>1. CASE NaExecucao
  <2>1. IndExecucao'
    BY <1>1, NextIndExecucao DEF NaExecucao, IndAplicacao
  <2>2. IndPaga'
    BY <1>1, FormulariosMantem DEF NaExecucao, IndAplicacao
  <2> QED BY <1>1, <2>1, <2>2 DEF NaExecucao, IndAplicacao, EmForma
<1>2. CASE NoFormulario
  <2>1. UNCHANGED <<tela, execucaoVars>>
    BY <1>2 DEF NoFormulario
  <2>2. IndPaga'
    BY <1>2, FormulariosMantem DEF NoFormulario, IndAplicacao
  <2>3. InitExecucaoPagina => InitExecucaoPagina'
    BY <2>1 DEF InitExecucaoPagina, PedirDetalhe, execucaoVars, linhaVars, telaVars, fluxoVars
  <2> QED BY <2>1, <2>2, <2>3, NextIndExecucao DEF IndAplicacao, EmForma
<1>3. CASE UNCHANGED <<tela, execucaoVars, formulariosVars>>
  <2>1. InitExecucaoPagina => InitExecucaoPagina'
    BY <1>3 DEF InitExecucaoPagina, PedirDetalhe, execucaoVars, linhaVars, telaVars, fluxoVars
  <2> QED BY <1>3, <2>1, NextIndExecucao, FormulariosMantem DEF IndAplicacao, EmForma
<1>4. CASE AbrirExecucao
  <2>1. IndPaga'
    BY <1>4 DEF AbrirExecucao, DeixarFormulario, IndPaga, SoUma, Formas
  <2>2. tela' # "formulario"
    BY <1>4 DEF AbrirExecucao
  <2>3. InitExecucaoPagina
    BY <1>4 DEF AbrirExecucao, IndAplicacao, EmForma
  <2>4. ferramenta' \in Ferramentas /\ detalhes' = PedirDetalhe'
    <3>1. CASE ferr = "cwv"
      BY <1>4, <2>3, <3>1 DEF AbrirExecucao, InitExecucaoPagina, PedirDetalhe
    <3>2. CASE ferr = "artigo"
      BY <1>4, <3>2 DEF AbrirExecucao, FerramentaDoForm, PedirDetalhe
    <3>3. CASE ferr \notin {"cwv", "artigo"}
      <4>1. ferramenta' \in Ferramentas /\ detalhes' = {resultado} /\ resultado' = resultado
        BY <1>4, <3>3 DEF AbrirExecucao
      <4>2. ferr \in {"receber", "distribuir", "seletor"}
        BY <3>3 DEF IndAplicacao, IndPaga, Formas, Inlinks
      <4>3. ferramenta' # "gerar_artigo"
        BY <1>4, <3>3, <4>2 DEF AbrirExecucao, FerramentaDoForm
      <4> QED BY <4>1, <4>3 DEF PedirDetalhe
    <3> QED BY <3>1, <3>2, <3>3
  <2>5. InitExecucaoPagina'
    BY <1>4, <2>3, <2>4 DEF AbrirExecucao, InitExecucaoPagina, fluxoVars
  <2> QED BY <2>1, <2>2, <2>5, InitIndExecucaoLinha DEF IndAplicacao, EmForma
<1> QED BY <1>1, <1>2, <1>3, <1>4
        DEF NextAplicacao, NoProgresso, NoCwv, NoSeo, NoHistorico, NaConta, aplicacaoVars

LEMMA SempreIndAplicacao == SpecAplicacao => []IndAplicacao
BY InitIndAplicacao, NextIndAplicacao, PTL DEF SpecAplicacao

LEMMA SempreIndCwv == SpecCwv => []IndCwv
BY InitIndCwv, CwvMantem, PTL DEF SpecCwv

\* A page that is not shown stays at rest.
SoUmaTela == tela \in Telas /\ EmRepouso

LEMMA RepousoFica == SoUmaTela /\ [NextAplicacao]_aplicacaoVars => SoUmaTela'
<1> SUFFICES ASSUME SoUmaTela, [NextAplicacao]_aplicacaoVars
             PROVE  SoUmaTela'
  OBVIOUS
<1> USE DEF SoUmaTela, EmRepouso
<1>a. /\ UNCHANGED execucaoVars => UNCHANGED ferramenta
      /\ UNCHANGED progressoVars => UNCHANGED <<ferrB, alto>>
      /\ UNCHANGED formulariosVars => UNCHANGED ferr
      /\ UNCHANGED seoVars => UNCHANGED parteSeo
      /\ UNCHANGED historicoVars => UNCHANGED parteHist
      /\ UNCHANGED contaVars => UNCHANGED etapaRec
  BY DEF execucaoVars, linhaVars, progressoVars, trabalhoVars, formulariosVars, camposVars,
         seoVars, historicoVars, contaVars, recVars
<1>1. CASE NaExecucao
  BY <1>a, <1>1 DEF NaExecucao
<1>2. CASE NoProgresso
  BY <1>a, <1>2 DEF NoProgresso
<1>3. CASE NoFormulario
  BY <1>a, <1>3 DEF NoFormulario
<1>4. CASE NoCwv
  BY <1>a, <1>4 DEF NoCwv
<1>5. CASE NoSeo
  BY <1>a, <1>5 DEF NoSeo
<1>6. CASE NoHistorico
  BY <1>a, <1>6 DEF NoHistorico
<1>7. CASE NaConta
  BY <1>a, <1>7 DEF NaConta
<1>8. CASE AbrirExecucao
  <2>1. tela = "formulario" /\ tela' = (IF ferr = "cwv" THEN "cwv" ELSE "execucao")
        /\ ferramenta' = (IF ferr = "cwv" THEN ferramenta ELSE FerramentaDoForm)
        /\ ferr' = "seletor"
    BY <1>8 DEF AbrirExecucao, DeixarFormulario
  <2>2. UNCHANGED <<ferrB, alto, parteSeo, parteHist, etapaRec>>
    BY <1>a, <1>8 DEF AbrirExecucao
  <2> QED BY <2>1, <2>2 DEF Telas
<1>9. CASE UNCHANGED aplicacaoVars
  BY <1>a, <1>9 DEF aplicacaoVars
<1> QED BY <1>1, <1>2, <1>3, <1>4, <1>5, <1>6, <1>7, <1>8, <1>9 DEF NextAplicacao

LEMMA DeixarFormularioMantem == IndForm /\ DeixarFormulario => IndForm'
<1> SUFFICES ASSUME IndForm, DeixarFormulario
             PROVE  IndForm'
  OBVIOUS
<1> USE DEF DeixarFormulario
<1>1. TipoCampos'
  <2>1. passo' \in 0..3
    OBVIOUS
  <2>2. ferr' = "seletor" /\ cliF' = Nenhum /\ persona' = Nenhum /\ topico' = FALSE
        /\ alvoF' = Nenhum
    OBVIOUS
  <2> QED BY <2>1, <2>2 DEF TipoCampos
<1>2. TipoListaForm'
  BY ListaVaziaTipada DEF TipoListaForm
<1>3. TipoPreco'
  <2>1. custoN' \in -1..MaxLista /\ orcUltimo' \in -1..MaxLista
    BY SemPrecoTipado
  <2> QED BY <2>1 DEF TipoPreco
<1>4. TipoEnvioForm'
  <2>1. 0 \in 0..MaxLista /\ 0 \in 0..MaxOrfas /\ 0 \in 0..MaxCriadas
    BY FormulariosAssumption
  <2> QED BY <2>1 DEF TipoEnvioForm
<1>5. TipoDescoberta'
  BY DEF NovaDescoberta, TipoDescoberta
<1>6. PrecoSeguido'
  BY DEF PrecoSeguido, UltimoAtual, CustoDaTela, Inlinks
<1> QED BY <1>1, <1>2, <1>3, <1>4, <1>5, <1>6 DEF IndForm

LEMMA NextIndFormAba == IndForm /\ [NextAplicacao]_aplicacaoVars => IndForm'
<1>1. [NextAplicacao]_aplicacaoVars => [NextFormularios]_formulariosVars \/ DeixarFormulario
  BY DEF NextAplicacao, NaExecucao, NoProgresso, NoFormulario, NoCwv, NoSeo, NoHistorico,
         NaConta, AbrirExecucao, aplicacaoVars
<1> QED BY <1>1, NextIndForm, DeixarFormularioMantem

LEMMA SempreIndForm == SpecAplicacao => []IndForm
<1>1. InitAplicacao => IndForm
  BY InitIndForm DEF InitAplicacao
<1> QED BY <1>1, NextIndFormAba, PTL DEF SpecAplicacao

\* handleSubmit of the four forms: in the tab, whatever page its answers open,
\* nobody pays for a second execution but who clicked while the browser was
\* leaving, lost an answer, or left a form with its POST on its way.
THEOREM NinguemPagaDuasVezes == SpecAplicacao => []PagaUmaVez
<1>1. IndAplicacao => PagaUmaVez
  BY PagaBasta DEF IndAplicacao
<1> QED BY <1>1, SempreIndAplicacao, PTL

\* What the Web Vitals page keeps beside its execution.
TipoExtrasCwv ==
  /\ cwvAuditorias \in 0..MaxAuditorias
  /\ saudeGets \in 0..MaxPedidosSaude
  /\ saude \in {"nenhum", "embutido", "calculado"}
  /\ pageExp \in {"nada", "pedida", "sim"}
  /\ criandoAud \in BOOLEAN

LEMMA ExtrasCwvMantem == TipoExtrasCwv /\ [NextCwv]_cwvVars => TipoExtrasCwv'
<1> SUFFICES ASSUME TipoExtrasCwv, [NextCwv]_cwvVars
             PROVE  TipoExtrasCwv'
  OBVIOUS
<1>1. cwvAuditorias' \in 0..MaxAuditorias
  <2>1. \/ cwvAuditorias' = cwvAuditorias
        \/ cwvAuditorias' = 1
        \/ cwvAuditorias < MaxAuditorias /\ cwvAuditorias' = cwvAuditorias + 1
    BY DEF NextCwv, TrabalharCwv, ReceberCwv, PerderCwv, AuditarCwv, TerminarCwv,
           LigarAuditoria, PrimeiroGet, GetFinal, FluxoCwv, SaudeRespondida, PageExpRespondida,
           PrimeiroGetPerdido, GetFinalPerdido, FluxoDesistiu, HandleCriarAuditoria,
           AuditoriaCriada, cwvServidorVars, cwvVars
  <2> QED BY <2>1, PaginaCwvAssumption DEF TipoExtrasCwv
<1>2. saudeGets' \in 0..MaxPedidosSaude
  BY PaginaCwvAssumption
     DEF TipoExtrasCwv, NextCwv, TrabalharCwv, ReceberCwv, PerderCwv, AuditarCwv, TerminarCwv,
         LigarAuditoria, PrimeiroGet, GetFinal, FluxoCwv, SaudeRespondida, PageExpRespondida,
         PrimeiroGetPerdido, GetFinalPerdido, FluxoDesistiu, HandleCriarAuditoria,
         AuditoriaCriada, EfeitoSaude, cwvExtraVars, cwvVars
<1>3. saude' \in {"nenhum", "embutido", "calculado"} /\ pageExp' \in {"nada", "pedida", "sim"}
  BY DEF TipoExtrasCwv, NextCwv, TrabalharCwv, ReceberCwv, PerderCwv, AuditarCwv, TerminarCwv,
         LigarAuditoria, PrimeiroGet, GetFinal, FluxoCwv, SaudeRespondida, PageExpRespondida,
         PrimeiroGetPerdido, GetFinalPerdido, FluxoDesistiu, HandleCriarAuditoria,
         AuditoriaCriada, EfeitoSaude, EfeitoPageExp, cwvExtraVars, cwvVars
<1>4. criandoAud' \in BOOLEAN
  BY DEF TipoExtrasCwv, NextCwv, TrabalharCwv, ReceberCwv, PerderCwv, AuditarCwv, TerminarCwv,
         LigarAuditoria, PrimeiroGet, GetFinal, FluxoCwv, SaudeRespondida, PageExpRespondida,
         PrimeiroGetPerdido, GetFinalPerdido, FluxoDesistiu, HandleCriarAuditoria,
         AuditoriaCriada, cwvExtraVars, cwvVars
<1> QED BY <1>1, <1>2, <1>3, <1>4 DEF TipoExtrasCwv

\* Type correctness of the Web Vitals page: no more audits, and no more requests for
\* the health score, than there may be.
THEOREM CwvTipada == SpecCwv => []CwvTypeOK
<1>1. InitCwv => TipoExtrasCwv
  <2>1. 0 \in 0..MaxAuditorias /\ 0 \in 0..MaxPedidosSaude
    BY PaginaCwvAssumption
  <2> QED BY <2>1 DEF InitCwv, TipoExtrasCwv
<1>2. IndCwv /\ TipoExtrasCwv => CwvTypeOK
  BY DEF IndCwv, TipoCwv, PedidosCwv, TipoExtrasCwv, CwvTypeOK
<1>3. SpecCwv => []TipoExtrasCwv
  BY <1>1, ExtrasCwvMantem, PTL DEF SpecCwv
<1> QED BY <1>2, <1>3, SempreIndCwv, PTL

\* cwv-execucao-client.tsx:124-131: when the stream is over and the GETs are in,
\* the Web Vitals page shows how its execution ended, and the result of one that
\* ended well.
THEOREM CwvMostraComoTerminou == SpecCwv => []CwvConverge
BY SempreIndCwv, CwvBasta, PTL

\* formulario-inlinks.tsx:56, formulario-distribuir-inlinks.tsx:69, cwv-form.tsx:66:
\* once the last request for the price is answered, the price the user confirms is
\* that of the list as it is, although older requests may be on their way, until
\* one of those is answered.  Nothing is said after a last answer that was lost.
THEOREM PrecoEhDaLista == SpecAplicacao => [](FormulariosTypeOK /\ CustoDaTela)
BY SempreIndForm, IndFormBasta, PTL

\* Type correctness of the tab, and that only the page that is shown moves.
THEOREM AplicacaoTipada == SpecAplicacao => []AplicacaoTypeOK
<1>1. SpecAplicacao => []SoUmaTela
  <2>1. InitAplicacao => SoUmaTela
    BY DEF InitAplicacao, SoUmaTela
  <2> QED BY <2>1, RepousoFica, PTL DEF SpecAplicacao
<1>2. IndAplicacao => ExecucaoPaginaTypeOK
  BY IndExecucaoBasta DEF IndAplicacao
<1>3. ASSUME SoUmaTela, ExecucaoPaginaTypeOK, ProgressoTypeOK, FormulariosTypeOK,
             CwvTypeOK, SeoTypeOK, HistoricoTypeOK, ContaTypeOK
      PROVE  AplicacaoTypeOK
  BY <1>3 DEF AplicacaoTypeOK, SoUmaTela
<1> QED BY <1>1, <1>2, <1>3, SempreIndAplicacao, PaginasIndependentes, BarraMostraOTrabalho,
           PrecoEhDaLista, CwvTipada, SeoMostraOServidor, HistoricoMostraOPedido,
           ContaTipada, PTL

\* The promises of the pages hold in the tab, where a form may open an execution
\* of another tool than the one the page was at rest with.
THEOREM PaginasNaAba ==
  SpecAplicacao =>
    [](/\ VersaoMostrada /\ VerdeComResultado /\ PaginaConverge
       /\ CwvConverge /\ SeoConverge /\ HistoricoConfere
       /\ BarraConfere /\ BarraNaoAdianta)
<1>1. IndAplicacao => VersaoMostrada /\ VerdeComResultado /\ PaginaConverge
  BY IndExecucaoBasta DEF IndAplicacao
<1> QED BY <1>1, SempreIndAplicacao, PaginasIndependentes, CwvMostraComoTerminou,
           ContaTipada, SeoMostraOServidor, HistoricoMostraOPedido,
           BarraMostraOTrabalho, PTL

\* request() of lib/api.ts in the tab: a wrong code does not end the session.
THEOREM AbaSaiPorSenha == SpecAplicacao => SaiPorSenha
BY PaginasIndependentes, ContaSaiPorSenha
=============================================================================
