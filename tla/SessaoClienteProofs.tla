-------------------------- MODULE SessaoClienteProofs --------------------------
(***************************************************************************)
(* Proofs about the session of a browser, for any number of tabs, requests *)
(* and users: what a tab shows is whom its requests act for, and it loses  *)
(* its user only when the session is gone.                                 *)
(*                                                                         *)
(* Every action is a change of one tab, of the jar and of the server.  The *)
(* lemmas named Efeito... say what an action does cell by cell; the        *)
(* invariants are proved from them.                                        *)
(***************************************************************************)
EXTENDS SessaoCliente, TLAPS

Numeros == Sessoes \cup {0}
Pontos == {"fora", "token", "ida", "espera", "ida2"}
Alvos == {"nada", "refresh", "me", "dados"}
Chamadas == [fase : {"nao", "enviada", "lida", "feita"}, tok : Numeros]

TipoServidor ==
  /\ emitidas \in 0..MaxSessoes
  /\ dono \in [Sessoes -> Usuarios \cup {NINGUEM}]
  /\ ativa \subseteq Sessoes
  /\ vencida \subseteq Sessoes
  /\ cookie \in Numeros

TipoAbas ==
  /\ token \in [Abas -> Numeros]
  /\ usuario \in [Abas -> Usuarios \cup {NINGUEM}]
  /\ carregando \in [Abas -> BOOLEAN]
  /\ mfa \in [Abas -> ComMfa \cup {NINGUEM}]
  /\ promessa \in [Abas -> Fluxos \cup {NINGUEM}]

TipoPontos ==
  /\ pc \in [Abas -> [Fluxos -> Pontos]]
  /\ etapa \in [Abas -> [Fluxos -> Alvos]]
  /\ cred \in [Abas -> [Fluxos -> Numeros]]
  /\ aguarda \in [Abas -> [Fluxos -> Fluxos \cup {NINGUEM}]]

TipoChamada == chamada \in [Abas -> [Fluxos -> Chamadas]]

TipoHistoria == cruzada \subseteq Abas /\ trocada \subseteq Abas

Tipos == TipoServidor /\ TipoAbas /\ TipoPontos /\ TipoChamada /\ TipoHistoria

LEMMA TiposSaoTypeOK == Tipos <=> TypeOK
BY DEF Tipos, TypeOK, TipoServidor, TipoAbas, TipoPontos, TipoChamada, TipoHistoria,
       Numeros, Pontos, Alvos, Chamadas

-----------------------------------------------------------------------------
(* Cells. *)

\* G is F with v in tab a.
NaAba(F, G, a, v) == \A b \in Abas : G[b] = IF b = a THEN v ELSE F[b]

\* G is F with v for the flows W of tab a.
NosFluxos(F, G, a, W, v) ==
  \A b \in Abas, g \in Fluxos : G[b][g] = IF b = a /\ g \in W THEN v ELSE F[b][g]

LEMMA EfeitoNaAba ==
  ASSUME NEW S, NEW F \in [Abas -> S], NEW a \in Abas, NEW v \in S,
         NEW G, G = [F EXCEPT ![a] = v]
  PROVE  G \in [Abas -> S] /\ NaAba(F, G, a, v)
BY DEF NaAba

\* A renewal is asked for, or an ongoing one waited for.
LEMMA EfeitoEsperar ==
  ASSUME Tipos, NEW a \in Abas, NEW f \in Fluxos, NEW onde \in Pontos,
         NEW jar \in Numeros, EsperarRenovacao(a, f, onde, jar)
  PROVE  /\ pc' \in [Abas -> [Fluxos -> Pontos]]
         /\ cred' \in [Abas -> [Fluxos -> Numeros]]
         /\ aguarda' \in [Abas -> [Fluxos -> Fluxos \cup {NINGUEM}]]
         /\ promessa' \in [Abas -> Fluxos \cup {NINGUEM}]
         /\ TipoChamada'
         /\ NosFluxos(pc, pc', a, {f}, onde)
         /\ NosFluxos(cred, cred', a, {f}, 0)
         /\ NosFluxos(aguarda, aguarda', a, {f},
                      IF promessa[a] = NINGUEM THEN f ELSE promessa[a])
         /\ NaAba(promessa, promessa', a,
                  IF promessa[a] = NINGUEM THEN f ELSE promessa[a])
         /\ NosFluxos(chamada, chamada', a, {f},
                      IF promessa[a] = NINGUEM THEN [fase |-> "enviada", tok |-> jar]
                                              ELSE SemChamada)
<1> DEFINE p == IF promessa[a] = NINGUEM THEN f ELSE promessa[a]
           c == IF promessa[a] = NINGUEM THEN [fase |-> "enviada", tok |-> jar]
                                         ELSE SemChamada
<1>0. TipoPontos /\ TipoChamada /\ promessa \in [Abas -> Fluxos \cup {NINGUEM}]
  BY DEF Tipos, TipoAbas
<1>1. p \in Fluxos \cup {NINGUEM}
  BY <1>0
<1>2. c \in Chamadas
  BY DEF Chamadas, SemChamada, Numeros
<1>3. /\ pc' = [pc EXCEPT ![a][f] = onde]
      /\ cred' = [cred EXCEPT ![a][f] = 0]
      /\ promessa' = [promessa EXCEPT ![a] = p]
      /\ aguarda' = [aguarda EXCEPT ![a][f] = p]
      /\ chamada' = [chamada EXCEPT ![a][f] = c]
  BY <1>0 DEF EsperarRenovacao, DeveRenovar
<1> HIDE DEF p, c
<1>4. pc' \in [Abas -> [Fluxos -> Pontos]] /\ NosFluxos(pc, pc', a, {f}, onde)
  BY <1>0, <1>3 DEF TipoPontos, NosFluxos
<1>5. cred' \in [Abas -> [Fluxos -> Numeros]] /\ NosFluxos(cred, cred', a, {f}, 0)
  <2>1. 0 \in Numeros
    BY DEF Numeros
  <2> QED BY <1>0, <1>3, <2>1 DEF TipoPontos, NosFluxos
<1>6. /\ aguarda' \in [Abas -> [Fluxos -> Fluxos \cup {NINGUEM}]]
      /\ NosFluxos(aguarda, aguarda', a, {f}, p)
  BY <1>0, <1>1, <1>3 DEF TipoPontos, NosFluxos
<1>7. TipoChamada' /\ NosFluxos(chamada, chamada', a, {f}, c)
  BY <1>0, <1>2, <1>3 DEF TipoChamada, NosFluxos
<1>8. promessa' \in [Abas -> Fluxos \cup {NINGUEM}] /\ NaAba(promessa, promessa', a, p)
  BY <1>0, <1>1, <1>3, EfeitoNaAba
<1> QED BY <1>4, <1>5, <1>6, <1>7, <1>8 DEF p, c

\* The request goes out, or waits for a token.
LEMMA EfeitoPedir ==
  ASSUME Tipos, NEW a \in Abas, NEW f \in Fluxos, NEW alvo \in Alvos,
         NEW jar \in Numeros, Pedir(a, f, alvo, jar)
  PROVE  /\ TipoPontos' /\ TipoChamada'
         /\ promessa' \in [Abas -> Fluxos \cup {NINGUEM}]
         /\ NosFluxos(etapa, etapa', a, {f}, alvo)
         /\ \/ /\ token[a] = 0
               /\ EsperarRenovacao(a, f, "token", jar)
            \/ /\ token[a] # 0
               /\ NosFluxos(pc, pc', a, {f}, "ida")
               /\ NosFluxos(cred, cred', a, {f}, token[a])
               /\ NosFluxos(chamada, chamada', a, {f}, SemChamada)
               /\ UNCHANGED <<promessa, aguarda>>
<1>0. /\ TipoPontos /\ TipoChamada /\ promessa \in [Abas -> Fluxos \cup {NINGUEM}]
      /\ token[a] \in Numeros /\ SemChamada \in Chamadas
      /\ "ida" \in Pontos /\ "token" \in Pontos
  BY DEF Tipos, TipoAbas, SemChamada, Chamadas, Numeros, Pontos
<1>1. /\ etapa' \in [Abas -> [Fluxos -> Alvos]]
      /\ NosFluxos(etapa, etapa', a, {f}, alvo)
  BY <1>0 DEF Pedir, TipoPontos, NosFluxos
<1>2. CASE token[a] = 0
  <2>1. EsperarRenovacao(a, f, "token", jar)
    BY <1>2 DEF Pedir
  <2> QED BY <1>0, <1>1, <1>2, <2>1, EfeitoEsperar DEF TipoPontos
<1>3. CASE token[a] # 0
  <2>1. /\ pc' = [pc EXCEPT ![a][f] = "ida"]
        /\ cred' = [cred EXCEPT ![a][f] = token[a]]
        /\ chamada' = [chamada EXCEPT ![a][f] = SemChamada]
        /\ UNCHANGED <<promessa, aguarda>>
    BY <1>3 DEF Pedir
  <2>2. pc' \in [Abas -> [Fluxos -> Pontos]] /\ NosFluxos(pc, pc', a, {f}, "ida")
    BY <1>0, <2>1 DEF TipoPontos, NosFluxos
  <2>3. /\ cred' \in [Abas -> [Fluxos -> Numeros]]
        /\ NosFluxos(cred, cred', a, {f}, token[a])
    BY <1>0, <2>1 DEF TipoPontos, NosFluxos
  <2>4. TipoChamada' /\ NosFluxos(chamada, chamada', a, {f}, SemChamada)
    BY <1>0, <2>1 DEF TipoChamada, NosFluxos
  <2> QED BY <1>0, <1>1, <1>3, <2>1, <2>2, <2>3, <2>4 DEF TipoPontos
<1> QED BY <1>2, <1>3

\* The flows in F stop.
LEMMA EfeitoEncerrar ==
  ASSUME TipoPontos, NEW a \in Abas, NEW F, Encerrar(a, F)
  PROVE  /\ TipoPontos'
         /\ NosFluxos(pc, pc', a, F, "fora")
         /\ NosFluxos(etapa, etapa', a, F, "nada")
         /\ NosFluxos(cred, cred', a, F, 0)
         /\ NosFluxos(aguarda, aguarda', a, F, NINGUEM)
<1>0. 0 \in Numeros /\ "fora" \in Pontos /\ "nada" \in Alvos
  BY DEF Numeros, Pontos, Alvos
<1>1. pc' \in [Abas -> [Fluxos -> Pontos]] /\ NosFluxos(pc, pc', a, F, "fora")
  BY <1>0 DEF Encerrar, Calar, NosFluxos, TipoPontos
<1>2. etapa' \in [Abas -> [Fluxos -> Alvos]] /\ NosFluxos(etapa, etapa', a, F, "nada")
  BY <1>0 DEF Encerrar, Calar, NosFluxos, TipoPontos
<1>3. cred' \in [Abas -> [Fluxos -> Numeros]] /\ NosFluxos(cred, cred', a, F, 0)
  BY <1>0 DEF Encerrar, Calar, NosFluxos, TipoPontos
<1>4. /\ aguarda' \in [Abas -> [Fluxos -> Fluxos \cup {NINGUEM}]]
      /\ NosFluxos(aguarda, aguarda', a, F, NINGUEM)
  BY DEF Encerrar, Calar, NosFluxos, TipoPontos
<1> QED BY <1>1, <1>2, <1>3, <1>4 DEF TipoPontos

Perde(a, F, saiu) == saiu \/ \E f \in F : etapa[a][f] = "me"

\* What a rejection does to the tab.
LEMMA EfeitoRejeitar ==
  ASSUME TipoAbas, NEW a \in Abas, NEW F, NEW saiu \in BOOLEAN, Rejeitar(a, F, saiu)
  PROVE  /\ token' \in [Abas -> Numeros]
         /\ usuario' \in [Abas -> Usuarios \cup {NINGUEM}]
         /\ carregando' \in [Abas -> BOOLEAN]
         /\ NaAba(token, token', a, IF Perde(a, F, saiu) THEN 0 ELSE token[a])
         /\ NaAba(usuario, usuario', a,
                  IF Perde(a, F, saiu) THEN NINGUEM ELSE usuario[a])
         /\ \A b \in Abas : carregando'[b] => carregando[b]
         /\ carregando'[a] => \A f \in F : etapa[a][f] \notin {"me", "refresh"}
<1>1. /\ token' \in [Abas -> Numeros]
      /\ NaAba(token, token', a, IF Perde(a, F, saiu) THEN 0 ELSE token[a])
  BY DEF Rejeitar, Perde, NaAba, TipoAbas, Numeros
<1>2. /\ usuario' \in [Abas -> Usuarios \cup {NINGUEM}]
      /\ NaAba(usuario, usuario', a, IF Perde(a, F, saiu) THEN NINGUEM ELSE usuario[a])
  BY DEF Rejeitar, Perde, NaAba, TipoAbas
<1> DEFINE v == carregando[a] /\ \A f \in F : etapa[a][f] \notin {"me", "refresh"}
<1>3. carregando' = [carregando EXCEPT ![a] = v]
  BY DEF Rejeitar
<1>4. v \in BOOLEAN /\ carregando \in [Abas -> BOOLEAN]
  BY DEF TipoAbas
<1>5. v => carregando[a] /\ \A f \in F : etapa[a][f] \notin {"me", "refresh"}
  OBVIOUS
<1> HIDE DEF v
<1>6. carregando' \in [Abas -> BOOLEAN]
  BY <1>3, <1>4
<1>7. carregando'[a] = v /\ \A b \in Abas : b # a => carregando'[b] = carregando[b]
  BY <1>3, <1>4
<1> QED BY <1>1, <1>2, <1>5, <1>6, <1>7

\* The call that init's post makes when the renewal it waited for is over.
Reenvia(a, f, W) == "inicio" \in W /\ etapa[a]["inicio"] = "refresh"

LEMMA EfeitoDepois ==
  ASSUME TipoChamada, NEW a \in Abas, NEW f \in Fluxos, NEW W, NEW jar \in Numeros,
         DepoisDe(a, f, W, jar)
  PROVE  /\ TipoChamada'
         /\ \A b \in Abas, g \in Fluxos :
              chamada'[b][g] =
                IF b # a THEN chamada[b][g]
                ELSE IF g = "inicio" /\ Reenvia(a, f, W)
                       THEN [fase |-> "enviada", tok |-> jar]
                ELSE IF g = f THEN SemChamada ELSE chamada[a][g]
<1> DEFINE livre == [chamada EXCEPT ![a][f] = SemChamada]
           nova == [fase |-> "enviada", tok |-> jar]
<1>0. "inicio" \in Fluxos /\ SemChamada \in Chamadas /\ nova \in Chamadas
  BY DEF Fluxos, SemChamada, Chamadas, Numeros
<1>1. /\ livre \in [Abas -> [Fluxos -> Chamadas]]
      /\ \A b \in Abas, g \in Fluxos :
           livre[b][g] = IF b = a /\ g = f THEN SemChamada ELSE chamada[b][g]
  BY <1>0 DEF TipoChamada
<1>2. chamada' = [livre EXCEPT ![a]["inicio"] =
                    IF Reenvia(a, f, W) THEN nova ELSE livre[a]["inicio"]]
  BY DEF DepoisDe, Reenvia
<1> HIDE DEF livre, nova
<1>3. TipoChamada'
  BY <1>0, <1>1, <1>2 DEF TipoChamada
<1>4. \A b \in Abas, g \in Fluxos :
        chamada'[b][g] = IF b = a /\ g = "inicio" /\ Reenvia(a, f, W) THEN nova
                         ELSE livre[b][g]
  BY <1>0, <1>1, <1>2
<1> QED BY <1>1, <1>3, <1>4 DEF nova

-----------------------------------------------------------------------------
(* What each action does. *)

LEMMA EfeitoLer ==
  ASSUME Tipos, NEW a \in Abas, NEW f \in Fluxos, LerSessao(a, f)
  PROVE  /\ Tipos'
         /\ chamada[a][f].fase = "enviada"
         /\ NosFluxos(chamada, chamada', a, {f},
              IF chamada[a][f].tok \in ativa
                THEN [fase |-> "lida", tok |-> chamada[a][f].tok]
                ELSE [fase |-> "feita", tok |-> 0])
         /\ UNCHANGED <<emitidas, dono, ativa, vencida, cookie, token, usuario,
                        carregando, mfa, promessa, pc, etapa, cred, aguarda, cruzada,
                        trocada>>
<1> DEFINE lida == [fase |-> "lida", tok |-> chamada[a][f].tok]
           feita == [fase |-> "feita", tok |-> 0]
           c == IF chamada[a][f].tok \in ativa THEN lida ELSE feita
<1>0. chamada[a][f] \in Chamadas
  BY DEF Tipos, TipoChamada
<1>1. /\ chamada[a][f].fase = "enviada"
      /\ UNCHANGED <<emitidas, dono, ativa, vencida, cookie, token, usuario,
                     carregando, mfa, promessa, pc, etapa, cred, aguarda, cruzada,
                     trocada>>
  BY DEF LerSessao, servidorVars, abaVars, historiaVars
<1>2. [chamada[a][f] EXCEPT !.fase = "lida"] = lida
  BY <1>0 DEF Chamadas
<1>3. c \in Chamadas
  BY <1>0 DEF Chamadas, Numeros
<1>4. chamada' = [chamada EXCEPT ![a][f] = c]
  <2>1. chamada' = [chamada EXCEPT ![a][f] =
                      IF chamada[a][f].tok \in ativa
                        THEN [chamada[a][f] EXCEPT !.fase = "lida"] ELSE feita]
    BY DEF LerSessao
  <2> QED BY <1>2, <2>1
<1> HIDE DEF c
<1>5. TipoChamada' /\ NosFluxos(chamada, chamada', a, {f}, c)
  BY <1>3, <1>4 DEF Tipos, TipoChamada, NosFluxos
<1> QED BY <1>1, <1>5
        DEF Tipos, TipoServidor, TipoAbas, TipoPontos, TipoHistoria, c

\* A new session, of u.
LEMMA EfeitoEmitir ==
  ASSUME Tipos, NEW u \in Usuarios \cup {NINGUEM}, NEW V, Emitir(u, V)
  PROVE  /\ emitidas' = emitidas + 1 /\ emitidas' \in 0..MaxSessoes
         /\ Proxima = emitidas + 1 /\ Proxima \in Sessoes
         /\ dono' \in [Sessoes -> Usuarios \cup {NINGUEM}]
         /\ \A s \in Sessoes : dono'[s] = IF s = Proxima THEN u ELSE dono[s]
         /\ ativa' = (ativa \ V) \cup {Proxima} /\ ativa' \subseteq Sessoes
         /\ vencida' = vencida
<1>1. Proxima = emitidas + 1 /\ emitidas \in Nat /\ Proxima \in Sessoes
  BY SessaoClienteAssumption DEF Emitir, Proxima, Sessoes, Tipos, TipoServidor
<1>2. emitidas' = Proxima /\ emitidas' \in 0..MaxSessoes
  BY <1>1, SessaoClienteAssumption DEF Emitir, Sessoes
<1>3. /\ dono' = [dono EXCEPT ![Proxima] = u]
      /\ dono \in [Sessoes -> Usuarios \cup {NINGUEM}]
      /\ ativa' = (ativa \ V) \cup {Proxima} /\ vencida' = vencida
      /\ ativa \subseteq Sessoes
  BY DEF Emitir, Tipos, TipoServidor
<1>4. /\ dono' \in [Sessoes -> Usuarios \cup {NINGUEM}]
      /\ \A s \in Sessoes : dono'[s] = IF s = Proxima THEN u ELSE dono[s]
  BY <1>1, <1>3
<1>5. ativa' \subseteq Sessoes
  BY <1>1, <1>3
<1> QED BY <1>1, <1>2, <1>3, <1>4, <1>5

LEMMA EfeitoGravar ==
  ASSUME Tipos, NEW a \in Abas, NEW f \in Fluxos, GravarSessao(a, f),
         chamada[a][f].tok # 0
  PROVE  /\ Tipos'
         /\ chamada[a][f].fase = "lida" /\ chamada[a][f].tok \in Sessoes
         /\ Emitir(dono[chamada[a][f].tok], {chamada[a][f].tok})
         /\ NosFluxos(chamada, chamada', a, {f}, [fase |-> "feita", tok |-> Proxima])
         /\ UNCHANGED <<cookie, token, usuario, carregando, mfa, promessa, pc, etapa,
                        cred, aguarda, cruzada, trocada>>
<1> DEFINE c == [fase |-> "feita", tok |-> Proxima]
<1>1. /\ chamada[a][f].fase = "lida"
      /\ Emitir(dono[chamada[a][f].tok], {chamada[a][f].tok})
      /\ UNCHANGED <<cookie, token, usuario, carregando, mfa, promessa, pc, etapa,
                     cred, aguarda, cruzada, trocada>>
      /\ chamada' = [chamada EXCEPT ![a][f] = c]
  BY DEF GravarSessao, abaVars, historiaVars
<1>2. chamada[a][f].tok \in Sessoes
  BY DEF Tipos, TipoChamada, Chamadas, Numeros
<1>3. dono[chamada[a][f].tok] \in Usuarios \cup {NINGUEM}
  BY <1>2 DEF Tipos, TipoServidor
<1>4. /\ Proxima \in Sessoes /\ emitidas' \in 0..MaxSessoes
      /\ dono' \in [Sessoes -> Usuarios \cup {NINGUEM}]
      /\ ativa' \subseteq Sessoes /\ vencida' = vencida
  BY <1>1, <1>3, EfeitoEmitir
<1>5. c \in Chamadas
  BY <1>4 DEF Chamadas, Numeros
<1> HIDE DEF c
<1>6. TipoChamada' /\ NosFluxos(chamada, chamada', a, {f}, c)
  BY <1>1, <1>5 DEF Tipos, TipoChamada, NosFluxos
<1>7. Tipos'
  BY <1>1, <1>4, <1>6 DEF Tipos, TipoServidor, TipoAbas, TipoPontos, TipoHistoria
<1> QED BY <1>1, <1>2, <1>6, <1>7 DEF c

\* Who waits for f's renewal: before its request, and after a refusal.
Antes(a, f) == Quem(a, f, "token")
Depois(a, f) == Quem(a, f, "espera")

\* They go on: those before their request send it, the others go to v.
Soltar(a, f, v) ==
  \A b \in Abas, g \in Fluxos :
    pc'[b][g] = IF b = a /\ g \in Antes(a, f) THEN "ida"
                ELSE IF b = a /\ g \in Depois(a, f) THEN v ELSE pc[b][g]

\* What the renewal that succeeds does.
FazCerto(a, f) ==
  /\ pc[a][f] \in {"token", "espera"} /\ chamada[a][f].fase = "feita"
  /\ chamada[a][f].tok # 0 /\ chamada[a][f].tok \in Sessoes
  /\ cookie' = chamada[a][f].tok
  /\ NaAba(token, token', a, chamada[a][f].tok)
  /\ NaAba(promessa, promessa', a, NINGUEM)
  /\ DepoisDe(a, f, Antes(a, f) \cup Depois(a, f), chamada[a][f].tok)
  /\ Soltar(a, f, "ida2")
  /\ NosFluxos(cred, cred', a, Antes(a, f) \cup Depois(a, f), chamada[a][f].tok)
  /\ NosFluxos(aguarda, aguarda', a, Antes(a, f) \cup Depois(a, f), NINGUEM)
  /\ UNCHANGED <<emitidas, dono, ativa, vencida, usuario, carregando, mfa,
                 etapa>>

LEMMA EfeitoDeuCerto ==
  ASSUME Tipos, NEW a \in Abas, NEW f \in Fluxos, RenovarDeuCerto(a, f)
  PROVE  Tipos' /\ FazCerto(a, f)
<1> DEFINE novo == chamada[a][f].tok
           W == Antes(a, f) \cup Depois(a, f)
<1>1. /\ pc[a][f] \in {"token", "espera"} /\ chamada[a][f].fase = "feita"
      /\ novo # 0 /\ cookie' = novo
      /\ token' = [token EXCEPT ![a] = novo]
      /\ promessa' = [promessa EXCEPT ![a] = NINGUEM]
      /\ DepoisDe(a, f, W, novo)
      /\ pc' = [pc EXCEPT ![a] = [g \in Fluxos |->
                  IF g \notin W THEN pc[a][g]
                  ELSE IF pc[a][g] = "token" THEN "ida" ELSE "ida2"]]
      /\ cred' = Calar(a, W, cred, novo)
      /\ aguarda' = Calar(a, W, aguarda, NINGUEM)
      /\ cruzada' = Restantes(a, f) \cup Ultrapassadas(Abas \ {a})
      /\ trocada' = trocada \cup Surpresas(a, novo)
      /\ UNCHANGED <<emitidas, dono, ativa, vencida, usuario, carregando, mfa, etapa>>
  BY DEF RenovarDeuCerto, Antes, Depois, servidorVars, Tipos, TipoPontos
<1>2. novo \in Sessoes /\ novo \in Numeros
  BY <1>1 DEF Tipos, TipoChamada, Chamadas, Numeros
<1>3. W = Antes(a, f) \cup Depois(a, f)
  OBVIOUS
<1> HIDE DEF novo, W
<1>4. token' \in [Abas -> Numeros] /\ NaAba(token, token', a, novo)
  BY <1>1, <1>2 DEF Tipos, TipoAbas, NaAba
<1>5. /\ promessa' \in [Abas -> Fluxos \cup {NINGUEM}]
      /\ NaAba(promessa, promessa', a, NINGUEM)
  BY <1>1 DEF Tipos, TipoAbas, NaAba
<1>6. TipoChamada'
  BY <1>1, <1>2, EfeitoDepois DEF Tipos
<1>7. pc' \in [Abas -> [Fluxos -> Pontos]]
  BY <1>1 DEF Tipos, TipoPontos, Pontos
<1>8. \A b \in Abas, g \in Fluxos :
        pc'[b][g] = IF b = a /\ g \in Antes(a, f) THEN "ida"
                    ELSE IF b = a /\ g \in Depois(a, f) THEN "ida2"
                    ELSE pc[b][g]
  BY <1>1, <1>3 DEF Tipos, TipoPontos, Antes, Depois, Quem
<1>9. cred' \in [Abas -> [Fluxos -> Numeros]] /\ NosFluxos(cred, cred', a, W, novo)
  BY <1>1, <1>2 DEF Calar, NosFluxos, Tipos, TipoPontos
<1>10. /\ aguarda' \in [Abas -> [Fluxos -> Fluxos \cup {NINGUEM}]]
       /\ NosFluxos(aguarda, aguarda', a, W, NINGUEM)
  BY <1>1 DEF Calar, NosFluxos, Tipos, TipoPontos
<1>11. TipoHistoria'
  BY <1>1 DEF Restantes, Ultrapassadas, Surpresas, Tipos, TipoHistoria
<1>12. Tipos'
  BY <1>1, <1>2, <1>4, <1>5, <1>6, <1>7, <1>9, <1>10, <1>11
     DEF Tipos, TipoServidor, TipoAbas, TipoPontos
<1> QED BY <1>1, <1>2, <1>4, <1>5, <1>8, <1>9, <1>10, <1>12 DEF FazCerto, Soltar, novo, W

LEMMA EfeitoFalhou ==
  ASSUME Tipos, NEW a \in Abas, NEW f \in Fluxos, RenovarFalhou(a, f)
  PROVE  /\ Tipos'
         /\ pc[a][f] \in {"token", "espera"} /\ EmVoo(a, f)
         /\ "rede" \in Eventos \/ chamada[a][f] = [fase |-> "feita", tok |-> 0]
         /\ NaAba(promessa, promessa', a, NINGUEM)
         /\ DepoisDe(a, f, Antes(a, f), cookie)
         /\ Soltar(a, f, "fora")
         /\ NosFluxos(etapa, etapa', a, Depois(a, f), "nada")
         /\ NosFluxos(aguarda, aguarda', a, Antes(a, f) \cup Depois(a, f), NINGUEM)
         /\ Rejeitar(a, Depois(a, f), Depois(a, f) # {})
         /\ cruzada' = Restantes(a, f)
         /\ UNCHANGED <<emitidas, dono, ativa, vencida, cookie, mfa, cred, trocada>>
<1> DEFINE A == Antes(a, f)
           D == Depois(a, f)
<1>1. /\ pc[a][f] \in {"token", "espera"}
      /\ \/ chamada[a][f] = [fase |-> "feita", tok |-> 0]
         \/ "rede" \in Eventos /\ chamada[a][f].fase # "nao"
      /\ promessa' = [promessa EXCEPT ![a] = NINGUEM]
      /\ DepoisDe(a, f, A, cookie)
      /\ pc' = Calar(a, D, Calar(a, A, pc, "ida"), "fora")
      /\ etapa' = Calar(a, D, etapa, "nada")
      /\ aguarda' = Calar(a, A \cup D, aguarda, NINGUEM)
      /\ Rejeitar(a, D, D # {})
      /\ cruzada' = Restantes(a, f)
      /\ UNCHANGED <<emitidas, dono, ativa, vencida, cookie, mfa, cred, trocada>>
  BY DEF RenovarFalhou, Antes, Depois, servidorVars
<1>2. \A g : ~(g \in A /\ g \in D)
  BY DEF Antes, Depois, Quem
<1> HIDE DEF A, D
<1>3. /\ promessa' \in [Abas -> Fluxos \cup {NINGUEM}]
      /\ NaAba(promessa, promessa', a, NINGUEM)
  BY <1>1 DEF Tipos, TipoAbas, NaAba
<1>4. TipoChamada'
  BY <1>1, EfeitoDepois DEF Tipos, TipoServidor
<1>5. pc' \in [Abas -> [Fluxos -> Pontos]]
  <2>1. Calar(a, A, pc, "ida") \in [Abas -> [Fluxos -> Pontos]]
    BY DEF Calar, Tipos, TipoPontos, Pontos
  <2> QED BY <1>1, <2>1 DEF Calar, Pontos
<1>6. \A b \in Abas, g \in Fluxos :
        pc'[b][g] = IF b = a /\ g \in A THEN "ida"
                    ELSE IF b = a /\ g \in D THEN "fora" ELSE pc[b][g]
  BY <1>1, <1>2 DEF Calar, Tipos, TipoPontos
<1>7. etapa' \in [Abas -> [Fluxos -> Alvos]] /\ NosFluxos(etapa, etapa', a, D, "nada")
  BY <1>1 DEF Calar, NosFluxos, Tipos, TipoPontos, Alvos
<1>8. /\ aguarda' \in [Abas -> [Fluxos -> Fluxos \cup {NINGUEM}]]
      /\ NosFluxos(aguarda, aguarda', a, A \cup D, NINGUEM)
  BY <1>1 DEF Calar, NosFluxos, Tipos, TipoPontos
<1>9. /\ token' \in [Abas -> Numeros]
      /\ usuario' \in [Abas -> Usuarios \cup {NINGUEM}]
      /\ carregando' \in [Abas -> BOOLEAN]
  BY <1>1, EfeitoRejeitar DEF Tipos
<1>10. TipoHistoria'
  BY <1>1 DEF Restantes, Tipos, TipoHistoria
<1>11. Tipos'
  BY <1>1, <1>3, <1>4, <1>5, <1>7, <1>8, <1>9, <1>10
     DEF Tipos, TipoServidor, TipoAbas, TipoPontos
<1>12. EmVoo(a, f)
  BY <1>1 DEF EmVoo
<1> QED BY <1>1, <1>3, <1>6, <1>7, <1>8, <1>11, <1>12 DEF A, D, Soltar

\* The answer to a request that carries a token.
Aceitou(a, f) ==
  /\ pc[a][f] \in {"ida", "ida2"}
  /\ etapa[a][f] \in {"me", "dados"}
  /\ Aceita(cred[a][f])
  /\ usuario' = [usuario EXCEPT ![a] =
       IF etapa[a][f] = "me" THEN dono[cred[a][f]] ELSE @]
  /\ carregando' = [carregando EXCEPT ![a] = @ /\ etapa[a][f] # "me"]
  /\ Encerrar(a, {f})
  /\ UNCHANGED <<token, promessa, chamada>>
  /\ UNCHANGED <<servidorVars, cookie, mfa, historiaVars>>

\* A flow asks for a renewal after a refusal.
Recomeca(a, f) ==
  /\ pc[a][f] = "ida"
  /\ EsperarRenovacao(a, f, "espera", cookie)
  /\ UNCHANGED <<token, usuario, carregando, etapa>>
  /\ UNCHANGED <<servidorVars, cookie, mfa, historiaVars>>

\* It gives up.
Desiste(a, f) ==
  /\ pc[a][f] \in {"ida", "ida2"}
  /\ Rejeitar(a, {f}, FALSE)
  /\ Encerrar(a, {f})
  /\ chamada' = chamada \/ chamada' = [chamada EXCEPT ![a][f] = SemChamada]
  /\ UNCHANGED <<servidorVars, cookie, mfa, promessa, historiaVars>>

LEMMA ComoResponde ==
  ASSUME NEW a \in Abas, NEW f \in Fluxos, Responder(a, f)
  PROVE  \/ Aceitou(a, f)
         \/ Recomeca(a, f)
         \/ Desiste(a, f)
BY DEF Responder, Aceitou, Recomeca, Desiste

LEMMA ComoPerde ==
  ASSUME NEW a \in Abas, NEW f \in Fluxos, PerderResposta(a, f)
  PROVE  Desiste(a, f)
BY DEF PerderResposta, Desiste

LEMMA ComoERecusado ==
  ASSUME NEW a \in Abas, IniciarRecusado(a)
  PROVE  Recomeca(a, "inicio") \/ Desiste(a, "inicio")
BY DEF IniciarRecusado, Recomeca, Desiste

LEMMA EfeitoAceitou ==
  ASSUME Tipos, NEW a \in Abas, NEW f \in Fluxos, Aceitou(a, f)
  PROVE  /\ Tipos'
         /\ pc[a][f] \in {"ida", "ida2"} /\ etapa[a][f] \in {"me", "dados"}
         /\ cred[a][f] \in Sessoes
         /\ NaAba(usuario, usuario', a,
                  IF etapa[a][f] = "me" THEN dono[cred[a][f]] ELSE usuario[a])
         /\ \A b \in Abas : carregando'[b] => carregando[b]
         /\ carregando'[a] => etapa[a][f] # "me"
         /\ NosFluxos(pc, pc', a, {f}, "fora")
         /\ NosFluxos(etapa, etapa', a, {f}, "nada")
         /\ NosFluxos(cred, cred', a, {f}, 0)
         /\ NosFluxos(aguarda, aguarda', a, {f}, NINGUEM)
         /\ UNCHANGED <<emitidas, dono, ativa, vencida, cookie, token, mfa, promessa,
                        chamada, cruzada, trocada>>
<1>1. /\ cred[a][f] \in Sessoes
      /\ pc[a][f] \in {"ida", "ida2"} /\ etapa[a][f] \in {"me", "dados"}
  BY DEF Aceitou, Aceita, Tipos, TipoPontos, Numeros
<1>2. UNCHANGED <<emitidas, dono, ativa, vencida, cookie, token, mfa, promessa,
                  chamada, cruzada, trocada>>
  BY DEF Aceitou, servidorVars, historiaVars
<1>3. /\ usuario' \in [Abas -> Usuarios \cup {NINGUEM}]
      /\ NaAba(usuario, usuario', a,
               IF etapa[a][f] = "me" THEN dono[cred[a][f]] ELSE usuario[a])
  BY <1>1 DEF Aceitou, Tipos, TipoAbas, TipoServidor, NaAba
<1> DEFINE v == carregando[a] /\ etapa[a][f] # "me"
<1>4. carregando' = [carregando EXCEPT ![a] = v]
  BY DEF Aceitou
<1>5. v \in BOOLEAN /\ carregando \in [Abas -> BOOLEAN]
      /\ (v => carregando[a] /\ etapa[a][f] # "me")
  BY DEF Tipos, TipoAbas
<1> HIDE DEF v
<1>6. carregando' \in [Abas -> BOOLEAN]
  BY <1>4, <1>5
<1>7. carregando'[a] = v /\ \A b \in Abas : b # a => carregando'[b] = carregando[b]
  BY <1>4, <1>5
<1>8. /\ TipoPontos'
      /\ NosFluxos(pc, pc', a, {f}, "fora")
      /\ NosFluxos(etapa, etapa', a, {f}, "nada")
      /\ NosFluxos(cred, cred', a, {f}, 0)
      /\ NosFluxos(aguarda, aguarda', a, {f}, NINGUEM)
  BY EfeitoEncerrar DEF Aceitou, Tipos
<1>9. Tipos'
  BY <1>2, <1>3, <1>6, <1>8 DEF Tipos, TipoServidor, TipoAbas, TipoChamada, TipoHistoria
<1> QED BY <1>1, <1>2, <1>3, <1>5, <1>7, <1>8, <1>9

LEMMA EfeitoRecomeca ==
  ASSUME Tipos, NEW a \in Abas, NEW f \in Fluxos, Recomeca(a, f)
  PROVE  /\ Tipos'
         /\ pc[a][f] = "ida"
         /\ EsperarRenovacao(a, f, "espera", cookie)
         /\ UNCHANGED <<emitidas, dono, ativa, vencida, cookie, token, usuario,
                        carregando, mfa, etapa, cruzada, trocada>>
<1>1. UNCHANGED <<emitidas, dono, ativa, vencida, cookie, token, usuario, carregando,
                  mfa, etapa, cruzada, trocada>>
  BY DEF Recomeca, servidorVars, historiaVars
<1>2. cookie \in Numeros /\ "espera" \in Pontos
  BY DEF Tipos, TipoServidor, Pontos
<1>3. pc[a][f] = "ida" /\ EsperarRenovacao(a, f, "espera", cookie)
  BY DEF Recomeca
<1>4. /\ pc' \in [Abas -> [Fluxos -> Pontos]]
      /\ cred' \in [Abas -> [Fluxos -> Numeros]]
      /\ aguarda' \in [Abas -> [Fluxos -> Fluxos \cup {NINGUEM}]]
      /\ promessa' \in [Abas -> Fluxos \cup {NINGUEM}]
      /\ TipoChamada'
  BY <1>2, <1>3, EfeitoEsperar
<1>5. Tipos'
  BY <1>1, <1>4 DEF Tipos, TipoServidor, TipoAbas, TipoPontos, TipoHistoria
<1> QED BY <1>1, <1>3, <1>5

LEMMA EfeitoDesiste ==
  ASSUME Tipos, NEW a \in Abas, NEW f \in Fluxos, Desiste(a, f)
  PROVE  /\ Tipos'
         /\ pc[a][f] \in {"ida", "ida2"}
         /\ Rejeitar(a, {f}, FALSE)
         /\ NosFluxos(pc, pc', a, {f}, "fora")
         /\ NosFluxos(etapa, etapa', a, {f}, "nada")
         /\ NosFluxos(cred, cred', a, {f}, 0)
         /\ NosFluxos(aguarda, aguarda', a, {f}, NINGUEM)
         /\ chamada' = chamada \/ NosFluxos(chamada, chamada', a, {f}, SemChamada)
         /\ UNCHANGED <<emitidas, dono, ativa, vencida, cookie, mfa, promessa, cruzada,
                        trocada>>
<1>1. UNCHANGED <<emitidas, dono, ativa, vencida, cookie, mfa, promessa, cruzada,
                  trocada>>
  BY DEF Desiste, servidorVars, historiaVars
<1>2. pc[a][f] \in {"ida", "ida2"} /\ Rejeitar(a, {f}, FALSE) /\ Encerrar(a, {f})
  BY DEF Desiste
<1>3. /\ TipoPontos'
      /\ NosFluxos(pc, pc', a, {f}, "fora")
      /\ NosFluxos(etapa, etapa', a, {f}, "nada")
      /\ NosFluxos(cred, cred', a, {f}, 0)
      /\ NosFluxos(aguarda, aguarda', a, {f}, NINGUEM)
  BY <1>2, EfeitoEncerrar DEF Tipos
<1>4. /\ token' \in [Abas -> Numeros]
      /\ usuario' \in [Abas -> Usuarios \cup {NINGUEM}]
      /\ carregando' \in [Abas -> BOOLEAN]
  BY <1>2, EfeitoRejeitar DEF Tipos
<1>5. SemChamada \in Chamadas
  BY DEF SemChamada, Chamadas, Numeros
<1>6. /\ TipoChamada'
      /\ chamada' = chamada \/ NosFluxos(chamada, chamada', a, {f}, SemChamada)
  <2>1. chamada' = chamada \/ chamada' = [chamada EXCEPT ![a][f] = SemChamada]
    BY DEF Desiste
  <2>2. CASE chamada' = chamada
    BY <2>2 DEF Tipos, TipoChamada
  <2>3. CASE chamada' = [chamada EXCEPT ![a][f] = SemChamada]
    BY <1>5, <2>3 DEF Tipos, TipoChamada, NosFluxos
  <2> QED BY <2>1, <2>2, <2>3
<1>7. Tipos'
  BY <1>1, <1>3, <1>4, <1>6 DEF Tipos, TipoServidor, TipoAbas, TipoHistoria
<1> QED BY <1>1, <1>2, <1>3, <1>6, <1>7

\* What a request that begins leaves alone.
LEMMA EfeitoComeca ==
  ASSUME Tipos, NEW a \in Abas, NEW f \in Fluxos, NEW alvo \in Alvos,
         Pedir(a, f, alvo, cookie),
         UNCHANGED <<servidorVars, cookie, token, usuario, carregando, mfa,
                     historiaVars>>
  PROVE  /\ Tipos'
         /\ UNCHANGED <<emitidas, dono, ativa, vencida, cookie, token, usuario,
                        carregando, mfa, cruzada, trocada>>
<1>1. UNCHANGED <<emitidas, dono, ativa, vencida, cookie, token, usuario, carregando,
                  mfa, cruzada, trocada>>
  BY DEF servidorVars, historiaVars
<1>2. cookie \in Numeros
  BY DEF Tipos, TipoServidor
<1>3. TipoPontos' /\ TipoChamada' /\ promessa' \in [Abas -> Fluxos \cup {NINGUEM}]
  BY <1>2, EfeitoPedir
<1>4. Tipos'
  BY <1>1, <1>3 DEF Tipos, TipoServidor, TipoAbas, TipoHistoria
<1> QED BY <1>1, <1>4

\* Who has a call under way in a tab, beside init.
OutroEmVoo(a) == \E g \in Pedidos \cup {"entrada"} : EmVoo(a, g)

LEMMA EfeitoIniciarAceito ==
  ASSUME Tipos, NEW a \in Abas, IniciarAceito(a)
  PROVE  /\ Tipos'
         /\ pc[a]["inicio"] \in {"ida", "ida2"}
         /\ chamada[a]["inicio"].fase = "feita"
         /\ chamada[a]["inicio"].tok # 0 /\ chamada[a]["inicio"].tok \in Sessoes
         /\ cookie' = chamada[a]["inicio"].tok
         /\ Pedir(a, "inicio", "me", chamada[a]["inicio"].tok)
         /\ cruzada \cup Ultrapassadas(Abas \ {a}) \subseteq cruzada'
         /\ OutroEmVoo(a) => a \in cruzada'
         /\ trocada' = trocada \cup Surpresas(a, chamada[a]["inicio"].tok)
         /\ UNCHANGED <<emitidas, dono, ativa, vencida, token, usuario, carregando, mfa>>
<1> DEFINE novo == chamada[a]["inicio"].tok
<1>0. "inicio" \in Fluxos /\ "me" \in Alvos
  BY DEF Fluxos, Alvos
<1>1. /\ pc[a]["inicio"] \in {"ida", "ida2"} /\ chamada[a]["inicio"].fase = "feita"
      /\ novo # 0 /\ cookie' = novo
      /\ Pedir(a, "inicio", "me", novo)
      /\ cruzada' = cruzada \cup Ultrapassadas(Abas \ {a}) \cup
           {b \in {a} : \E g \in Pedidos \cup {"entrada"} : EmVoo(b, g)}
      /\ trocada' = trocada \cup Surpresas(a, novo)
      /\ UNCHANGED <<emitidas, dono, ativa, vencida, token, usuario, carregando, mfa>>
  BY DEF IniciarAceito, servidorVars
<1>2. novo \in Sessoes /\ novo \in Numeros
  BY <1>0, <1>1 DEF Tipos, TipoChamada, Chamadas, Numeros
<1> HIDE DEF novo
<1>3. TipoPontos' /\ TipoChamada' /\ promessa' \in [Abas -> Fluxos \cup {NINGUEM}]
  BY <1>0, <1>1, <1>2, EfeitoPedir
<1>4. TipoHistoria'
  BY <1>1 DEF Ultrapassadas, Surpresas, Tipos, TipoHistoria
<1>5. Tipos'
  BY <1>1, <1>2, <1>3, <1>4 DEF Tipos, TipoServidor, TipoAbas
<1>6. OutroEmVoo(a) => a \in cruzada'
  BY <1>1 DEF OutroEmVoo
<1> QED BY <1>1, <1>2, <1>5, <1>6 DEF novo

LEMMA EfeitoAbrir ==
  ASSUME Tipos, NEW a \in Abas, NEW u \in Usuarios, AbrirSessao(a, u)
  PROVE  /\ Tipos'
         /\ pc[a]["entrada"] = "fora"
         /\ Emitir(u, {}) /\ cookie' = Proxima
         /\ NaAba(token, token', a, Proxima)
         /\ NosFluxos(pc, pc', a, {"entrada"}, "ida")
         /\ NosFluxos(etapa, etapa', a, {"entrada"}, "me")
         /\ NosFluxos(cred, cred', a, {"entrada"}, Proxima)
         /\ cruzada' = cruzada \cup Ultrapassadas(Abas)
         /\ trocada \cup Ultrapassadas(Abas) \cup (Abas \ {a}) \subseteq trocada'
         /\ pc[a]["inicio"] # "fora" => a \in trocada'
         /\ UNCHANGED <<usuario, carregando, promessa, aguarda, chamada>>
<1>0. "entrada" \in Fluxos /\ "ida" \in Pontos /\ "me" \in Alvos
  BY DEF Fluxos, Pontos, Alvos
<1>1. /\ pc[a]["entrada"] = "fora"
      /\ Emitir(u, {}) /\ cookie' = Proxima
      /\ token' = [token EXCEPT ![a] = Proxima]
      /\ mfa' = [mfa EXCEPT ![a] = NINGUEM]
      /\ pc' = [pc EXCEPT ![a]["entrada"] = "ida"]
      /\ etapa' = [etapa EXCEPT ![a]["entrada"] = "me"]
      /\ cred' = [cred EXCEPT ![a]["entrada"] = Proxima]
      /\ cruzada' = cruzada \cup Ultrapassadas(Abas)
      /\ UNCHANGED <<usuario, carregando, promessa, aguarda, chamada>>
  BY DEF AbrirSessao
<1>2. trocada' = trocada \cup Ultrapassadas(Abas)
                   \cup {b \in Abas : pc[b]["inicio"] # "fora"} \cup (Abas \ {a})
  BY DEF AbrirSessao
<1>3. /\ Proxima \in Sessoes /\ emitidas' \in 0..MaxSessoes
      /\ dono' \in [Sessoes -> Usuarios \cup {NINGUEM}]
      /\ ativa' \subseteq Sessoes /\ vencida' = vencida
  BY <1>1, EfeitoEmitir
<1>4. Proxima \in Numeros
  BY <1>3 DEF Numeros
<1> HIDE DEF Proxima
<1>5. token' \in [Abas -> Numeros] /\ NaAba(token, token', a, Proxima)
  BY <1>1, <1>4 DEF Tipos, TipoAbas, NaAba
<1>6. mfa' \in [Abas -> ComMfa \cup {NINGUEM}]
  BY <1>1 DEF Tipos, TipoAbas
<1>7. pc' \in [Abas -> [Fluxos -> Pontos]] /\ NosFluxos(pc, pc', a, {"entrada"}, "ida")
  BY <1>0, <1>1 DEF Tipos, TipoPontos, NosFluxos
<1>8. /\ etapa' \in [Abas -> [Fluxos -> Alvos]]
      /\ NosFluxos(etapa, etapa', a, {"entrada"}, "me")
  BY <1>0, <1>1 DEF Tipos, TipoPontos, NosFluxos
<1>9. /\ cred' \in [Abas -> [Fluxos -> Numeros]]
      /\ NosFluxos(cred, cred', a, {"entrada"}, Proxima)
  BY <1>0, <1>1, <1>4 DEF Tipos, TipoPontos, NosFluxos
<1>10. TipoHistoria'
  BY <1>1, <1>2 DEF Tipos, TipoHistoria, Ultrapassadas
<1>11. Tipos'
  BY <1>1, <1>3, <1>4, <1>5, <1>6, <1>7, <1>8, <1>9, <1>10
     DEF Tipos, TipoServidor, TipoAbas, TipoPontos, TipoChamada
<1> QED BY <1>1, <1>2, <1>5, <1>7, <1>8, <1>9, <1>11

LEMMA EfeitoCodigo ==
  ASSUME Tipos, NEW a \in Abas,
         VoltarAoLogin(a) \/ \E u \in Usuarios : PedirCodigo(a, u)
  PROVE  /\ Tipos'
         /\ UNCHANGED <<emitidas, dono, ativa, vencida, cookie, token, usuario,
                        carregando, promessa, pc, etapa, cred, aguarda, chamada,
                        cruzada, trocada>>
<1>1. UNCHANGED <<emitidas, dono, ativa, vencida, cookie, token, usuario, carregando,
                  promessa, pc, etapa, cred, aguarda, chamada, cruzada, trocada>>
  BY DEF VoltarAoLogin, PedirCodigo, servidorVars, navegacaoVars, historiaVars
<1>2. mfa' \in [Abas -> ComMfa \cup {NINGUEM}]
  BY DEF VoltarAoLogin, PedirCodigo, Tipos, TipoAbas
<1> QED BY <1>1, <1>2
        DEF Tipos, TipoServidor, TipoAbas, TipoPontos, TipoChamada, TipoHistoria

LEMMA EfeitoVencer ==
  ASSUME Tipos, NEW s \in Sessoes, Vencer(s)
  PROVE  /\ Tipos'
         /\ UNCHANGED <<emitidas, dono, ativa, cookie, token, usuario, carregando, mfa,
                        promessa, pc, etapa, cred, aguarda, chamada, cruzada, trocada>>
<1>1. UNCHANGED <<emitidas, dono, ativa, cookie, token, usuario, carregando, mfa,
                  promessa, pc, etapa, cred, aguarda, chamada, cruzada, trocada>>
  BY DEF Vencer, abaVars, navegacaoVars, historiaVars
<1>2. vencida' \subseteq Sessoes
  BY DEF Vencer, Tipos, TipoServidor
<1> QED BY <1>1, <1>2
        DEF Tipos, TipoServidor, TipoAbas, TipoPontos, TipoChamada, TipoHistoria

LEMMA EfeitoSair ==
  ASSUME Tipos, NEW a \in Abas, Sair(a)
  PROVE  /\ Tipos'
         /\ carregando[a] = FALSE
         /\ NaAba(token, token', a, 0) /\ NaAba(usuario, usuario', a, NINGUEM)
         /\ UNCHANGED <<emitidas, dono, ativa, vencida, cookie, carregando, mfa,
                        promessa, pc, etapa, cred, aguarda, chamada, cruzada, trocada>>
<1>1. UNCHANGED <<emitidas, dono, ativa, vencida, cookie, carregando, mfa, promessa, pc,
                  etapa, cred, aguarda, chamada, cruzada, trocada>>
  BY DEF Sair, servidorVars, navegacaoVars, historiaVars
<1>2. token' \in [Abas -> Numeros] /\ NaAba(token, token', a, 0)
  BY DEF Sair, Tipos, TipoAbas, Numeros, NaAba
<1>3. usuario' \in [Abas -> Usuarios \cup {NINGUEM}] /\ NaAba(usuario, usuario', a, NINGUEM)
  BY DEF Sair, Tipos, TipoAbas, NaAba
<1>4. carregando[a] = FALSE
  BY DEF Sair, NaPagina, Tipos, TipoAbas
<1> QED BY <1>1, <1>2, <1>3, <1>4
        DEF Tipos, TipoServidor, TipoAbas, TipoPontos, TipoChamada, TipoHistoria

LEMMA EfeitoRecarregar ==
  ASSUME Tipos, NEW a \in Abas, Recarregar(a)
  PROVE  /\ Tipos'
         /\ NaAba(token, token', a, 0) /\ NaAba(usuario, usuario', a, NINGUEM)
         /\ NaAba(promessa, promessa', a, NINGUEM)
         /\ carregando'[a] = TRUE
         /\ \A b \in Abas \ {a} : carregando'[b] = carregando[b]
         /\ NosFluxos(pc, pc', a, Fluxos, "fora")
         /\ NosFluxos(etapa, etapa', a, Fluxos, "nada")
         /\ NosFluxos(cred, cred', a, Fluxos, 0)
         /\ NosFluxos(aguarda, aguarda', a, Fluxos, NINGUEM)
         /\ NosFluxos(chamada, chamada', a, Fluxos, SemChamada)
         /\ cruzada' = cruzada \ {a} /\ trocada' = trocada \ {a}
         /\ UNCHANGED <<emitidas, dono, ativa, vencida, cookie>>
<1>1. /\ UNCHANGED <<emitidas, dono, ativa, vencida, cookie>>
      /\ cruzada' = cruzada \ {a} /\ trocada' = trocada \ {a}
      /\ Encerrar(a, Fluxos)
  BY DEF Recarregar, servidorVars
<1>2. token' \in [Abas -> Numeros] /\ NaAba(token, token', a, 0)
  BY DEF Recarregar, Tipos, TipoAbas, Numeros, NaAba
<1>3. usuario' \in [Abas -> Usuarios \cup {NINGUEM}] /\ NaAba(usuario, usuario', a, NINGUEM)
  BY DEF Recarregar, Tipos, TipoAbas, NaAba
<1>4. /\ promessa' \in [Abas -> Fluxos \cup {NINGUEM}]
      /\ NaAba(promessa, promessa', a, NINGUEM)
  BY DEF Recarregar, Tipos, TipoAbas, NaAba
<1>5. /\ carregando' \in [Abas -> BOOLEAN] /\ carregando'[a] = TRUE
      /\ \A b \in Abas \ {a} : carregando'[b] = carregando[b]
  BY DEF Recarregar, Tipos, TipoAbas
<1>6. mfa' \in [Abas -> ComMfa \cup {NINGUEM}]
  BY DEF Recarregar, Tipos, TipoAbas
<1>7. /\ TipoPontos'
      /\ NosFluxos(pc, pc', a, Fluxos, "fora")
      /\ NosFluxos(etapa, etapa', a, Fluxos, "nada")
      /\ NosFluxos(cred, cred', a, Fluxos, 0)
      /\ NosFluxos(aguarda, aguarda', a, Fluxos, NINGUEM)
  BY <1>1, EfeitoEncerrar DEF Tipos
<1>8. TipoChamada' /\ NosFluxos(chamada, chamada', a, Fluxos, SemChamada)
  <2>1. SemChamada \in Chamadas
    BY DEF SemChamada, Chamadas, Numeros
  <2> QED BY <2>1 DEF Recarregar, Calar, NosFluxos, Tipos, TipoChamada
<1> QED BY <1>1, <1>2, <1>3, <1>4, <1>5, <1>6, <1>7, <1>8
        DEF Tipos, TipoServidor, TipoAbas, TipoHistoria

-----------------------------------------------------------------------------
(* The invariants. *)

Usada(s) == s \in 0..emitidas

\* Every number in use is of a session that was issued to somebody.
Numeracao ==
  /\ ativa \subseteq 1..emitidas
  /\ Usada(cookie)
  /\ \A a \in Abas : Usada(token[a])
  /\ \A a \in Abas, f \in Fluxos : Usada(cred[a][f]) /\ Usada(chamada[a][f].tok)
  /\ \A s \in 1..emitidas : dono[s] \in Usuarios

\* A call of /auth/refresh that holds a session was made with a cookie.
EmCurso ==
  \A a \in Abas, f \in Fluxos :
    /\ chamada[a][f].fase = "nao" => chamada[a][f].tok = 0
    /\ chamada[a][f].fase = "lida" => chamada[a][f].tok # 0
    /\ chamada[a][f].tok # 0 => cookie # 0

\* Which endpoints a flow calls.
Etapas ==
  \A a \in Abas :
    /\ \A f \in Fluxos : pc[a][f] = "fora" <=> etapa[a][f] = "nada"
    /\ etapa[a]["inicio"] # "dados"
    /\ etapa[a]["entrada"] \in {"nada", "me"}
    /\ \A p \in Pedidos : etapa[a][p] \in {"nada", "dados"}

Espera(a, f) == pc[a][f] \in {"token", "espera"}

\* Everybody who waits in a tab waits for the same renewal, which is under way.
Promessas ==
  \A a \in Abas, f \in Fluxos :
    /\ Espera(a, f) => promessa[a] # NINGUEM /\ aguarda[a][f] = promessa[a]
    /\ promessa[a] = f => EmVoo(a, f) /\ Espera(a, f)
    /\ Espera(a, f) /\ EmVoo(a, f) => promessa[a] = f

Base == Tipos /\ Numeracao /\ EmCurso /\ Etapas /\ Promessas

LEMMA OsFluxos ==
  /\ "inicio" \in Fluxos /\ "entrada" \in Fluxos /\ Pedidos \subseteq Fluxos
  /\ "inicio" \notin Pedidos /\ "entrada" \notin Pedidos
  /\ \A f \in Fluxos : f # NINGUEM
BY SessaoClienteAssumption DEF Fluxos

\* f asks for a renewal, or joins the one under way.
LEMMA EsperarMantem ==
  ASSUME Base, Tipos', NEW a \in Abas, NEW f \in Fluxos, NEW onde \in {"token", "espera"},
         NEW jar \in 0..emitidas, EsperarRenovacao(a, f, onde, jar), ~Espera(a, f),
         jar # 0 => cookie' # 0, cookie # 0 => cookie' # 0,
         Usada(cookie'), UNCHANGED <<emitidas, dono, ativa, token>>
  PROVE  Numeracao' /\ EmCurso' /\ Promessas'
<1> DEFINE p == IF promessa[a] = NINGUEM THEN f ELSE promessa[a]
           nova == [fase |-> "enviada", tok |-> jar]
           c == IF promessa[a] = NINGUEM THEN nova ELSE SemChamada
<1>0. jar \in Numeros /\ onde \in Pontos
  BY SessaoClienteAssumption DEF Base, Tipos, TipoServidor, Numeros, Sessoes, Pontos
<1>1. /\ NosFluxos(pc, pc', a, {f}, onde)
      /\ NosFluxos(cred, cred', a, {f}, 0)
      /\ NosFluxos(aguarda, aguarda', a, {f}, p)
      /\ NaAba(promessa, promessa', a, p)
      /\ NosFluxos(chamada, chamada', a, {f}, c)
  BY <1>0, EfeitoEsperar DEF Base
<1>2. /\ c.tok \in {0, jar} /\ c.fase # "lida"
      /\ c.fase = "nao" => c.tok = 0
      /\ c.fase # "nao" <=> promessa[a] = NINGUEM
  BY DEF SemChamada
<1>3. p # NINGUEM
  BY OsFluxos
<1>4. (p = f) <=> (promessa[a] = NINGUEM)
  BY OsFluxos DEF Base, Promessas
<1>5. promessa[a] # NINGUEM => p = promessa[a]
  OBVIOUS
<1>6. \A g \in Fluxos : Espera(a, g) => promessa[a] # NINGUEM
  BY DEF Base, Promessas
<1>7. \A g \in Fluxos : promessa[a] = g => g # f
  BY DEF Base, Promessas
<1> HIDE DEF p, c
<1>8. Numeracao'
  <2>1. Usada(0)' /\ Usada(jar)'
    BY DEF Base, Tipos, TipoServidor, Usada
  <2>2. \A b \in Abas, g \in Fluxos : Usada(cred[b][g])'
    BY <1>1, <2>1 DEF Base, Numeracao, Usada, NosFluxos
  <2>3. \A b \in Abas, g \in Fluxos : Usada(chamada[b][g].tok)'
    BY <1>1, <1>2, <2>1 DEF Base, Numeracao, Usada, NosFluxos
  <2> QED BY <2>2, <2>3 DEF Base, Numeracao, Usada
<1>9. EmCurso'
  BY <1>1, <1>2 DEF Base, EmCurso, NosFluxos
<1>10. Promessas'
  <2> SUFFICES ASSUME NEW b \in Abas, NEW g \in Fluxos
               PROVE  /\ Espera(b, g)' => promessa'[b] # NINGUEM /\ aguarda'[b][g] = promessa'[b]
                      /\ promessa'[b] = g => EmVoo(b, g)' /\ Espera(b, g)'
                      /\ Espera(b, g)' /\ EmVoo(b, g)' => promessa'[b] = g
    BY DEF Promessas
  <2>1. CASE b # a
    BY <1>1, <2>1 DEF Base, Promessas, NosFluxos, NaAba, Espera, EmVoo
  <2>2. CASE b = a /\ g = f
    <3>1. pc'[b][g] = onde /\ aguarda'[b][g] = p /\ promessa'[b] = p /\ chamada'[b][g] = c
      BY <1>1, <2>2 DEF NosFluxos, NaAba
    <3> QED BY <1>2, <1>3, <1>4, <2>2, <3>1 DEF Espera, EmVoo
  <2>3. CASE b = a /\ g # f
    <3>1. /\ pc'[b][g] = pc[a][g] /\ aguarda'[b][g] = aguarda[a][g]
          /\ promessa'[b] = p /\ chamada'[b][g] = chamada[a][g]
      BY <1>1, <2>3 DEF NosFluxos, NaAba
    <3> QED BY <1>3, <1>4, <1>5, <1>6, <1>7, <2>3, <3>1 DEF Base, Promessas, Espera, EmVoo
  <2> QED BY <2>1, <2>2, <2>3
<1> QED BY <1>8, <1>9, <1>10

-----------------------------------------------------------------------------
(* Every action keeps the numbers, the calls, the endpoints and the waits. *)

LEMMA BaseNoInicio == Init => Base
<1> SUFFICES ASSUME Init PROVE Base
  OBVIOUS
<1>1. TipoServidor
  BY SessaoClienteAssumption DEF Init, TipoServidor, Numeros
<1>2. TipoAbas
  BY DEF Init, TipoAbas, Numeros
<1>3. TipoPontos
  BY DEF Init, TipoPontos, Numeros, Pontos, Alvos
<1>4. TipoChamada
  BY DEF Init, TipoChamada, Chamadas, SemChamada, Numeros
<1>5. TipoHistoria
  BY DEF Init, TipoHistoria
<1>6. Numeracao
  BY DEF Init, Numeracao, Usada, SemChamada
<1>7. EmCurso
  BY DEF Init, EmCurso, SemChamada
<1>8. Etapas
  BY OsFluxos DEF Init, Etapas
<1>9. Promessas
  BY OsFluxos DEF Init, Promessas, Espera
<1> QED BY <1>1, <1>2, <1>3, <1>4, <1>5, <1>6, <1>7, <1>8, <1>9 DEF Base, Tipos

\* A flow that begins: init's post, or a page's request.
Comeca(a, f, alvo) ==
  /\ pc[a][f] = "fora"
  /\ \/ f = "inicio" /\ alvo = "refresh" /\ AbaNova(a)
     \/ f \in Pedidos /\ alvo = "dados" /\ NaPagina(a)
  /\ Pedir(a, f, alvo, cookie)
  /\ UNCHANGED <<servidorVars, cookie, token, usuario, carregando, mfa, historiaVars>>

\* A request that goes out or waits, whoever makes it.
LEMMA PedirMantem ==
  ASSUME Base, Tipos', NEW a \in Abas, NEW f \in Fluxos, NEW alvo \in Alvos,
         NEW jar \in 0..emitidas, Pedir(a, f, alvo, jar), ~Espera(a, f),
         jar # 0 => cookie' # 0, cookie # 0 => cookie' # 0,
         Usada(cookie'), UNCHANGED <<emitidas, dono, ativa, token>>
  PROVE  Numeracao' /\ EmCurso' /\ Promessas'
<1>0. jar \in Numeros
  BY SessaoClienteAssumption DEF Base, Tipos, TipoServidor, Numeros, Sessoes
<1>1. CASE EsperarRenovacao(a, f, "token", jar)
  BY <1>1, EsperarMantem
<1>2. CASE /\ NosFluxos(pc, pc', a, {f}, "ida")
           /\ NosFluxos(cred, cred', a, {f}, token[a])
           /\ NosFluxos(chamada, chamada', a, {f}, SemChamada)
           /\ UNCHANGED <<promessa, aguarda>>
  <2>1. Numeracao'
    BY <1>2 DEF Base, Numeracao, Usada, NosFluxos, SemChamada, Tipos, TipoServidor
  <2>2. EmCurso'
    BY <1>2 DEF Base, EmCurso, NosFluxos, SemChamada
  <2>3. Promessas'
    BY <1>2 DEF Base, Promessas, NosFluxos, Espera, EmVoo
  <2> QED BY <2>1, <2>2, <2>3
<1> QED BY <1>0, <1>1, <1>2, EfeitoPedir DEF Base

LEMMA ComecaMantem ==
  ASSUME Base, NEW a \in Abas, NEW f \in Fluxos, NEW alvo \in Alvos, Comeca(a, f, alvo)
  PROVE  Base'
<1>0. cookie \in 0..emitidas /\ cookie \in Numeros
  BY DEF Base, Numeracao, Usada, Tipos, TipoServidor
<1>1. /\ Tipos' /\ Pedir(a, f, alvo, cookie) /\ pc[a][f] = "fora"
      /\ UNCHANGED <<emitidas, dono, ativa, cookie, token>>
  BY EfeitoComeca DEF Base, Comeca
<1>2. ~Espera(a, f)
  BY <1>1 DEF Espera
<1>3. Usada(cookie')
  BY <1>0, <1>1 DEF Usada
<1>4. Numeracao' /\ EmCurso' /\ Promessas'
  BY <1>0, <1>1, <1>2, <1>3, PedirMantem
<1>5. Etapas'
  <2>1. /\ NosFluxos(etapa, etapa', a, {f}, alvo)
        /\ \E p \in {"token", "ida"} : NosFluxos(pc, pc', a, {f}, p)
    <3>1. "token" \in Pontos
      BY DEF Pontos
    <3> QED BY <1>0, <1>1, <3>1, EfeitoPedir, EfeitoEsperar DEF Base
  <2>2. (f = "inicio" /\ alvo = "refresh") \/ (f \in Pedidos /\ alvo = "dados")
    BY DEF Comeca
  <2> QED BY <2>1, <2>2, OsFluxos DEF Base, Etapas, NosFluxos
<1> QED BY <1>1, <1>4, <1>5 DEF Base

LEMMA LerMantem ==
  ASSUME Base, NEW a \in Abas, NEW f \in Fluxos, LerSessao(a, f)
  PROVE  Base'
<1> DEFINE c == IF chamada[a][f].tok \in ativa
                  THEN [fase |-> "lida", tok |-> chamada[a][f].tok]
                  ELSE [fase |-> "feita", tok |-> 0]
<1>1. /\ Tipos' /\ chamada[a][f].fase = "enviada"
      /\ NosFluxos(chamada, chamada', a, {f}, c)
      /\ UNCHANGED <<emitidas, dono, ativa, cookie, token, promessa, pc, etapa, cred,
                     aguarda>>
  BY EfeitoLer DEF Base
<1>2. 0 \notin ativa
  BY DEF Base, Tipos, TipoServidor, Sessoes
<1>3. /\ c.tok \in {0, chamada[a][f].tok} /\ c.fase # "nao"
      /\ c.fase = "lida" => c.tok # 0
  BY <1>2
<1> HIDE DEF c
<1>4. Numeracao'
  <2>1. \A b \in Abas, g \in Fluxos : Usada(chamada[b][g].tok)'
    BY <1>1, <1>3 DEF Base, Numeracao, Usada, NosFluxos, Tipos, TipoServidor
  <2> QED BY <1>1, <2>1 DEF Base, Numeracao, Usada
<1>5. EmCurso'
  BY <1>1, <1>3 DEF Base, EmCurso, NosFluxos
<1>6. Promessas'
  BY <1>1, <1>3 DEF Base, Promessas, NosFluxos, Espera, EmVoo
<1> QED BY <1>1, <1>4, <1>5, <1>6 DEF Base, Etapas

\* A session that is issued takes nothing from the numbers in use.
LEMMA EmitirMantem ==
  ASSUME Base, NEW u \in Usuarios, NEW V, Emitir(u, V)
  PROVE  /\ ativa' \subseteq 1..emitidas'
         /\ \A s \in 0..emitidas : Usada(s)'
         /\ Proxima \in 0..emitidas' /\ Proxima # 0
         /\ \A s \in 1..emitidas' : dono'[s] \in Usuarios
         /\ \A s \in 1..emitidas : dono'[s] = dono[s]
         /\ dono'[Proxima] = u
<1>1. /\ emitidas' = emitidas + 1 /\ Proxima = emitidas + 1 /\ emitidas \in Nat
      /\ Proxima \in Sessoes
      /\ \A s \in Sessoes : dono'[s] = IF s = Proxima THEN u ELSE dono[s]
      /\ ativa' = (ativa \ V) \cup {Proxima}
  <2>1. emitidas \in Nat
    BY SessaoClienteAssumption DEF Base, Tipos, TipoServidor
  <2> QED BY <2>1, EfeitoEmitir DEF Base
<1>2. /\ ativa \subseteq 1..emitidas
      /\ \A s \in 1..emitidas : dono[s] \in Usuarios
  BY DEF Base, Numeracao
<1>3. \A s \in 1..emitidas' : s \in Sessoes
  BY <1>1, SessaoClienteAssumption DEF Sessoes
<1> HIDE DEF Proxima
<1>4. ativa' \subseteq 1..emitidas'
  <2>1. \A s \in 1..emitidas : s \in 1..(emitidas + 1)
    BY <1>1
  <2>2. emitidas + 1 \in 1..(emitidas + 1)
    BY <1>1
  <2> QED BY <1>1, <1>2, <2>1, <2>2
<1>5. \A s \in 1..emitidas' : dono'[s] \in Usuarios
  BY <1>1, <1>2, <1>3
<1>6. \A s \in 1..emitidas : dono'[s] = dono[s]
  BY <1>1, <1>3
<1>7. (\A s \in 0..emitidas : Usada(s)') /\ Proxima \in 0..emitidas'
  <2>1. \A s \in 0..emitidas : s \in 0..(emitidas + 1)
    BY <1>1
  <2>2. emitidas + 1 \in 0..(emitidas + 1)
    BY <1>1
  <2> QED BY <1>1, <2>1, <2>2 DEF Usada
<1> QED BY <1>1, <1>4, <1>5, <1>6, <1>7

LEMMA GravarMantem ==
  ASSUME Base, NEW a \in Abas, NEW f \in Fluxos, GravarSessao(a, f)
  PROVE  /\ Base'
         /\ chamada[a][f].tok \in 1..emitidas
<1> DEFINE velha == chamada[a][f].tok
           c == [fase |-> "feita", tok |-> Proxima]
<1>1. velha # 0 /\ velha \in 0..emitidas
  BY DEF Base, EmCurso, Numeracao, Usada, GravarSessao
<1>2. velha \in 1..emitidas
  BY <1>1 DEF Base, Tipos, TipoServidor
<1>3. /\ Tipos' /\ Emitir(dono[velha], {velha}) /\ velha \in Sessoes
      /\ chamada[a][f].fase = "lida"
      /\ NosFluxos(chamada, chamada', a, {f}, c)
      /\ UNCHANGED <<cookie, token, promessa, pc, etapa, cred, aguarda>>
  BY <1>1, EfeitoGravar DEF Base
<1>4. dono[velha] \in Usuarios
  BY <1>2 DEF Base, Numeracao
<1>5. /\ ativa' \subseteq 1..emitidas'
      /\ \A s \in 0..emitidas : Usada(s)'
      /\ Proxima \in 0..emitidas' /\ Proxima # 0
      /\ \A s \in 1..emitidas' : dono'[s] \in Usuarios
  BY <1>3, <1>4, EmitirMantem
<1>6. c.tok = Proxima /\ c.fase = "feita"
  OBVIOUS
<1> HIDE DEF c, Proxima
<1>7. Numeracao'
  <2>1. \A b \in Abas, g \in Fluxos : Usada(chamada[b][g].tok)'
    BY <1>3, <1>5, <1>6 DEF Base, Numeracao, Usada, NosFluxos
  <2> QED BY <1>3, <1>5, <2>1 DEF Base, Numeracao, Usada
<1>8. EmCurso'
  <2>1. cookie # 0
    BY <1>1 DEF Base, EmCurso
  <2> QED BY <1>3, <1>5, <1>6, <2>1 DEF Base, EmCurso, NosFluxos
<1>9. Promessas'
  BY <1>3, <1>6 DEF Base, Promessas, NosFluxos, Espera, EmVoo
<1>10. Etapas'
  BY <1>3 DEF Base, Etapas
<1> QED BY <1>2, <1>3, <1>7, <1>8, <1>9, <1>10 DEF Base

\* The waits of a tab end with the renewal they wait for.
LEMMA QuemEspera ==
  ASSUME Base, NEW a \in Abas, NEW f \in Fluxos, Espera(a, f), EmVoo(a, f)
  PROVE  /\ promessa[a] = f
         /\ \A g \in Fluxos : Espera(a, g) <=> g \in Antes(a, f) \cup Depois(a, f)
         /\ \A g : ~(g \in Antes(a, f) /\ g \in Depois(a, f))
BY DEF Base, Promessas, Espera, Antes, Depois, Quem

\* When a renewal is over its tab waits for nothing.
LEMMA TerminarMantem ==
  ASSUME Base, NEW a \in Abas, NEW f \in Fluxos, Espera(a, f), EmVoo(a, f),
         NEW W, NEW jar \in 0..emitidas, DepoisDe(a, f, W, jar),
         jar # 0 => cookie' # 0, cookie # 0 => cookie' # 0,
         NaAba(promessa, promessa', a, NINGUEM),
         \A b \in Abas \ {a}, g \in Fluxos : pc'[b][g] = pc[b][g],
         \A g \in Fluxos : g \in Antes(a, f) \/ g \in Depois(a, f) => ~Espera(a, g)',
         \A g \in Fluxos : g \notin Antes(a, f) /\ g \notin Depois(a, f)
                             => pc'[a][g] = pc[a][g],
         NosFluxos(aguarda, aguarda', a, Antes(a, f) \cup Depois(a, f), NINGUEM),
         emitidas' = emitidas
  PROVE  /\ EmCurso' /\ Promessas'
         /\ \A b \in Abas, g \in Fluxos : Usada(chamada'[b][g].tok)
         /\ \A b \in Abas \ {a}, g \in Fluxos : chamada'[b][g] = chamada[b][g]
<1> DEFINE nova == [fase |-> "enviada", tok |-> jar]
<1>1. \A g \in Fluxos : ~Espera(a, g)'
  BY QuemEspera DEF Espera
<1>2. /\ \A b \in Abas \ {a}, g \in Fluxos : chamada'[b][g] = chamada[b][g]
      /\ \A g \in Fluxos : chamada'[a][g] \in {chamada[a][g], SemChamada, nova}
  <2>1. jar \in Numeros
    BY SessaoClienteAssumption DEF Base, Tipos, TipoServidor, Numeros, Sessoes
  <2>2. \A b \in Abas, g \in Fluxos :
          chamada'[b][g] =
            IF b # a THEN chamada[b][g]
            ELSE IF g = "inicio" /\ Reenvia(a, f, W) THEN nova
            ELSE IF g = f THEN SemChamada ELSE chamada[a][g]
    BY <2>1, EfeitoDepois DEF Base, Tipos
  <2> QED BY <2>2
<1>3. nova.tok = jar /\ nova.fase = "enviada" /\ SemChamada.tok = 0 /\ SemChamada.fase = "nao"
  BY DEF SemChamada
<1> HIDE DEF nova
<1>4. EmCurso'
  BY <1>2, <1>3 DEF Base, EmCurso
<1>5. Promessas'
  <2> SUFFICES ASSUME NEW b \in Abas, NEW g \in Fluxos
               PROVE  /\ Espera(b, g)' => promessa'[b] # NINGUEM /\ aguarda'[b][g] = promessa'[b]
                      /\ promessa'[b] = g => EmVoo(b, g)' /\ Espera(b, g)'
                      /\ Espera(b, g)' /\ EmVoo(b, g)' => promessa'[b] = g
    BY DEF Promessas
  <2>1. CASE b # a
    BY <1>2, <2>1 DEF Base, Promessas, NosFluxos, NaAba, Espera, EmVoo
  <2>2. CASE b = a
    BY <1>1, <2>2, OsFluxos DEF NaAba
  <2> QED BY <2>1, <2>2
<1>6. \A b \in Abas, g \in Fluxos : Usada(chamada'[b][g].tok)
  BY <1>2, <1>3 DEF Base, Numeracao, Usada, Tipos, TipoServidor
<1> QED BY <1>2, <1>4, <1>5, <1>6

LEMMA DeuCertoMantem ==
  ASSUME Base, NEW a \in Abas, NEW f \in Fluxos, RenovarDeuCerto(a, f)
  PROVE  Base' /\ Espera(a, f) /\ EmVoo(a, f)
<1> DEFINE novo == chamada[a][f].tok
           A == Antes(a, f)
           D == Depois(a, f)
<1>0. Tipos' /\ FazCerto(a, f)
  BY EfeitoDeuCerto DEF Base
<1>1. /\ Tipos'
      /\ pc[a][f] \in {"token", "espera"} /\ chamada[a][f].fase = "feita"
      /\ novo # 0 /\ novo \in Sessoes /\ cookie' = novo
      /\ NaAba(token, token', a, novo)
      /\ NaAba(promessa, promessa', a, NINGUEM)
      /\ UNCHANGED <<emitidas, dono, ativa, etapa>>
  BY <1>0 DEF FazCerto, Soltar
<1>7. /\ DepoisDe(a, f, A \cup D, novo)
      /\ NosFluxos(cred, cred', a, A \cup D, novo)
      /\ NosFluxos(aguarda, aguarda', a, A \cup D, NINGUEM)
  BY <1>0 DEF FazCerto, Soltar
<1>8. \A b \in Abas, g \in Fluxos :
           pc'[b][g] = IF b = a /\ g \in A THEN "ida"
                       ELSE IF b = a /\ g \in D THEN "ida2"
                       ELSE pc[b][g]
  BY <1>0 DEF FazCerto, Soltar
<1>2. Espera(a, f) /\ EmVoo(a, f)
  BY <1>1 DEF Espera, EmVoo
<1>3. novo \in 0..emitidas
  BY DEF Base, Numeracao, Usada
<1> HIDE DEF novo
<1>4. /\ EmCurso' /\ Promessas'
      /\ \A b \in Abas, g \in Fluxos : Usada(chamada'[b][g].tok)
  <2>1. /\ \A b \in Abas \ {a}, g \in Fluxos : pc'[b][g] = pc[b][g]
        /\ \A g \in Fluxos : g \in A \/ g \in D => ~Espera(a, g)'
        /\ \A g \in Fluxos : g \notin A /\ g \notin D => pc'[a][g] = pc[a][g]
    BY <1>8 DEF Espera
  <2> QED BY <1>1, <1>2, <1>3, <1>7, <2>1, TerminarMantem
<1>5. Numeracao'
  BY <1>1, <1>3, <1>4, <1>7 DEF Base, Numeracao, Usada, NaAba, NosFluxos
<1>6. Etapas'
  <2>1. \A g \in A \cup D : pc[a][g] # "fora"
    BY DEF Antes, Depois, Quem
  <2>2. \A b \in Abas, g \in Fluxos : pc'[b][g] = "fora" <=> pc[b][g] = "fora"
    BY <1>8, <2>1
  <2> QED BY <1>1, <2>2 DEF Base, Etapas
<1> QED BY <1>1, <1>2, <1>4, <1>5, <1>6 DEF Base

LEMMA FalhouMantem ==
  ASSUME Base, NEW a \in Abas, NEW f \in Fluxos, RenovarFalhou(a, f)
  PROVE  Base' /\ Espera(a, f) /\ EmVoo(a, f)
<1> DEFINE A == Antes(a, f)
           D == Depois(a, f)
<1>1. /\ Tipos'
      /\ pc[a][f] \in {"token", "espera"} /\ EmVoo(a, f)
      /\ NaAba(promessa, promessa', a, NINGUEM)
      /\ DepoisDe(a, f, A, cookie)
      /\ \A b \in Abas, g \in Fluxos :
           pc'[b][g] = IF b = a /\ g \in A THEN "ida"
                       ELSE IF b = a /\ g \in D THEN "fora"
                       ELSE pc[b][g]
      /\ NosFluxos(etapa, etapa', a, D, "nada")
      /\ NosFluxos(aguarda, aguarda', a, A \cup D, NINGUEM)
      /\ Rejeitar(a, D, D # {})
      /\ UNCHANGED <<emitidas, dono, ativa, cookie, cred>>
  BY EfeitoFalhou DEF Base, Soltar
<1>2. Espera(a, f) /\ EmVoo(a, f)
  BY <1>1 DEF Espera
<1>3. cookie \in 0..emitidas
  BY DEF Base, Numeracao, Usada
<1>4. /\ EmCurso' /\ Promessas'
      /\ \A b \in Abas, g \in Fluxos : Usada(chamada'[b][g].tok)
  <2>1. /\ \A b \in Abas \ {a}, g \in Fluxos : pc'[b][g] = pc[b][g]
        /\ \A g \in Fluxos : g \in A \/ g \in D => ~Espera(a, g)'
        /\ \A g \in Fluxos : g \notin A /\ g \notin D => pc'[a][g] = pc[a][g]
    BY <1>1 DEF Espera
  <2> QED BY <1>1, <1>2, <1>3, <2>1, TerminarMantem
<1>5. Numeracao'
  <2>1. NaAba(token, token', a, IF Perde(a, D, D # {}) THEN 0 ELSE token[a])
    BY <1>1, EfeitoRejeitar DEF Base, Tipos
  <2>2. \A b \in Abas : token'[b] \in {0, token[b]}
    BY <2>1 DEF NaAba
  <2> QED BY <1>1, <1>4, <2>2 DEF Base, Numeracao, Usada, Tipos, TipoServidor
<1>6. Etapas'
  <2>1. /\ \A g \in A : pc[a][g] # "fora"
        /\ \A g : ~(g \in A /\ g \in D)
    BY DEF Antes, Depois, Quem
  <2>2. \A b \in Abas, g \in Fluxos :
          pc'[b][g] = "fora" <=> pc[b][g] = "fora" \/ (b = a /\ g \in D)
    BY <1>1, <2>1
  <2> QED BY <1>1, <2>2, OsFluxos DEF Base, Etapas, NosFluxos
<1> QED BY <1>1, <1>2, <1>4, <1>5, <1>6 DEF Base

\* A flow that ends while it waits for nothing.
LEMMA FimMantem ==
  ASSUME Base, Tipos', NEW a \in Abas, NEW f \in Fluxos, ~Espera(a, f),
         \A b \in Abas : token'[b] \in {0, token[b]},
         NosFluxos(pc, pc', a, {f}, "fora"), NosFluxos(etapa, etapa', a, {f}, "nada"),
         NosFluxos(cred, cred', a, {f}, 0), NosFluxos(aguarda, aguarda', a, {f}, NINGUEM),
         chamada' = chamada \/ NosFluxos(chamada, chamada', a, {f}, SemChamada),
         UNCHANGED <<emitidas, dono, ativa, cookie, promessa>>
  PROVE  Base'
<1>1. \A b \in Abas, g \in Fluxos :
        chamada'[b][g] = chamada[b][g] \/ (b = a /\ g = f /\ chamada'[b][g] = SemChamada)
  BY DEF NosFluxos
<1>2. SemChamada.tok = 0 /\ SemChamada.fase = "nao"
  BY DEF SemChamada
<1>3. Numeracao'
  <2>1. \A b \in Abas, g \in Fluxos : cred'[b][g] \in {0, cred[b][g]}
    BY DEF NosFluxos
  <2>2. \A b \in Abas, g \in Fluxos : chamada'[b][g].tok \in {0, chamada[b][g].tok}
    BY <1>1, <1>2
  <2> QED BY <2>1, <2>2 DEF Base, Numeracao, Usada, Tipos, TipoServidor
<1>4. EmCurso'
  BY <1>1, <1>2 DEF Base, EmCurso
<1>5. Etapas'
  BY OsFluxos DEF Base, Etapas, NosFluxos
<1>6. Promessas'
  <2>1. \A b \in Abas, g \in Fluxos : g = f /\ b = a => ~Espera(b, g)'
    BY DEF NosFluxos, Espera
  <2> QED BY <1>1, <2>1 DEF Base, Promessas, NosFluxos, Espera, EmVoo
<1> QED BY <1>3, <1>4, <1>5, <1>6 DEF Base

LEMMA AceitouMantem ==
  ASSUME Base, NEW a \in Abas, NEW f \in Fluxos, Aceitou(a, f)
  PROVE  Base' /\ ~Espera(a, f)
<1>1. /\ Tipos' /\ pc[a][f] \in {"ida", "ida2"}
      /\ NosFluxos(pc, pc', a, {f}, "fora")
      /\ NosFluxos(etapa, etapa', a, {f}, "nada")
      /\ NosFluxos(cred, cred', a, {f}, 0)
      /\ NosFluxos(aguarda, aguarda', a, {f}, NINGUEM)
      /\ UNCHANGED <<emitidas, dono, ativa, cookie, token, promessa, chamada>>
  BY EfeitoAceitou DEF Base
<1>2. ~Espera(a, f) /\ \A b \in Abas : token'[b] \in {0, token[b]}
  BY <1>1 DEF Espera
<1> QED BY <1>1, <1>2, FimMantem

LEMMA DesisteMantem ==
  ASSUME Base, NEW a \in Abas, NEW f \in Fluxos, Desiste(a, f)
  PROVE  Base' /\ ~Espera(a, f)
<1>1. /\ Tipos' /\ pc[a][f] \in {"ida", "ida2"}
      /\ Rejeitar(a, {f}, FALSE)
      /\ NosFluxos(pc, pc', a, {f}, "fora")
      /\ NosFluxos(etapa, etapa', a, {f}, "nada")
      /\ NosFluxos(cred, cred', a, {f}, 0)
      /\ NosFluxos(aguarda, aguarda', a, {f}, NINGUEM)
      /\ chamada' = chamada \/ NosFluxos(chamada, chamada', a, {f}, SemChamada)
      /\ UNCHANGED <<emitidas, dono, ativa, cookie, promessa>>
  BY EfeitoDesiste DEF Base
<1>2. NaAba(token, token', a, IF Perde(a, {f}, FALSE) THEN 0 ELSE token[a])
  BY <1>1, EfeitoRejeitar DEF Base, Tipos
<1>3. ~Espera(a, f) /\ \A b \in Abas : token'[b] \in {0, token[b]}
  BY <1>1, <1>2 DEF Espera, NaAba
<1> QED BY <1>1, <1>3, FimMantem

LEMMA RecomecaMantem ==
  ASSUME Base, NEW a \in Abas, NEW f \in Fluxos, Recomeca(a, f)
  PROVE  Base' /\ ~Espera(a, f) /\ pc[a][f] = "ida"
<1>1. /\ Tipos' /\ pc[a][f] = "ida" /\ EsperarRenovacao(a, f, "espera", cookie)
      /\ UNCHANGED <<emitidas, dono, ativa, cookie, token, etapa>>
  BY EfeitoRecomeca DEF Base
<1>2. /\ ~Espera(a, f)
      /\ cookie \in 0..emitidas /\ cookie \in Numeros /\ Usada(cookie')
      /\ "espera" \in Pontos
  BY <1>1 DEF Espera, Base, Numeracao, Usada, Pontos, Tipos, TipoServidor
<1>3. Numeracao' /\ EmCurso' /\ Promessas'
  BY <1>1, <1>2, EsperarMantem
<1>4. Etapas'
  <2>1. NosFluxos(pc, pc', a, {f}, "espera")
    BY <1>1, <1>2, EfeitoEsperar DEF Base
  <2> QED BY <1>1, <2>1 DEF Base, Etapas, NosFluxos
<1> QED BY <1>1, <1>2, <1>3, <1>4 DEF Base

LEMMA AceitoMantem ==
  ASSUME Base, NEW a \in Abas, IniciarAceito(a)
  PROVE  /\ Base' /\ ~Espera(a, "inicio")
         /\ chamada[a]["inicio"].tok \in 1..emitidas
<1> DEFINE novo == chamada[a]["inicio"].tok
<1>1. /\ Tipos' /\ pc[a]["inicio"] \in {"ida", "ida2"}
      /\ novo # 0 /\ novo \in Sessoes /\ cookie' = novo
      /\ Pedir(a, "inicio", "me", novo)
      /\ UNCHANGED <<emitidas, dono, ativa, token>>
  BY EfeitoIniciarAceito DEF Base
<1>2. novo \in 0..emitidas
  BY OsFluxos DEF Base, Numeracao, Usada
<1>3. /\ ~Espera(a, "inicio") /\ Usada(cookie') /\ "me" \in Alvos /\ novo \in Numeros
      /\ novo \in 1..emitidas
  BY <1>1, <1>2 DEF Espera, Usada, Alvos, Numeros, Base, Tipos, TipoServidor
<1> HIDE DEF novo
<1>4. Numeracao' /\ EmCurso' /\ Promessas'
  BY <1>1, <1>2, <1>3, OsFluxos, PedirMantem
<1>5. Etapas'
  <2>1. /\ NosFluxos(etapa, etapa', a, {"inicio"}, "me")
        /\ \E p \in {"token", "ida"} : NosFluxos(pc, pc', a, {"inicio"}, p)
    <3>1. "token" \in Pontos
      BY DEF Pontos
    <3> QED BY <1>1, <1>3, <3>1, OsFluxos, EfeitoPedir, EfeitoEsperar DEF Base
  <2> QED BY <2>1, OsFluxos DEF Base, Etapas, NosFluxos
<1> QED BY <1>1, <1>3, <1>4, <1>5 DEF Base, novo

LEMMA AbrirMantem ==
  ASSUME Base, NEW a \in Abas, NEW u \in Usuarios, AbrirSessao(a, u)
  PROVE  Base'
<1>1. /\ Tipos' /\ pc[a]["entrada"] = "fora"
      /\ Emitir(u, {}) /\ cookie' = Proxima
      /\ NaAba(token, token', a, Proxima)
      /\ NosFluxos(pc, pc', a, {"entrada"}, "ida")
      /\ NosFluxos(etapa, etapa', a, {"entrada"}, "me")
      /\ NosFluxos(cred, cred', a, {"entrada"}, Proxima)
      /\ UNCHANGED <<promessa, aguarda, chamada>>
  BY EfeitoAbrir DEF Base
<1>2. /\ ativa' \subseteq 1..emitidas'
      /\ \A s \in 0..emitidas : Usada(s)'
      /\ Proxima \in 0..emitidas' /\ Proxima # 0
      /\ \A s \in 1..emitidas' : dono'[s] \in Usuarios
  BY <1>1, EmitirMantem
<1> HIDE DEF Proxima
<1>3. Numeracao'
  <2>1. \A b \in Abas : Usada(token[b])'
    BY <1>1, <1>2 DEF Base, Numeracao, Usada, NaAba
  <2>2. \A b \in Abas, g \in Fluxos : Usada(cred[b][g])' /\ Usada(chamada[b][g].tok)'
    BY <1>1, <1>2 DEF Base, Numeracao, Usada, NosFluxos
  <2> QED BY <1>1, <1>2, <2>1, <2>2 DEF Numeracao, Usada
<1>4. EmCurso'
  BY <1>1, <1>2 DEF Base, EmCurso
<1>5. Etapas'
  BY <1>1, OsFluxos DEF Base, Etapas, NosFluxos
<1>6. Promessas'
  BY <1>1, OsFluxos DEF Base, Promessas, NosFluxos, Espera, EmVoo
<1> QED BY <1>1, <1>3, <1>4, <1>5, <1>6 DEF Base

\* What changes neither the session nor a flow.
LEMMA ForaMantem ==
  ASSUME Base, Tipos', \A b \in Abas : token'[b] \in {0, token[b]},
         UNCHANGED <<emitidas, dono, ativa, cookie, promessa, pc, etapa, cred, aguarda,
                     chamada>>
  PROVE  Base'
<1>1. Numeracao'
  BY DEF Base, Numeracao, Usada, Tipos, TipoServidor
<1>2. EmCurso' /\ Etapas'
  BY DEF Base, EmCurso, Etapas
<1>3. Promessas'
  BY DEF Base, Promessas, Espera, EmVoo
<1> QED BY <1>1, <1>2, <1>3 DEF Base

LEMMA RecarregarMantem ==
  ASSUME Base, NEW a \in Abas, Recarregar(a)
  PROVE  Base'
<1>1. /\ Tipos'
      /\ NaAba(token, token', a, 0) /\ NaAba(promessa, promessa', a, NINGUEM)
      /\ NosFluxos(pc, pc', a, Fluxos, "fora")
      /\ NosFluxos(etapa, etapa', a, Fluxos, "nada")
      /\ NosFluxos(cred, cred', a, Fluxos, 0)
      /\ NosFluxos(aguarda, aguarda', a, Fluxos, NINGUEM)
      /\ NosFluxos(chamada, chamada', a, Fluxos, SemChamada)
      /\ UNCHANGED <<emitidas, dono, ativa, cookie>>
  BY EfeitoRecarregar DEF Base
<1>2. Usada(0)
  BY DEF Base, Tipos, TipoServidor, Usada
<1>3. Numeracao'
  BY <1>1, <1>2 DEF Base, Numeracao, Usada, NaAba, NosFluxos, SemChamada
<1>4. EmCurso'
  BY <1>1 DEF Base, EmCurso, NosFluxos, SemChamada
<1>5. Etapas'
  BY <1>1, OsFluxos DEF Base, Etapas, NosFluxos
<1>6. Promessas'
  BY <1>1, OsFluxos DEF Base, Promessas, NosFluxos, NaAba, Espera, EmVoo
<1> QED BY <1>1, <1>3, <1>4, <1>5, <1>6 DEF Base

\* The steps, by what they do.
Passo ==
  \/ \E a \in Abas, f \in Fluxos :
       \/ \E alvo \in Alvos : Comeca(a, f, alvo)
       \/ LerSessao(a, f)
       \/ GravarSessao(a, f)
       \/ RenovarDeuCerto(a, f)
       \/ RenovarFalhou(a, f)
       \/ Aceitou(a, f)
       \/ Recomeca(a, f)
       \/ Desiste(a, f)
  \/ \E a \in Abas :
       \/ IniciarAceito(a)
       \/ \E u \in Usuarios : AbrirSessao(a, u)
       \/ VoltarAoLogin(a) \/ \E u \in Usuarios : PedirCodigo(a, u)
       \/ Sair(a)
       \/ Recarregar(a)
  \/ \E s \in Sessoes : Vencer(s)

LEMMA Passos == Next => Passo
<1> SUFFICES ASSUME Next PROVE Passo
  OBVIOUS
<1>1. ASSUME NEW a \in Abas, Prosseguir(a) PROVE Passo
  <2>1. CASE Iniciar(a)
    <3>1. Comeca(a, "inicio", "refresh") /\ "refresh" \in Alvos
      BY <2>1 DEF Iniciar, Comeca, Alvos
    <3> QED BY <3>1, OsFluxos DEF Passo
  <2>2. CASE IniciarAceito(a)
    BY <2>2 DEF Passo
  <2>3. CASE IniciarRecusado(a)
    BY <2>3, ComoERecusado, OsFluxos DEF Passo
  <2>4. ASSUME NEW f \in Fluxos,
               \/ LerSessao(a, f)
               \/ GravarSessao(a, f)
               \/ RenovarDeuCerto(a, f)
               \/ RenovarFalhou(a, f)
        PROVE  Passo
    BY <2>4 DEF Passo
  <2>5. ASSUME NEW f \in Fluxos, Responder(a, f) PROVE Passo
    BY <2>5, ComoResponde DEF Passo
  <2> QED BY <1>1, <2>1, <2>2, <2>3, <2>4, <2>5 DEF Prosseguir
<1>2. ASSUME NEW a \in Abas, Usar(a) PROVE Passo
  <2>1. CASE VoltarAoLogin(a) \/ (\E u \in Usuarios : PedirCodigo(a, u)) \/ Sair(a)
               \/ Recarregar(a)
    BY <2>1 DEF Passo
  <2>2. CASE \E u \in Usuarios : Entrar(a, u) \/ VerificarMfa(a, u)
    BY <2>2 DEF Passo, Entrar, VerificarMfa
  <2>3. ASSUME NEW p \in Pedidos, PedirDados(a, p) PROVE Passo
    <3>1. Comeca(a, p, "dados") /\ "dados" \in Alvos
      BY <2>3 DEF PedirDados, Comeca, Alvos
    <3> QED BY <3>1, OsFluxos DEF Passo
  <2>4. ASSUME NEW f \in Fluxos, PerderResposta(a, f) PROVE Passo
    BY <2>4, ComoPerde DEF Passo
  <2> QED BY <1>2, <2>1, <2>2, <2>3, <2>4 DEF Usar
<1>3. ASSUME NEW s \in Sessoes, Vencer(s) PROVE Passo
  BY <1>3 DEF Passo
<1> QED BY <1>1, <1>2, <1>3 DEF Next

LEMMA BaseMantem == Base /\ [Next]_vars => Base'
<1> SUFFICES ASSUME Base, [Next]_vars PROVE Base'
  OBVIOUS
<1>1. ASSUME NEW a \in Abas, NEW f \in Fluxos,
             \/ \E alvo \in Alvos : Comeca(a, f, alvo)
             \/ LerSessao(a, f)
             \/ GravarSessao(a, f)
             \/ RenovarDeuCerto(a, f)
             \/ RenovarFalhou(a, f)
             \/ Aceitou(a, f)
             \/ Recomeca(a, f)
             \/ Desiste(a, f)
      PROVE  Base'
  BY <1>1, ComecaMantem, LerMantem, GravarMantem, DeuCertoMantem, FalhouMantem,
     AceitouMantem, RecomecaMantem, DesisteMantem
<1>2. ASSUME NEW a \in Abas, IniciarAceito(a) \/ \E u \in Usuarios : AbrirSessao(a, u)
      PROVE  Base'
  BY <1>2, AceitoMantem, AbrirMantem
<1>3. ASSUME NEW a \in Abas, VoltarAoLogin(a) \/ \E u \in Usuarios : PedirCodigo(a, u)
      PROVE  Base'
  BY <1>3, EfeitoCodigo, ForaMantem DEF Base
<1>4. ASSUME NEW a \in Abas, Sair(a) PROVE Base'
  <2>1. /\ Tipos' /\ NaAba(token, token', a, 0)
        /\ UNCHANGED <<emitidas, dono, ativa, cookie, promessa, pc, etapa, cred,
                       aguarda, chamada>>
    BY <1>4, EfeitoSair DEF Base
  <2>2. \A b \in Abas : token'[b] \in {0, token[b]}
    BY <2>1 DEF NaAba
  <2> QED BY <2>1, <2>2, ForaMantem
<1>5. ASSUME NEW a \in Abas, Recarregar(a) PROVE Base'
  BY <1>5, RecarregarMantem
<1>6. ASSUME NEW s \in Sessoes, Vencer(s) PROVE Base'
  BY <1>6, EfeitoVencer, ForaMantem DEF Base
<1>7. CASE UNCHANGED vars
  <2>1. Tipos'
    BY <1>7 DEF vars, servidorVars, abaVars, navegacaoVars, historiaVars, Base, Tipos,
       TipoServidor, TipoAbas, TipoPontos, TipoChamada, TipoHistoria
  <2> QED BY <1>7, <2>1, ForaMantem
          DEF vars, servidorVars, abaVars, navegacaoVars, historiaVars
<1>8. CASE Next
  BY <1>1, <1>2, <1>3, <1>4, <1>5, <1>6, <1>8, Passos DEF Passo
<1> QED BY <1>7, <1>8

\* The types, whatever interleaves: a code is asked only of a user with a second
\* factor (PedirCodigo, VerificarMfa).
THEOREM SessaoTipada == Spec => []TypeOK
<1>1. Base => TypeOK
  BY TiposSaoTypeOK DEF Base
<1> QED BY <1>1, BaseNoInicio, BaseMantem, PTL DEF Spec

-----------------------------------------------------------------------------
(* Identity: what a tab holds belongs to the owner of the jar's session,     *)
(* unless it was taken by surprise.                                          *)

DoJar(s) == s = 0 \/ (cookie # 0 /\ dono[s] = dono[cookie])

Coerente(a) ==
  /\ DoJar(token[a])
  /\ \A f \in Fluxos : DoJar(chamada[a][f].tok)
  /\ \A f \in Fluxos : etapa[a][f] = "me" => DoJar(cred[a][f])
  /\ usuario[a] # NINGUEM /\ pc[a]["entrada"] = "fora"
       => cookie # 0 /\ dono[cookie] = usuario[a]

Identidade == \A a \in Abas : a \notin trocada => Coerente(a)

\* The jar's session may be another, but not another's.
MesmoJar ==
  cookie # 0 => /\ cookie' # 0
                /\ dono'[cookie'] = dono[cookie]
                /\ \A s \in 1..emitidas : dono'[s] = dono[s]

\* DoJar, after the step.
DoNovoJar(s) == s = 0 \/ (cookie' # 0 /\ dono'[s] = dono'[cookie'])

LEMMA JarMantem ==
  ASSUME Base, MesmoJar
  PROVE  \A s \in 0..emitidas : DoJar(s) => DoNovoJar(s)
<1>1. \A s \in 0..emitidas : s = 0 \/ s \in 1..emitidas
  BY DEF Base, Tipos, TipoServidor
<1> QED BY <1>1 DEF DoJar, DoNovoJar, MesmoJar

\* What a tab may come to hold.
LEMMA AbaCoerente ==
  ASSUME Base, MesmoJar, NEW b \in Abas, Coerente(b),
         token'[b] \in {0, token[b], cookie'},
         \A g \in Fluxos : \/ chamada'[b][g].tok \in {0, chamada[b][g].tok, cookie'}
                           \/ DoNovoJar(chamada'[b][g].tok),
         \A g \in Fluxos : etapa'[b][g] = "me" =>
                             \/ cred'[b][g] \in {0, token[b], cookie'}
                             \/ etapa[b][g] = "me" /\ cred'[b][g] = cred[b][g],
         usuario'[b] # NINGUEM /\ pc'[b]["entrada"] = "fora" =>
           \/ usuario'[b] = usuario[b] /\ pc[b]["entrada"] = "fora"
           \/ cookie' # 0 /\ dono'[cookie'] = usuario'[b]
  PROVE  Coerente(b)'
<1>1. /\ token[b] \in 0..emitidas
      /\ \A g \in Fluxos : cred[b][g] \in 0..emitidas /\ chamada[b][g].tok \in 0..emitidas
  BY DEF Base, Numeracao, Usada
<1>2. /\ DoNovoJar(token[b])
      /\ \A g \in Fluxos : DoNovoJar(chamada[b][g].tok)
      /\ \A g \in Fluxos : etapa[b][g] = "me" => DoNovoJar(cred[b][g])
  BY <1>1, JarMantem DEF Coerente
<1>3. DoNovoJar(0) /\ DoNovoJar(cookie')
  BY DEF DoNovoJar
<1>4. DoNovoJar(token'[b])
  BY <1>2, <1>3
<1>5. \A g \in Fluxos : DoNovoJar(chamada'[b][g].tok)
  BY <1>2, <1>3
<1>6. \A g \in Fluxos : etapa'[b][g] = "me" => DoNovoJar(cred'[b][g])
  BY <1>2, <1>3
<1>7. usuario'[b] # NINGUEM /\ pc'[b]["entrada"] = "fora"
        => cookie' # 0 /\ dono'[cookie'] = usuario'[b]
  BY DEF Coerente, MesmoJar
<1> QED BY <1>4, <1>5, <1>6, <1>7 DEF Coerente, DoJar, DoNovoJar

\* Nothing changes in the jar.
LEMMA JarParado == UNCHANGED <<cookie, dono>> => MesmoJar
BY DEF MesmoJar

\* A tab other than the one that moves.
LEMMA OutraAba ==
  ASSUME Base, MesmoJar, NEW b \in Abas, Coerente(b),
         token'[b] = token[b], usuario'[b] = usuario[b],
         \A g \in Fluxos : /\ pc'[b][g] = pc[b][g]
                           /\ etapa'[b][g] = etapa[b][g]
                           /\ cred'[b][g] = cred[b][g]
                           /\ chamada'[b][g] = chamada[b][g]
  PROVE  Coerente(b)'
BY AbaCoerente, OsFluxos

\* f asks for a renewal, or joins the one under way.
LEMMA EsperarCoerente ==
  ASSUME Base, NEW a \in Abas, NEW f \in Fluxos, NEW onde \in {"token", "espera"},
         NEW jar \in Numeros, EsperarRenovacao(a, f, onde, jar)
  PROVE  /\ NosFluxos(pc, pc', a, {f}, onde)
         /\ NosFluxos(cred, cred', a, {f}, 0)
         /\ \A b \in Abas, g \in Fluxos :
              \/ chamada'[b][g] = chamada[b][g]
              \/ b = a /\ chamada'[b][g].tok \in {0, jar}
<1>1. onde \in Pontos
  BY DEF Pontos
<1>2. /\ NosFluxos(pc, pc', a, {f}, onde)
      /\ NosFluxos(cred, cred', a, {f}, 0)
      /\ NosFluxos(chamada, chamada', a, {f},
                   IF promessa[a] = NINGUEM THEN [fase |-> "enviada", tok |-> jar]
                                           ELSE SemChamada)
  BY <1>1, EfeitoEsperar DEF Base
<1> QED BY <1>2 DEF NosFluxos, SemChamada

\* A request that goes out or waits, whoever makes it.
LEMMA PedirCoerente ==
  ASSUME Base, NEW a \in Abas, NEW f \in Fluxos, NEW alvo \in Alvos,
         NEW jar \in Numeros, Pedir(a, f, alvo, jar)
  PROVE  /\ NosFluxos(etapa, etapa', a, {f}, alvo)
         /\ \E p \in {"token", "ida"} : NosFluxos(pc, pc', a, {f}, p)
         /\ \A b \in Abas, g \in Fluxos :
              \/ cred'[b][g] = cred[b][g] /\ ~(b = a /\ g = f)
              \/ b = a /\ g = f /\ cred'[b][g] \in {0, token[a]}
         /\ \A b \in Abas, g \in Fluxos :
              \/ chamada'[b][g] = chamada[b][g]
              \/ b = a /\ chamada'[b][g].tok \in {0, jar}
<1>1. NosFluxos(etapa, etapa', a, {f}, alvo)
  BY EfeitoPedir DEF Base
<1>2. CASE EsperarRenovacao(a, f, "token", jar)
  <2>1. /\ NosFluxos(pc, pc', a, {f}, "token")
        /\ NosFluxos(cred, cred', a, {f}, 0)
        /\ \A b \in Abas, g \in Fluxos :
              \/ chamada'[b][g] = chamada[b][g]
              \/ b = a /\ chamada'[b][g].tok \in {0, jar}
    BY <1>2, EsperarCoerente
  <2>2. \A b \in Abas, g \in Fluxos :
          \/ cred'[b][g] = cred[b][g] /\ ~(b = a /\ g = f)
          \/ b = a /\ g = f /\ cred'[b][g] \in {0, token[a]}
    BY <2>1 DEF NosFluxos
  <2> QED BY <1>1, <2>1, <2>2
<1>3. CASE /\ NosFluxos(pc, pc', a, {f}, "ida")
           /\ NosFluxos(cred, cred', a, {f}, token[a])
           /\ NosFluxos(chamada, chamada', a, {f}, SemChamada)
  <2>1. \A b \in Abas, g \in Fluxos :
          \/ cred'[b][g] = cred[b][g] /\ ~(b = a /\ g = f)
          \/ b = a /\ g = f /\ cred'[b][g] \in {0, token[a]}
    BY <1>3 DEF NosFluxos
  <2>2. \A b \in Abas, g \in Fluxos :
          \/ chamada'[b][g] = chamada[b][g]
          \/ b = a /\ chamada'[b][g].tok \in {0, jar}
    BY <1>3 DEF NosFluxos, SemChamada
  <2> QED BY <1>1, <1>3, <2>1, <2>2
<1> QED BY <1>2, <1>3, EfeitoPedir DEF Base

LEMMA ComecaCoerente ==
  ASSUME Base, NEW a \in Abas, NEW f \in Fluxos, NEW alvo \in Alvos, Comeca(a, f, alvo),
         NEW b \in Abas, Coerente(b)
  PROVE  Coerente(b)'
<1>1. /\ pc[a][f] = "fora" /\ Pedir(a, f, alvo, cookie) /\ alvo # "me" /\ f # "entrada"
      /\ UNCHANGED <<dono, cookie, token, usuario>>
  <2>1. /\ pc[a][f] = "fora" /\ Pedir(a, f, alvo, cookie)
        /\ UNCHANGED <<dono, cookie, token, usuario>>
    BY DEF Comeca, servidorVars
  <2>2. (f = "inicio" /\ alvo = "refresh") \/ (f \in Pedidos /\ alvo = "dados")
    BY DEF Comeca
  <2> QED BY <2>1, <2>2, OsFluxos
<1>2. cookie \in Numeros
  BY DEF Base, Tipos, TipoServidor
<1>3. /\ NosFluxos(etapa, etapa', a, {f}, alvo)
      /\ \E p \in {"token", "ida"} : NosFluxos(pc, pc', a, {f}, p)
      /\ \A c \in Abas, g \in Fluxos :
           \/ cred'[c][g] = cred[c][g] /\ ~(c = a /\ g = f)
           \/ c = a /\ g = f /\ cred'[c][g] \in {0, token[a]}
      /\ \A c \in Abas, g \in Fluxos :
           \/ chamada'[c][g] = chamada[c][g]
           \/ c = a /\ chamada'[c][g].tok \in {0, cookie}
  BY <1>1, <1>2, PedirCoerente
<1>4. MesmoJar
  BY <1>1, JarParado
<1>5. token'[b] \in {0, token[b], cookie'}
  BY <1>1
<1>6. \A g \in Fluxos : chamada'[b][g].tok \in {0, chamada[b][g].tok, cookie'}
  BY <1>1, <1>3
<1>7. \A g \in Fluxos : etapa'[b][g] = "me" =>
                          etapa[b][g] = "me" /\ cred'[b][g] = cred[b][g]
  BY <1>1, <1>3 DEF NosFluxos
<1>8. pc'[b]["entrada"] = pc[b]["entrada"] /\ usuario'[b] = usuario[b]
  BY <1>1, <1>3, OsFluxos DEF NosFluxos
<1> QED BY <1>4, <1>5, <1>6, <1>7, <1>8, AbaCoerente

LEMMA LerCoerente ==
  ASSUME Base, NEW a \in Abas, NEW f \in Fluxos, LerSessao(a, f),
         NEW b \in Abas, Coerente(b)
  PROVE  Coerente(b)'
<1>1. /\ NosFluxos(chamada, chamada', a, {f},
              IF chamada[a][f].tok \in ativa
                THEN [fase |-> "lida", tok |-> chamada[a][f].tok]
                ELSE [fase |-> "feita", tok |-> 0])
      /\ UNCHANGED <<dono, cookie, token, usuario, pc, etapa, cred>>
  BY EfeitoLer DEF Base
<1>2. \A g \in Fluxos : chamada'[b][g].tok \in {0, chamada[b][g].tok, cookie'}
  BY <1>1 DEF NosFluxos
<1> QED BY <1>1, <1>2, JarParado, AbaCoerente

LEMMA GravarCoerente ==
  ASSUME Base, NEW a \in Abas, NEW f \in Fluxos, GravarSessao(a, f),
         NEW b \in Abas, Coerente(b)
  PROVE  Coerente(b)'
<1> DEFINE velha == chamada[a][f].tok
           n == Proxima
<1>1. velha \in 1..emitidas /\ velha # 0
  BY GravarMantem DEF Base, Tipos, TipoServidor
<1>2. /\ Emitir(dono[velha], {velha})
      /\ NosFluxos(chamada, chamada', a, {f}, [fase |-> "feita", tok |-> n])
      /\ UNCHANGED <<cookie, token, usuario, pc, etapa, cred>>
  BY <1>1, EfeitoGravar DEF Base
<1>3. dono[velha] \in Usuarios
  BY <1>1 DEF Base, Numeracao
<1>4. /\ \A s \in 1..emitidas : dono'[s] = dono[s]
      /\ dono'[n] = dono[velha]
  BY <1>2, <1>3, EmitirMantem
<1>5. cookie # 0 => cookie \in 1..emitidas
  BY DEF Base, Numeracao, Usada, Tipos, TipoServidor
<1> HIDE DEF n, velha
<1>6. MesmoJar
  BY <1>2, <1>4, <1>5 DEF MesmoJar
<1>7. \A g \in Fluxos : \/ chamada'[b][g].tok \in {0, chamada[b][g].tok, cookie'}
                        \/ DoNovoJar(chamada'[b][g].tok)
  <2> SUFFICES ASSUME NEW g \in Fluxos, b = a, g = f
               PROVE  DoNovoJar(chamada'[b][g].tok)
    BY <1>2 DEF NosFluxos
  <2>1. cookie # 0 /\ dono[velha] = dono[cookie]
    BY <1>1 DEF Coerente, DoJar, velha
  <2>2. chamada'[b][g].tok = n
    BY <1>2 DEF NosFluxos
  <2> QED BY <1>2, <1>4, <1>5, <2>1, <2>2 DEF DoNovoJar
<1> QED BY <1>2, <1>6, <1>7, AbaCoerente

\* Who renews takes nobody by surprise, unless the jar was another's already.
LEMMA SemSurpresa ==
  ASSUME Base, Identidade, NEW a \in Abas, NEW f \in Fluxos,
         chamada[a][f].tok # 0, cookie' = chamada[a][f].tok,
         trocada' = trocada \cup Surpresas(a, chamada[a][f].tok), dono' = dono,
         NEW b \in Abas, b \notin trocada'
  PROVE  MesmoJar /\ Coerente(b)
<1> DEFINE novo == chamada[a][f].tok
<1>1. b \notin trocada /\ b \notin Surpresas(a, novo)
  OBVIOUS
<1>2. Coerente(b)
  BY <1>1 DEF Identidade
<1>3. dono[novo] = dono[cookie]
  <2>1. CASE b = a
    BY <1>2, <2>1 DEF Coerente, DoJar
  <2>2. CASE b # a
    BY <1>1, <2>2 DEF Surpresas
  <2> QED BY <2>1, <2>2
<1> QED BY <1>2, <1>3 DEF MesmoJar

LEMMA DeuCertoCoerente ==
  ASSUME Base, Identidade, NEW a \in Abas, NEW f \in Fluxos, RenovarDeuCerto(a, f),
         NEW b \in Abas, b \notin trocada'
  PROVE  Coerente(b)'
<1> DEFINE novo == chamada[a][f].tok
           W == Antes(a, f) \cup Depois(a, f)
<1>1. FazCerto(a, f) /\ novo \in Numeros
  BY EfeitoDeuCerto DEF Base, Tipos, TipoChamada, Chamadas
<1>2. /\ novo # 0 /\ cookie' = novo
      /\ NaAba(token, token', a, novo)
      /\ NosFluxos(cred, cred', a, W, novo)
      /\ DepoisDe(a, f, W, novo)
      /\ UNCHANGED <<dono, usuario, etapa>>
  BY <1>1 DEF FazCerto, Soltar
<1>3. trocada' = trocada \cup Surpresas(a, novo)
  BY DEF RenovarDeuCerto
<1>4. MesmoJar /\ Coerente(b)
  BY <1>2, <1>3, SemSurpresa
<1>5. \A g \in Fluxos : chamada'[b][g].tok \in {0, chamada[b][g].tok, cookie'}
  <2>1. \A g \in Fluxos :
          chamada'[b][g] =
            IF b # a THEN chamada[b][g]
            ELSE IF g = "inicio" /\ Reenvia(a, f, W)
                   THEN [fase |-> "enviada", tok |-> novo]
            ELSE IF g = f THEN SemChamada ELSE chamada[a][g]
    BY <1>1, <1>2, EfeitoDepois DEF Base, Tipos
  <2> QED BY <1>2, <2>1 DEF SemChamada
<1>6. token'[b] \in {0, token[b], cookie'}
  BY <1>2 DEF NaAba
<1>7. \A g \in Fluxos : etapa'[b][g] = "me" =>
        \/ cred'[b][g] \in {0, token[b], cookie'}
        \/ etapa[b][g] = "me" /\ cred'[b][g] = cred[b][g]
  BY <1>2 DEF NosFluxos
<1>8. pc'[b]["entrada"] = "fora" => pc[b]["entrada"] = "fora"
  <2>1. \A g \in Fluxos : pc'[b][g] \in {"ida", "ida2", pc[b][g]}
    BY <1>1 DEF FazCerto, Soltar
  <2> QED BY <2>1, OsFluxos
<1>9. usuario'[b] = usuario[b]
  BY <1>2
<1> QED BY <1>4, <1>5, <1>6, <1>7, <1>8, <1>9, AbaCoerente

\* A tab whose sign-in fails shows nobody.
LEMMA RejeitarCoerente ==
  ASSUME Base, NEW a \in Abas, NEW F, NEW saiu \in BOOLEAN, Rejeitar(a, F, saiu),
         NEW b \in Abas
  PROVE  /\ token'[b] \in {0, token[b]}
         /\ usuario'[b] = usuario[b] \/ usuario'[b] = NINGUEM
         /\ b = a /\ "entrada" \in F /\ pc[a]["entrada"] # "fora" => usuario'[b] = NINGUEM
<1>1. /\ NaAba(token, token', a, IF Perde(a, F, saiu) THEN 0 ELSE token[a])
      /\ NaAba(usuario, usuario', a, IF Perde(a, F, saiu) THEN NINGUEM ELSE usuario[a])
  BY EfeitoRejeitar DEF Base, Tipos
<1>2. pc[a]["entrada"] # "fora" => etapa[a]["entrada"] = "me"
  BY OsFluxos DEF Base, Etapas
<1> QED BY <1>1, <1>2 DEF NaAba, Perde

LEMMA FalhouCoerente ==
  ASSUME Base, NEW a \in Abas, NEW f \in Fluxos, RenovarFalhou(a, f),
         NEW b \in Abas, Coerente(b)
  PROVE  Coerente(b)'
<1> DEFINE A == Antes(a, f)
           D == Depois(a, f)
<1>1. /\ DepoisDe(a, f, A, cookie)
      /\ \A c \in Abas, g \in Fluxos :
           pc'[c][g] = IF c = a /\ g \in A THEN "ida"
                       ELSE IF c = a /\ g \in D THEN "fora"
                       ELSE pc[c][g]
      /\ NosFluxos(etapa, etapa', a, D, "nada")
      /\ Rejeitar(a, D, D # {})
      /\ UNCHANGED <<dono, cookie, cred>>
  BY EfeitoFalhou DEF Base, Soltar
<1>2. MesmoJar
  BY <1>1, JarParado
<1>3. \A g \in Fluxos : chamada'[b][g].tok \in {0, chamada[b][g].tok, cookie'}
  <2>1. \A g \in Fluxos :
          chamada'[b][g] =
            IF b # a THEN chamada[b][g]
            ELSE IF g = "inicio" /\ Reenvia(a, f, A)
                   THEN [fase |-> "enviada", tok |-> cookie]
            ELSE IF g = f THEN SemChamada ELSE chamada[a][g]
    BY <1>1, EfeitoDepois DEF Base, Tipos, TipoServidor
  <2> QED BY <1>1, <2>1 DEF SemChamada
<1>4. /\ token'[b] \in {0, token[b]}
      /\ usuario'[b] = usuario[b] \/ usuario'[b] = NINGUEM
      /\ b = a /\ "entrada" \in D /\ pc[a]["entrada"] # "fora" => usuario'[b] = NINGUEM
  BY <1>1, RejeitarCoerente
<1>5. \A g \in D : pc[a][g] # "fora"
  BY DEF Depois, Quem
<1>6. \A g \in Fluxos : etapa'[b][g] = "me" => etapa[b][g] = "me" /\ cred'[b][g] = cred[b][g]
  BY <1>1 DEF NosFluxos
<1>7. pc'[b]["entrada"] = "fora" =>
        pc[b]["entrada"] = "fora" \/ (b = a /\ "entrada" \in D)
  BY <1>1, OsFluxos
<1> HIDE DEF A, D
<1> QED BY <1>2, <1>3, <1>4, <1>5, <1>6, <1>7, AbaCoerente

LEMMA AceitouCoerente ==
  ASSUME Base, NEW a \in Abas, NEW f \in Fluxos, Aceitou(a, f),
         NEW b \in Abas, Coerente(b)
  PROVE  Coerente(b)'
<1>1. /\ cred[a][f] \in Sessoes
      /\ pc[a][f] \in {"ida", "ida2"}
      /\ NaAba(usuario, usuario', a,
               IF etapa[a][f] = "me" THEN dono[cred[a][f]] ELSE usuario[a])
      /\ NosFluxos(pc, pc', a, {f}, "fora")
      /\ NosFluxos(etapa, etapa', a, {f}, "nada")
      /\ NosFluxos(cred, cred', a, {f}, 0)
      /\ UNCHANGED <<dono, cookie, token, chamada>>
  BY EfeitoAceitou DEF Base
<1>2. \A g \in Fluxos : etapa'[b][g] = "me" => etapa[b][g] = "me" /\ cred'[b][g] = cred[b][g]
  BY <1>1 DEF NosFluxos
<1>3. usuario'[b] # NINGUEM /\ pc'[b]["entrada"] = "fora" =>
        \/ usuario'[b] = usuario[b] /\ pc[b]["entrada"] = "fora"
        \/ cookie' # 0 /\ dono'[cookie'] = usuario'[b]
  <2>1. CASE b # a
    BY <1>1, <2>1, OsFluxos DEF NaAba, NosFluxos
  <2>2. CASE b = a /\ etapa[a][f] = "me"
    <3>1. DoJar(cred[a][f]) /\ cred[a][f] # 0
      BY <1>1, <2>2 DEF Coerente, Sessoes
    <3> QED BY <1>1, <2>2, <3>1 DEF DoJar, NaAba
  <2>3. CASE b = a /\ etapa[a][f] # "me"
    <3>1. f # "entrada"
      BY <1>1, <2>3 DEF Base, Etapas
    <3> QED BY <1>1, <2>3, <3>1, OsFluxos DEF NaAba, NosFluxos
  <2> QED BY <2>1, <2>2, <2>3
<1> QED BY <1>1, <1>2, <1>3, JarParado, AbaCoerente

LEMMA RecomecaCoerente ==
  ASSUME Base, NEW a \in Abas, NEW f \in Fluxos, Recomeca(a, f),
         NEW b \in Abas, Coerente(b)
  PROVE  Coerente(b)'
<1>1. /\ pc[a][f] = "ida" /\ EsperarRenovacao(a, f, "espera", cookie)
      /\ UNCHANGED <<dono, cookie, token, usuario, etapa>>
  BY EfeitoRecomeca DEF Base
<1>2. cookie \in Numeros
  BY DEF Base, Tipos, TipoServidor
<1>3. /\ NosFluxos(pc, pc', a, {f}, "espera")
      /\ NosFluxos(cred, cred', a, {f}, 0)
      /\ \A c \in Abas, g \in Fluxos :
           \/ chamada'[c][g] = chamada[c][g]
           \/ c = a /\ chamada'[c][g].tok \in {0, cookie}
  BY <1>1, <1>2, EsperarCoerente
<1>4. \A g \in Fluxos : chamada'[b][g].tok \in {0, chamada[b][g].tok, cookie'}
  BY <1>1, <1>3
<1>5. \A g \in Fluxos : etapa'[b][g] = "me" =>
        \/ cred'[b][g] \in {0, token[b], cookie'}
        \/ etapa[b][g] = "me" /\ cred'[b][g] = cred[b][g]
  BY <1>1, <1>3 DEF NosFluxos
<1>6. pc'[b]["entrada"] = "fora" => pc[b]["entrada"] = "fora"
  BY <1>1, <1>3, OsFluxos DEF NosFluxos
<1> QED BY <1>1, <1>4, <1>5, <1>6, JarParado, AbaCoerente

LEMMA DesisteCoerente ==
  ASSUME Base, NEW a \in Abas, NEW f \in Fluxos, Desiste(a, f),
         NEW b \in Abas, Coerente(b)
  PROVE  Coerente(b)'
<1>1. /\ pc[a][f] \in {"ida", "ida2"}
      /\ Rejeitar(a, {f}, FALSE)
      /\ NosFluxos(pc, pc', a, {f}, "fora")
      /\ NosFluxos(etapa, etapa', a, {f}, "nada")
      /\ NosFluxos(cred, cred', a, {f}, 0)
      /\ chamada' = chamada \/ NosFluxos(chamada, chamada', a, {f}, SemChamada)
      /\ UNCHANGED <<dono, cookie>>
  BY EfeitoDesiste DEF Base
<1>2. /\ token'[b] \in {0, token[b]}
      /\ usuario'[b] = usuario[b] \/ usuario'[b] = NINGUEM
      /\ b = a /\ "entrada" \in {f} /\ pc[a]["entrada"] # "fora" => usuario'[b] = NINGUEM
  BY <1>1, RejeitarCoerente
<1>3. \A g \in Fluxos : chamada'[b][g].tok \in {0, chamada[b][g].tok, cookie'}
  BY <1>1 DEF NosFluxos, SemChamada
<1>4. \A g \in Fluxos : etapa'[b][g] = "me" => etapa[b][g] = "me" /\ cred'[b][g] = cred[b][g]
  BY <1>1 DEF NosFluxos
<1>5. pc'[b]["entrada"] = "fora" =>
        pc[b]["entrada"] = "fora" \/ (b = a /\ "entrada" \in {f})
  BY <1>1, OsFluxos DEF NosFluxos
<1> QED BY <1>1, <1>2, <1>3, <1>4, <1>5, JarParado, AbaCoerente

LEMMA AceitoCoerente ==
  ASSUME Base, Identidade, NEW a \in Abas, IniciarAceito(a),
         NEW b \in Abas, b \notin trocada'
  PROVE  Coerente(b)'
<1> DEFINE novo == chamada[a]["inicio"].tok
<1>1. /\ pc[a]["inicio"] \in {"ida", "ida2"}
      /\ novo # 0 /\ novo \in Sessoes /\ cookie' = novo
      /\ Pedir(a, "inicio", "me", novo)
      /\ trocada' = trocada \cup Surpresas(a, novo)
      /\ UNCHANGED <<dono, token, usuario>>
  BY EfeitoIniciarAceito DEF Base
<1>2. MesmoJar /\ Coerente(b)
  BY <1>1, OsFluxos, SemSurpresa
<1>3. novo \in Numeros /\ "me" \in Alvos
  BY <1>1 DEF Numeros, Alvos
<1> HIDE DEF novo
<1>4. /\ NosFluxos(etapa, etapa', a, {"inicio"}, "me")
      /\ \E p \in {"token", "ida"} : NosFluxos(pc, pc', a, {"inicio"}, p)
      /\ \A c \in Abas, g \in Fluxos :
           \/ cred'[c][g] = cred[c][g] /\ ~(c = a /\ g = "inicio")
           \/ c = a /\ g = "inicio" /\ cred'[c][g] \in {0, token[a]}
      /\ \A c \in Abas, g \in Fluxos :
           \/ chamada'[c][g] = chamada[c][g]
           \/ c = a /\ chamada'[c][g].tok \in {0, novo}
  BY <1>1, <1>3, OsFluxos, PedirCoerente
<1>5. \A g \in Fluxos : chamada'[b][g].tok \in {0, chamada[b][g].tok, cookie'}
  BY <1>1, <1>4
<1>6. \A g \in Fluxos : etapa'[b][g] = "me" =>
        \/ cred'[b][g] \in {0, token[b], cookie'}
        \/ etapa[b][g] = "me" /\ cred'[b][g] = cred[b][g]
  BY <1>4 DEF NosFluxos
<1>7. pc'[b]["entrada"] = pc[b]["entrada"] /\ usuario'[b] = usuario[b]
      /\ token'[b] = token[b]
  BY <1>1, <1>4, OsFluxos DEF NosFluxos
<1> QED BY <1>2, <1>5, <1>6, <1>7, AbaCoerente

\* Who signs in is alone with the new session.
LEMMA AbrirCoerente ==
  ASSUME Base, Identidade, NEW a \in Abas, NEW u \in Usuarios, AbrirSessao(a, u),
         NEW b \in Abas, b \notin trocada'
  PROVE  Coerente(b)'
<1> DEFINE n == Proxima
<1>1. /\ Emitir(u, {}) /\ cookie' = n
      /\ NaAba(token, token', a, n)
      /\ NosFluxos(pc, pc', a, {"entrada"}, "ida")
      /\ NosFluxos(etapa, etapa', a, {"entrada"}, "me")
      /\ NosFluxos(cred, cred', a, {"entrada"}, n)
      /\ trocada \cup Ultrapassadas(Abas) \cup (Abas \ {a}) \subseteq trocada'
      /\ pc[a]["inicio"] # "fora" => a \in trocada'
      /\ UNCHANGED chamada
  BY EfeitoAbrir DEF Base
<1>2. b = a /\ b \notin Ultrapassadas(Abas) /\ pc[b]["inicio"] = "fora"
  BY <1>1
<1> HIDE DEF n
<1>3. DoNovoJar(0) /\ DoNovoJar(n)
  BY <1>1 DEF DoNovoJar
<1>4. DoNovoJar(token'[b])
  BY <1>1, <1>2, <1>3 DEF NaAba
<1>5. \A g \in Fluxos : chamada'[b][g].tok = 0
  BY <1>1, <1>2 DEF Ultrapassadas, EmVoo, Base, EmCurso
<1>6. \A g \in Fluxos : etapa'[b][g] = "me" => cred'[b][g] = n
  <2>1. \A g \in Fluxos : etapa[b][g] = "me" => g = "entrada"
    BY <1>2, OsFluxos DEF Base, Etapas, Fluxos
  <2> QED BY <1>1, <1>2, <2>1 DEF NosFluxos
<1>7. pc'[b]["entrada"] = "ida"
  BY <1>1, <1>2, OsFluxos DEF NosFluxos
<1> QED BY <1>3, <1>4, <1>5, <1>6, <1>7 DEF Coerente, DoJar, DoNovoJar

LEMMA SairCoerente ==
  ASSUME Base, NEW a \in Abas, Sair(a), NEW b \in Abas, Coerente(b)
  PROVE  Coerente(b)'
<1>1. /\ NaAba(token, token', a, 0) /\ NaAba(usuario, usuario', a, NINGUEM)
      /\ UNCHANGED <<dono, cookie, pc, etapa, cred, chamada>>
  BY EfeitoSair DEF Base
<1> QED BY <1>1, JarParado, AbaCoerente DEF NaAba

LEMMA RecarregarCoerente ==
  ASSUME Base, Identidade, NEW a \in Abas, Recarregar(a),
         NEW b \in Abas, b \notin trocada'
  PROVE  Coerente(b)'
<1>1. /\ NaAba(token, token', a, 0) /\ NaAba(usuario, usuario', a, NINGUEM)
      /\ NosFluxos(pc, pc', a, Fluxos, "fora")
      /\ NosFluxos(etapa, etapa', a, Fluxos, "nada")
      /\ NosFluxos(cred, cred', a, Fluxos, 0)
      /\ NosFluxos(chamada, chamada', a, Fluxos, SemChamada)
      /\ trocada' = trocada \ {a}
      /\ UNCHANGED <<dono, cookie>>
  BY EfeitoRecarregar DEF Base
<1>2. CASE b = a
  BY <1>1, <1>2 DEF Coerente, DoJar, NaAba, NosFluxos, SemChamada
<1>3. CASE b # a
  <2>1. Coerente(b)
    BY <1>1, <1>3 DEF Identidade
  <2>2. /\ token'[b] = token[b] /\ usuario'[b] = usuario[b]
        /\ \A g \in Fluxos : /\ pc'[b][g] = pc[b][g]
                             /\ etapa'[b][g] = etapa[b][g]
                             /\ cred'[b][g] = cred[b][g]
                             /\ chamada'[b][g] = chamada[b][g]
    BY <1>1, <1>3 DEF NaAba, NosFluxos
  <2> QED BY <1>1, <2>1, <2>2, JarParado, OutraAba
<1> QED BY <1>2, <1>3

LEMMA IdentidadeMantem == Base /\ Identidade /\ [Next]_vars => Identidade'
<1> SUFFICES ASSUME Base, Identidade, [Next]_vars,
                    NEW b \in Abas, b \notin trocada'
             PROVE  Coerente(b)'
  BY DEF Identidade
<1>1. ASSUME trocada' = trocada PROVE Coerente(b)
  BY <1>1 DEF Identidade
<1>2. ASSUME NEW a \in Abas, NEW f \in Fluxos,
             \/ \E alvo \in Alvos : Comeca(a, f, alvo)
             \/ LerSessao(a, f) \/ GravarSessao(a, f)
             \/ RenovarFalhou(a, f)
             \/ Aceitou(a, f) \/ Recomeca(a, f) \/ Desiste(a, f)
      PROVE  Coerente(b)'
  <2>1. trocada' = trocada
    BY <1>2 DEF Comeca, LerSessao, GravarSessao, RenovarFalhou, Aceitou, Recomeca,
       Desiste, historiaVars
  <2> QED BY <1>1, <1>2, <2>1, ComecaCoerente, LerCoerente, GravarCoerente,
             FalhouCoerente, AceitouCoerente, RecomecaCoerente, DesisteCoerente
<1>3. ASSUME NEW a \in Abas, NEW f \in Fluxos, RenovarDeuCerto(a, f) PROVE Coerente(b)'
  BY <1>3, DeuCertoCoerente
<1>4. ASSUME NEW a \in Abas, IniciarAceito(a) \/ \E u \in Usuarios : AbrirSessao(a, u)
      PROVE  Coerente(b)'
  BY <1>4, AceitoCoerente, AbrirCoerente
<1>5. ASSUME UNCHANGED <<dono, cookie, token, usuario, pc, etapa, cred, chamada, trocada>>
      PROVE  Coerente(b)'
  BY <1>1, <1>5, JarParado, OutraAba
<1>6. ASSUME NEW a \in Abas, VoltarAoLogin(a) \/ \E u \in Usuarios : PedirCodigo(a, u)
      PROVE  Coerente(b)'
  BY <1>5, <1>6, EfeitoCodigo DEF Base
<1>7. ASSUME NEW a \in Abas, Sair(a) PROVE Coerente(b)'
  BY <1>1, <1>7, SairCoerente DEF Sair, historiaVars
<1>8. ASSUME NEW a \in Abas, Recarregar(a) PROVE Coerente(b)'
  BY <1>8, RecarregarCoerente
<1>9. ASSUME NEW s \in Sessoes, Vencer(s) PROVE Coerente(b)'
  BY <1>5, <1>9, EfeitoVencer DEF Base
<1>10. CASE UNCHANGED vars
  BY <1>5, <1>10 DEF vars, servidorVars, abaVars, navegacaoVars, historiaVars
<1>11. CASE Next
  BY <1>2, <1>3, <1>4, <1>6, <1>7, <1>8, <1>9, <1>11, Passos DEF Passo
<1> QED BY <1>10, <1>11

\* The user a tab shows is the one its requests act for, for any number of tabs
\* and users: every token a tab holds or waits for is of the owner of the jar's
\* session, and so is the user it shows.
THEOREM TelaFiel == Spec => []IdentidadeDaTela
<1>1. Init => Identidade
  BY DEF Init, Identidade, Coerente, DoJar, SemChamada
<1>2. Base /\ Identidade => IdentidadeDaTela
  BY DEF Identidade, Coerente, DoJar, IdentidadeDaTela
<1> QED BY <1>1, <1>2, BaseNoInicio, BaseMantem, IdentidadeMantem, PTL DEF Spec

-----------------------------------------------------------------------------
(* Who loses its user.  A renewal nobody overtook was asked for with the     *)
(* jar's session, and is refused only when that session is gone.             *)

Fresca(b) ==
  \A f \in Fluxos : promessa[b] = f =>
    /\ chamada[b][f].fase \in {"enviada", "lida"} => chamada[b][f].tok = cookie
    /\ chamada[b][f] = [fase |-> "feita", tok |-> 0] => cookie \notin ativa

\* init's post waits for a token only before anybody is shown.
Primeira(b) ==
  pc[b]["inicio"] = "token" /\ etapa[b]["inicio"] = "refresh"
    => usuario[b] = NINGUEM /\ pc[b]["entrada"] = "fora"

\* "Carregando" shows no page; a form that was sent before has a token.
Carrega(b) ==
  carregando[b] => /\ \A p \in Pedidos : pc[b][p] = "fora"
                   /\ pc[b]["inicio"] = "fora" /\ pc[b]["entrada"] # "fora"
                        => token[b] # 0

Frescas == \A b \in Abas \ cruzada : Fresca(b)
Primeiras == \A b \in Abas \ cruzada : Primeira(b)
Carregam == \A b \in Abas : Carrega(b)

\* A tab whose renewal is not touched.
LEMMA FrescaParada ==
  ASSUME NEW b \in Abas, Fresca(b), promessa'[b] = promessa[b],
         \A g \in Fluxos : promessa[b] = g => chamada'[b][g] = chamada[b][g],
         cookie' = cookie, cookie \notin ativa => cookie \notin ativa'
  PROVE  Fresca(b)'
BY DEF Fresca

LEMMA SemPromessa ==
  ASSUME NEW b \in Abas, promessa'[b] = NINGUEM
  PROVE  Fresca(b)'
BY OsFluxos DEF Fresca

\* A renewal that begins takes the cookie of the moment.
LEMMA EsperarFresca ==
  ASSUME Base, NEW a \in Abas, NEW f \in Fluxos, NEW onde \in {"token", "espera"},
         NEW jar \in Numeros, EsperarRenovacao(a, f, onde, jar), ~Espera(a, f),
         cookie' = jar, ativa' = ativa, NEW b \in Abas,
         promessa[b] # NINGUEM => Fresca(b) /\ cookie' = cookie
  PROVE  Fresca(b)'
<1> DEFINE p == IF promessa[a] = NINGUEM THEN f ELSE promessa[a]
           nova == [fase |-> "enviada", tok |-> jar]
           c == IF promessa[a] = NINGUEM THEN nova ELSE SemChamada
<1>1. onde \in Pontos
  BY DEF Pontos
<1>2. NaAba(promessa, promessa', a, p) /\ NosFluxos(chamada, chamada', a, {f}, c)
  BY <1>1, EfeitoEsperar DEF Base
<1>3. \A g \in Fluxos : promessa[a] = g => g # f
  BY DEF Base, Promessas
<1>4. promessa[a] = NINGUEM => p = f /\ c = nova
  OBVIOUS
<1>5. promessa[a] # NINGUEM => p = promessa[a]
  OBVIOUS
<1>6. nova.tok = jar /\ nova.fase = "enviada" /\ nova # [fase |-> "feita", tok |-> 0]
  OBVIOUS
<1> HIDE DEF p, c, nova
<1>7. CASE b = a /\ promessa[a] = NINGUEM
  <2>1. promessa'[b] = f /\ chamada'[b][f] = nova
    BY <1>2, <1>4, <1>7 DEF NaAba, NosFluxos
  <2> QED BY <1>6, <2>1 DEF Fresca
<1>8. CASE promessa[b] = NINGUEM /\ b # a
  <2>1. promessa'[b] = NINGUEM
    BY <1>2, <1>8 DEF NaAba
  <2> QED BY <2>1, SemPromessa
<1>9. CASE promessa[b] # NINGUEM
  <2>1. promessa'[b] = promessa[b]
    BY <1>2, <1>5, <1>9 DEF NaAba
  <2>2. \A g \in Fluxos : promessa[b] = g => chamada'[b][g] = chamada[b][g]
    BY <1>2, <1>3 DEF NosFluxos
  <2> QED BY <1>9, <2>1, <2>2, FrescaParada
<1> QED BY <1>7, <1>8, <1>9

LEMMA PedirFresca ==
  ASSUME Base, NEW a \in Abas, NEW f \in Fluxos, NEW alvo \in Alvos,
         NEW jar \in Numeros, Pedir(a, f, alvo, jar), ~Espera(a, f),
         cookie' = jar, ativa' = ativa, NEW b \in Abas,
         promessa[b] # NINGUEM => Fresca(b) /\ cookie' = cookie
  PROVE  Fresca(b)'
<1>1. CASE EsperarRenovacao(a, f, "token", jar)
  BY <1>1, EsperarFresca
<1>2. CASE /\ NosFluxos(chamada, chamada', a, {f}, SemChamada)
           /\ UNCHANGED promessa
  <2>1. CASE promessa[b] = NINGUEM
    BY <1>2, <2>1, SemPromessa
  <2>2. CASE promessa[b] # NINGUEM
    <3>1. \A g \in Fluxos : promessa[b] = g => chamada'[b][g] = chamada[b][g]
      BY <1>2 DEF NosFluxos, Base, Promessas
    <3> QED BY <1>2, <2>2, <3>1, FrescaParada
  <2> QED BY <2>1, <2>2
<1> QED BY <1>1, <1>2, EfeitoPedir DEF Base

\* A renewal that is over spares the other tabs' only if they have none.
LEMMA Cruzadas ==
  ASSUME Base, NEW a \in Abas, NEW b \in Abas, b # a,
         b \notin Ultrapassadas(Abas \ {a})
  PROVE  promessa[b] = NINGUEM
<1>1. \A g \in Fluxos : ~EmVoo(b, g)
  BY DEF Ultrapassadas
<1>2. promessa[b] \in Fluxos \cup {NINGUEM}
  BY DEF Base, Tipos, TipoAbas
<1> QED BY <1>1, <1>2 DEF Base, Promessas

LEMMA FrescasMantem == Base /\ Frescas /\ [Next]_vars => Frescas'
<1> SUFFICES ASSUME Base, Frescas, [Next]_vars,
                    NEW b \in Abas, b \notin cruzada'
             PROVE  Fresca(b)'
  BY DEF Frescas
<1>0. cookie \in Numeros /\ \A g \in Fluxos : promessa[b] = g => Espera(b, g)
  BY DEF Base, Tipos, TipoServidor, Promessas
<1>1. ASSUME NEW a \in Abas, NEW f \in Fluxos, NEW alvo \in Alvos, Comeca(a, f, alvo)
      PROVE  Fresca(b)'
  <2>1. /\ Pedir(a, f, alvo, cookie) /\ ~Espera(a, f)
        /\ UNCHANGED <<ativa, cookie, cruzada>>
    BY <1>1 DEF Comeca, servidorVars, historiaVars, Espera
  <2>2. Fresca(b)
    BY <2>1 DEF Frescas
  <2> QED BY <1>0, <2>1, <2>2, PedirFresca
<1>2. ASSUME NEW a \in Abas, NEW f \in Fluxos, LerSessao(a, f) PROVE Fresca(b)'
  <2> DEFINE c == IF chamada[a][f].tok \in ativa
                    THEN [fase |-> "lida", tok |-> chamada[a][f].tok]
                    ELSE [fase |-> "feita", tok |-> 0]
  <2>1. /\ chamada[a][f].fase = "enviada"
        /\ NosFluxos(chamada, chamada', a, {f}, c)
        /\ UNCHANGED <<ativa, cookie, promessa, cruzada>>
    BY <1>2, EfeitoLer DEF Base
  <2>2. Fresca(b)
    BY <2>1 DEF Frescas
  <2>3. CASE b = a /\ promessa[b] = f
    <3>1. chamada[a][f].tok = cookie
      BY <2>1, <2>2, <2>3 DEF Fresca
    <3>2. /\ c.fase \in {"enviada", "lida"} => c.tok = cookie
          /\ c = [fase |-> "feita", tok |-> 0] => cookie \notin ativa
      BY <3>1
    <3>3. chamada'[b][f] = c /\ promessa'[b] = f
      BY <2>1, <2>3 DEF NosFluxos
    <3> QED BY <2>1, <3>2, <3>3 DEF Fresca
  <2>4. CASE ~(b = a /\ promessa[b] = f)
    <3>1. \A g \in Fluxos : promessa[b] = g => chamada'[b][g] = chamada[b][g]
      BY <2>1, <2>4 DEF NosFluxos
    <3> QED BY <2>1, <2>2, <3>1, FrescaParada
  <2> QED BY <2>3, <2>4
<1>3. ASSUME NEW a \in Abas, NEW f \in Fluxos, GravarSessao(a, f) PROVE Fresca(b)'
  <2> DEFINE velha == chamada[a][f].tok
             c == [fase |-> "feita", tok |-> Proxima]
             n == Proxima
  <2>1. velha \in 1..emitidas /\ velha # 0
    BY <1>3, GravarMantem DEF Base, Tipos, TipoServidor
  <2>2. /\ Emitir(dono[velha], {velha})
        /\ NosFluxos(chamada, chamada', a, {f}, c)
        /\ UNCHANGED <<cookie, promessa, cruzada>>
    BY <1>3, <2>1, EfeitoGravar DEF Base
  <2>3. Fresca(b)
    BY <2>2 DEF Frescas
  <2>4. c.tok # 0 /\ c.fase = "feita" /\ c # [fase |-> "feita", tok |-> 0]
        /\ cookie # n
    BY DEF Proxima, Base, Tipos, TipoServidor, Numeracao, Usada
  <2>5. ativa' \subseteq ativa \cup {n}
    BY <2>2 DEF Emitir
  <2> HIDE DEF c, n
  <2>6. CASE b = a /\ promessa[b] = f
    <3>1. chamada'[b][f] = c /\ promessa'[b] = f
      BY <2>2, <2>6 DEF NosFluxos
    <3> QED BY <2>4, <3>1 DEF Fresca
  <2>7. CASE ~(b = a /\ promessa[b] = f)
    <3>1. \A g \in Fluxos : promessa[b] = g => chamada'[b][g] = chamada[b][g]
      BY <2>2, <2>7 DEF NosFluxos
    <3> QED BY <2>2, <2>3, <2>4, <2>5, <3>1, FrescaParada
  <2> QED BY <2>6, <2>7
<1>4. ASSUME NEW a \in Abas, NEW f \in Fluxos, RenovarDeuCerto(a, f) PROVE Fresca(b)'
  <2>1. /\ NaAba(promessa, promessa', a, NINGUEM)
        /\ b \notin Ultrapassadas(Abas \ {a})
    <3>1. NaAba(promessa, promessa', a, NINGUEM)
      BY <1>4, EfeitoDeuCerto DEF Base, FazCerto, Soltar
    <3>2. cruzada' = Restantes(a, f) \cup Ultrapassadas(Abas \ {a})
      BY <1>4 DEF RenovarDeuCerto
    <3> QED BY <3>1, <3>2
  <2>2. promessa'[b] = NINGUEM
    BY <2>1, Cruzadas DEF NaAba
  <2> QED BY <2>2, SemPromessa
<1>5. ASSUME NEW a \in Abas, NEW f \in Fluxos, RenovarFalhou(a, f) PROVE Fresca(b)'
  <2>1. /\ NaAba(promessa, promessa', a, NINGUEM)
        /\ DepoisDe(a, f, Antes(a, f), cookie)
        /\ cruzada' = Restantes(a, f)
        /\ UNCHANGED <<ativa, cookie>>
    BY <1>5, EfeitoFalhou DEF Base, Soltar
  <2>2. CASE b = a
    BY <2>1, <2>2, SemPromessa DEF NaAba
  <2>3. CASE b # a
    <3>1. b \notin cruzada
      BY <2>1, <2>3 DEF Restantes
    <3>2. Fresca(b)
      BY <3>1 DEF Frescas
    <3>3. promessa'[b] = promessa[b]
      BY <2>1, <2>3 DEF NaAba
    <3>4. \A g \in Fluxos : chamada'[b][g] = chamada[b][g]
      <4>1. \A g \in Fluxos :
              chamada'[b][g] =
                IF b # a THEN chamada[b][g]
                ELSE IF g = "inicio" /\ Reenvia(a, f, Antes(a, f))
                       THEN [fase |-> "enviada", tok |-> cookie]
                ELSE IF g = f THEN SemChamada ELSE chamada[a][g]
        BY <1>0, <2>1, EfeitoDepois DEF Base, Tipos
      <4> QED BY <2>3, <4>1
    <3> QED BY <2>1, <3>2, <3>3, <3>4, FrescaParada
  <2> QED BY <2>2, <2>3
<1>6. ASSUME NEW a \in Abas, NEW f \in Fluxos, Aceitou(a, f) PROVE Fresca(b)'
  <2>1. UNCHANGED <<ativa, cookie, promessa, chamada, cruzada>>
    BY <1>6 DEF Aceitou, servidorVars, historiaVars
  <2> QED BY <2>1, FrescaParada DEF Frescas
<1>7. ASSUME NEW a \in Abas, NEW f \in Fluxos, Recomeca(a, f) PROVE Fresca(b)'
  <2>1. /\ EsperarRenovacao(a, f, "espera", cookie) /\ ~Espera(a, f)
        /\ UNCHANGED <<ativa, cookie, cruzada>>
    BY <1>7 DEF Recomeca, servidorVars, historiaVars, Espera
  <2>2. Fresca(b)
    BY <2>1 DEF Frescas
  <2> QED BY <1>0, <2>1, <2>2, EsperarFresca
<1>8. ASSUME NEW a \in Abas, NEW f \in Fluxos, Desiste(a, f) PROVE Fresca(b)'
  <2>1. /\ ~Espera(a, f)
        /\ chamada' = chamada \/ NosFluxos(chamada, chamada', a, {f}, SemChamada)
        /\ UNCHANGED <<ativa, cookie, promessa, cruzada>>
    BY <1>8, EfeitoDesiste, DesisteMantem DEF Base
  <2>2. \A g \in Fluxos : promessa[b] = g => chamada'[b][g] = chamada[b][g]
    BY <1>0, <2>1 DEF NosFluxos
  <2> QED BY <2>1, <2>2, FrescaParada DEF Frescas
<1>9. ASSUME NEW a \in Abas, IniciarAceito(a) PROVE Fresca(b)'
  <2> DEFINE novo == chamada[a]["inicio"].tok
  <2>1. /\ novo \in Sessoes /\ cookie' = novo
        /\ Pedir(a, "inicio", "me", novo)
        /\ b \notin Ultrapassadas(Abas \ {a})
        /\ OutroEmVoo(a) => a \in cruzada'
        /\ ativa' = ativa
    BY <1>9, EfeitoIniciarAceito DEF Base
  <2>2. ~Espera(a, "inicio") /\ novo \in Numeros /\ "me" \in Alvos
    BY <1>9, <2>1, AceitoMantem DEF Numeros, Alvos
  <2> HIDE DEF novo
  <2>3. promessa[b] = NINGUEM
    <3>1. CASE b # a
      BY <2>1, <3>1, Cruzadas
    <3>2. CASE b = a
      <4>1. \A g \in Fluxos : g # "inicio" => ~EmVoo(b, g)
        BY <2>1, <3>2 DEF OutroEmVoo, Fluxos
      <4>2. promessa[b] \in Fluxos \cup {NINGUEM}
        BY DEF Base, Tipos, TipoAbas
      <4> QED BY <1>0, <2>2, <3>2, <4>1, <4>2 DEF Base, Promessas
    <3> QED BY <3>1, <3>2
  <2> QED BY <2>1, <2>2, <2>3, OsFluxos, PedirFresca
<1>10. ASSUME NEW a \in Abas, NEW u \in Usuarios, AbrirSessao(a, u) PROVE Fresca(b)'
  <2>1. b \notin Ultrapassadas(Abas) /\ promessa' = promessa
    BY <1>10, EfeitoAbrir DEF Base
  <2>2. \A g \in Fluxos : ~EmVoo(b, g)
    BY <2>1 DEF Ultrapassadas
  <2>3. promessa[b] \in Fluxos \cup {NINGUEM}
    BY DEF Base, Tipos, TipoAbas
  <2>4. promessa'[b] = NINGUEM
    BY <2>1, <2>2, <2>3 DEF Base, Promessas
  <2> QED BY <2>4, SemPromessa
<1>11. ASSUME UNCHANGED <<ativa, cookie, promessa, chamada, cruzada>> PROVE Fresca(b)'
  BY <1>11, FrescaParada DEF Frescas
<1>12. ASSUME NEW a \in Abas,
              VoltarAoLogin(a) \/ (\E u \in Usuarios : PedirCodigo(a, u)) \/ Sair(a)
       PROVE  Fresca(b)'
  BY <1>11, <1>12 DEF VoltarAoLogin, PedirCodigo, Sair, servidorVars, navegacaoVars,
     historiaVars
<1>13. ASSUME NEW a \in Abas, Recarregar(a) PROVE Fresca(b)'
  <2>1. /\ NaAba(promessa, promessa', a, NINGUEM)
        /\ NosFluxos(chamada, chamada', a, Fluxos, SemChamada)
        /\ cruzada' = cruzada \ {a}
        /\ UNCHANGED <<ativa, cookie>>
    BY <1>13, EfeitoRecarregar DEF Base
  <2>2. CASE b = a
    BY <2>1, <2>2, SemPromessa DEF NaAba
  <2>3. CASE b # a
    <3>1. Fresca(b) /\ promessa'[b] = promessa[b]
      BY <2>1, <2>3 DEF Frescas, NaAba
    <3>2. \A g \in Fluxos : chamada'[b][g] = chamada[b][g]
      BY <2>1, <2>3 DEF NosFluxos
    <3> QED BY <2>1, <3>1, <3>2, FrescaParada
  <2> QED BY <2>2, <2>3
<1>14. ASSUME NEW s \in Sessoes, Vencer(s) PROVE Fresca(b)'
  BY <1>11, <1>14, EfeitoVencer DEF Base
<1>15. CASE UNCHANGED vars
  BY <1>11, <1>15 DEF vars, servidorVars, abaVars, navegacaoVars, historiaVars
<1>16. CASE Next
  BY <1>1, <1>2, <1>3, <1>4, <1>5, <1>6, <1>7, <1>8, <1>9, <1>10, <1>12, <1>13, <1>14,
     <1>16, Passos DEF Passo
<1> QED BY <1>15, <1>16

LEMMA PrimeiraParada ==
  ASSUME NEW b \in Abas, Primeira(b),
         pc'[b]["inicio"] = "token" => pc[b]["inicio"] = "token",
         etapa'[b]["inicio"] = "refresh" => etapa[b]["inicio"] = "refresh",
         usuario[b] = NINGUEM => usuario'[b] = NINGUEM,
         pc[b]["entrada"] = "fora" => pc'[b]["entrada"] = "fora"
  PROVE  Primeira(b)'
BY DEF Primeira

LEMMA SemToken ==
  ASSUME NEW b \in Abas, pc'[b]["inicio"] # "token" PROVE Primeira(b)'
BY DEF Primeira

\* A rejection shows nobody anew.
LEMMA RejeitarNinguem ==
  ASSUME Base, NEW a \in Abas, NEW F, NEW saiu \in BOOLEAN, Rejeitar(a, F, saiu),
         NEW b \in Abas
  PROVE  usuario[b] = NINGUEM => usuario'[b] = NINGUEM
<1>1. NaAba(usuario, usuario', a, IF Perde(a, F, saiu) THEN NINGUEM ELSE usuario[a])
  BY EfeitoRejeitar DEF Base, Tipos
<1> QED BY <1>1 DEF NaAba

LEMMA PrimeirasMantem == Base /\ Primeiras /\ Carregam /\ [Next]_vars => Primeiras'
<1> SUFFICES ASSUME Base, Primeiras, Carregam, [Next]_vars,
                    NEW b \in Abas, b \notin cruzada'
             PROVE  Primeira(b)'
  BY DEF Primeiras
<1>0. cookie \in Numeros
  BY DEF Base, Tipos, TipoServidor
<1>1. ASSUME NEW a \in Abas, NEW f \in Fluxos, NEW alvo \in Alvos, Comeca(a, f, alvo)
      PROVE  Primeira(b)'
  <2>1. /\ Pedir(a, f, alvo, cookie) /\ pc[a][f] = "fora"
        /\ UNCHANGED <<usuario, cruzada>>
    BY <1>1 DEF Comeca, historiaVars
  <2>2. /\ NosFluxos(etapa, etapa', a, {f}, alvo)
        /\ \E p \in {"token", "ida"} : NosFluxos(pc, pc', a, {f}, p)
    BY <1>0, <2>1, PedirCoerente
  <2>3. Primeira(b)
    BY <2>1 DEF Primeiras
  <2>4. (f = "inicio" /\ AbaNova(a)) \/ f \in Pedidos
    BY <1>1 DEF Comeca
  <2>5. CASE b = a /\ f = "inicio" /\ AbaNova(a)
    <3>1. token[b] = 0 /\ usuario[b] = NINGUEM /\ carregando[b]
      BY <2>5 DEF AbaNova
    <3>2. pc[b]["entrada"] = "fora"
      BY <2>1, <2>5, <3>1 DEF Carregam, Carrega
    <3> QED BY <2>1, <2>2, <2>5, <3>1, <3>2, OsFluxos DEF Primeira, NosFluxos
  <2>6. CASE ~(b = a /\ f = "inicio")
    <3>1. f # "entrada"
      BY <2>4, OsFluxos
    <3>2. /\ pc'[b]["inicio"] = pc[b]["inicio"] /\ etapa'[b]["inicio"] = etapa[b]["inicio"]
          /\ pc'[b]["entrada"] = pc[b]["entrada"]
      BY <2>2, <2>6, <3>1, OsFluxos DEF NosFluxos
    <3> QED BY <2>1, <2>3, <3>2, PrimeiraParada
  <2> QED BY <2>4, <2>5, <2>6, OsFluxos
<1>2. ASSUME UNCHANGED <<pc, etapa, usuario, cruzada>> PROVE Primeira(b)'
  BY <1>2, PrimeiraParada DEF Primeiras
<1>3. ASSUME NEW a \in Abas, NEW f \in Fluxos, LerSessao(a, f) \/ GravarSessao(a, f)
      PROVE  Primeira(b)'
  BY <1>2, <1>3 DEF LerSessao, GravarSessao, abaVars, historiaVars
<1>4. ASSUME NEW a \in Abas, NEW f \in Fluxos, RenovarDeuCerto(a, f) PROVE Primeira(b)'
  <2>1. /\ FazCerto(a, f) /\ Espera(a, f) /\ EmVoo(a, f)
        /\ cruzada \ {a} \subseteq cruzada'
    <3>1. cruzada' = Restantes(a, f) \cup Ultrapassadas(Abas \ {a})
      BY <1>4 DEF RenovarDeuCerto
    <3>2. cruzada \ {a} \subseteq Restantes(a, f)
      BY DEF Restantes
    <3> QED BY <1>4, <3>1, <3>2, EfeitoDeuCerto, DeuCertoMantem DEF Base
  <2>2. CASE b = a
    <3>1. \A g \in Fluxos : pc'[a][g] # "token"
      BY <2>1, QuemEspera DEF FazCerto, Soltar, Espera
    <3> QED BY <2>2, <3>1, OsFluxos, SemToken
  <2>3. CASE b # a
    <3>1. Primeira(b)
      BY <2>1, <2>3 DEF Primeiras
    <3>2. /\ \A g \in Fluxos : pc'[b][g] = pc[b][g]
          /\ UNCHANGED <<usuario, etapa>>
      BY <2>1, <2>3 DEF FazCerto, Soltar
    <3> QED BY <3>1, <3>2, OsFluxos, PrimeiraParada
  <2> QED BY <2>2, <2>3
<1>5. ASSUME NEW a \in Abas, NEW f \in Fluxos, RenovarFalhou(a, f) PROVE Primeira(b)'
  <2>1. /\ Soltar(a, f, "fora")
        /\ NosFluxos(etapa, etapa', a, Depois(a, f), "nada")
        /\ Rejeitar(a, Depois(a, f), Depois(a, f) # {})
        /\ cruzada' = Restantes(a, f)
    <3>1. Soltar(a, f, "fora")
      BY <1>5, EfeitoFalhou DEF Base
    <3>2. /\ NosFluxos(etapa, etapa', a, Depois(a, f), "nada")
          /\ Rejeitar(a, Depois(a, f), Depois(a, f) # {})
      BY <1>5, EfeitoFalhou DEF Base
    <3>3. cruzada' = Restantes(a, f)
      BY <1>5 DEF RenovarFalhou
    <3> QED BY <3>1, <3>2, <3>3
  <2>2. Espera(a, f) /\ EmVoo(a, f)
    BY <1>5, FalhouMantem
  <2>3. CASE b = a
    <3>1. \A g \in Fluxos : pc'[a][g] # "token"
      BY <2>1, <2>2, QuemEspera DEF Espera, Soltar
    <3> QED BY <2>3, <3>1, OsFluxos, SemToken
  <2>4. CASE b # a
    <3>1. Primeira(b)
      BY <2>1, <2>4 DEF Primeiras, Restantes
    <3>2. \A g \in Fluxos : pc'[b][g] = pc[b][g] /\ etapa'[b][g] = etapa[b][g]
      BY <2>1, <2>4 DEF NosFluxos, Soltar
    <3>3. usuario[b] = NINGUEM => usuario'[b] = NINGUEM
      BY <2>1, RejeitarNinguem
    <3> QED BY <3>1, <3>2, <3>3, OsFluxos, PrimeiraParada
  <2> QED BY <2>3, <2>4
<1>6. ASSUME NEW a \in Abas, NEW f \in Fluxos, Aceitou(a, f) PROVE Primeira(b)'
  <2>1. /\ pc[a][f] \in {"ida", "ida2"}
        /\ NaAba(usuario, usuario', a,
                 IF etapa[a][f] = "me" THEN dono[cred[a][f]] ELSE usuario[a])
        /\ NosFluxos(pc, pc', a, {f}, "fora")
        /\ NosFluxos(etapa, etapa', a, {f}, "nada")
        /\ cruzada' = cruzada
    BY <1>6, EfeitoAceitou DEF Base
  <2>2. Primeira(b)
    BY <2>1 DEF Primeiras
  <2>3. CASE b = a /\ etapa[a][f] = "me"
    <3>1. f = "inicio" \/ f = "entrada"
      BY <2>3 DEF Base, Etapas, Fluxos
    <3> QED BY <2>1, <2>2, <2>3, <3>1, OsFluxos DEF Primeira, NosFluxos
  <2>4. CASE ~(b = a /\ etapa[a][f] = "me")
    <3>1. usuario'[b] = usuario[b]
      BY <2>1, <2>4 DEF NaAba
    <3>2. /\ pc'[b]["inicio"] \in {"fora", pc[b]["inicio"]}
          /\ pc'[b]["entrada"] \in {"fora", pc[b]["entrada"]}
          /\ etapa'[b]["inicio"] \in {"nada", etapa[b]["inicio"]}
      BY <2>1, OsFluxos DEF NosFluxos
    <3> QED BY <2>2, <3>1, <3>2, PrimeiraParada
  <2> QED BY <2>3, <2>4
<1>7. ASSUME NEW a \in Abas, NEW f \in Fluxos, Recomeca(a, f) PROVE Primeira(b)'
  <2>1. /\ pc[a][f] = "ida" /\ EsperarRenovacao(a, f, "espera", cookie)
        /\ UNCHANGED <<usuario, etapa, cruzada>>
    BY <1>7, EfeitoRecomeca DEF Base
  <2>2. NosFluxos(pc, pc', a, {f}, "espera")
    BY <1>0, <2>1, EsperarCoerente
  <2>3. /\ pc'[b]["inicio"] \in {"espera", pc[b]["inicio"]}
        /\ pc[b]["entrada"] = "fora" => pc'[b]["entrada"] = "fora"
    BY <2>1, <2>2, OsFluxos DEF NosFluxos
  <2> QED BY <2>1, <2>3, PrimeiraParada DEF Primeiras
<1>8. ASSUME NEW a \in Abas, NEW f \in Fluxos, Desiste(a, f) PROVE Primeira(b)'
  <2>1. /\ Rejeitar(a, {f}, FALSE)
        /\ NosFluxos(pc, pc', a, {f}, "fora")
        /\ NosFluxos(etapa, etapa', a, {f}, "nada")
        /\ cruzada' = cruzada
    BY <1>8, EfeitoDesiste DEF Base
  <2>2. usuario[b] = NINGUEM => usuario'[b] = NINGUEM
    BY <2>1, RejeitarNinguem
  <2>3. /\ pc'[b]["inicio"] \in {"fora", pc[b]["inicio"]}
        /\ pc'[b]["entrada"] \in {"fora", pc[b]["entrada"]}
        /\ etapa'[b]["inicio"] \in {"nada", etapa[b]["inicio"]}
    BY <2>1, OsFluxos DEF NosFluxos
  <2> QED BY <2>1, <2>2, <2>3, PrimeiraParada DEF Primeiras
<1>9. ASSUME NEW a \in Abas, IniciarAceito(a) PROVE Primeira(b)'
  <2> DEFINE novo == chamada[a]["inicio"].tok
  <2>1. /\ novo \in Sessoes
        /\ Pedir(a, "inicio", "me", novo)
        /\ cruzada \subseteq cruzada'
        /\ UNCHANGED usuario
    BY <1>9, EfeitoIniciarAceito DEF Base
  <2>2. novo \in Numeros /\ "me" \in Alvos
    BY <2>1 DEF Numeros, Alvos
  <2> HIDE DEF novo
  <2>3. /\ NosFluxos(etapa, etapa', a, {"inicio"}, "me")
        /\ \E p \in {"token", "ida"} : NosFluxos(pc, pc', a, {"inicio"}, p)
    <3>1. "inicio" \in Fluxos
      BY OsFluxos
    <3> QED BY <2>1, <2>2, <3>1, PedirCoerente
  <2>4. CASE b = a
    BY <2>3, <2>4, OsFluxos DEF Primeira, NosFluxos
  <2>5. CASE b # a
    <3>1. /\ pc'[b]["inicio"] = pc[b]["inicio"] /\ etapa'[b]["inicio"] = etapa[b]["inicio"]
          /\ pc'[b]["entrada"] = pc[b]["entrada"]
      BY <2>3, <2>5, OsFluxos DEF NosFluxos
    <3> QED BY <2>1, <3>1, PrimeiraParada DEF Primeiras
  <2> QED BY <2>4, <2>5
<1>10. ASSUME NEW a \in Abas, NEW u \in Usuarios, AbrirSessao(a, u) PROVE Primeira(b)'
  <2>1. /\ NosFluxos(pc, pc', a, {"entrada"}, "ida")
        /\ cruzada' = cruzada \cup Ultrapassadas(Abas)
    BY <1>10, EfeitoAbrir DEF Base
  <2>2. \A g \in Fluxos : ~EmVoo(b, g)
    BY <2>1 DEF Ultrapassadas
  <2>3. promessa[b] \in Fluxos \cup {NINGUEM}
    BY DEF Base, Tipos, TipoAbas
  <2>4. ~Espera(b, "inicio")
    BY <2>2, <2>3, OsFluxos DEF Base, Promessas
  <2>5. pc'[b]["inicio"] = pc[b]["inicio"]
    BY <2>1, OsFluxos DEF NosFluxos
  <2> QED BY <2>4, <2>5, SemToken DEF Espera
<1>11. ASSUME NEW a \in Abas, VoltarAoLogin(a) \/ \E u \in Usuarios : PedirCodigo(a, u)
       PROVE  Primeira(b)'
  BY <1>2, <1>11, EfeitoCodigo DEF Base
<1>12. ASSUME NEW a \in Abas, Sair(a) PROVE Primeira(b)'
  <2>1. /\ NaAba(usuario, usuario', a, NINGUEM)
        /\ UNCHANGED <<pc, etapa, cruzada>>
    BY <1>12, EfeitoSair DEF Base
  <2> QED BY <2>1, PrimeiraParada DEF Primeiras, NaAba
<1>13. ASSUME NEW a \in Abas, Recarregar(a) PROVE Primeira(b)'
  <2>1. /\ NaAba(usuario, usuario', a, NINGUEM)
        /\ NosFluxos(pc, pc', a, Fluxos, "fora")
        /\ NosFluxos(etapa, etapa', a, Fluxos, "nada")
        /\ cruzada' = cruzada \ {a}
    BY <1>13, EfeitoRecarregar DEF Base
  <2>2. CASE b = a
    BY <2>1, <2>2, OsFluxos, SemToken DEF NosFluxos
  <2>3. CASE b # a
    <3>1. Primeira(b)
      BY <2>1, <2>3 DEF Primeiras
    <3>2. \A g \in Fluxos : pc'[b][g] = pc[b][g] /\ etapa'[b][g] = etapa[b][g]
      BY <2>1, <2>3 DEF NosFluxos
    <3> QED BY <2>1, <2>3, <3>1, <3>2, OsFluxos, PrimeiraParada DEF NaAba
  <2> QED BY <2>2, <2>3
<1>14. ASSUME NEW s \in Sessoes, Vencer(s) PROVE Primeira(b)'
  BY <1>2, <1>14, EfeitoVencer DEF Base
<1>15. CASE UNCHANGED vars
  BY <1>2, <1>15 DEF vars, abaVars, navegacaoVars, historiaVars
<1>16. CASE Next
  BY <1>1, <1>3, <1>4, <1>5, <1>6, <1>7, <1>8, <1>9, <1>10, <1>11, <1>12, <1>13, <1>14,
     <1>16, Passos DEF Passo
<1> QED BY <1>15, <1>16

LEMMA CarregaParada ==
  ASSUME NEW b \in Abas, Carrega(b), carregando'[b] => carregando[b],
         token[b] # 0 => token'[b] # 0,
         \A g \in Fluxos : pc'[b][g] = "fora" <=> pc[b][g] = "fora"
  PROVE  Carrega(b)'
BY OsFluxos DEF Carrega

\* While a tab says "Carregando" nothing but init and a form runs in it.
LEMMA QuemCarrega ==
  ASSUME Base, NEW b \in Abas, Carrega(b), carregando[b], NEW f \in Fluxos,
         pc[b][f] # "fora"
  PROVE  etapa[b][f] \in {"me", "refresh"}
<1>1. f \notin Pedidos
  BY DEF Carrega
<1>2. f = "inicio" \/ f = "entrada"
  BY <1>1 DEF Fluxos
<1>3. etapa[b][f] \in Alvos /\ etapa[b][f] # "nada"
  BY DEF Base, Etapas, Tipos, TipoPontos
<1> QED BY <1>2, <1>3 DEF Base, Etapas, Alvos

LEMMA CarregamMantem == Base /\ Carregam /\ [Next]_vars => Carregam'
<1> SUFFICES ASSUME Base, Carregam, [Next]_vars, NEW b \in Abas
             PROVE  Carrega(b)'
  BY DEF Carregam
<1>0. cookie \in Numeros /\ Carrega(b)
  BY DEF Base, Tipos, TipoServidor, Carregam
<1>1. ASSUME NEW a \in Abas, NEW f \in Fluxos, NEW alvo \in Alvos, Comeca(a, f, alvo)
      PROVE  Carrega(b)'
  <2>1. /\ Pedir(a, f, alvo, cookie) /\ pc[a][f] = "fora"
        /\ UNCHANGED <<token, carregando>>
    BY <1>1 DEF Comeca
  <2>2. \E p \in {"token", "ida"} : NosFluxos(pc, pc', a, {f}, p)
    BY <1>0, <2>1, PedirCoerente
  <2>3. f = "inicio" \/ (f \in Pedidos /\ NaPagina(a))
    BY <1>1 DEF Comeca
  <2>4. CASE b # a
    BY <1>0, <2>1, <2>2, <2>4, CarregaParada DEF NosFluxos
  <2>5. CASE b = a /\ f = "inicio"
    <3>1. /\ pc'[b]["inicio"] # "fora"
          /\ \A p \in Pedidos : pc'[b][p] = pc[b][p]
      BY <2>2, <2>5, OsFluxos DEF NosFluxos
    <3> QED BY <1>0, <2>1, <3>1 DEF Carrega
  <2>6. CASE b = a /\ NaPagina(a)
    BY <2>1, <2>6 DEF Carrega, NaPagina
  <2> QED BY <2>3, <2>4, <2>5, <2>6
<1>2. ASSUME UNCHANGED <<pc, token, carregando>> PROVE Carrega(b)'
  BY <1>0, <1>2, CarregaParada
<1>3. ASSUME NEW a \in Abas, NEW f \in Fluxos, LerSessao(a, f) \/ GravarSessao(a, f)
      PROVE  Carrega(b)'
  BY <1>2, <1>3 DEF LerSessao, GravarSessao, abaVars
<1>4. ASSUME NEW a \in Abas, NEW f \in Fluxos, RenovarDeuCerto(a, f) PROVE Carrega(b)'
  <2>1. FazCerto(a, f)
    BY <1>4, EfeitoDeuCerto DEF Base
  <2>2. token[b] # 0 => token'[b] # 0
    BY <2>1 DEF FazCerto, NaAba
  <2>3. \A g \in Antes(a, f) \cup Depois(a, f) : pc[a][g] # "fora"
    BY DEF Antes, Depois, Quem
  <2>4. \A g \in Fluxos : pc'[b][g] = "fora" <=> pc[b][g] = "fora"
    BY <2>1, <2>3 DEF FazCerto, Soltar
  <2>5. carregando' = carregando
    BY <2>1 DEF FazCerto
  <2> QED BY <1>0, <2>2, <2>4, <2>5, CarregaParada
<1>5. ASSUME NEW a \in Abas, NEW f \in Fluxos, RenovarFalhou(a, f) PROVE Carrega(b)'
  <2> DEFINE D == Depois(a, f)
  <2>1. Soltar(a, f, "fora") /\ Rejeitar(a, D, D # {})
    BY <1>5, EfeitoFalhou DEF Base
  <2>2. /\ NaAba(token, token', a, IF Perde(a, D, D # {}) THEN 0 ELSE token[a])
        /\ \A c \in Abas : carregando'[c] => carregando[c]
        /\ carregando'[a] => \A g \in D : etapa[a][g] \notin {"me", "refresh"}
    BY <2>1, EfeitoRejeitar DEF Base, Tipos
  <2>3. \A g \in Antes(a, f) \cup D : g \in Fluxos /\ pc[a][g] # "fora"
    BY DEF Antes, Depois, Quem
  <2>4. CASE b = a /\ carregando'[a]
    <3>1. D = {}
      BY <1>0, <2>2, <2>3, <2>4, QuemCarrega
    <3>2. token'[b] = token[b]
      BY <2>2, <2>4, <3>1 DEF NaAba, Perde
    <3>3. \A g \in Fluxos : pc'[b][g] = "fora" <=> pc[b][g] = "fora"
      BY <2>1, <2>3, <2>4, <3>1 DEF Soltar
    <3> QED BY <1>0, <2>2, <2>4, <3>2, <3>3, CarregaParada
  <2>5. CASE b = a /\ ~carregando'[a]
    BY <2>5 DEF Carrega
  <2>6. CASE b # a
    <3>1. token'[b] = token[b]
      BY <2>2, <2>6 DEF NaAba
    <3>2. \A g \in Fluxos : pc'[b][g] = pc[b][g]
      BY <2>1, <2>6 DEF Soltar
    <3> QED BY <1>0, <2>2, <3>1, <3>2, CarregaParada
  <2> QED BY <2>4, <2>5, <2>6
<1>6. ASSUME NEW a \in Abas, NEW f \in Fluxos, Aceitou(a, f) PROVE Carrega(b)'
  <2>1. /\ pc[a][f] \in {"ida", "ida2"} /\ etapa[a][f] \in {"me", "dados"}
        /\ \A c \in Abas : carregando'[c] => carregando[c]
        /\ carregando'[a] => etapa[a][f] # "me"
        /\ NosFluxos(pc, pc', a, {f}, "fora")
        /\ token' = token
    BY <1>6, EfeitoAceitou DEF Base
  <2>2. CASE b = a
    <3>1. ~carregando'[a]
      BY <1>0, <2>1, <2>2, QuemCarrega
    <3> QED BY <2>2, <3>1 DEF Carrega
  <2>3. CASE b # a
    BY <1>0, <2>1, <2>3, CarregaParada DEF NosFluxos
  <2> QED BY <2>2, <2>3
<1>7. ASSUME NEW a \in Abas, NEW f \in Fluxos, Recomeca(a, f) PROVE Carrega(b)'
  <2>1. /\ pc[a][f] = "ida" /\ EsperarRenovacao(a, f, "espera", cookie)
        /\ UNCHANGED <<token, carregando>>
    BY <1>7, EfeitoRecomeca DEF Base
  <2>2. NosFluxos(pc, pc', a, {f}, "espera")
    BY <1>0, <2>1, EsperarCoerente
  <2> QED BY <1>0, <2>1, <2>2, CarregaParada DEF NosFluxos
<1>8. ASSUME NEW a \in Abas, NEW f \in Fluxos, Desiste(a, f) PROVE Carrega(b)'
  <2>1. /\ pc[a][f] \in {"ida", "ida2"} /\ Rejeitar(a, {f}, FALSE)
        /\ NosFluxos(pc, pc', a, {f}, "fora")
    BY <1>8, EfeitoDesiste DEF Base
  <2>2. /\ NaAba(token, token', a, IF Perde(a, {f}, FALSE) THEN 0 ELSE token[a])
        /\ \A c \in Abas : carregando'[c] => carregando[c]
        /\ carregando'[a] => \A g \in {f} : etapa[a][g] \notin {"me", "refresh"}
    BY <2>1, EfeitoRejeitar DEF Base, Tipos
  <2>3. CASE b = a
    <3>1. ~carregando'[a]
      BY <1>0, <2>1, <2>2, <2>3, QuemCarrega
    <3> QED BY <2>3, <3>1 DEF Carrega
  <2>4. CASE b # a
    BY <1>0, <2>1, <2>2, <2>4, CarregaParada DEF NosFluxos, NaAba
  <2> QED BY <2>3, <2>4
<1>9. ASSUME NEW a \in Abas, IniciarAceito(a) PROVE Carrega(b)'
  <2> DEFINE novo == chamada[a]["inicio"].tok
  <2>1. /\ novo \in Sessoes /\ pc[a]["inicio"] \in {"ida", "ida2"}
        /\ Pedir(a, "inicio", "me", novo)
        /\ UNCHANGED <<token, carregando>>
    BY <1>9, EfeitoIniciarAceito DEF Base
  <2>2. novo \in Numeros /\ "me" \in Alvos /\ "inicio" \in Fluxos
    BY <2>1, OsFluxos DEF Numeros, Alvos
  <2> HIDE DEF novo
  <2>3. \E p \in {"token", "ida"} : NosFluxos(pc, pc', a, {"inicio"}, p)
    BY <2>1, <2>2, PedirCoerente
  <2> QED BY <1>0, <2>1, <2>3, CarregaParada DEF NosFluxos
<1>10. ASSUME NEW a \in Abas, NEW u \in Usuarios, AbrirSessao(a, u) PROVE Carrega(b)'
  <2>1. /\ NaAba(token, token', a, Proxima)
        /\ NosFluxos(pc, pc', a, {"entrada"}, "ida")
        /\ Emitir(u, {})
        /\ carregando' = carregando
    BY <1>10, EfeitoAbrir DEF Base
  <2>2. Proxima # 0
    BY <2>1, EmitirMantem
  <2>3. CASE b = a
    <3>1. /\ token'[b] # 0
          /\ \A p \in Pedidos : pc'[b][p] = pc[b][p]
      BY <2>1, <2>2, <2>3, OsFluxos DEF NaAba, NosFluxos
    <3> QED BY <1>0, <2>1, <3>1 DEF Carrega
  <2>4. CASE b # a
    BY <1>0, <2>1, <2>4, CarregaParada DEF NaAba, NosFluxos
  <2> QED BY <2>3, <2>4
<1>11. ASSUME NEW a \in Abas, VoltarAoLogin(a) \/ \E u \in Usuarios : PedirCodigo(a, u)
       PROVE  Carrega(b)'
  BY <1>2, <1>11, EfeitoCodigo DEF Base
<1>12. ASSUME NEW a \in Abas, Sair(a) PROVE Carrega(b)'
  <2>1. /\ carregando[a] = FALSE /\ NaAba(token, token', a, 0)
        /\ UNCHANGED <<carregando, pc>>
    BY <1>12, EfeitoSair DEF Base
  <2>2. CASE b = a
    BY <2>1, <2>2 DEF Carrega
  <2>3. CASE b # a
    BY <1>0, <2>1, <2>3, CarregaParada DEF NaAba
  <2> QED BY <2>2, <2>3
<1>13. ASSUME NEW a \in Abas, Recarregar(a) PROVE Carrega(b)'
  <2>1. /\ NaAba(token, token', a, 0)
        /\ \A c \in Abas \ {a} : carregando'[c] = carregando[c]
        /\ NosFluxos(pc, pc', a, Fluxos, "fora")
    BY <1>13, EfeitoRecarregar DEF Base
  <2>2. CASE b = a
    BY <2>1, <2>2, OsFluxos DEF Carrega, NosFluxos
  <2>3. CASE b # a
    BY <1>0, <2>1, <2>3, CarregaParada DEF NaAba, NosFluxos
  <2> QED BY <2>2, <2>3
<1>14. ASSUME NEW s \in Sessoes, Vencer(s) PROVE Carrega(b)'
  BY <1>2, <1>14, EfeitoVencer DEF Base
<1>15. CASE UNCHANGED vars
  BY <1>2, <1>15 DEF vars, abaVars, navegacaoVars
<1>16. CASE Next
  BY <1>1, <1>3, <1>4, <1>5, <1>6, <1>7, <1>8, <1>9, <1>10, <1>11, <1>12, <1>13, <1>14,
     <1>16, Passos DEF Passo
<1> QED BY <1>15, <1>16

-----------------------------------------------------------------------------
Renovacoes == Frescas /\ Primeiras /\ Carregam

LEMMA RenovacoesNoInicio == Init => Renovacoes
<1> SUFFICES ASSUME Init PROVE Renovacoes
  OBVIOUS
<1>1. Frescas
  BY OsFluxos DEF Init, Frescas, Fresca
<1>2. Primeiras /\ Carregam
  BY OsFluxos DEF Init, Primeiras, Primeira, Carregam, Carrega
<1> QED BY <1>1, <1>2 DEF Renovacoes

\* A tab loses its user in one of four ways.
Perda(a) ==
  PerdeuUsuario(a) => \/ Saiu(a)
                      \/ cookie \notin ativa
                      \/ a \in cruzada
                      \/ RedeCaiu(a)

LEMMA SemPerda == ASSUME NEW b, usuario'[b] = usuario[b] PROVE Perda(b)
BY DEF Perda, PerdeuUsuario

\* A renewal that fails without the network's help finds the session gone.
LEMMA PerdaPorFalha ==
  ASSUME Base, Renovacoes, NEW a \in Abas, NEW f \in Fluxos, RenovarFalhou(a, f),
         PerdeuUsuario(a), a \notin cruzada
  PROVE  cookie \notin ativa \/ RedeCaiu(a)
<1>1. EmVoo(a, f) /\ DepoisDe(a, f, Antes(a, f), cookie)
  BY EfeitoFalhou DEF Base
<1>2. promessa[a] = f
  BY FalhouMantem, QuemEspera
<1>3. CASE chamada[a][f] = [fase |-> "feita", tok |-> 0]
  BY <1>2, <1>3 DEF Renovacoes, Frescas, Fresca
<1>4. CASE chamada[a][f] # [fase |-> "feita", tok |-> 0]
  <2>1. ~Reenvia(a, f, Antes(a, f))
    BY DEF Reenvia, Antes, Quem, Renovacoes, Primeiras, Primeira, PerdeuUsuario
  <2>2. cookie \in Numeros
    BY DEF Base, Tipos, TipoServidor
  <2>3. chamada'[a][f] = IF a # a THEN chamada[a][f]
                         ELSE IF f = "inicio" /\ Reenvia(a, f, Antes(a, f))
                                THEN [fase |-> "enviada", tok |-> cookie]
                         ELSE IF f = f THEN SemChamada ELSE chamada[a][f]
    BY <1>1, <2>2, EfeitoDepois DEF Base, Tipos
  <2>4. chamada'[a][f].fase = "nao"
    BY <2>1, <2>3 DEF SemChamada
  <2> QED BY <1>1, <1>4, <2>4 DEF RedeCaiu
<1> QED BY <1>3, <1>4

LEMMA PerdaJustificada ==
  ASSUME Base, Renovacoes, Next, NEW b \in Abas
  PROVE  Perda(b)
<1>1. ASSUME NEW a \in Abas, NEW f \in Fluxos,
             \/ \E alvo \in Alvos : Comeca(a, f, alvo)
             \/ LerSessao(a, f) \/ GravarSessao(a, f) \/ RenovarDeuCerto(a, f)
             \/ Recomeca(a, f)
      PROVE  Perda(b)
  <2>1. usuario' = usuario
    BY <1>1 DEF Comeca, LerSessao, GravarSessao, RenovarDeuCerto, Recomeca, abaVars
  <2> QED BY <2>1, SemPerda
<1>2. ASSUME NEW a \in Abas, NEW f \in Fluxos, RenovarFalhou(a, f) PROVE Perda(b)
  <2>1. CASE b = a
    BY <1>2, <2>1, PerdaPorFalha DEF Perda
  <2>2. CASE b # a
    <3>1. Rejeitar(a, Depois(a, f), Depois(a, f) # {})
      BY <1>2, EfeitoFalhou DEF Base
    <3>2. usuario'[b] = usuario[b]
      BY <2>2, <3>1 DEF Rejeitar, Base, Tipos, TipoAbas
    <3> QED BY <3>2, SemPerda
  <2> QED BY <2>1, <2>2
<1>3. ASSUME NEW a \in Abas, NEW f \in Fluxos, Aceitou(a, f) PROVE Perda(b)
  <2>1. /\ cred[a][f] \in Sessoes
        /\ NaAba(usuario, usuario', a,
                 IF etapa[a][f] = "me" THEN dono[cred[a][f]] ELSE usuario[a])
    BY <1>3, EfeitoAceitou DEF Base
  <2>2. cred[a][f] \in 1..emitidas
    BY <2>1 DEF Base, Numeracao, Usada, Tipos, TipoServidor, Sessoes
  <2>3. dono[cred[a][f]] # NINGUEM
    BY <2>2, SessaoClienteAssumption DEF Base, Numeracao
  <2> QED BY <2>1, <2>3 DEF Perda, PerdeuUsuario, NaAba
<1>4. ASSUME NEW a \in Abas, NEW f \in Fluxos, Desiste(a, f) PROVE Perda(b)
  <2>1. /\ Rejeitar(a, {f}, FALSE)
        /\ NosFluxos(pc, pc', a, {f}, "fora")
    BY <1>4, EfeitoDesiste DEF Base
  <2>2. NaAba(usuario, usuario', a,
              IF Perde(a, {f}, FALSE) THEN NINGUEM ELSE usuario[a])
    BY <2>1, EfeitoRejeitar DEF Base, Tipos
  <2>3. CASE b = a /\ Perde(a, {f}, FALSE)
    BY <2>1, <2>3 DEF Perda, Perde, RedeCaiu, NosFluxos
  <2>4. CASE ~(b = a /\ Perde(a, {f}, FALSE))
    BY <2>2, <2>4, SemPerda DEF NaAba
  <2> QED BY <2>3, <2>4
<1>5. ASSUME NEW a \in Abas,
             \/ IniciarAceito(a)
             \/ \E u \in Usuarios : AbrirSessao(a, u)
             \/ VoltarAoLogin(a) \/ \E u \in Usuarios : PedirCodigo(a, u)
      PROVE  Perda(b)
  <2>1. usuario' = usuario
    BY <1>5 DEF IniciarAceito, AbrirSessao, VoltarAoLogin, PedirCodigo
  <2> QED BY <2>1, SemPerda
<1>6. ASSUME NEW a \in Abas, Sair(a) PROVE Perda(b)
  BY <1>6 DEF Sair, navegacaoVars, Perda, PerdeuUsuario, Saiu
<1>7. ASSUME NEW a \in Abas, Recarregar(a) PROVE Perda(b)
  <2>1. carregando'[a] = TRUE /\ NaAba(usuario, usuario', a, NINGUEM)
    BY <1>7, EfeitoRecarregar DEF Base
  <2> QED BY <2>1 DEF Perda, PerdeuUsuario, NaAba
<1>8. ASSUME NEW s \in Sessoes, Vencer(s) PROVE Perda(b)
  BY <1>8, EfeitoVencer, SemPerda DEF Base
<1> QED BY <1>1, <1>2, <1>3, <1>4, <1>5, <1>6, <1>7, <1>8, Passos DEF Passo

\* A tab does not sign its user out of a session that could be renewed: unless
\* another answer has overtaken it, a renewal is sent with the session the jar
\* still holds, and whoever waits in the tab waits for that one.
THEOREM SoPerdeSemSessao == Spec => SoSaiSemSessao
<1>1. Base /\ Renovacoes /\ [Next]_vars => Renovacoes'
  BY FrescasMantem, PrimeirasMantem, CarregamMantem DEF Renovacoes
<1>2. Base /\ Renovacoes /\ [Next]_vars => [\A a \in Abas : Perda(a)]_vars
  BY PerdaJustificada
<1>3. [\A a \in Abas : Perda(a)]_vars <=>
      [\A a \in Abas : PerdeuUsuario(a) =>
         \/ Saiu(a)
         \/ cookie \notin ativa
         \/ a \in cruzada
         \/ RedeCaiu(a)]_vars
  BY DEF Perda
<1> QED BY <1>1, <1>2, <1>3, BaseNoInicio, BaseMantem, RenovacoesNoInicio, PTL
        DEF Spec, SoSaiSemSessao
=============================================================================
