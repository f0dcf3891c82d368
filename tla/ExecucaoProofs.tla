--------------------------- MODULE ExecucaoProofs ---------------------------
(***************************************************************************)
(* Proofs about executions, requests, jobs and the account they share, for *)
(* any number of each, any costs and any of the events of TodosEventos.    *)
(***************************************************************************)
EXTENDS Execucao, Lemas, FiniteSetTheorems

-----------------------------------------------------------------------------
(* Typing, in the parts that the frames of the actions follow. *)

Donos == Execucoes \cup Pedidos \cup Jobs \cup {NINGUEM}
DonosDeLinha == Pedidos \cup Jobs \cup {NINGUEM, AGENDADOR}
Status == NaoTerminais \cup Terminais \cup {"invisivel"}

TipoTravas == trava \in Donos /\ linha \in [Execucoes -> DonosDeLinha]

TipoBanco ==
  /\ conta \in ContaValida
  /\ status \in [Execucoes -> Status]
  /\ job_id \in [Execucoes -> Jobs \cup {NINGUEM}]
  /\ debitos \in [Execucoes -> Nat]

TipoAgenda == abandonadas \subseteq Execucoes /\ varredura \subseteq Execucoes

TipoCriacao == cpc \in [Execucoes -> {"nova", "reservada", "enfileirada", "fim"}]

TipoPedidos ==
  /\ rpc \in [Pedidos -> {"livre", "conta", "linha", "abortar", "esperar",
                          "aprovar", "gravar", "fim"}]
  /\ rexec \in [Pedidos -> Execucoes \cup {NINGUEM}]
  /\ rjob \in [Pedidos -> Jobs \cup {NINGUEM}]

TipoJobs ==
  /\ jpc \in [Jobs -> Pausados \cup Rodando]
  /\ jexec \in [Jobs -> Execucoes \cup {NINGUEM}]
  /\ jtipo \in [Jobs -> {"inicio", "retomada"}]
  /\ jtent \in [Jobs -> 0..MaxTentativas]
  /\ jabort \in [Jobs -> BOOLEAN]
  /\ jvolta \in [Jobs -> BOOLEAN]

LEMMA TypeOKEmPartes ==
  TypeOK <=> /\ TipoTravas /\ TipoBanco /\ TipoAgenda
             /\ TipoCriacao /\ TipoPedidos /\ TipoJobs
BY DEF TypeOK, TipoTravas, TipoBanco, TipoAgenda, TipoCriacao, TipoPedidos,
       TipoJobs, Donos, DonosDeLinha, Status

LEMMA TypeOKEmPartesDepois ==
  TypeOK' <=> /\ TipoTravas' /\ TipoBanco' /\ TipoAgenda'
              /\ TipoCriacao' /\ TipoPedidos' /\ TipoJobs'
BY DEF TypeOK, TipoTravas, TipoBanco, TipoAgenda, TipoCriacao, TipoPedidos,
       TipoJobs, Donos, DonosDeLinha, Status

\* Releasing every lock of a holder.
LEMMA SoltarTipado ==
  ASSUME TipoTravas, NEW x, SoltarTudo(x)
  PROVE  TipoTravas'
BY DEF SoltarTudo, TravaSem, LinhaSem, TipoTravas, Donos, DonosDeLinha

\* Answering a request.
LEMMA ResponderTipado ==
  ASSUME TipoPedidos, NEW r \in Pedidos, Responder(r)
  PROVE  TipoPedidos'
BY DEF Responder, TipoPedidos

\* Enqueuing a job.
LEMMA EnfileirarTipado ==
  ASSUME TipoJobs, NEW j \in Jobs, NEW e \in Execucoes \cup {NINGUEM},
         NEW tipo \in {"inicio", "retomada"}, Enfileirar(j, e, tipo)
  PROVE  TipoJobs'
<1>1. /\ jpc' \in [Jobs -> Pausados \cup Rodando]
      /\ jexec' \in [Jobs -> Execucoes \cup {NINGUEM}]
      /\ jtipo' \in [Jobs -> {"inicio", "retomada"}]
  BY DEF Enfileirar, TipoJobs, Pausados
<1>2. jtent' = jtent /\ jabort' = jabort /\ jvolta' = jvolta
  BY DEF Enfileirar
<1> QED BY <1>1, <1>2 DEF TipoJobs

\* Moving a job, within its function or out of it.
LEMMA IrTipado ==
  ASSUME TipoJobs, NEW j \in Jobs, NEW d \in Pausados \cup Rodando, Ir(j, d)
  PROVE  TipoJobs'
<1>1. jpc' \in [Jobs -> Pausados \cup Rodando]
  BY DEF Ir, TipoJobs
<1> QED BY <1>1 DEF Ir, TipoJobs

LEMMA IrParandoTipado ==
  ASSUME TipoJobs, NEW j \in Jobs, NEW d \in Pausados \cup Rodando, IrParando(j, d)
  PROVE  /\ jpc' \in [Jobs -> Pausados \cup Rodando]
         /\ jtent' \in [Jobs -> 0..MaxTentativas]
         /\ jexec' = jexec /\ jtipo' = jtipo
<1>1. jpc' \in [Jobs -> Pausados \cup Rodando] /\ jexec' = jexec /\ jtipo' = jtipo
  BY DEF IrParando, TipoJobs
<1>2. 0 \in 0..MaxTentativas /\ jtent \in [Jobs -> 0..MaxTentativas]
  BY ExecucaoAssumption DEF TipoJobs
<1>3. jtent' \in [Jobs -> 0..MaxTentativas]
  BY <1>2 DEF IrParando
<1> QED BY <1>1, <1>3

LEMMA PararTipado ==
  ASSUME TipoJobs, NEW j \in Jobs, Parar(j)
  PROVE  TipoJobs'
<1> DEFINE d == IF jvolta[j] THEN "fila" ELSE "fim"
<1>1. d \in Pausados \cup Rodando /\ IrParando(j, d)
  BY DEF Parar, Pausados
<1>2. jvolta' \in [Jobs -> BOOLEAN] /\ jabort' = jabort
  BY DEF Parar, TipoJobs
<1> HIDE DEF d
<1> QED BY <1>1, <1>2, IrParandoTipado DEF TipoJobs

LEMMA InterromperTipado ==
  ASSUME TipoJobs, TipoTravas, NEW j \in Jobs, NEW d \in Pausados \cup Rodando,
         NEW volta \in BOOLEAN, InterromperCom(j, d, volta),
         jabort' \in [Jobs -> BOOLEAN]
  PROVE  TipoJobs' /\ TipoTravas'
<1>1. IrParando(j, d) /\ SoltarTudo(j)
  BY DEF InterromperCom
<1>2. jvolta' \in [Jobs -> BOOLEAN]
  BY DEF InterromperCom, TipoJobs
<1> QED BY <1>1, <1>2, IrParandoTipado, SoltarTipado DEF TipoJobs

LEMMA AoCancelarTipado ==
  ASSUME NEW j \in Jobs
  PROVE  AoCancelar(j) \in {"interrompido", "fim"}
BY DEF AoCancelar

-----------------------------------------------------------------------------
LEMMA TipoInicial == Init => TypeOK
<1> SUFFICES ASSUME Init PROVE TypeOK
  OBVIOUS
<1> USE ExecucaoAssumption DEF Init
<1>1. TipoTravas /\ TipoBanco
  BY DEF TipoTravas, TipoBanco, Donos, DonosDeLinha, Status
<1>2. TipoAgenda /\ TipoCriacao /\ TipoPedidos
  BY DEF TipoAgenda, TipoCriacao, TipoPedidos
<1>3. TipoJobs
  BY DEF TipoJobs, Pausados
<1> QED BY <1>1, <1>2, <1>3, TypeOKEmPartes

\* The credits that a step takes or gives back keep the row within the CHECKs.
LEMMA ContaTipada ==
  ASSUME conta \in ContaValida
  PROVE  /\ Reservar(conta, Reserva) \in ContaValida
         /\ \A n \in Nat : Liberar(conta, n) \in ContaValida
         /\ \A q \in Custos :
              DebitoPassa(q) => Confirmar(conta, Reserva, q) \in ContaValida
BY ExecucaoAssumption, OperadoresTipados DEF DebitoPassa

LEMMA TipoCriar ==
  ASSUME TypeOK, NEW e \in Execucoes, Criar(e)
  PROVE  TypeOK'
<1>0. TipoTravas /\ TipoBanco /\ TipoAgenda /\ TipoCriacao /\ TipoPedidos /\ TipoJobs
  BY TypeOKEmPartes
<1>1. TipoAgenda' /\ TipoPedidos'
  BY <1>0 DEF Criar, CriarReservar, CriarEnfileirar, CriarGravar,
     CriarFalhaFila, CriarFalha, CriarSemResposta,
       CriarCai, agendaVars, pedidoVars, TipoAgenda, TipoPedidos
<1>2. TipoCriacao' /\ TipoTravas'
  BY <1>0 DEF Criar, CriarReservar, CriarEnfileirar, CriarGravar,
     CriarFalhaFila, CriarFalha, CriarSemResposta,
       CriarCai, TipoCriacao, TipoTravas, Donos
<1>3. TipoBanco'
  BY <1>0, ContaTipada
     DEF Criar, CriarReservar, CriarEnfileirar, CriarGravar,
        CriarFalhaFila, CriarFalha, CriarSemResposta,
         CriarCai, TipoBanco, Status, NaoTerminais, Terminais
<1>4. TipoJobs'
  <2>1. CASE \E j \in Jobs : CriarEnfileirar(e, j) \/ CriarSemResposta(e, j)
    BY <1>0, <2>1, EnfileirarTipado DEF CriarEnfileirar, CriarSemResposta
  <2>2. CASE CriarReservar(e) \/ CriarGravar(e) \/ CriarFalhaFila(e) \/ CriarCai(e)
    BY <1>0, <2>2 DEF CriarReservar, CriarGravar, CriarFalhaFila, CriarCai,
         jobVars, TipoJobs
  <2> QED BY <2>1, <2>2 DEF Criar
<1> QED BY <1>0, <1>1, <1>2, <1>3, <1>4, TypeOKEmPartesDepois

LEMMA TipoPedir ==
  ASSUME TypeOK, NEW r \in Pedidos, Pedir(r)
  PROVE  TypeOK'
<1>0. TipoTravas /\ TipoBanco /\ TipoAgenda /\ TipoCriacao /\ TipoPedidos /\ TipoJobs
  BY TypeOKEmPartes
<1>1. TipoTravas' /\ TipoBanco' /\ TipoAgenda' /\ TipoCriacao'
  BY <1>0 DEF Pedir, CancelarLer, AprovarLer, bancoVars, agendaVars, TipoTravas,
       TipoBanco, TipoAgenda, TipoCriacao
<1>2. TipoJobs'
  BY <1>0 DEF Pedir, CancelarLer, AprovarLer, jobVars, TipoJobs
<1>3. TipoPedidos'
  BY <1>0 DEF Pedir, CancelarLer, AprovarLer, TipoPedidos, TipoBanco
<1> QED BY <1>1, <1>2, <1>3, TypeOKEmPartesDepois

LEMMA TipoAtender ==
  ASSUME TypeOK, NEW r \in Pedidos, Atender(r)
  PROVE  TypeOK'
<1>0. TipoTravas /\ TipoBanco /\ TipoAgenda /\ TipoCriacao /\ TipoPedidos /\ TipoJobs
  BY TypeOKEmPartes
<1>1. CASE CancelarTravarConta(r) \/ CancelarTravarLinha(r)
  <2>1. TipoTravas' /\ TipoPedidos'
    BY <1>0, <1>1 DEF CancelarTravarConta, CancelarTravarLinha, TipoTravas,
         TipoPedidos, Donos, DonosDeLinha
  <2>2. TipoBanco' /\ TipoAgenda' /\ TipoCriacao' /\ TipoJobs'
    BY <1>0, <1>1 DEF CancelarTravarConta, CancelarTravarLinha, TipoBanco,
         TipoAgenda, TipoCriacao, TipoJobs, agendaVars, jobVars
  <2> QED BY <2>1, <2>2, TypeOKEmPartesDepois
<1>2. CASE CancelarAbortar(r)
  <2>1. TipoTravas' /\ TipoBanco' /\ TipoAgenda' /\ TipoCriacao'
    BY <1>0, <1>2 DEF CancelarAbortar, bancoVars, agendaVars, TipoTravas,
         TipoBanco, TipoAgenda, TipoCriacao
  <2>2. TipoPedidos'
    BY <1>0, <1>2 DEF CancelarAbortar, TipoPedidos
  <2>3. jabort' \in [Jobs -> BOOLEAN]
    BY <1>0, <1>2 DEF CancelarAbortar, TipoJobs
  <2>4. TipoJobs'
    BY <1>0, <1>2, <2>3 DEF CancelarAbortar, TipoJobs
  <2> QED BY <2>1, <2>2, <2>4, TypeOKEmPartesDepois
<1>3. CASE CancelarGravar(r)
  <2>1. TipoTravas' /\ TipoPedidos'
    BY <1>0, <1>3, SoltarTipado, ResponderTipado DEF CancelarGravar
  <2>2. TipoBanco'
    BY <1>0, <1>3, ContaTipada, ExecucaoAssumption
       DEF CancelarGravar, TipoBanco, Status, Terminais
  <2>3. TipoAgenda' /\ TipoCriacao' /\ TipoJobs'
    BY <1>0, <1>3 DEF CancelarGravar, agendaVars, jobVars, TipoAgenda,
         TipoCriacao, TipoJobs
  <2> QED BY <2>1, <2>2, <2>3, TypeOKEmPartesDepois
<1>4. ASSUME NEW j \in Jobs, AprovarEnfileirar(r, j) PROVE TypeOK'
  <2>1. TipoTravas' /\ TipoBanco' /\ TipoAgenda' /\ TipoCriacao'
    BY <1>0, <1>4 DEF AprovarEnfileirar, bancoVars, agendaVars, TipoTravas,
         TipoBanco, TipoAgenda, TipoCriacao
  <2>2. TipoPedidos'
    BY <1>0, <1>4 DEF AprovarEnfileirar, TipoPedidos
  <2>3. rexec[r] \in Execucoes \cup {NINGUEM} /\ Enfileirar(j, rexec[r], "retomada")
    BY <1>0, <1>4 DEF AprovarEnfileirar, TipoPedidos
  <2>4. TipoJobs'
    BY <1>0, <2>3, EnfileirarTipado
  <2> QED BY <2>1, <2>2, <2>4, TypeOKEmPartesDepois
<1>5. CASE AprovarFalhaFila(r)
  <2>1. TipoPedidos'
    BY <1>0, <1>5, ResponderTipado DEF AprovarFalhaFila
  <2>2. TipoTravas' /\ TipoBanco' /\ TipoAgenda' /\ TipoCriacao' /\ TipoJobs'
    BY <1>0, <1>5 DEF AprovarFalhaFila, bancoVars, agendaVars, jobVars,
         TipoTravas, TipoBanco, TipoAgenda, TipoCriacao, TipoJobs
  <2> QED BY <2>1, <2>2, TypeOKEmPartesDepois
<1>6. CASE AprovarGravar(r)
  <2>1. TipoPedidos'
    BY <1>0, <1>6, ResponderTipado DEF AprovarGravar
  <2>2. TipoBanco'
    BY <1>0, <1>6 DEF AprovarGravar, TipoBanco, TipoPedidos, Status, NaoTerminais
  <2>3. TipoTravas' /\ TipoAgenda' /\ TipoCriacao' /\ TipoJobs'
    BY <1>0, <1>6 DEF AprovarGravar, agendaVars, jobVars, TipoTravas, TipoAgenda,
         TipoCriacao, TipoJobs
  <2> QED BY <2>1, <2>2, <2>3, TypeOKEmPartesDepois
<1>7. CASE RequisicaoCai(r) \/ ImpassePedido(r)
  <2>1. TipoTravas' /\ TipoPedidos'
    BY <1>0, <1>7, SoltarTipado, ResponderTipado DEF RequisicaoCai, ImpassePedido
  <2>2. TipoBanco' /\ TipoAgenda' /\ TipoCriacao' /\ TipoJobs'
    BY <1>0, <1>7 DEF RequisicaoCai, ImpassePedido, agendaVars, jobVars,
         TipoBanco, TipoAgenda, TipoCriacao, TipoJobs
  <2> QED BY <2>1, <2>2, TypeOKEmPartesDepois
<1>8. ASSUME NEW j \in Jobs, AprovarSemResposta(r, j) PROVE TypeOK'
  <2>1. TipoTravas' /\ TipoBanco' /\ TipoAgenda' /\ TipoCriacao'
    BY <1>0, <1>8 DEF AprovarSemResposta, bancoVars, agendaVars, TipoTravas,
         TipoBanco, TipoAgenda, TipoCriacao
  <2>2. TipoPedidos'
    BY <1>0, <1>8, ResponderTipado DEF AprovarSemResposta
  <2>3. rexec[r] \in Execucoes \cup {NINGUEM} /\ Enfileirar(j, rexec[r], "retomada")
    BY <1>0, <1>8 DEF AprovarSemResposta, TipoPedidos
  <2>4. TipoJobs'
    BY <1>0, <2>3, EnfileirarTipado
  <2> QED BY <2>1, <2>2, <2>4, TypeOKEmPartesDepois
<1> QED BY <1>1, <1>2, <1>3, <1>4, <1>5, <1>6, <1>7, <1>8 DEF Atender

\* What a job leaves alone keeps its types.
LEMMA ForaDoJobTipado ==
  ASSUME TypeOK, UNCHANGED foraDoJob
  PROVE  TipoAgenda' /\ TipoCriacao' /\ TipoPedidos'
BY TypeOKEmPartes
   DEF foraDoJob, agendaVars, pedidoVars, TipoAgenda, TipoCriacao, TipoPedidos

LEMMA BancoTipado ==
  ASSUME TypeOK, UNCHANGED bancoVars
  PROVE  TipoBanco' /\ TipoTravas'
BY TypeOKEmPartes DEF bancoVars, TipoBanco, TipoTravas

LEMMA TipoTrabalhar ==
  ASSUME TypeOK, NEW j \in Jobs, Trabalhar(j)
  PROVE  TypeOK'
<1>0. TipoTravas /\ TipoBanco /\ TipoAgenda /\ TipoCriacao /\ TipoPedidos /\ TipoJobs
  BY TypeOKEmPartes
<1>1. CASE Pegar(j)
  <2>1. jtent' \in [Jobs -> 0..MaxTentativas]
    BY <1>0, <1>1, ExecucaoAssumption DEF Pegar, HaTentativa, TipoJobs
  <2>2. jpc' \in [Jobs -> Pausados \cup Rodando]
    BY <1>0, <1>1 DEF Pegar, TipoJobs, Rodando
  <2>3. TipoJobs'
    BY <1>0, <1>1, <2>1, <2>2 DEF Pegar, TipoJobs
  <2>4. UNCHANGED bancoVars /\ UNCHANGED foraDoJob
    BY <1>1 DEF Pegar
  <2> QED BY <2>3, <2>4, BancoTipado, ForaDoJobTipado, TypeOKEmPartesDepois
<1>2. CASE Descartar(j)
  <2>1. "fim" \in Pausados \cup Rodando /\ IrParando(j, "fim")
    BY <1>2 DEF Descartar, Pausados
  <2>2. jabort' \in [Jobs -> BOOLEAN] /\ jvolta' = jvolta
    BY <1>0, <1>2 DEF Descartar, TipoJobs
  <2>3. TipoJobs'
    BY <1>0, <2>1, <2>2, IrParandoTipado DEF TipoJobs
  <2>4. UNCHANGED bancoVars /\ UNCHANGED foraDoJob
    BY <1>2 DEF Descartar
  <2> QED BY <2>3, <2>4, BancoTipado, ForaDoJobTipado, TypeOKEmPartesDepois
<1>3. CASE SemLinha(j) \/ FecharSessao(j)
  <2>1. Parar(j) /\ UNCHANGED bancoVars /\ UNCHANGED foraDoJob
    BY <1>3 DEF SemLinha, FecharSessao
  <2> QED BY <1>0, <2>1, PararTipado, BancoTipado, ForaDoJobTipado,
          TypeOKEmPartesDepois
<1>4. CASE GrafoFim(j) \/ Verificar(j) \/ LerInterrompido(j)
  <2>1. /\ Parar(j) \/ \E d \in {"verificar", "finalizar", "liberar"} : Ir(j, d)
        /\ UNCHANGED bancoVars /\ UNCHANGED foraDoJob
    BY <1>4 DEF GrafoFim, Verificar, LerInterrompido
  <2>2. {"verificar", "finalizar", "liberar"} \subseteq Pausados \cup Rodando
    BY DEF Rodando, NoGrafo
  <2>3. TipoJobs'
    BY <1>0, <2>1, <2>2, PararTipado, IrTipado
  <2> QED BY <2>1, <2>3, BancoTipado, ForaDoJobTipado, TypeOKEmPartesDepois
<1>5. CASE Abrir(j) \/ Retomar(j)
  <2>1. /\ \E d \in {"grafo", "retomar"} : Ir(j, d)
        /\ MarcarExecutando(jexec[j])
        /\ UNCHANGED <<conta, trava, job_id, linha, debitos>>
        /\ UNCHANGED foraDoJob
    BY <1>5 DEF Abrir, Retomar
  <2>2. {"grafo", "retomar"} \subseteq Pausados \cup Rodando
    BY DEF Rodando, NoGrafo
  <2>3. TipoJobs'
    BY <1>0, <2>1, <2>2, IrTipado
  <2>4. TipoBanco' /\ TipoTravas'
    BY <1>0, <2>1 DEF MarcarExecutando, TipoBanco, TipoTravas, Status, NaoTerminais
  <2> QED BY <2>1, <2>3, <2>4, ForaDoJobTipado, TypeOKEmPartesDepois
<1>6. CASE NoInicio(j) \/ NoFim(j) \/ FinalizarLinha(j)
  <2>1. /\ \E d \in {"no", "grafo", "debitar"} : Ir(j, d)
        /\ \/ linha' = LinhaSem(j) \/ linha' = linha
           \/ linha' = [linha EXCEPT ![jexec[j]] = j]
        /\ UNCHANGED <<conta, trava, status, job_id, debitos>>
        /\ UNCHANGED foraDoJob
    BY <1>6 DEF NoInicio, NoFim, FinalizarLinha
  <2>2. {"no", "grafo", "debitar"} \subseteq Pausados \cup Rodando
    BY DEF Rodando, NoGrafo
  <2>3. TipoJobs'
    BY <1>0, <2>1, <2>2, IrTipado
  <2>4. TipoBanco' /\ TipoTravas'
    BY <1>0, <2>1 DEF TipoBanco, TipoTravas, LinhaSem, DonosDeLinha
  <2> QED BY <2>1, <2>3, <2>4, ForaDoJobTipado, TypeOKEmPartesDepois
<1>7. CASE NoMarcarAguardando(j)
  <2>1. "verificar" \in Pausados \cup Rodando
    BY DEF Rodando, NoGrafo
  <2>2. TipoJobs'
    BY <1>0, <1>7, <2>1, IrTipado DEF NoMarcarAguardando
  <2>3. TipoBanco' /\ TipoTravas'
    BY <1>0, <1>7 DEF NoMarcarAguardando, TipoBanco, TipoTravas, LinhaSem,
         DonosDeLinha, Status, NaoTerminais
  <2>4. UNCHANGED foraDoJob
    BY <1>7 DEF NoMarcarAguardando
  <2> QED BY <2>2, <2>3, <2>4, ForaDoJobTipado, TypeOKEmPartesDepois
<1>8. ASSUME NEW q \in Custos, Finalizar(j, q) \/ FinalizarSemSaldo(j, q)
      PROVE  TypeOK'
  <2>1. "fechando" \in Pausados \cup Rodando
    BY DEF Rodando
  <2>2. TipoJobs'
    BY <1>0, <1>8, <2>1, IrTipado DEF Finalizar, FinalizarSemSaldo
  <2>3. conta' \in ContaValida
    BY <1>0, <1>8, ContaTipada, ExecucaoAssumption
       DEF Finalizar, FinalizarSemSaldo, TipoBanco
  <2>4. debitos' \in [Execucoes -> Nat]
    BY <1>0, <1>8 DEF Finalizar, FinalizarSemSaldo, Registrar, TipoBanco
  <2>5. status' \in [Execucoes -> Status] /\ job_id' = job_id
    BY <1>0, <1>8 DEF Finalizar, FinalizarSemSaldo, TipoBanco, Status, Terminais
  <2>6. TipoTravas'
    BY <1>0, <1>8 DEF Finalizar, FinalizarSemSaldo, TipoTravas, LinhaSem, DonosDeLinha
  <2>7. TipoBanco'
    BY <1>0, <2>3, <2>4, <2>5 DEF TipoBanco
  <2>8. UNCHANGED foraDoJob
    BY <1>8 DEF Finalizar, FinalizarSemSaldo
  <2> QED BY <2>2, <2>6, <2>7, <2>8, ForaDoJobTipado, TypeOKEmPartesDepois
<1>9. CASE FalhaConta(j) \/ LiberarConta(j)
  <2>1. /\ \E d \in {"falhaLinha", "liberarLinha"} : Ir(j, d)
        /\ trava' = j
        /\ UNCHANGED <<conta, status, job_id, linha, debitos>>
        /\ UNCHANGED foraDoJob
    BY <1>9 DEF FalhaConta, LiberarConta
  <2>2. {"falhaLinha", "liberarLinha"} \subseteq Pausados \cup Rodando
    BY DEF Rodando
  <2>3. TipoJobs'
    BY <1>0, <2>1, <2>2, IrTipado
  <2>4. TipoBanco' /\ TipoTravas'
    BY <1>0, <2>1 DEF TipoBanco, TipoTravas, Donos
  <2> QED BY <2>1, <2>3, <2>4, ForaDoJobTipado, TypeOKEmPartesDepois
<1>10. CASE FalhaGravar(j) \/ LiberarGravar(j)
  <2>1. PICK d \in {"falhou", "cancelada"} : Devolver(j, d)
    BY <1>10 DEF FalhaGravar, LiberarGravar
  <2>2. TipoJobs'
    BY <1>0, <2>1, PararTipado DEF Devolver
  <2>3. TipoBanco'
    BY <1>0, <2>1, ContaTipada, ExecucaoAssumption
       DEF Devolver, TipoBanco, Status, Terminais
  <2>4. TipoTravas' /\ UNCHANGED foraDoJob
    BY <1>0, <2>1 DEF Devolver, TipoTravas, Donos
  <2> QED BY <2>2, <2>3, <2>4, ForaDoJobTipado, TypeOKEmPartesDepois
<1> QED
  BY <1>1, <1>2, <1>3, <1>4, <1>5, <1>6, <1>7, <1>8, <1>9, <1>10 DEF Trabalhar

\* The job fails into its exception handler, its transaction rolled back.
LEMMA TipoFalhar ==
  ASSUME TypeOK, NEW j \in Jobs, Falhar(j)
  PROVE  TypeOK'
<1>0. TipoTravas /\ TipoBanco /\ TipoJobs
  BY TypeOKEmPartes
<1>1. "falha" \in Pausados \cup Rodando
  BY DEF Rodando
<1>2. TipoJobs' /\ TipoTravas'
  BY <1>0, <1>1, IrTipado, SoltarTipado DEF Falhar
<1>3. TipoBanco' /\ UNCHANGED foraDoJob
  BY <1>0 DEF Falhar, TipoBanco
<1> QED BY <1>2, <1>3, ForaDoJobTipado, TypeOKEmPartesDepois

\* The job is interrupted from outside, whatever it goes to.
LEMMA TipoInterromperCom ==
  ASSUME TypeOK, NEW j \in Jobs, NEW d \in {"interrompido", "fim", "fila"},
         NEW volta \in BOOLEAN, InterromperCom(j, d, volta),
         jabort' \in [Jobs -> BOOLEAN]
  PROVE  TypeOK'
<1>0. TipoTravas /\ TipoBanco /\ TipoJobs
  BY TypeOKEmPartes
<1>1. d \in Pausados \cup Rodando
  BY DEF Pausados, Rodando
<1>2. TipoJobs' /\ TipoTravas'
  BY <1>0, <1>1, InterromperTipado
<1>3. TipoBanco' /\ UNCHANGED foraDoJob
  BY <1>0 DEF InterromperCom, TipoBanco
<1> QED BY <1>2, <1>3, ForaDoJobTipado, TypeOKEmPartesDepois

LEMMA TipoInterromper ==
  ASSUME TypeOK, NEW j \in Jobs, Interromper(j)
  PROVE  TypeOK'
<1>0. TipoTravas /\ TipoBanco /\ TipoJobs
  BY TypeOKEmPartes
<1>1. CASE Erro(j) \/ TempoEsgotado(j) \/ TempoEsgotadoNoCommit(j) \/ ImpasseDebito(j)
  BY <1>1, TipoFalhar DEF Erro, TempoEsgotado, TempoEsgotadoNoCommit, ImpasseDebito
<1>2. CASE Abortar(j) \/ Desligar(j) \/ JobTimeout(j) \/ WorkerCai(j)
  <2>1. jabort' \in [Jobs -> BOOLEAN]
    BY <1>0, <1>2 DEF Abortar, Desligar, JobTimeout, WorkerCai, TipoJobs
  <2>2. \E d \in {"interrompido", "fim", "fila"}, volta \in BOOLEAN :
          InterromperCom(j, d, volta)
    BY <1>2, AoCancelarTipado DEF Abortar, Desligar, JobTimeout, WorkerCai
  <2> QED BY <2>1, <2>2, TipoInterromperCom
<1>3. CASE ImpasseTratador(j)
  <2>1. /\ Parar(j) \/ Ir(j, "falha")
        /\ SoltarTudo(j)
        /\ UNCHANGED <<conta, status, job_id, debitos>>
        /\ UNCHANGED foraDoJob
    BY <1>3 DEF ImpasseTratador
  <2>2. "falha" \in Pausados \cup Rodando
    BY DEF Rodando
  <2>3. TipoJobs' /\ TipoTravas'
    BY <1>0, <2>1, <2>2, PararTipado, IrTipado, SoltarTipado
  <2>4. TipoBanco'
    BY <1>0, <2>1 DEF TipoBanco
  <2> QED BY <2>1, <2>3, <2>4, ForaDoJobTipado, TypeOKEmPartesDepois
<1> QED BY <1>1, <1>2, <1>3 DEF Interromper

LEMMA TipoAgendar ==
  ASSUME TypeOK, Agendar
  PROVE  TypeOK'
<1>0. TipoTravas /\ TipoBanco /\ TipoAgenda /\ TipoCriacao /\ TipoPedidos /\ TipoJobs
  BY TypeOKEmPartes
<1>1. TipoJobs' /\ TipoCriacao' /\ TipoPedidos'
  BY <1>0 DEF Agendar, SanearTravar, SanearGravar, ImpasseSanear, AbandonarLer,
       AbandonarGravar, foraDoJob, jobVars, pedidoVars, TipoJobs, TipoCriacao,
       TipoPedidos
<1>2. TipoAgenda'
  BY <1>0 DEF Agendar, SanearTravar, SanearGravar, ImpasseSanear, AbandonarLer,
       AbandonarGravar, foraDoJob, agendaVars, TipoAgenda
<1>3. TipoTravas'
  BY <1>0 DEF Agendar, SanearTravar, SanearGravar, ImpasseSanear, AbandonarLer,
       AbandonarGravar, bancoVars, LinhaSem, TipoTravas, DonosDeLinha
<1>4. TipoBanco'
  <2>1. CASE SanearGravar
    <3> DEFINE S == {e \in Execucoes : linha[e] = AGENDADOR}
    <3>1. Cardinality(S) \in Nat
      BY ExecucaoAssumption, FS_Subset, FS_CardinalityType
    <3>2. Reserva * Cardinality(S) \in Nat
      BY <3>1, ExecucaoAssumption
    <3>3. conta' \in ContaValida
      BY <1>0, <2>1, <3>2, ContaTipada DEF SanearGravar, TipoBanco
    <3>4. status' \in [Execucoes -> Status]
      BY <1>0, <2>1 DEF SanearGravar, TipoBanco, Status, Terminais
    <3> QED BY <1>0, <2>1, <3>3, <3>4 DEF SanearGravar, TipoBanco
  <2>2. CASE ~SanearGravar
    BY <1>0, <2>2 DEF Agendar, SanearTravar, ImpasseSanear, AbandonarLer,
         AbandonarGravar, bancoVars, TipoBanco, Status, Terminais
  <2> QED BY <2>1, <2>2
<1> QED BY <1>1, <1>2, <1>3, <1>4, TypeOKEmPartesDepois

LEMMA TipoPasso == TypeOK /\ [Next]_vars => TypeOK'
<1> SUFFICES ASSUME TypeOK, [Next]_vars PROVE TypeOK'
  OBVIOUS
<1>1. CASE UNCHANGED vars
  BY <1>1 DEF vars, bancoVars, agendaVars, pedidoVars, jobVars, TypeOK
<1> QED
  BY <1>1, TipoCriar, TipoPedir, TipoAtender, TipoTrabalhar, TipoInterromper,
     TipoAgendar DEF Next

\* Typing.  Its content is that no interleaving takes a column of the account
\* below zero -- the CHECK constraints of migration 0013 never fail but where
\* the model says they do -- and that no job is tried above max_tries.
THEOREM TiposCorretos == Spec => []TypeOK
BY TipoInicial, TipoPasso, PTL DEF Spec

-----------------------------------------------------------------------------
\* A concluded execution was charged, whatever interleaves: the only step that
\* writes "concluida" inserts the transaction, and none removes one.
LEMMA DebitadaPasso ==
  TypeOK /\ ConcluidaDebitada /\ [Next]_vars => ConcluidaDebitada'
<1> SUFFICES ASSUME TypeOK, ConcluidaDebitada, [Next]_vars
             PROVE  ConcluidaDebitada'
  OBVIOUS
<1>1. TypeOK'
  BY TipoPasso
<1>2. SUFFICES ASSUME NEW e \in Execucoes, status'[e] = "concluida"
               PROVE  debitos'[e] > 0
  BY DEF ConcluidaDebitada
<1>3. debitos[e] \in Nat /\ (status[e] = "concluida" => debitos[e] > 0)
  BY DEF TypeOK, ConcluidaDebitada
<1>4. ASSUME NEW j \in Jobs, NEW q \in Custos, Finalizar(j, q)
      PROVE  debitos'[e] > 0
  BY <1>2, <1>3, <1>4 DEF Finalizar, Registrar, TypeOK
<1>5. ASSUME ~ \E j \in Jobs, q \in Custos : Finalizar(j, q)
      PROVE  debitos' = debitos /\ status[e] = "concluida"
  <2>1. CASE \E f \in Execucoes : Criar(f)
    BY <1>2, <2>1 DEF Criar, CriarReservar, CriarEnfileirar, CriarGravar,
         CriarFalhaFila, CriarFalha, CriarSemResposta, CriarCai, TypeOK
  <2>2. CASE \E r \in Pedidos : Pedir(r) \/ Atender(r)
    BY <1>2, <2>2 DEF Pedir, Atender, CancelarLer, CancelarTravarConta,
         CancelarTravarLinha, CancelarAbortar, CancelarGravar, AprovarLer,
         AprovarEnfileirar, AprovarFalhaFila,
            AprovarSemResposta, AprovarGravar, RequisicaoCai,
         ImpassePedido, bancoVars, TypeOK
  <2>3. ASSUME NEW j \in Jobs, Trabalhar(j)
        PROVE  debitos' = debitos /\ status[e] = "concluida"
    BY <1>2, <1>5, <2>3 DEF Trabalhar, Pegar, Descartar, SemLinha, Abrir, Retomar,
         NoInicio, NoFim, NoMarcarAguardando, GrafoFim, Verificar, FinalizarLinha,
         FinalizarSemSaldo, FecharSessao, FalhaConta, FalhaGravar, Devolver,
         LerInterrompido, LiberarConta, LiberarGravar, MarcarExecutando,
         bancoVars, TypeOK
  <2>4. ASSUME NEW j \in Jobs, Interromper(j)
        PROVE  debitos' = debitos /\ status[e] = "concluida"
    BY <1>2, <2>4 DEF Interromper, Erro, TempoEsgotado, TempoEsgotadoNoCommit,
         Abortar, Desligar, JobTimeout, WorkerCai, ImpasseTratador,
         ImpasseDebito, Falhar, InterromperCom
  <2>5. CASE Agendar
    BY <1>2, <2>5 DEF Agendar, SanearTravar, SanearGravar, ImpasseSanear,
         AbandonarLer, AbandonarGravar, bancoVars
  <2>6. CASE UNCHANGED vars
    BY <1>2, <2>6 DEF vars, bancoVars
  <2> QED BY <2>1, <2>2, <2>3, <2>4, <2>5, <2>6 DEF Next
<1> QED BY <1>3, <1>4, <1>5

\* An execution the user sees as concluded was charged, whatever crash, retry
\* or blind write of another actor came between: finalizar_sucesso inserts the
\* row of transacoes_creditos in the transaction that writes "concluida".
THEOREM SempreDebitada == Spec => []ConcluidaDebitada
<1>1. Init => ConcluidaDebitada
  BY DEF Init, ConcluidaDebitada
<1> QED BY <1>1, DebitadaPasso, TiposCorretos, PTL DEF Spec

-----------------------------------------------------------------------------
(* No leak.  The argument counts: every step that ends a live execution      *)
(* gives back one reservation for each it ends, or leaves it among the       *)
(* abandoned ones; a reservation is only ever added together with a live     *)
(* execution that was in neither set.  The last half needs to know that an   *)
(* execution whose creation has not committed is nowhere else yet.           *)

NoGrafoOuTratador == NoGrafo \cup {"falhaLinha", "liberar", "liberarLinha"}

NaoCriadas == \A e \in Execucoes : cpc[e] # "fim" => ~Visivel(e)

VistasPorTodos ==
  /\ \A e \in varredura \cup abandonadas : Visivel(e)
  /\ \A e \in Execucoes : linha[e] = AGENDADOR => Visivel(e)
  /\ \A r \in Pedidos : rpc[r] \notin {"livre", "fim"} =>
       rexec[r] \in Execucoes /\ Visivel(rexec[r])
  /\ \A j \in Jobs : jpc[j] # "livre" => jexec[j] \in Execucoes
  /\ \A j \in Jobs : jpc[j] \in NoGrafoOuTratador => Visivel(jexec[j])

\* Who acts on an execution has seen its row.
Visibilidade == TypeOK /\ NaoCriadas /\ VistasPorTodos

LEMMA VisibilidadeInicial == Init => Visibilidade
<1> SUFFICES ASSUME Init PROVE Visibilidade
  OBVIOUS
<1>1. NaoCriadas
  BY DEF Init, NaoCriadas, Visivel
<1>2. VistasPorTodos
  BY ExecucaoAssumption
     DEF Init, VistasPorTodos, NoGrafoOuTratador, NoGrafo
<1> QED BY <1>1, <1>2, TipoInicial DEF Visibilidade

\* A step that keeps what is visible, and in which whoever comes to act on an
\* execution sees it, keeps the invariant.
LEMMA VisibilidadeMantida ==
  ASSUME Visibilidade, TypeOK',
         \A e \in Execucoes : Visivel(e) => status'[e] # "invisivel",
         \A e \in Execucoes :
           cpc'[e] # "fim" => cpc[e] # "fim" /\ status'[e] = status[e],
         \A e \in varredura' \cup abandonadas' :
           e \in varredura \cup abandonadas \/ Visivel(e),
         \A e \in Execucoes :
           linha'[e] = AGENDADOR => linha[e] = AGENDADOR \/ Visivel(e),
         \A r \in Pedidos : rpc'[r] \notin {"livre", "fim"} =>
           \/ rpc[r] \notin {"livre", "fim"} /\ rexec'[r] = rexec[r]
           \/ rexec'[r] \in Execucoes /\ Visivel(rexec'[r]),
         \A j \in Jobs : jpc'[j] # "livre" =>
           \/ jpc[j] # "livre" /\ jexec'[j] = jexec[j]
           \/ jexec'[j] \in Execucoes,
         \A j \in Jobs : jpc'[j] \in NoGrafoOuTratador =>
           /\ jexec'[j] = jexec[j] /\ jpc[j] # "livre"
           /\ jpc[j] \in NoGrafoOuTratador \/ Visivel(jexec[j])
  PROVE  Visibilidade'
<1>1. NaoCriadas'
  BY DEF Visibilidade, NaoCriadas, Visivel
<1>2. \A e \in varredura' \cup abandonadas' : Visivel(e)'
  BY DEF Visibilidade, VistasPorTodos, TypeOK, Visivel
<1>3. \A e \in Execucoes : linha'[e] = AGENDADOR => Visivel(e)'
  BY DEF Visibilidade, VistasPorTodos, Visivel
<1>4. \A r \in Pedidos : rpc'[r] \notin {"livre", "fim"} =>
         rexec'[r] \in Execucoes /\ Visivel(rexec[r])'
  BY DEF Visibilidade, VistasPorTodos, Visivel
<1>5. \A j \in Jobs : jpc'[j] # "livre" => jexec'[j] \in Execucoes
  BY DEF Visibilidade, VistasPorTodos
<1>6. \A j \in Jobs : jpc'[j] \in NoGrafoOuTratador => Visivel(jexec[j])'
  BY DEF Visibilidade, VistasPorTodos, Visivel
<1> QED BY <1>1, <1>2, <1>3, <1>4, <1>5, <1>6
       DEF Visibilidade, VistasPorTodos, NoGrafoOuTratador, NoGrafo

\* The part of its hypotheses that every move of a job within its function, or
\* out of it, meets.
LEMMA JobVisto ==
  ASSUME Visibilidade, NEW j \in Jobs, NEW d, jpc[j] # "livre",
         jpc' = [jpc EXCEPT ![j] = d], jexec' = jexec,
         d \in NoGrafoOuTratador =>
           jpc[j] \in NoGrafoOuTratador \/ Visivel(jexec[j])
  PROVE  /\ \A i \in Jobs : jpc'[i] # "livre" =>
              \/ jpc[i] # "livre" /\ jexec'[i] = jexec[i]
              \/ jexec'[i] \in Execucoes
         /\ \A i \in Jobs : jpc'[i] \in NoGrafoOuTratador =>
              /\ jexec'[i] = jexec[i] /\ jpc[i] # "livre"
              /\ jpc[i] \in NoGrafoOuTratador \/ Visivel(jexec[i])
<1>1. \A i \in Jobs : jpc'[i] = IF i = j THEN d ELSE jpc[i]
  BY DEF Visibilidade, TypeOK
<1>2. "livre" \notin NoGrafoOuTratador
  BY DEF NoGrafoOuTratador, NoGrafo
<1> QED BY <1>1, <1>2

LEMMA VisibilidadeCriar ==
  ASSUME Visibilidade, TypeOK', NEW e \in Execucoes, Criar(e)
  PROVE  Visibilidade'
<1>1. ~Visivel(e) /\ cpc[e] # "fim"
  BY DEF Criar, CriarReservar, CriarEnfileirar, CriarGravar,
     CriarFalhaFila, CriarFalha, CriarSemResposta,
     CriarCai, Visibilidade, NaoCriadas
<1>2. \A f \in Execucoes : Visivel(f) => status'[f] # "invisivel"
  BY DEF Criar, CriarReservar, CriarEnfileirar, CriarGravar,
     CriarFalhaFila, CriarFalha, CriarSemResposta,
     CriarCai, Visibilidade, TypeOK, Visivel
<1>3. \A f \in Execucoes :
        cpc'[f] # "fim" => cpc[f] # "fim" /\ status'[f] = status[f]
  BY <1>1 DEF Criar, CriarReservar, CriarEnfileirar, CriarGravar,
     CriarFalhaFila, CriarFalha, CriarSemResposta, CriarCai, Visibilidade, TypeOK
<1>4. varredura' = varredura /\ abandonadas' = abandonadas /\ linha' = linha
  BY DEF Criar, CriarReservar, CriarEnfileirar, CriarGravar,
     CriarFalhaFila, CriarFalha, CriarSemResposta,
     CriarCai, agendaVars
<1>5. rpc' = rpc /\ rexec' = rexec
  BY DEF Criar, CriarReservar, CriarEnfileirar, CriarGravar,
     CriarFalhaFila, CriarFalha, CriarSemResposta,
     CriarCai, pedidoVars
<1>6. \/ jpc' = jpc /\ jexec' = jexec
      \/ \E j \in Jobs : /\ jpc[j] = "livre"
                         /\ jpc' = [jpc EXCEPT ![j] = "fila"]
                         /\ jexec' = [jexec EXCEPT ![j] = e]
  BY DEF Criar, CriarReservar, CriarEnfileirar, CriarGravar,
     CriarFalhaFila, CriarFalha, CriarSemResposta,
     CriarCai, jobVars, Enfileirar
<1>7. "fila" \notin NoGrafoOuTratador /\ "livre" \notin NoGrafoOuTratador
  BY DEF NoGrafoOuTratador, NoGrafo
<1>8. /\ \A j \in Jobs : jpc'[j] # "livre" =>
           \/ jpc[j] # "livre" /\ jexec'[j] = jexec[j]
           \/ jexec'[j] \in Execucoes
      /\ \A j \in Jobs : jpc'[j] \in NoGrafoOuTratador =>
           /\ jexec'[j] = jexec[j] /\ jpc[j] # "livre"
           /\ jpc[j] \in NoGrafoOuTratador \/ Visivel(jexec[j])
  BY <1>6, <1>7 DEF Visibilidade, TypeOK
<1> QED BY <1>2, <1>3, <1>4, <1>5, <1>8, VisibilidadeMantida

LEMMA VisibilidadePedir ==
  ASSUME Visibilidade, TypeOK', NEW r \in Pedidos, Pedir(r)
  PROVE  Visibilidade'
<1>1. PICK e \in Execucoes : CancelarLer(r, e) \/ AprovarLer(r, e)
  BY DEF Pedir
<1>2. Visivel(e)
  BY <1>1 DEF CancelarLer, AprovarLer, Cancelavel, Aprovavel, NaoTerminais,
     Visivel
<1>3. UNCHANGED <<status, linha, cpc, varredura, abandonadas, jpc, jexec>>
  BY <1>1 DEF CancelarLer, AprovarLer, bancoVars, agendaVars, jobVars
<1>4. \A p \in Pedidos : rpc'[p] \notin {"livre", "fim"} =>
        \/ rpc[p] \notin {"livre", "fim"} /\ rexec'[p] = rexec[p]
        \/ rexec'[p] \in Execucoes /\ Visivel(rexec'[p])
  BY <1>1, <1>2 DEF CancelarLer, AprovarLer, Visibilidade, TypeOK
<1>5. /\ \A j \in Jobs : jpc'[j] # "livre" =>
           \/ jpc[j] # "livre" /\ jexec'[j] = jexec[j]
           \/ jexec'[j] \in Execucoes
      /\ \A j \in Jobs : jpc'[j] \in NoGrafoOuTratador =>
           /\ jexec'[j] = jexec[j] /\ jpc[j] # "livre"
           /\ jpc[j] \in NoGrafoOuTratador \/ Visivel(jexec[j])
  BY <1>3 DEF NoGrafoOuTratador, NoGrafo
<1> QED BY <1>3, <1>4, <1>5, VisibilidadeMantida DEF Visivel

LEMMA VisibilidadeAtender ==
  ASSUME Visibilidade, TypeOK', NEW r \in Pedidos, Atender(r)
  PROVE  Visibilidade'
<1>1. rpc[r] \notin {"livre", "fim"}
  BY DEF Atender, CancelarTravarConta, CancelarTravarLinha, CancelarAbortar,
     CancelarGravar, AbortRespondeu, AprovarEnfileirar, AprovarFalhaFila,
        AprovarSemResposta,
     AprovarGravar, RequisicaoCai, ImpassePedido, PedidoEmImpasse
<1>2. rexec[r] \in Execucoes /\ Visivel(rexec[r])
  BY <1>1 DEF Visibilidade, VistasPorTodos
<1>3. UNCHANGED <<cpc, varredura, abandonadas>>
  BY DEF Atender, CancelarTravarConta, CancelarTravarLinha, CancelarAbortar,
     CancelarGravar, AprovarEnfileirar, AprovarFalhaFila, AprovarSemResposta,
     AprovarGravar, RequisicaoCai, ImpassePedido, agendaVars
<1>4. \/ status' = status
      \/ status' = [status EXCEPT ![rexec[r]] = "cancelada"]
      \/ status' = [status EXCEPT ![rexec[r]] = "executando"]
  BY DEF Atender, CancelarTravarConta, CancelarTravarLinha, CancelarAbortar,
     CancelarGravar, AprovarEnfileirar, AprovarFalhaFila, AprovarSemResposta,
     AprovarGravar, RequisicaoCai, ImpassePedido, bancoVars
<1>5. \A f \in Execucoes : Visivel(f) => status'[f] # "invisivel"
  BY <1>4 DEF Visibilidade, TypeOK, Visivel
<1>6. \A f \in Execucoes :
        cpc'[f] # "fim" => cpc[f] # "fim" /\ status'[f] = status[f]
  BY <1>2, <1>3, <1>4 DEF Visibilidade, NaoCriadas, TypeOK
<1>7. \/ linha' = linha
      \/ linha' = [linha EXCEPT ![rexec[r]] = r]
      \/ linha' = LinhaSem(r)
  BY DEF Atender, CancelarTravarConta, CancelarTravarLinha, CancelarAbortar,
     CancelarGravar, AprovarEnfileirar, AprovarFalhaFila, AprovarSemResposta,
     AprovarGravar, RequisicaoCai, ImpassePedido, bancoVars, SoltarTudo
<1>8. \A f \in Execucoes : linha'[f] = AGENDADOR => linha[f] = AGENDADOR
  BY <1>7, ExecucaoAssumption DEF Visibilidade, TypeOK, LinhaSem
<1>9. \/ \E d : rpc' = [rpc EXCEPT ![r] = d] /\ rexec' = rexec
      \/ rpc' = [rpc EXCEPT ![r] = "fim"]
         /\ rexec' = [rexec EXCEPT ![r] = NINGUEM]
  BY DEF Atender, CancelarTravarConta, CancelarTravarLinha, CancelarAbortar,
     CancelarGravar, AprovarEnfileirar, AprovarFalhaFila, AprovarSemResposta,
     AprovarGravar, RequisicaoCai, ImpassePedido, Responder
<1>10. \A p \in Pedidos : rpc'[p] \notin {"livre", "fim"} =>
         rpc[p] \notin {"livre", "fim"} /\ rexec'[p] = rexec[p]
  BY <1>1, <1>9 DEF Visibilidade, TypeOK
<1>11. \/ jpc' = jpc /\ jexec' = jexec
       \/ \E j \in Jobs : /\ jpc[j] = "livre"
                          /\ jpc' = [jpc EXCEPT ![j] = "fila"]
                          /\ jexec' = [jexec EXCEPT ![j] = rexec[r]]
  BY DEF Atender, CancelarTravarConta, CancelarTravarLinha, CancelarAbortar,
     CancelarGravar, AprovarEnfileirar, AprovarFalhaFila, AprovarSemResposta,
     AprovarGravar, RequisicaoCai, ImpassePedido, jobVars, Enfileirar
<1>12. "fila" \notin NoGrafoOuTratador /\ "livre" \notin NoGrafoOuTratador
  BY DEF NoGrafoOuTratador, NoGrafo
<1>13. /\ \A j \in Jobs : jpc'[j] # "livre" =>
            \/ jpc[j] # "livre" /\ jexec'[j] = jexec[j]
            \/ jexec'[j] \in Execucoes
       /\ \A j \in Jobs : jpc'[j] \in NoGrafoOuTratador =>
            /\ jexec'[j] = jexec[j] /\ jpc[j] # "livre"
            /\ jpc[j] \in NoGrafoOuTratador \/ Visivel(jexec[j])
  BY <1>2, <1>11, <1>12 DEF Visibilidade, TypeOK
<1> QED BY <1>3, <1>5, <1>6, <1>8, <1>10, <1>13, VisibilidadeMantida

LEMMA VisibilidadeTrabalhar ==
  ASSUME Visibilidade, TypeOK', NEW j \in Jobs, Trabalhar(j)
  PROVE  Visibilidade'
<1> USE DEF Trabalhar, Pegar, Descartar, SemLinha, Abrir, Retomar, NoInicio, NoFim,
      NoMarcarAguardando, GrafoFim, Verificar, FinalizarLinha, Finalizar,
      FinalizarSemSaldo, FecharSessao, FalhaConta, FalhaGravar, Devolver,
      LerInterrompido, LiberarConta, LiberarGravar
<1>1. jpc[j] # "livre" /\ jexec[j] \in Execucoes
  <2>1. jpc[j] # "livre"
    OBVIOUS
  <2> QED BY <2>1 DEF Visibilidade, VistasPorTodos
<1>2. UNCHANGED <<cpc, varredura, abandonadas, rpc, rexec, jexec>>
  BY DEF foraDoJob, agendaVars, pedidoVars, Ir, IrParando, Parar
<1>3. jpc[j] \in NoGrafoOuTratador => Visivel(jexec[j])
  BY DEF Visibilidade, VistasPorTodos
<1>4. status' = status \/ Visivel(jexec[j])
  BY <1>3 DEF bancoVars, MarcarExecutando, NoGrafoOuTratador, NoGrafo
<1>5. \/ status' = status
      \/ \E d \in NaoTerminais \cup Terminais :
           status' = [status EXCEPT ![jexec[j]] = d]
  BY DEF bancoVars, MarcarExecutando, NaoTerminais, Terminais
<1>6. \A f \in Execucoes : Visivel(f) => status'[f] # "invisivel"
  BY <1>5 DEF Visibilidade, TypeOK, Visivel, NaoTerminais, Terminais
<1>7. \A f \in Execucoes :
        cpc'[f] # "fim" => cpc[f] # "fim" /\ status'[f] = status[f]
  BY <1>1, <1>2, <1>4, <1>5 DEF Visibilidade, NaoCriadas, TypeOK
<1>8. \/ linha' = linha
      \/ linha' = [linha EXCEPT ![jexec[j]] = j]
      \/ linha' = LinhaSem(j)
  BY DEF bancoVars
<1>9. \A f \in Execucoes : linha'[f] = AGENDADOR => linha[f] = AGENDADOR
  BY <1>8, ExecucaoAssumption DEF Visibilidade, TypeOK, LinhaSem
<1>10. \E d : /\ jpc' = [jpc EXCEPT ![j] = d]
              /\ d \in NoGrafoOuTratador =>
                   jpc[j] \in NoGrafoOuTratador \/ Visivel(jexec[j])
  <2>1. CASE /\ jpc[j] \in NoGrafoOuTratador \/ Visivel(jexec[j])
             /\ \E d : jpc' = [jpc EXCEPT ![j] = d]
    BY <2>1
  <2>2. \/ jpc[j] \in NoGrafoOuTratador \/ Visivel(jexec[j])
        \/ jpc' = [jpc EXCEPT ![j] = "abrir"]
        \/ jpc' = [jpc EXCEPT ![j] = "fim"]
        \/ jpc' = [jpc EXCEPT ![j] = "fila"]
    BY DEF NoGrafoOuTratador, NoGrafo, Ir, IrParando, Parar, Visivel, NaoTerminais
  <2>3. \E d : jpc' = [jpc EXCEPT ![j] = d]
    BY DEF Ir, IrParando, Parar
  <2>4. /\ "abrir" \notin NoGrafoOuTratador /\ "fim" \notin NoGrafoOuTratador
        /\ "fila" \notin NoGrafoOuTratador
    BY DEF NoGrafoOuTratador, NoGrafo
  <2> QED BY <2>1, <2>2, <2>3, <2>4
<1> QED BY <1>1, <1>2, <1>6, <1>7, <1>9, <1>10, JobVisto, VisibilidadeMantida

LEMMA VisibilidadeInterromper ==
  ASSUME Visibilidade, TypeOK', NEW j \in Jobs, Interromper(j)
  PROVE  Visibilidade'
<1>1. jpc[j] # "livre"
  BY DEF Interromper, Erro, TempoEsgotado, TempoEsgotadoNoCommit, Abortar,
     Desligar, JobTimeout, WorkerCai, ImpasseTratador, ImpasseDebito,
     JobEmImpasse, EsperandoTrava, EsperandoLinha, Rodando, NoGrafo
<1>2. UNCHANGED <<status, cpc, varredura, abandonadas, rpc, rexec, jexec>>
  BY DEF Interromper, Erro, TempoEsgotado, TempoEsgotadoNoCommit, Abortar,
     Desligar, JobTimeout, WorkerCai, ImpasseTratador, ImpasseDebito,
     Falhar, InterromperCom, foraDoJob, agendaVars, pedidoVars, Ir, IrParando,
     Parar
<1>3. linha' = LinhaSem(j)
  BY DEF Interromper, Erro, TempoEsgotado, TempoEsgotadoNoCommit, Abortar,
     Desligar, JobTimeout, WorkerCai, ImpasseTratador, ImpasseDebito,
     Falhar, InterromperCom, SoltarTudo
<1>4. \A f \in Execucoes : linha'[f] = AGENDADOR => linha[f] = AGENDADOR
  BY <1>3, ExecucaoAssumption DEF Visibilidade, TypeOK, LinhaSem
<1>5. AoCancelar(j) \in {"interrompido", "fim"}
  BY AoCancelarTipado
<1>6. \E d \in {"falha", "interrompido", "fim", "fila"} :
        jpc' = [jpc EXCEPT ![j] = d]
  BY <1>5 DEF Interromper, Erro, TempoEsgotado, TempoEsgotadoNoCommit, Abortar,
     Desligar, JobTimeout, WorkerCai, ImpasseTratador, ImpasseDebito,
     Falhar, InterromperCom, Ir, IrParando, Parar
<1>7. \A d \in {"falha", "interrompido", "fim", "fila"} :
        d \notin NoGrafoOuTratador
  BY DEF NoGrafoOuTratador, NoGrafo
<1>8. \A f \in Execucoes : Visivel(f) => status'[f] # "invisivel"
  BY <1>2 DEF Visivel
<1> QED BY <1>1, <1>2, <1>4, <1>6, <1>7, <1>8, JobVisto, VisibilidadeMantida

LEMMA VisibilidadeAgendar ==
  ASSUME Visibilidade, TypeOK', Agendar
  PROVE  Visibilidade'
<1>1. UNCHANGED <<cpc, rpc, rexec, jpc, jexec>>
  BY DEF Agendar, SanearTravar, SanearGravar, ImpasseSanear, AbandonarLer,
     AbandonarGravar, foraDoJob, pedidoVars, jobVars
<1>2. \A f \in Execucoes :
        status'[f] # status[f] => Visivel(f) /\ status'[f] # "invisivel"
  BY DEF Agendar, SanearTravar, SanearGravar, ImpasseSanear, AbandonarLer,
     AbandonarGravar, bancoVars, Visibilidade, VistasPorTodos, TypeOK
<1>3. \A f \in Execucoes : Visivel(f) => status'[f] # "invisivel"
  BY <1>2 DEF Visivel
<1>4. \A f \in Execucoes :
        cpc'[f] # "fim" => cpc[f] # "fim" /\ status'[f] = status[f]
  BY <1>1, <1>2 DEF Visibilidade, NaoCriadas
<1>5. \A f \in varredura' \cup abandonadas' :
        f \in varredura \cup abandonadas \/ Visivel(f)
  BY DEF Agendar, SanearTravar, SanearGravar, ImpasseSanear, AbandonarLer,
     AbandonarGravar, foraDoJob, agendaVars, Visivel, Visibilidade, TypeOK
<1>6. \A f \in Execucoes :
        linha'[f] = AGENDADOR => linha[f] = AGENDADOR \/ Visivel(f)
  BY ExecucaoAssumption DEF Agendar, SanearTravar, SanearGravar, ImpasseSanear,
     AbandonarLer, AbandonarGravar, bancoVars, Visivel, LinhaSem
<1>7. /\ \A j \in Jobs : jpc'[j] # "livre" =>
           \/ jpc[j] # "livre" /\ jexec'[j] = jexec[j]
           \/ jexec'[j] \in Execucoes
      /\ \A j \in Jobs : jpc'[j] \in NoGrafoOuTratador =>
           /\ jexec'[j] = jexec[j] /\ jpc[j] # "livre"
           /\ jpc[j] \in NoGrafoOuTratador \/ Visivel(jexec[j])
  BY <1>1 DEF NoGrafoOuTratador, NoGrafo
<1>8. \A r \in Pedidos : rpc'[r] \notin {"livre", "fim"} =>
        rpc[r] \notin {"livre", "fim"} /\ rexec'[r] = rexec[r]
  BY <1>1
<1> QED BY <1>3, <1>4, <1>5, <1>6, <1>7, <1>8, VisibilidadeMantida

LEMMA VisibilidadePasso == Visibilidade /\ [Next]_vars => Visibilidade'
<1> SUFFICES ASSUME Visibilidade, [Next]_vars PROVE Visibilidade'
  OBVIOUS
<1>1. TypeOK'
  BY TipoPasso DEF Visibilidade
<1>2. CASE \E e \in Execucoes : Criar(e)
  BY <1>1, <1>2, VisibilidadeCriar
<1>3. CASE \E r \in Pedidos : Pedir(r) \/ Atender(r)
  BY <1>1, <1>3, VisibilidadePedir, VisibilidadeAtender
<1>4. CASE \E j \in Jobs : Trabalhar(j) \/ Interromper(j)
  BY <1>1, <1>4, VisibilidadeTrabalhar, VisibilidadeInterromper
<1>5. CASE Agendar
  BY <1>1, <1>5, VisibilidadeAgendar
<1>6. CASE UNCHANGED vars
  <2>1. UNCHANGED <<status, linha, cpc, varredura, abandonadas, rpc, rexec, jpc,
                    jexec>>
    BY <1>6 DEF vars, bancoVars, agendaVars, pedidoVars, jobVars
  <2> QED BY <1>1, <2>1 DEF Visibilidade, NaoCriadas, VistasPorTodos, Visivel,
           NoGrafoOuTratador, NoGrafo
<1> QED BY <1>2, <1>3, <1>4, <1>5, <1>6 DEF Next

\* The seen-row invariant holds of every behaviour.
LEMMA VisibilidadeSempre == Spec => []Visibilidade
BY VisibilidadeInicial, VisibilidadePasso, PTL DEF Spec

\* The executions that account for the reservations.
Ocupadas == Vivas \cup abandonadas

LEMMA OcupadasFinitas ==
  ASSUME TypeOK
  PROVE  /\ Ocupadas \subseteq Execucoes
         /\ IsFiniteSet(Ocupadas)
         /\ Cardinality(Ocupadas) \in Nat
<1>1. Ocupadas \subseteq Execucoes
  BY DEF Ocupadas, Vivas, TypeOK
<1>2. IsFiniteSet(Ocupadas)
  BY <1>1, ExecucaoAssumption, FS_Subset
<1> QED BY <1>1, <1>2, FS_CardinalityType

\* What a set loses by giving up some of its members.
LEMMA ContagemSolta ==
  ASSUME NEW U \in SUBSET Execucoes, NEW V \in SUBSET Execucoes,
         NEW S \in SUBSET Execucoes, U \ S \subseteq V
  PROVE  /\ Cardinality(U) \in Nat /\ Cardinality(V) \in Nat
         /\ Cardinality(S) \in Nat
         /\ Cardinality(U) <= Cardinality(V) + Cardinality(S)
<1>1. IsFiniteSet(U) /\ IsFiniteSet(V) /\ IsFiniteSet(S)
  BY ExecucaoAssumption, FS_Subset
<1>2. IsFiniteSet(V \cup S) /\ IsFiniteSet(V \cap S)
  BY <1>1, FS_Union, FS_Intersection
<1>3. Cardinality(V \cup S) =
        Cardinality(V) + Cardinality(S) - Cardinality(V \cap S)
  BY <1>1, FS_Union
<1>4. Cardinality(U) <= Cardinality(V \cup S)
  <2>1. U \subseteq V \cup S
    OBVIOUS
  <2> QED BY <1>2, <2>1, FS_Subset
<1>5. /\ Cardinality(U) \in Nat /\ Cardinality(V) \in Nat
      /\ Cardinality(S) \in Nat /\ Cardinality(V \cap S) \in Nat
      /\ Cardinality(V \cup S) \in Nat
  BY <1>1, <1>2, FS_CardinalityType
<1> QED BY <1>3, <1>4, <1>5

\* Releasing k reservations of r keeps a total within its bound of u of them
\* when at most k of the u are gone.
LEMMA BalancoDaDevolucao ==
  ASSUME NEW a \in Nat, NEW s \in Nat, NEW r \in Nat, NEW u \in Nat,
         NEW v \in Nat, NEW k \in Nat, a <= s + r * u, u <= v + k
  PROVE  a - Menor(a, r * k) <= s + r * v
<1>1. r * u \in Nat /\ r * v \in Nat /\ r * k \in Nat
  OBVIOUS
<1>2. r * u <= r * (v + k)
  OBVIOUS
<1>3. r * (v + k) = r * v + r * k
  OBVIOUS
<1>4. CASE a < r * k
  <2>1. Menor(a, r * k) = a
    BY <1>4 DEF Menor
  <2> QED BY <1>1, <2>1
<1>5. CASE ~(a < r * k)
  <2>1. Menor(a, r * k) = r * k
    BY <1>5 DEF Menor
  <2> HIDE DEF Menor
  <2> DEFINE ru == r * u  rv == r * v  rk == r * k
  <2>2. ru \in Nat /\ rv \in Nat /\ rk \in Nat /\ a <= s + ru /\ ru <= rv + rk
    BY <1>1, <1>2, <1>3
  <2> HIDE DEF ru, rv, rk
  <2>3. a - rk <= s + rv
    BY <2>2
  <2> QED BY <2>1, <2>3 DEF rv, rk
<1> QED BY <1>4, <1>5

\* A step that gives back the reservations of the executions it ends.
LEMMA DevolveVarias ==
  ASSUME TypeOK, TypeOK', SemVazamento, NEW S \in SUBSET Execucoes,
         conta'.reservado =
           conta.reservado - Menor(conta.reservado, Reserva * Cardinality(S)),
         Ocupadas \ S \subseteq Ocupadas'
  PROVE  SemVazamento'
<1>1. Ocupadas \in SUBSET Execucoes
  BY OcupadasFinitas
<1>2. Ocupadas' \in SUBSET Execucoes
  BY DEF Ocupadas, Vivas, TypeOK
<1>3. /\ Cardinality(Ocupadas) \in Nat /\ Cardinality(Ocupadas') \in Nat
      /\ Cardinality(S) \in Nat
      /\ Cardinality(Ocupadas) <= Cardinality(Ocupadas') + Cardinality(S)
  BY <1>1, <1>2, ContagemSolta
<1>4. conta.reservado \in Nat /\ SaldoInicial.reservado \in Nat /\ Reserva \in Nat
  BY ExecucaoAssumption DEF TypeOK, ContaValida
<1>5. conta.reservado <=
        SaldoInicial.reservado + Reserva * Cardinality(Ocupadas)
  BY DEF SemVazamento, Ocupadas
<1>6. conta.reservado - Menor(conta.reservado, Reserva * Cardinality(S)) <=
        SaldoInicial.reservado + Reserva * Cardinality(Ocupadas')
  BY <1>3, <1>4, <1>5, BalancoDaDevolucao
<1> QED BY <1>6 DEF SemVazamento, Ocupadas

LEMMA NadaDevolve ==
  ASSUME TypeOK, TypeOK', SemVazamento, conta'.reservado = conta.reservado,
         Ocupadas \subseteq Ocupadas'
  PROVE  SemVazamento'
<1>1. Cardinality({}) = 0
  BY FS_EmptySet
<1>2. conta.reservado \in Nat /\ Reserva \in Nat
  BY ExecucaoAssumption DEF TypeOK, ContaValida
<1>3. conta.reservado =
        conta.reservado - Menor(conta.reservado, Reserva * Cardinality({}))
  BY <1>1, <1>2 DEF Menor
<1> QED BY <1>3, DevolveVarias

LEMMA DevolveUma ==
  ASSUME TypeOK, TypeOK', SemVazamento, NEW e \in Execucoes,
         conta'.reservado = Liberar(conta, Reserva).reservado,
         Ocupadas \ {e} \subseteq Ocupadas'
  PROVE  SemVazamento'
<1>1. Cardinality({e}) = 1
  BY FS_Singleton
<1>2. conta'.reservado =
        conta.reservado - Menor(conta.reservado, Reserva * Cardinality({e}))
  BY <1>1, ExecucaoAssumption DEF TypeOK, ContaValida, Liberar
<1> QED BY <1>2, DevolveVarias

\* A step that reserves for an execution nobody accounted for yet.
LEMMA ReservaUma ==
  ASSUME TypeOK, TypeOK', SemVazamento, NEW e \in Execucoes,
         conta'.reservado = conta.reservado + Reserva,
         e \notin Ocupadas, Ocupadas \cup {e} \subseteq Ocupadas'
  PROVE  SemVazamento'
<1>1. IsFiniteSet(Ocupadas) /\ Cardinality(Ocupadas) \in Nat
  BY OcupadasFinitas
<1>2. IsFiniteSet(Ocupadas')
  <2>1. Ocupadas' \subseteq Execucoes
    BY DEF Ocupadas, Vivas, TypeOK
  <2> QED BY <2>1, ExecucaoAssumption, FS_Subset
<1>3. Cardinality(Ocupadas \cup {e}) = Cardinality(Ocupadas) + 1
  BY <1>1, FS_AddElement
<1>4. /\ Cardinality(Ocupadas \cup {e}) <= Cardinality(Ocupadas')
      /\ Cardinality(Ocupadas') \in Nat
  BY <1>2, FS_Subset, FS_CardinalityType
<1> DEFINE u == Cardinality(Ocupadas)
           v == Cardinality(Ocupadas')
<1>5. u \in Nat /\ v \in Nat /\ u + 1 <= v
  BY <1>1, <1>3, <1>4
<1>6. /\ conta.reservado \in Nat /\ SaldoInicial.reservado \in Nat
      /\ Reserva \in Nat
      /\ conta.reservado <= SaldoInicial.reservado + Reserva * u
  BY ExecucaoAssumption DEF TypeOK, ContaValida, SemVazamento, Ocupadas
<1> HIDE DEF u, v
<1>7. Reserva * u + Reserva <= Reserva * v
  <2>1. Reserva * (u + 1) <= Reserva * v
    BY <1>5, <1>6
  <2> QED BY <1>5, <1>6, <2>1
<1>8. conta'.reservado <= SaldoInicial.reservado + Reserva * v
  <2> DEFINE ru == Reserva * u  rv == Reserva * v
  <2>1. ru \in Nat /\ rv \in Nat /\ ru + Reserva <= rv
        /\ conta.reservado <= SaldoInicial.reservado + ru
    BY <1>5, <1>6, <1>7
  <2> HIDE DEF ru, rv
  <2>2. conta'.reservado <= SaldoInicial.reservado + rv
    BY <1>6, <2>1
  <2> QED BY <2>2 DEF rv
<1> QED BY <1>8 DEF SemVazamento, Ocupadas, v

LEMMA OcupadasMantidas ==
  ASSUME TypeOK, abandonadas \subseteq abandonadas',
         NEW S \in SUBSET Execucoes,
         \A f \in Execucoes \ S :
           \/ status'[f] = status[f]
           \/ status'[f] \in NaoTerminais
           \/ status[f] \notin NaoTerminais
           \/ f \in abandonadas'
  PROVE  Ocupadas \ S \subseteq Ocupadas'
BY DEF Ocupadas, Vivas, TypeOK

\* The same of a step that writes the status of one execution at most.
LEMMA OcupadasSemUma ==
  ASSUME TypeOK, abandonadas' = abandonadas, NEW e, NEW d,
         status' = status \/ status' = [status EXCEPT ![e] = d]
  PROVE  /\ e \in Execucoes => Ocupadas \ {e} \subseteq Ocupadas'
         /\ d \in NaoTerminais => Ocupadas \subseteq Ocupadas'
         /\ e \in Execucoes /\ status[e] \notin NaoTerminais =>
              Ocupadas \subseteq Ocupadas'
<1>1. \A f \in Execucoes : status'[f] = status[f] \/ (f = e /\ status'[f] = d)
  <2>1. CASE status' = status
    BY <2>1
  <2>2. CASE status' = [status EXCEPT ![e] = d]
    <3>1. DOMAIN status = Execucoes
      BY DEF TypeOK
    <3>2. \A f \in Execucoes : status'[f] = IF f = e THEN d ELSE status[f]
      BY <2>2, <3>1
    <3> QED BY <3>2
  <2> QED BY <2>1, <2>2
<1>2. \A f \in Ocupadas : f \in Execucoes
  BY OcupadasFinitas
<1>3. \A f \in Ocupadas :
        \/ f \in Ocupadas'
        \/ f = e /\ d \notin NaoTerminais /\ status[e] \in NaoTerminais
  BY <1>1, <1>2 DEF Ocupadas, Vivas
<1> QED BY <1>3

LEMMA VazamentoCriar ==
  ASSUME Visibilidade, TypeOK', SemVazamento, NEW e \in Execucoes, Criar(e)
  PROVE  SemVazamento'
<1>1. TypeOK /\ ~Visivel(e) /\ abandonadas' = abandonadas
  BY DEF Criar, CriarReservar, CriarEnfileirar, CriarGravar,
     CriarFalhaFila, CriarFalha, CriarSemResposta,
     CriarCai, Visibilidade, NaoCriadas, agendaVars
<1>2. CASE CriarGravar(e)
  <2>1. e \notin Ocupadas
    BY <1>1 DEF Ocupadas, Vivas, Visibilidade, VistasPorTodos, Visivel,
       NaoTerminais
  <2>2. status' = [status EXCEPT ![e] = "enfileirado"]
    BY <1>2 DEF CriarGravar
  <2>3. Ocupadas \cup {e} \subseteq Ocupadas'
    BY <1>1, <2>2 DEF Ocupadas, Vivas, TypeOK, NaoTerminais
  <2>4. conta'.reservado = conta.reservado + Reserva
    BY <1>1, <1>2 DEF CriarGravar, Reservar, TypeOK, ContaValida
  <2> QED BY <1>1, <2>1, <2>3, <2>4, ReservaUma
<1>3. CASE ~CriarGravar(e)
  <2>1. conta' = conta
    BY <1>3 DEF Criar, CriarReservar, CriarEnfileirar,
       CriarFalhaFila, CriarFalha, CriarSemResposta, CriarCai
  <2>2. status' = status \/ status' = [status EXCEPT ![e] = "falhou"]
    BY <1>3 DEF Criar, CriarReservar, CriarEnfileirar,
       CriarFalhaFila, CriarFalha, CriarSemResposta, CriarCai
  <2>3. status[e] \notin NaoTerminais
    BY <1>1 DEF Visivel, NaoTerminais
  <2>4. Ocupadas \subseteq Ocupadas'
    BY <1>1, <2>2, <2>3, OcupadasSemUma
  <2> QED BY <1>1, <2>1, <2>4, NadaDevolve
<1> QED BY <1>2, <1>3

LEMMA VazamentoAtender ==
  ASSUME Visibilidade, TypeOK', SemVazamento, NEW r \in Pedidos,
         Pedir(r) \/ Atender(r)
  PROVE  SemVazamento'
<1>1. TypeOK /\ abandonadas' = abandonadas
  BY DEF Pedir, CancelarLer, AprovarLer, Atender, CancelarTravarConta,
     CancelarTravarLinha, CancelarAbortar, CancelarGravar, AprovarEnfileirar,
     AprovarFalhaFila,
        AprovarSemResposta, AprovarGravar, RequisicaoCai, ImpassePedido, agendaVars,
     Visibilidade
<1>2. CASE CancelarGravar(r)
  <2>1. rexec[r] \in Execucoes
    BY <1>2 DEF CancelarGravar, AbortRespondeu, Visibilidade, VistasPorTodos
  <2>2. /\ status' = [status EXCEPT ![rexec[r]] = "cancelada"]
        /\ conta' = Liberar(conta, Reserva)
    BY <1>2 DEF CancelarGravar
  <2>3. Ocupadas \ {rexec[r]} \subseteq Ocupadas'
    BY <1>1, <2>1, <2>2, OcupadasSemUma
  <2> QED BY <1>1, <2>1, <2>2, <2>3, DevolveUma
<1>3. CASE ~CancelarGravar(r)
  <2>1. conta' = conta
    BY <1>3 DEF Pedir, CancelarLer, AprovarLer, Atender, CancelarTravarConta,
       CancelarTravarLinha, CancelarAbortar, AprovarEnfileirar,
       AprovarFalhaFila,
          AprovarSemResposta, AprovarGravar, RequisicaoCai, ImpassePedido, bancoVars
  <2>2. \/ status' = status
        \/ status' = [status EXCEPT ![rexec[r]] = "executando"]
    BY <1>3 DEF Pedir, CancelarLer, AprovarLer, Atender, CancelarTravarConta,
       CancelarTravarLinha, CancelarAbortar, AprovarEnfileirar,
       AprovarFalhaFila,
          AprovarSemResposta, AprovarGravar, RequisicaoCai, ImpassePedido, bancoVars
  <2>3. Ocupadas \subseteq Ocupadas'
    BY <1>1, <2>2, OcupadasSemUma DEF NaoTerminais
  <2> QED BY <1>1, <2>1, <2>3, NadaDevolve
<1> QED BY <1>2, <1>3

LEMMA VazamentoAgendar ==
  ASSUME Visibilidade, TypeOK', SemVazamento, Agendar
  PROVE  SemVazamento'
<1>1. TypeOK /\ abandonadas \subseteq abandonadas'
  BY DEF Agendar, SanearTravar, SanearGravar, ImpasseSanear, AbandonarLer,
     AbandonarGravar, foraDoJob, agendaVars, Visibilidade
<1>2. CASE SanearGravar
  <2> DEFINE S == {e \in Execucoes : linha[e] = AGENDADOR}
  <2>1. /\ conta' = Liberar(conta, Reserva * Cardinality(S))
        /\ status' = [e \in Execucoes |->
                        IF e \in S THEN "falhou" ELSE status[e]]
    BY <1>2 DEF SanearGravar
  <2>2. S \in SUBSET Execucoes
    OBVIOUS
  <2> HIDE DEF S
  <2>3. Ocupadas \ S \subseteq Ocupadas'
    BY <1>1, <2>1, <2>2, OcupadasMantidas
  <2>4. conta'.reservado =
          conta.reservado - Menor(conta.reservado, Reserva * Cardinality(S))
    BY <1>1, <2>1 DEF Liberar, TypeOK, ContaValida
  <2> QED BY <1>1, <2>2, <2>3, <2>4, DevolveVarias
<1>3. CASE ~SanearGravar
  <2>1. conta' = conta
    BY <1>3 DEF Agendar, SanearTravar, ImpasseSanear, AbandonarLer,
       AbandonarGravar, bancoVars
  <2>2. \A f \in Execucoes : status'[f] = status[f] \/ f \in abandonadas'
    BY <1>1, <1>3 DEF Agendar, SanearTravar, ImpasseSanear, AbandonarLer,
       AbandonarGravar, bancoVars, TypeOK
  <2>3. Ocupadas \ {} \subseteq Ocupadas'
    BY <1>1, <2>2, OcupadasMantidas
  <2> QED BY <1>1, <2>1, <2>3, NadaDevolve
<1> QED BY <1>2, <1>3

LEMMA VazamentoTrabalhar ==
  ASSUME Visibilidade, TypeOK', SemVazamento, NEW j \in Jobs, Trabalhar(j)
  PROVE  SemVazamento'
<1> DEFINE Devolvendo ==
             \/ \E q \in Custos : Finalizar(j, q) \/ FinalizarSemSaldo(j, q)
             \/ FalhaGravar(j)
             \/ LiberarGravar(j)
<1>1. TypeOK
  BY DEF Visibilidade
<1>2. abandonadas' = abandonadas
  BY DEF Trabalhar, Pegar, Descartar, SemLinha, Abrir, Retomar, NoInicio,
     NoFim, NoMarcarAguardando, GrafoFim, Verificar, FinalizarLinha, Finalizar,
     FinalizarSemSaldo, FecharSessao, FalhaConta, FalhaGravar, Devolver,
     LerInterrompido, LiberarConta, LiberarGravar, foraDoJob, agendaVars
<1>3. CASE Devolvendo
  <2>1. jexec[j] \in Execucoes
    <3>1. jpc[j] # "livre"
      BY <1>3 DEF Finalizar, FinalizarSemSaldo, FalhaGravar, LiberarGravar
    <3> QED BY <3>1 DEF Visibilidade, VistasPorTodos
  <2>2. \E d : status' = [status EXCEPT ![jexec[j]] = d]
    BY <1>3 DEF Finalizar, FinalizarSemSaldo, FalhaGravar, LiberarGravar,
       Devolver
  <2>3. \/ conta' = Liberar(conta, Reserva)
        \/ \E q \in Custos : conta' = Confirmar(conta, Reserva, q)
    BY <1>3 DEF Finalizar, FinalizarSemSaldo, FalhaGravar, LiberarGravar,
       Devolver
  <2>4. conta'.reservado = Liberar(conta, Reserva).reservado
    BY <1>1, <2>3 DEF Liberar, Confirmar, Debitar, TypeOK, ContaValida
  <2>5. Ocupadas \ {jexec[j]} \subseteq Ocupadas'
    BY <1>1, <1>2, <2>1, <2>2, OcupadasSemUma
  <2> QED BY <1>1, <2>1, <2>4, <2>5, DevolveUma
<1>4. CASE ~Devolvendo
  <2>1. conta' = conta
    BY <1>4 DEF Trabalhar, Pegar, Descartar, SemLinha, Abrir, Retomar,
       NoInicio, NoFim, NoMarcarAguardando, GrafoFim, Verificar,
       FinalizarLinha, FecharSessao, FalhaConta, LerInterrompido, LiberarConta,
       bancoVars
  <2>2. \/ status' = status
        \/ \E d \in NaoTerminais : status' = [status EXCEPT ![jexec[j]] = d]
    BY <1>4 DEF Trabalhar, Pegar, Descartar, SemLinha, Abrir, Retomar,
       NoInicio, NoFim, NoMarcarAguardando, GrafoFim, Verificar,
       FinalizarLinha, FecharSessao, FalhaConta, LerInterrompido, LiberarConta,
       MarcarExecutando, bancoVars, NaoTerminais
  <2>3. Ocupadas \subseteq Ocupadas'
    BY <1>1, <1>2, <2>2, OcupadasSemUma DEF NaoTerminais
  <2> QED BY <1>1, <2>1, <2>3, NadaDevolve
<1> QED BY <1>3, <1>4

LEMMA VazamentoInterromper ==
  ASSUME Visibilidade, TypeOK', SemVazamento, NEW j \in Jobs, Interromper(j)
  PROVE  SemVazamento'
<1>1. UNCHANGED <<conta, status, abandonadas>>
  BY DEF Interromper, Erro, TempoEsgotado, TempoEsgotadoNoCommit, Abortar,
     Desligar, JobTimeout, WorkerCai, ImpasseTratador, ImpasseDebito, Falhar,
     InterromperCom, foraDoJob, agendaVars
<1> QED BY <1>1 DEF SemVazamento, Vivas

LEMMA VazamentoInicial == Init => SemVazamento
<1> SUFFICES ASSUME Init PROVE SemVazamento
  OBVIOUS
<1>1. Vivas \cup abandonadas = {}
  BY DEF Init, Vivas, NaoTerminais
<1>2. SaldoInicial.reservado \in Nat /\ Reserva \in Nat
  BY ExecucaoAssumption DEF ContaValida
<1>3. Cardinality(Vivas \cup abandonadas) = 0
  BY <1>1, FS_EmptySet
<1> QED BY <1>2, <1>3 DEF Init, SemVazamento

LEMMA VazamentoPasso ==
  Visibilidade /\ SemVazamento /\ [Next]_vars => SemVazamento'
<1> SUFFICES ASSUME Visibilidade, SemVazamento, [Next]_vars
             PROVE  SemVazamento'
  OBVIOUS
<1>1. TypeOK'
  BY TipoPasso DEF Visibilidade
<1>2. CASE \E e \in Execucoes : Criar(e)
  BY <1>1, <1>2, VazamentoCriar
<1>3. CASE \E r \in Pedidos : Pedir(r) \/ Atender(r)
  BY <1>1, <1>3, VazamentoAtender
<1>4. CASE \E j \in Jobs : Trabalhar(j) \/ Interromper(j)
  BY <1>1, <1>4, VazamentoTrabalhar, VazamentoInterromper
<1>5. CASE Agendar
  BY <1>1, <1>5, VazamentoAgendar
<1>6. CASE UNCHANGED vars
  BY <1>6 DEF vars, bancoVars, agendaVars, SemVazamento, Vivas
<1> QED BY <1>2, <1>3, <1>4, <1>5, <1>6 DEF Next

\* No credit stays reserved behind executions that are over, save those of
\* job_cancelar_abandonadas: for any number of executions, requests, jobs and
\* tries, with every fault of the model, under every interleaving.
THEOREM SemCreditoPreso == Spec => []SemVazamento
BY VazamentoInicial, VazamentoPasso, VisibilidadeSempre, PTL DEF Spec
-----------------------------------------------------------------------------
(* The refinement.  Without the events outside EventosRegulares, whoever     *)
(* acts on an execution is alone with it: one job that has not ended, or one *)
(* request, or the creation, or a request with the job it has just enqueued, *)
(* which waits for it.  Then nobody's blind write meets another's, each end  *)
(* of an execution is the first, and it is a step of UsoCredito.             *)

UP == INSTANCE UsoCreditoProofs
  WITH Usos <- Execucoes, uso <- [e \in Execucoes |-> UsoDe(e)]

Correndo(j) == jpc[j] \notin {"livre", "fim"}

\* Whose is each job and each request.
Registros ==
  /\ \A j \in Jobs : jpc[j] = "livre" <=> jexec[j] = NINGUEM
  /\ \A r \in Pedidos : rpc[r] \in {"livre", "fim"} <=> rexec[r] = NINGUEM
  /\ \A r \in Pedidos : rexec[r] = NINGUEM => rjob[r] = NINGUEM
  /\ \A r \in Pedidos : rjob[r] # NINGUEM => jexec[rjob[r]] = rexec[r]
  /\ \A e \in Execucoes : job_id[e] # NINGUEM => jexec[job_id[e]] = e

\* Whoever acts on an execution is alone with it.
Sozinhos ==
  /\ \A j, k \in Jobs : Correndo(j) /\ Correndo(k) /\ jexec[j] = jexec[k] => j = k
  /\ \A r, s \in Pedidos : rexec[r] = rexec[s] /\ rexec[r] # NINGUEM => r = s
  /\ \A r \in Pedidos, j \in Jobs : Correndo(j) /\ jexec[j] = rexec[r] =>
       rpc[r] = "gravar" /\ rjob[r] = j /\ jpc[j] = "fila"
  /\ \A e \in Execucoes, j \in Jobs : cpc[e] # "fim" /\ jexec[j] = e =>
       cpc[e] = "enfileirada" /\ jpc[j] \in {"fila", "fim"}

\* The execution it acts on is not over.
EmAberto ==
  /\ \A r \in Pedidos : rexec[r] # NINGUEM => status[rexec[r]] \in NaoTerminais
  /\ \A j \in Jobs : Correndo(j) /\ jpc[j] # "fechando" =>
       status[jexec[j]] \notin Terminais

\* No job is ever aborted or put back, and the scheduler does nothing.
SemSinais ==
  /\ \A j \in Jobs : jabort[j] = FALSE /\ jvolta[j] = FALSE
  /\ varredura = {}
  /\ \A e \in Execucoes : linha[e] # AGENDADOR

\* Who writes the account holds its row, the creation since it has seen that
\* there is enough.
ComTrava ==
  /\ \A e \in Execucoes : cpc[e] \in {"reservada", "enfileirada"} =>
       trava = e /\ PodeReservar(conta, Reserva)
  /\ \A r \in Pedidos : rpc[r] \in {"linha", "abortar", "esperar"} => trava = r
  /\ \A j \in Jobs : jpc[j] \in {"falhaLinha", "liberarLinha"} => trava = j

\* The inductive invariant of the refinement.
Unico ==
  /\ Visibilidade
  /\ Registros /\ Sozinhos /\ EmAberto /\ SemSinais /\ ComTrava

\* Nobody but job j is at its execution.
SemOutro(j) ==
  /\ cpc[jexec[j]] = "fim"
  /\ \A r \in Pedidos : rexec[r] # jexec[j]

LEMMA UnicoInicial == Init => Unico
<1> SUFFICES ASSUME Init PROVE Unico
  OBVIOUS
<1>1. Registros
  BY ExecucaoAssumption DEF Init, Registros
<1>2. Sozinhos
  BY ExecucaoAssumption DEF Init, Sozinhos, Correndo
<1>3. EmAberto /\ ComTrava
  BY DEF Init, EmAberto, ComTrava, Correndo
<1>4. SemSinais
  BY ExecucaoAssumption DEF Init, SemSinais
<1> QED BY <1>1, <1>2, <1>3, <1>4, VisibilidadeInicial DEF Unico

LEMMA JobSozinho ==
  ASSUME Unico, NEW j \in Jobs, Correndo(j)
  PROVE  /\ jexec[j] \in Execucoes
         /\ jpc[j] # "fila" => SemOutro(j)
<1>1. jexec[j] \in Execucoes
  BY DEF Unico, Visibilidade, VistasPorTodos, Correndo
<1>2. ASSUME jpc[j] # "fila" PROVE SemOutro(j)
  BY <1>1, <1>2 DEF Unico, Sozinhos, SemOutro, Correndo
<1> QED BY <1>1, <1>2

\* A job with no shutdown pending that stops is over.
LEMMA PararAcaba ==
  ASSUME Unico, NEW j \in Jobs, Parar(j)
  PROVE  /\ jpc' = [jpc EXCEPT ![j] = "fim"]
         /\ jexec' = jexec
         /\ \A i \in Jobs : jabort'[i] = FALSE /\ jvolta'[i] = FALSE
<1>1. jvolta[j] = FALSE
  BY DEF Unico, SemSinais
<1>2. jpc' = [jpc EXCEPT ![j] = "fim"] /\ jexec' = jexec
  BY <1>1 DEF Parar, IrParando
<1>3. \A i \in Jobs : jabort'[i] = FALSE
  BY DEF Parar, Unico, SemSinais
<1>4. \A i \in Jobs : jvolta'[i] = FALSE
  BY DEF Parar, Unico, SemSinais, Visibilidade, TypeOK
<1> QED BY <1>2, <1>3, <1>4

LEMMA IrSinais ==
  ASSUME Unico, NEW j, NEW d, Ir(j, d)
  PROVE  /\ jpc' = [jpc EXCEPT ![j] = d]
         /\ jexec' = jexec
         /\ \A i \in Jobs : jabort'[i] = FALSE /\ jvolta'[i] = FALSE
BY DEF Ir, Unico, SemSinais

\* A job moves within its function, or out of it.
LEMMA UnicoDoJob ==
  ASSUME Unico, Visibilidade', NEW j \in Jobs, NEW d, Correndo(j), d # "livre",
         jpc' = [jpc EXCEPT ![j] = d], jexec' = jexec,
         UNCHANGED <<job_id, varredura, cpc, rpc, rexec, rjob>>,
         d = "fim" \/ SemOutro(j),
         \A f \in Execucoes :
           status'[f] = status[f] \/ (f = jexec[j] /\ SemOutro(j)),
         d \in {"fim", "fechando"} \/ status'[jexec[j]] \notin Terminais,
         \A i \in Jobs : jabort'[i] = FALSE /\ jvolta'[i] = FALSE,
         \A f \in Execucoes : linha'[f] # AGENDADOR,
         \A x \in Execucoes \cup Pedidos \cup Jobs :
           x # j /\ trava = x => trava' = x,
         d \in {"falhaLinha", "liberarLinha"} => trava' = j,
         conta' = conta \/ trava \notin Execucoes
  PROVE  Unico'
<1>0. TypeOK /\ TypeOK' /\ VistasPorTodos
  BY DEF Unico, Visibilidade
<1>1. \A i \in Jobs : jpc'[i] = IF i = j THEN d ELSE jpc[i]
  BY <1>0 DEF TypeOK
<1>2. \A i \in Jobs : Correndo(i)' => Correndo(i)
  BY <1>1 DEF Correndo
<1>3. Registros'
  <2>1. \A i \in Jobs : jpc'[i] = "livre" <=> jpc[i] = "livre"
    BY <1>1 DEF Correndo
  <2> QED BY <2>1 DEF Unico, Registros
<1>4. Sozinhos'
  <2>1. \A i, k \in Jobs :
          Correndo(i)' /\ Correndo(k)' /\ jexec'[i] = jexec'[k] => i = k
    BY <1>2 DEF Unico, Sozinhos
  <2>2. \A r, s \in Pedidos : rexec'[r] = rexec'[s] /\ rexec'[r] # NINGUEM => r = s
    BY DEF Unico, Sozinhos
  <2>3. ASSUME NEW r \in Pedidos, NEW i \in Jobs, Correndo(i)',
               jexec'[i] = rexec'[r]
        PROVE  rpc'[r] = "gravar" /\ rjob'[r] = i /\ jpc'[i] = "fila"
    <3>1. i # j
      BY <1>1, <2>3 DEF SemOutro, Correndo
    <3> QED BY <1>1, <1>2, <2>3, <3>1 DEF Unico, Sozinhos
  <2>4. ASSUME NEW e \in Execucoes, NEW i \in Jobs, cpc'[e] # "fim", jexec'[i] = e
        PROVE  cpc'[e] = "enfileirada" /\ jpc'[i] \in {"fila", "fim"}
    BY <1>1, <2>4 DEF Unico, Sozinhos, SemOutro
  <2> QED BY <2>1, <2>2, <2>3, <2>4 DEF Sozinhos
<1>5. EmAberto'
  <2>1. ASSUME NEW r \in Pedidos, rexec'[r] # NINGUEM
        PROVE  status'[rexec'[r]] \in NaoTerminais
    <3>1. rexec[r] \in Execucoes /\ status[rexec[r]] \in NaoTerminais
      BY <1>0, <2>1 DEF TypeOK, Unico, EmAberto
    <3> QED BY <3>1 DEF SemOutro
  <2>2. ASSUME NEW i \in Jobs, Correndo(i)', jpc'[i] # "fechando"
        PROVE  status'[jexec'[i]] \notin Terminais
    <3>1. CASE i = j
      BY <1>1, <2>2, <3>1 DEF Correndo
    <3>2. CASE i # j
      <4>1. Correndo(i) /\ jpc[i] # "fechando" /\ jexec[i] # jexec[j]
        BY <1>1, <1>2, <2>2, <3>2 DEF Unico, Sozinhos
      <4>2. jexec[i] \in Execucoes
        BY <4>1, JobSozinho
      <4> QED BY <4>1, <4>2 DEF Unico, EmAberto
    <3> QED BY <3>1, <3>2
  <2> QED BY <2>1, <2>2 DEF EmAberto
<1>6. SemSinais'
  BY DEF Unico, SemSinais
<1>7. ComTrava'
  <2>1. ASSUME NEW e \in Execucoes, cpc'[e] \in {"reservada", "enfileirada"}
        PROVE  trava' = e /\ PodeReservar(conta', Reserva)
    <3>1. trava = e /\ PodeReservar(conta, Reserva) /\ e # j
      BY <2>1, ExecucaoAssumption DEF Unico, ComTrava
    <3> QED BY <3>1
  <2>2. ASSUME NEW r \in Pedidos, rpc'[r] \in {"linha", "abortar", "esperar"}
        PROVE  trava' = r
    <3>1. trava = r /\ r # j
      BY <2>2, ExecucaoAssumption DEF Unico, ComTrava
    <3> QED BY <3>1
  <2>3. ASSUME NEW i \in Jobs, jpc'[i] \in {"falhaLinha", "liberarLinha"}
        PROVE  trava' = i
    BY <1>1, <2>3 DEF Unico, ComTrava
  <2> QED BY <2>1, <2>2, <2>3 DEF ComTrava
<1> QED BY <1>3, <1>4, <1>5, <1>6, <1>7 DEF Unico

\* A job that only moves, touching no table.
LEMMA UnicoSoMove ==
  ASSUME Unico, Visibilidade', NEW j \in Jobs, NEW d, Correndo(j),
         d \notin {"livre", "falhaLinha", "liberarLinha"},
         jpc' = [jpc EXCEPT ![j] = d], jexec' = jexec,
         UNCHANGED bancoVars, UNCHANGED foraDoJob,
         \A i \in Jobs : jabort'[i] = FALSE /\ jvolta'[i] = FALSE,
         d = "fim" \/ (SemOutro(j) /\ jpc[j] # "fechando")
  PROVE  Unico'
<1>1. UNCHANGED <<job_id, varredura, cpc, rpc, rexec, rjob, status, linha, trava,
                  conta>>
  BY DEF bancoVars, foraDoJob, agendaVars, pedidoVars
<1>2. \A f \in Execucoes : linha'[f] # AGENDADOR
  BY <1>1 DEF Unico, SemSinais
<1>3. d \in {"fim", "fechando"} \/ status'[jexec[j]] \notin Terminais
  BY <1>1 DEF Unico, EmAberto
<1> QED BY <1>1, <1>2, <1>3, UnicoDoJob

LEMMA LinhaSemSemAgendador ==
  ASSUME Unico, NEW x
  PROVE  \A f \in Execucoes : LinhaSem(x)[f] # AGENDADOR
BY ExecucaoAssumption DEF Unico, SemSinais, LinhaSem

LEMMA UnicoIr ==
  ASSUME Unico, Visibilidade', NEW j \in Jobs, NEW d, Correndo(j), SemOutro(j),
         d # "livre", Ir(j, d), UNCHANGED foraDoJob, job_id' = job_id,
         \A f \in Execucoes : status'[f] = status[f] \/ f = jexec[j],
         d \in {"fim", "fechando"} \/ status'[jexec[j]] \notin Terminais,
         \A f \in Execucoes : linha'[f] # AGENDADOR,
         \A x \in Execucoes \cup Pedidos \cup Jobs :
           x # j /\ trava = x => trava' = x,
         d \in {"falhaLinha", "liberarLinha"} => trava' = j,
         conta' = conta \/ trava \notin Execucoes
  PROVE  Unico'
<1>1. UNCHANGED <<job_id, varredura, cpc, rpc, rexec, rjob>>
  BY DEF foraDoJob, agendaVars, pedidoVars
<1>2. /\ jpc' = [jpc EXCEPT ![j] = d] /\ jexec' = jexec
      /\ \A i \in Jobs : jabort'[i] = FALSE /\ jvolta'[i] = FALSE
  BY IrSinais
<1>3. \A f \in Execucoes :
        status'[f] = status[f] \/ (f = jexec[j] /\ SemOutro(j))
  OBVIOUS
<1> HIDE DEF SemOutro, Correndo
<1> QED BY <1>1, <1>2, <1>3, UnicoDoJob

LEMMA UnicoTrabalhar ==
  ASSUME Unico, Visibilidade', Eventos \subseteq EventosRegulares,
         NEW j \in Jobs, Trabalhar(j)
  PROVE  Unico'
<1>0. TypeOK /\ TypeOK'
  BY DEF Unico, Visibilidade
<1>f. ASSUME UNCHANGED foraDoJob PROVE UNCHANGED <<varredura, cpc, rpc, rexec, rjob>>
  BY <1>f DEF foraDoJob, agendaVars, pedidoVars
<1>1. CASE Pegar(j)
  <2>1. /\ jpc[j] = "fila" /\ Correndo(j)
        /\ jpc' = [jpc EXCEPT ![j] = "abrir"] /\ jexec' = jexec
        /\ UNCHANGED bancoVars /\ UNCHANGED foraDoJob
        /\ UNCHANGED <<jabort, jvolta>>
    BY <1>1 DEF Pegar, Correndo
  <2>2. QuemEnfileirouGravou(j)
    BY <1>1 DEF Pegar, EventosRegulares
  <2>3. SemOutro(j)
    BY <2>1, <2>2 DEF QuemEnfileirouGravou, SemOutro, Unico, Sozinhos
  <2>4. \A i \in Jobs : jabort'[i] = FALSE /\ jvolta'[i] = FALSE
    BY <2>1 DEF Unico, SemSinais
  <2> QED BY <2>1, <2>3, <2>4, UnicoSoMove
<1>2. CASE Descartar(j)
  <2>1. /\ Correndo(j)
        /\ jpc' = [jpc EXCEPT ![j] = "fim"] /\ jexec' = jexec
        /\ UNCHANGED bancoVars /\ UNCHANGED foraDoJob
    BY <1>2 DEF Descartar, IrParando, Correndo
  <2>2. \A i \in Jobs : jabort'[i] = FALSE /\ jvolta'[i] = FALSE
    BY <1>0, <1>2 DEF Descartar, Unico, SemSinais, TypeOK
  <2> QED BY <2>1, <2>2, UnicoSoMove
<1>3. CASE /\ SemLinha(j) \/ FecharSessao(j) \/ Verificar(j) \/ LerInterrompido(j)
           /\ Parar(j)
  <2>1. Correndo(j) /\ UNCHANGED bancoVars /\ UNCHANGED foraDoJob
    BY <1>3 DEF SemLinha, FecharSessao, Verificar, LerInterrompido, Correndo
  <2> QED BY <1>3, <2>1, PararAcaba, UnicoSoMove
<1>4. ASSUME NEW d \in {"verificar", "finalizar", "liberar"}, Ir(j, d),
             GrafoFim(j) \/ Verificar(j) \/ LerInterrompido(j)
      PROVE  Unico'
  <2>1. /\ Correndo(j) /\ jpc[j] \notin {"fila", "fechando"}
        /\ UNCHANGED bancoVars /\ UNCHANGED foraDoJob
    BY <1>4 DEF GrafoFim, Verificar, LerInterrompido, Correndo
  <2>2. SemOutro(j)
    BY <2>1, JobSozinho
  <2> QED BY <1>4, <2>1, <2>2, IrSinais, UnicoSoMove
<1>5. CASE Abrir(j) \/ Retomar(j)
  <2>1. PICK d \in {"grafo", "retomar"} : Ir(j, d)
    BY <1>5 DEF Abrir, Retomar
  <2>2. /\ Correndo(j) /\ jpc[j] \notin {"fila", "fechando"}
        /\ MarcarExecutando(jexec[j])
        /\ UNCHANGED <<conta, trava, job_id, linha>> /\ UNCHANGED foraDoJob
    BY <1>5 DEF Abrir, Retomar, Correndo
  <2>3. SemOutro(j) /\ jexec[j] \in Execucoes
    BY <2>2, JobSozinho
  <2>4. /\ \A f \in Execucoes : status'[f] = status[f] \/ f = jexec[j]
        /\ status'[jexec[j]] = "executando"
    BY <1>0, <2>2, <2>3 DEF MarcarExecutando, TypeOK
  <2>5. \A f \in Execucoes : linha'[f] # AGENDADOR
    BY <2>2 DEF Unico, SemSinais
  <2>6. status'[jexec[j]] \notin Terminais
    BY <2>4 DEF Terminais
  <2> QED BY <2>1, <2>2, <2>3, <2>4, <2>5, <2>6, UnicoIr
<1>6. CASE NoInicio(j) \/ NoFim(j) \/ FinalizarLinha(j)
  <2>1. PICK d \in {"no", "grafo", "debitar"} : Ir(j, d)
    BY <1>6 DEF NoInicio, NoFim, FinalizarLinha
  <2>2. /\ Correndo(j) /\ jpc[j] \notin {"fila", "fechando"}
        /\ \/ linha' = LinhaSem(j) \/ linha' = linha
           \/ linha' = [linha EXCEPT ![jexec[j]] = j]
        /\ UNCHANGED <<conta, trava, job_id, status>> /\ UNCHANGED foraDoJob
    BY <1>6 DEF NoInicio, NoFim, FinalizarLinha, Correndo
  <2>3. SemOutro(j)
    BY <2>2, JobSozinho
  <2>4. \A f \in Execucoes : linha'[f] # AGENDADOR
    <3>1. CASE linha' = LinhaSem(j)
      BY <3>1, LinhaSemSemAgendador
    <3>2. CASE linha' = linha
      BY <3>2 DEF Unico, SemSinais
    <3>3. CASE linha' = [linha EXCEPT ![jexec[j]] = j]
      <4>1. j # AGENDADOR
        BY ExecucaoAssumption
      <4>2. linha \in [Execucoes -> DonosDeLinha]
        BY <1>0 DEF TypeOK, DonosDeLinha
      <4> QED BY <3>3, <4>1, <4>2 DEF Unico, SemSinais
    <3> QED BY <2>2, <3>1, <3>2, <3>3
  <2>5. status'[jexec[j]] \notin Terminais
    BY <2>2 DEF Unico, EmAberto
  <2> QED BY <2>1, <2>2, <2>3, <2>4, <2>5, UnicoIr
<1>7. CASE NoMarcarAguardando(j)
  <2>1. /\ Correndo(j) /\ jpc[j] \notin {"fila", "fechando"} /\ Ir(j, "verificar")
        /\ linha' = LinhaSem(j)
        /\ status' = [status EXCEPT ![jexec[j]] = "aguardando"]
        /\ UNCHANGED <<conta, trava, job_id>> /\ UNCHANGED foraDoJob
    BY <1>7 DEF NoMarcarAguardando, Correndo
  <2>2. SemOutro(j) /\ jexec[j] \in Execucoes
    BY <2>1, JobSozinho
  <2>3. /\ \A f \in Execucoes : status'[f] = status[f] \/ f = jexec[j]
        /\ status'[jexec[j]] \notin Terminais
    BY <1>0, <2>1, <2>2 DEF TypeOK, Terminais
  <2>4. \A f \in Execucoes : linha'[f] # AGENDADOR
    BY <2>1, LinhaSemSemAgendador
  <2> QED BY <2>1, <2>2, <2>3, <2>4, UnicoIr
<1>8. ASSUME NEW q \in Custos, Finalizar(j, q) \/ FinalizarSemSaldo(j, q)
      PROVE  Unico'
  <2>1. /\ Correndo(j) /\ jpc[j] \notin {"fila", "fechando"} /\ Ir(j, "fechando")
        /\ linha' = LinhaSem(j) /\ trava = NINGUEM
        /\ \E d : status' = [status EXCEPT ![jexec[j]] = d]
        /\ UNCHANGED <<trava, job_id>> /\ UNCHANGED foraDoJob
    BY <1>8 DEF Finalizar, FinalizarSemSaldo, Correndo
  <2>2. SemOutro(j) /\ jexec[j] \in Execucoes
    BY <2>1, JobSozinho
  <2>3. \A f \in Execucoes : status'[f] = status[f] \/ f = jexec[j]
    BY <1>0, <2>1 DEF TypeOK
  <2>4. \A f \in Execucoes : linha'[f] # AGENDADOR
    BY <2>1, LinhaSemSemAgendador
  <2>5. trava \notin Execucoes
    BY <2>1, ExecucaoAssumption
  <2> QED BY <2>1, <2>2, <2>3, <2>4, <2>5, UnicoIr
<1>9. CASE FalhaConta(j) \/ LiberarConta(j)
  <2>1. PICK d \in {"falhaLinha", "liberarLinha"} : Ir(j, d)
    BY <1>9 DEF FalhaConta, LiberarConta
  <2>2. /\ Correndo(j) /\ jpc[j] \notin {"fila", "fechando"}
        /\ trava = NINGUEM /\ trava' = j
        /\ UNCHANGED <<conta, linha, job_id, status>> /\ UNCHANGED foraDoJob
    BY <1>9 DEF FalhaConta, LiberarConta, Correndo
  <2>3. SemOutro(j)
    BY <2>2, JobSozinho
  <2>4. \A f \in Execucoes : linha'[f] # AGENDADOR
    BY <2>2 DEF Unico, SemSinais
  <2>5. status'[jexec[j]] \notin Terminais
    BY <2>2 DEF Unico, EmAberto
  <2>6. \A x \in Execucoes \cup Pedidos \cup Jobs : trava # x
    BY <2>2, ExecucaoAssumption
  <2> QED BY <2>1, <2>2, <2>3, <2>4, <2>5, <2>6, UnicoIr
<1>10. CASE FalhaGravar(j) \/ LiberarGravar(j)
  <2>1. PICK d : Devolver(j, d)
    BY <1>10 DEF FalhaGravar, LiberarGravar
  <2>2. /\ Correndo(j) /\ jpc[j] \notin {"fila", "fechando"}
        /\ jpc[j] \in {"falhaLinha", "liberarLinha"}
    BY <1>10 DEF FalhaGravar, LiberarGravar, Correndo
  <2>3. trava = j
    BY <2>2 DEF Unico, ComTrava
  <2>4. /\ status' = [status EXCEPT ![jexec[j]] = d]
        /\ Parar(j)
        /\ UNCHANGED <<job_id, linha>> /\ UNCHANGED foraDoJob
    BY <2>1 DEF Devolver
  <2>5. SemOutro(j) /\ jexec[j] \in Execucoes
    BY <2>2, JobSozinho
  <2>6. \A f \in Execucoes : status'[f] = status[f] \/ f = jexec[j]
    BY <1>0, <2>4 DEF TypeOK
  <2>7. \A f \in Execucoes : linha'[f] # AGENDADOR
    BY <2>4 DEF Unico, SemSinais
  <2>8. trava \notin Execucoes
    BY <2>3, ExecucaoAssumption
  <2> QED BY <1>f, <2>2, <2>3, <2>4, <2>5, <2>6, <2>7, <2>8, PararAcaba, UnicoDoJob
<1>11. SemLinha(j) \/ FecharSessao(j) => Parar(j)
  BY DEF SemLinha, FecharSessao
<1>12. Verificar(j) => Parar(j) \/ Ir(j, "finalizar")
  BY DEF Verificar
<1>13. LerInterrompido(j) => Parar(j) \/ Ir(j, "liberar")
  BY DEF LerInterrompido
<1>14. GrafoFim(j) => Ir(j, "verificar")
  BY DEF GrafoFim
<1> QED
  BY <1>1, <1>2, <1>3, <1>4, <1>5, <1>6, <1>7, <1>8, <1>9, <1>10, <1>11, <1>12,
     <1>13, <1>14
     DEF Trabalhar

\* A job that is interrupted releases its locks.
LEMMA UnicoSai ==
  ASSUME Unico, Visibilidade', NEW j \in Jobs,
         NEW d \in {"fim", "falha", "interrompido"},
         Correndo(j), jpc[j] \notin {"fila", "fechando"},
         jpc' = [jpc EXCEPT ![j] = d], jexec' = jexec,
         SoltarTudo(j), UNCHANGED <<conta, status, job_id>>, UNCHANGED foraDoJob,
         \A i \in Jobs : jabort'[i] = FALSE /\ jvolta'[i] = FALSE
  PROVE  Unico'
<1>1. UNCHANGED <<job_id, varredura, cpc, rpc, rexec, rjob>>
  BY DEF foraDoJob, agendaVars, pedidoVars
<1>2. SemOutro(j)
  BY JobSozinho
<1>3. \A f \in Execucoes : linha'[f] # AGENDADOR
  BY LinhaSemSemAgendador DEF SoltarTudo
<1>4. \A x \in Execucoes \cup Pedidos \cup Jobs : x # j /\ trava = x => trava' = x
  BY DEF SoltarTudo, TravaSem
<1>5. status'[jexec[j]] \notin Terminais
  BY DEF Unico, EmAberto
<1>6. d \notin {"livre", "falhaLinha", "liberarLinha"}
  OBVIOUS
<1> HIDE DEF SemOutro, Correndo
<1> QED BY <1>1, <1>2, <1>3, <1>4, <1>5, <1>6, UnicoDoJob

LEMMA UnicoInterromper ==
  ASSUME Unico, Visibilidade', Eventos \subseteq EventosRegulares,
         NEW j \in Jobs, Interromper(j)
  PROVE  Unico'
<1>1. ~TempoEsgotadoNoCommit(j) /\ ~Desligar(j) /\ ~WorkerCai(j)
  BY DEF TempoEsgotadoNoCommit, Desligar, WorkerCai, EventosRegulares
<1>2. ~Abortar(j)
  BY DEF Abortar, Unico, SemSinais
<1>3. ASSUME jpc[j] \in NoGrafo \cup {"abrir"}, Falhar(j) PROVE Unico'
  <2>1. Correndo(j) /\ jpc[j] \notin {"fila", "fechando"}
    BY <1>3 DEF Correndo, NoGrafo
  <2>2. /\ Ir(j, "falha") /\ SoltarTudo(j)
        /\ UNCHANGED <<conta, status, job_id>> /\ UNCHANGED foraDoJob
    BY <1>3 DEF Falhar
  <2> QED BY <2>1, <2>2, IrSinais, UnicoSai
<1>4. CASE Erro(j) \/ TempoEsgotado(j) \/ ImpasseDebito(j)
  BY <1>3, <1>4 DEF Erro, TempoEsgotado, ImpasseDebito, NoGrafo
<1>5. CASE JobTimeout(j)
  <2> DEFINE d == AoCancelar(j)
  <2>1. Correndo(j) /\ jpc[j] \notin {"fila", "fechando"}
    BY <1>5 DEF Correndo, JobTimeout, EsperandoTrava, EsperandoLinha
  <2>2. d \in {"fim", "falha", "interrompido"}
    BY AoCancelarTipado
  <2>3. InterromperCom(j, d, FALSE) /\ jabort' = jabort
    BY <1>5 DEF JobTimeout
  <2> HIDE DEF d
  <2>4. /\ jpc' = [jpc EXCEPT ![j] = d] /\ jexec' = jexec
        /\ SoltarTudo(j)
        /\ UNCHANGED <<conta, status, job_id>> /\ UNCHANGED foraDoJob
    BY <2>3 DEF InterromperCom, IrParando
  <2>5. \A i \in Jobs : jabort'[i] = FALSE
    BY <2>3 DEF Unico, SemSinais
  <2>6. \A i \in Jobs : jvolta'[i] = FALSE
    BY <2>3 DEF InterromperCom, Unico, SemSinais, Visibilidade, TypeOK
  <2> QED BY <2>1, <2>2, <2>4, <2>5, <2>6, UnicoSai
<1>6. CASE ImpasseTratador(j)
  <2>1. Correndo(j) /\ jpc[j] \notin {"fila", "fechando"}
    BY <1>6 DEF Correndo, ImpasseTratador, JobEmImpasse
  <2>2. /\ Parar(j) \/ Ir(j, "falha")
        /\ SoltarTudo(j)
        /\ UNCHANGED <<conta, status, job_id>> /\ UNCHANGED foraDoJob
    BY <1>6 DEF ImpasseTratador
  <2>3. CASE Parar(j)
    BY <2>1, <2>2, <2>3, PararAcaba, UnicoSai
  <2>4. CASE Ir(j, "falha")
    BY <2>1, <2>2, <2>4, IrSinais, UnicoSai
  <2> QED BY <2>2, <2>3, <2>4
<1> QED BY <1>1, <1>2, <1>4, <1>5, <1>6 DEF Interromper

-----------------------------------------------------------------------------
\* The creation takes the account, or leaves it.
LEMMA UnicoDaCriacao ==
  ASSUME Unico, Visibilidade', NEW e \in Execucoes, NEW d, cpc[e] # "fim",
         cpc' = [cpc EXCEPT ![e] = d],
         UNCHANGED <<job_id, linha, varredura, rpc, rexec, rjob, jpc, jexec,
                     jabort, jvolta>>,
         \A f \in Execucoes : status'[f] = status[f] \/ f = e,
         status'[e] \in Terminais => cpc[e] = "reservada",
         trava \in {NINGUEM, e},
         \/ d = "fim"
         \/ /\ cpc[e] = "nova" /\ d = "reservada" /\ trava' = e
            /\ PodeReservar(conta', Reserva)
  PROVE  Unico'
<1>0. TypeOK /\ \A f \in Execucoes : cpc'[f] = IF f = e THEN d ELSE cpc[f]
  BY DEF Unico, Visibilidade, TypeOK
<1>1. Registros' /\ SemSinais'
  BY DEF Unico, Registros, SemSinais
<1>2. Sozinhos'
  <2>1. ASSUME NEW f \in Execucoes, NEW i \in Jobs, cpc'[f] # "fim", jexec'[i] = f
        PROVE  cpc'[f] = "enfileirada" /\ jpc'[i] \in {"fila", "fim"}
    BY <1>0, <2>1 DEF Unico, Sozinhos
  <2> QED BY <2>1 DEF Unico, Sozinhos, Correndo
<1>3. EmAberto'
  <2>1. \A r \in Pedidos : rexec[r] # e
    <3>1. status[e] = "invisivel"
      BY DEF Unico, Visibilidade, NaoCriadas, Visivel
    <3> QED BY <3>1, ExecucaoAssumption DEF Unico, EmAberto, NaoTerminais
  <2>2. ASSUME NEW r \in Pedidos, rexec'[r] # NINGUEM
        PROVE  status'[rexec'[r]] \in NaoTerminais
    <3>1. rexec[r] \in Execucoes /\ status[rexec[r]] \in NaoTerminais
      BY <1>0, <2>2 DEF TypeOK, Unico, EmAberto
    <3> QED BY <2>1, <3>1
  <2>3. ASSUME NEW i \in Jobs, Correndo(i)', jpc'[i] # "fechando"
        PROVE  status'[jexec'[i]] \notin Terminais
    <3>1. Correndo(i) /\ jpc[i] # "fechando"
      BY <2>3 DEF Correndo
    <3>2. CASE jexec[i] = e
      BY <3>2, <3>1 DEF Unico, Sozinhos
    <3>3. CASE jexec[i] # e
      <4>1. status'[jexec[i]] = status[jexec[i]]
        BY <3>1, <3>3, JobSozinho
      <4> QED BY <3>1, <4>1 DEF Unico, EmAberto
    <3> QED BY <3>2, <3>3
  <2> QED BY <2>2, <2>3 DEF EmAberto
<1>4. ComTrava'
  <2>1. ASSUME NEW f \in Execucoes, cpc'[f] \in {"reservada", "enfileirada"}
        PROVE  trava' = f /\ PodeReservar(conta', Reserva)
    <3>1. CASE f = e
      BY <1>0, <2>1, <3>1
    <3>2. CASE f # e
      BY <1>0, <2>1, <3>2, ExecucaoAssumption DEF Unico, ComTrava
    <3> QED BY <3>1, <3>2
  <2>2. ASSUME NEW r \in Pedidos, rpc'[r] \in {"linha", "abortar", "esperar"}
        PROVE  trava' = r
    BY <2>2, ExecucaoAssumption DEF Unico, ComTrava
  <2>3. ASSUME NEW i \in Jobs, jpc'[i] \in {"falhaLinha", "liberarLinha"}
        PROVE  trava' = i
    BY <2>3, ExecucaoAssumption DEF Unico, ComTrava
  <2> QED BY <2>1, <2>2, <2>3 DEF ComTrava
<1> QED BY <1>1, <1>2, <1>3, <1>4 DEF Unico

\* A job that is enqueued was nobody's.
LEMMA JobLivre ==
  ASSUME Unico, NEW j \in Jobs, NEW e \in Execucoes, NEW tipo, Enfileirar(j, e, tipo)
  PROVE  /\ \A i \in Jobs : jpc'[i] = IF i = j THEN "fila" ELSE jpc[i]
         /\ \A i \in Jobs : jexec'[i] = IF i = j THEN e ELSE jexec[i]
         /\ jpc[j] = "livre"
         /\ \A f \in Execucoes : job_id[f] # j
         /\ \A r \in Pedidos : rjob[r] # j
         /\ UNCHANGED <<jabort, jvolta>>
<1>1. TypeOK
  BY DEF Unico, Visibilidade
<1>2. jexec[j] = NINGUEM /\ j # NINGUEM /\ e # NINGUEM
  BY ExecucaoAssumption DEF Unico, Registros, Enfileirar
<1>3. \A f \in Execucoes : job_id[f] # j
  BY <1>2, ExecucaoAssumption DEF Unico, Registros
<1>4. \A r \in Pedidos : rjob[r] # j
  BY <1>2 DEF Unico, Registros
<1>5. /\ \A i \in Jobs : jpc'[i] = IF i = j THEN "fila" ELSE jpc[i]
      /\ \A i \in Jobs : jexec'[i] = IF i = j THEN e ELSE jexec[i]
  BY <1>1 DEF Enfileirar, TypeOK
<1> QED BY <1>3, <1>4, <1>5 DEF Enfileirar

LEMMA UnicoCriarEnfileirar ==
  ASSUME Unico, Visibilidade', NEW e \in Execucoes, NEW j \in Jobs,
         CriarEnfileirar(e, j)
  PROVE  Unico'
<1>0. TypeOK /\ NaoCriadas
  BY DEF Unico, Visibilidade
<1>1. /\ cpc[e] = "reservada" /\ Enfileirar(j, e, "inicio")
      /\ UNCHANGED <<conta, trava, status, linha, varredura, rpc, rexec, rjob>>
  BY DEF CriarEnfileirar, agendaVars, pedidoVars
<1>2. /\ \A f \in Execucoes : cpc'[f] = IF f = e THEN "enfileirada" ELSE cpc[f]
      /\ \A f \in Execucoes : job_id'[f] = IF f = e THEN j ELSE job_id[f]
  BY <1>0 DEF CriarEnfileirar, TypeOK
<1>3. /\ \A i \in Jobs : jpc'[i] = IF i = j THEN "fila" ELSE jpc[i]
      /\ \A i \in Jobs : jexec'[i] = IF i = j THEN e ELSE jexec[i]
      /\ jpc[j] = "livre"
      /\ \A f \in Execucoes : job_id[f] # j
      /\ \A r \in Pedidos : rjob[r] # j
      /\ UNCHANGED <<jabort, jvolta>>
  BY <1>1, JobLivre
<1>4. j # NINGUEM /\ e # NINGUEM
  BY ExecucaoAssumption
<1>5. \A i \in Jobs : jexec[i] # e
  BY <1>1 DEF Unico, Sozinhos
<1>6. \A r \in Pedidos : rexec[r] # e
  <2>1. status[e] = "invisivel"
    BY <1>0, <1>1 DEF NaoCriadas, Visivel
  <2> QED BY <1>4, <2>1 DEF Unico, EmAberto, NaoTerminais
<1>7. Registros'
  <2>1. \A i \in Jobs : jpc'[i] = "livre" <=> jexec'[i] = NINGUEM
    BY <1>3, <1>4 DEF Unico, Registros
  <2>2. \A r \in Pedidos : rpc'[r] \in {"livre", "fim"} <=> rexec'[r] = NINGUEM
    BY <1>1 DEF Unico, Registros
  <2>3. \A r \in Pedidos : rexec'[r] = NINGUEM => rjob'[r] = NINGUEM
    BY <1>1 DEF Unico, Registros
  <2>4. ASSUME NEW r \in Pedidos, rjob'[r] # NINGUEM
        PROVE  jexec'[rjob'[r]] = rexec'[r]
    BY <1>0, <1>1, <1>3, <2>4 DEF Unico, Registros, TypeOK
  <2>5. ASSUME NEW f \in Execucoes, job_id'[f] # NINGUEM
        PROVE  jexec'[job_id'[f]] = f
    BY <1>0, <1>2, <1>3, <2>5 DEF Unico, Registros, TypeOK
  <2> QED BY <2>1, <2>2, <2>3, <2>4, <2>5 DEF Registros
<1>8. Sozinhos'
  <2>1. ASSUME NEW i \in Jobs, NEW k \in Jobs, Correndo(i)', Correndo(k)',
               jexec'[i] = jexec'[k]
        PROVE  i = k
    BY <1>3, <1>5, <2>1 DEF Unico, Sozinhos, Correndo
  <2>2. ASSUME NEW r \in Pedidos, NEW i \in Jobs, Correndo(i)', jexec'[i] = rexec'[r]
        PROVE  rpc'[r] = "gravar" /\ rjob'[r] = i /\ jpc'[i] = "fila"
    BY <1>1, <1>3, <1>6, <2>2 DEF Unico, Sozinhos, Correndo
  <2>3. ASSUME NEW f \in Execucoes, NEW i \in Jobs, cpc'[f] # "fim", jexec'[i] = f
        PROVE  cpc'[f] = "enfileirada" /\ jpc'[i] \in {"fila", "fim"}
    BY <1>2, <1>3, <1>5, <2>3 DEF Unico, Sozinhos
  <2> QED BY <1>1, <2>1, <2>2, <2>3 DEF Unico, Sozinhos
<1>9. EmAberto'
  <2>1. status[e] \notin Terminais
    BY <1>0, <1>1 DEF NaoCriadas, Visivel, Terminais
  <2> QED BY <1>1, <1>3, <2>1 DEF Unico, EmAberto, Correndo
<1>10. SemSinais'
  BY <1>1, <1>3 DEF Unico, SemSinais
<1>11. ComTrava'
  BY <1>1, <1>2, <1>3 DEF Unico, ComTrava
<1> QED BY <1>7, <1>8, <1>9, <1>10, <1>11 DEF Unico

LEMMA UnicoCriar ==
  ASSUME Unico, Visibilidade', Eventos \subseteq EventosRegulares,
         NEW e \in Execucoes, Criar(e)
  PROVE  Unico'
<1>0. \A j \in Jobs : ~CriarSemResposta(e, j)
  BY DEF CriarSemResposta, EventosRegulares
<1>1. CASE \E j \in Jobs : CriarEnfileirar(e, j)
  BY <1>1, UnicoCriarEnfileirar
<1>2. ASSUME CriarReservar(e) \/ CriarGravar(e) \/ CriarFalhaFila(e) \/ CriarCai(e)
      PROVE  /\ cpc[e] # "fim"
             /\ UNCHANGED <<job_id, linha, varredura, rpc, rexec, rjob, jpc, jexec,
                            jabort, jvolta>>
             /\ \A f \in Execucoes : status'[f] = status[f] \/ f = e
             /\ trava \in {NINGUEM, e}
  <2>1. /\ cpc[e] # "fim"
        /\ UNCHANGED <<job_id, linha, agendaVars, pedidoVars, jobVars>>
        /\ status' = status \/ \E d : status' = [status EXCEPT ![e] = d]
        /\ trava = NINGUEM \/ cpc[e] \in {"reservada", "enfileirada"}
    BY <1>2 DEF CriarReservar, CriarGravar, CriarFalhaFila, CriarFalha, CriarCai
  <2>2. \A f \in Execucoes : status'[f] = status[f] \/ f = e
    BY <2>1 DEF Unico, Visibilidade, TypeOK
  <2>3. trava \in {NINGUEM, e}
    BY <2>1 DEF Unico, ComTrava
  <2> QED BY <2>1, <2>2, <2>3 DEF agendaVars, pedidoVars, jobVars
<1>3. CASE CriarReservar(e)
  <2>1. /\ cpc[e] = "nova" /\ cpc' = [cpc EXCEPT ![e] = "reservada"]
        /\ trava' = e /\ PodeReservar(conta', Reserva) /\ status' = status
    BY <1>3 DEF CriarReservar
  <2>2. status'[e] \notin Terminais
    BY <2>1 DEF Unico, Visibilidade, NaoCriadas, Visivel, Terminais
  <2> QED BY <1>2, <1>3, <2>1, <2>2, UnicoDaCriacao
<1>4. CASE CriarGravar(e) \/ CriarFalhaFila(e) \/ CriarCai(e)
  <2>1. cpc' = [cpc EXCEPT ![e] = "fim"]
    BY <1>4 DEF CriarGravar, CriarFalhaFila, CriarFalha, CriarCai
  <2>2. status'[e] \in Terminais => cpc[e] = "reservada"
    <3>1. status[e] = "invisivel"
      BY <1>2, <1>4 DEF Unico, Visibilidade, NaoCriadas, Visivel
    <3>2. CASE CriarGravar(e)
      BY <3>2 DEF CriarGravar, Unico, Visibilidade, TypeOK, Terminais
    <3>3. CASE CriarFalhaFila(e)
      BY <3>3 DEF CriarFalhaFila
    <3>4. CASE CriarCai(e)
      BY <3>1, <3>4 DEF CriarCai, Terminais
    <3> QED BY <1>4, <3>2, <3>3, <3>4
  <2> QED BY <1>2, <1>4, <2>1, <2>2, UnicoDaCriacao
<1> QED BY <1>0, <1>1, <1>3, <1>4 DEF Criar

-----------------------------------------------------------------------------
\* A request begins on an execution at rest.
LEMMA UnicoPedir ==
  ASSUME Unico, Visibilidade', Eventos \subseteq EventosRegulares,
         NEW r \in Pedidos, Pedir(r)
  PROVE  Unico'
<1>0. TypeOK /\ NaoCriadas
  BY DEF Unico, Visibilidade
<1>1. PICK e \in Execucoes : CancelarLer(r, e) \/ AprovarLer(r, e)
  BY DEF Pedir
<1>2. /\ rpc[r] = "livre" /\ status[e] \in NaoTerminais /\ Repouso(e)
      /\ rexec' = [rexec EXCEPT ![r] = e]
      /\ UNCHANGED <<bancoVars, agendaVars, cpc, jobVars>>
      /\ \E d \in {"conta", "aprovar"} : rpc' = [rpc EXCEPT ![r] = d]
      /\ rjob' = rjob \/ rjob' = [rjob EXCEPT ![r] = job_id[e]]
  BY <1>1 DEF CancelarLer, AprovarLer, Cancelavel, Aprovavel, NaoTerminais, PodeAgir,
     EventosRegulares
<1>3. UNCHANGED <<conta, trava, status, job_id, linha, varredura, cpc, jpc, jexec,
                  jabort, jvolta>>
  BY <1>2 DEF bancoVars, agendaVars, jobVars
<1>4. /\ \A s \in Pedidos : rexec'[s] = IF s = r THEN e ELSE rexec[s]
      /\ \A s \in Pedidos : s # r => rpc'[s] = rpc[s] /\ rjob'[s] = rjob[s]
      /\ rpc'[r] \in {"conta", "aprovar"}
      /\ rjob'[r] \in {rjob[r], job_id[e]}
  BY <1>0, <1>2 DEF TypeOK
<1>5. rexec[r] = NINGUEM /\ rjob[r] = NINGUEM /\ e # NINGUEM
  BY <1>2, ExecucaoAssumption DEF Unico, Registros
<1>6. \A j \in Jobs : jexec[j] = e => ~Correndo(j)
  BY <1>2 DEF Repouso, Correndo
<1>7. \A s \in Pedidos : rexec[s] # e
  BY <1>2, <1>5 DEF Repouso, Unico, Registros
<1>8. Registros'
  <2>1. \A s \in Pedidos : rjob'[s] # NINGUEM => jexec'[rjob'[s]] = rexec'[s]
    BY <1>3, <1>4, <1>5 DEF Unico, Registros
  <2>2. \A s \in Pedidos : rpc'[s] \in {"livre", "fim"} <=> rexec'[s] = NINGUEM
    BY <1>3, <1>4, <1>5 DEF Unico, Registros
  <2>3. \A s \in Pedidos : rexec'[s] = NINGUEM => rjob'[s] = NINGUEM
    BY <1>3, <1>4, <1>5 DEF Unico, Registros
  <2> QED BY <1>3, <2>1, <2>2, <2>3 DEF Unico, Registros
<1>9. Sozinhos'
  <2>1. \A s, u \in Pedidos : rexec'[s] = rexec'[u] /\ rexec'[s] # NINGUEM => s = u
    BY <1>4, <1>7 DEF Unico, Sozinhos
  <2>2. ASSUME NEW s \in Pedidos, NEW i \in Jobs, Correndo(i)', jexec'[i] = rexec'[s]
        PROVE  rpc'[s] = "gravar" /\ rjob'[s] = i /\ jpc'[i] = "fila"
    BY <1>3, <1>4, <1>6, <2>2 DEF Unico, Sozinhos, Correndo
  <2> QED BY <1>3, <2>1, <2>2 DEF Unico, Sozinhos, Correndo
<1>10. EmAberto' /\ SemSinais'
  BY <1>2, <1>3, <1>4 DEF Unico, EmAberto, SemSinais, Correndo
<1>11. ComTrava'
  BY <1>3, <1>4 DEF Unico, ComTrava
<1> QED BY <1>8, <1>9, <1>10, <1>11 DEF Unico

\* A cancellation that has the account goes on.
LEMMA UnicoMovePedido ==
  ASSUME Unico, Visibilidade', NEW r \in Pedidos,
         NEW d \in {"linha", "abortar", "esperar"},
         rpc[r] \notin {"livre", "fim", "gravar"}, rpc' = [rpc EXCEPT ![r] = d],
         UNCHANGED <<conta, status, job_id, varredura, cpc, rexec, rjob, jpc, jexec,
                     jvolta>>,
         trava \in {NINGUEM, r}, trava' = r,
         \A i \in Jobs : jabort'[i] = FALSE,
         \A f \in Execucoes : linha'[f] # AGENDADOR
  PROVE  Unico'
<1>1. \A s \in Pedidos : rpc'[s] = IF s = r THEN d ELSE rpc[s]
  BY DEF Unico, Visibilidade, TypeOK
<1>2. Registros'
  BY <1>1 DEF Unico, Registros
<1>3. Sozinhos'
  BY <1>1 DEF Unico, Sozinhos, Correndo
<1>4. EmAberto' /\ SemSinais'
  BY DEF Unico, EmAberto, SemSinais, Correndo
<1>5. ComTrava'
  <2>1. \A f \in Execucoes : cpc[f] \notin {"reservada", "enfileirada"}
    BY ExecucaoAssumption DEF Unico, ComTrava
  <2>2. \A i \in Jobs : jpc[i] \notin {"falhaLinha", "liberarLinha"}
    BY ExecucaoAssumption DEF Unico, ComTrava
  <2>3. ASSUME NEW s \in Pedidos, rpc'[s] \in {"linha", "abortar", "esperar"}
        PROVE  trava' = s
    BY <1>1, <2>3, ExecucaoAssumption DEF Unico, ComTrava
  <2> QED BY <2>1, <2>2, <2>3 DEF ComTrava
<1> QED BY <1>2, <1>3, <1>4, <1>5 DEF Unico

\* A request that is answered leaves the execution.
LEMMA UnicoResponde ==
  ASSUME Unico, Visibilidade', NEW r \in Pedidos, rpc[r] \notin {"livre", "fim"},
         Responder(r),
         UNCHANGED <<varredura, cpc, jpc, jexec, jabort, jvolta>>,
         \A f \in Execucoes :
           job_id'[f] = job_id[f] \/ (f = rexec[r] /\ job_id'[f] = rjob[r]),
         \A f \in Execucoes : status'[f] = status[f] \/ f = rexec[r],
         status'[rexec[r]] \in Terminais => status' = status \/ rpc[r] # "gravar",
         \A f \in Execucoes : linha'[f] # AGENDADOR,
         \A x \in Execucoes \cup Pedidos \cup Jobs :
           x # r /\ trava = x => trava' = x,
         conta' = conta \/ trava \notin Execucoes
  PROVE  Unico'
<1>0. TypeOK
  BY DEF Unico, Visibilidade
<1>1. /\ \A s \in Pedidos : rpc'[s] = IF s = r THEN "fim" ELSE rpc[s]
      /\ \A s \in Pedidos : rexec'[s] = IF s = r THEN NINGUEM ELSE rexec[s]
      /\ \A s \in Pedidos : rjob'[s] = IF s = r THEN NINGUEM ELSE rjob[s]
  BY <1>0 DEF Responder, TypeOK
<1>2. rexec[r] \in Execucoes
  BY DEF Unico, Visibilidade, VistasPorTodos
<1>3. Registros'
  <2>1. \A f \in Execucoes : job_id'[f] # NINGUEM => jexec'[job_id'[f]] = f
    BY DEF Unico, Registros
  <2> QED BY <1>1, <2>1 DEF Unico, Registros
<1>4. Sozinhos'
  <2>1. ASSUME NEW s \in Pedidos, NEW i \in Jobs, Correndo(i)', jexec'[i] = rexec'[s]
        PROVE  rpc'[s] = "gravar" /\ rjob'[s] = i /\ jpc'[i] = "fila"
    <3>1. Correndo(i)
      BY <2>1 DEF Correndo
    <3>2. jexec[i] # NINGUEM
      BY <3>1, JobSozinho, ExecucaoAssumption
    <3> QED BY <1>1, <2>1, <3>1, <3>2 DEF Unico, Sozinhos
  <2>2. \A s, u \in Pedidos : rexec'[s] = rexec'[u] /\ rexec'[s] # NINGUEM => s = u
    BY <1>1 DEF Unico, Sozinhos
  <2> QED BY <2>1, <2>2 DEF Unico, Sozinhos, Correndo
<1>5. EmAberto'
  <2>1. ASSUME NEW s \in Pedidos, rexec'[s] # NINGUEM
        PROVE  status'[rexec'[s]] \in NaoTerminais
    <3>1. s # r /\ rexec'[s] = rexec[s] /\ rexec[s] # NINGUEM
      BY <1>1, <2>1
    <3>2. rexec[s] # rexec[r] /\ rexec[s] \in Execucoes
      BY <1>0, <3>1 DEF Unico, Sozinhos, TypeOK
    <3> QED BY <3>1, <3>2 DEF Unico, EmAberto
  <2>2. ASSUME NEW i \in Jobs, Correndo(i)', jpc'[i] # "fechando"
        PROVE  status'[jexec'[i]] \notin Terminais
    <3>1. Correndo(i) /\ jpc[i] # "fechando" /\ jexec[i] \in Execucoes
      BY <2>2, JobSozinho DEF Correndo
    <3>2. jexec[i] = rexec[r] => rpc[r] = "gravar"
      BY <3>1 DEF Unico, Sozinhos
    <3> QED BY <3>1, <3>2 DEF Unico, EmAberto
  <2> QED BY <2>1, <2>2 DEF EmAberto
<1>6. SemSinais'
  BY DEF Unico, SemSinais
<1>7. ComTrava'
  <2>1. ASSUME NEW f \in Execucoes, cpc'[f] \in {"reservada", "enfileirada"}
        PROVE  trava' = f /\ PodeReservar(conta', Reserva)
    <3>1. trava = f /\ PodeReservar(conta, Reserva) /\ f # r
      BY <2>1, ExecucaoAssumption DEF Unico, ComTrava
    <3> QED BY <3>1
  <2>2. ASSUME NEW s \in Pedidos, rpc'[s] \in {"linha", "abortar", "esperar"}
        PROVE  trava' = s
    BY <1>1, <2>2 DEF Unico, ComTrava
  <2>3. ASSUME NEW i \in Jobs, jpc'[i] \in {"falhaLinha", "liberarLinha"}
        PROVE  trava' = i
    <3>1. trava = i /\ i # r
      BY <2>3, ExecucaoAssumption DEF Unico, ComTrava
    <3> QED BY <3>1
  <2> QED BY <2>1, <2>2, <2>3 DEF ComTrava
<1> QED BY <1>3, <1>4, <1>5, <1>6, <1>7 DEF Unico

LEMMA UnicoAprovarEnfileirar ==
  ASSUME Unico, Visibilidade', NEW r \in Pedidos, NEW j \in Jobs,
         AprovarEnfileirar(r, j)
  PROVE  Unico'
<1> DEFINE e == rexec[r]
<1>0. TypeOK /\ NaoCriadas
  BY DEF Unico, Visibilidade
<1>1. /\ rpc[r] = "aprovar" /\ Enfileirar(j, e, "retomada")
      /\ UNCHANGED <<bancoVars, agendaVars, cpc, rexec>>
  BY DEF AprovarEnfileirar
<1>2. UNCHANGED <<conta, trava, status, job_id, linha, varredura, cpc, rexec>>
  BY <1>1 DEF bancoVars, agendaVars
<1>3. /\ \A s \in Pedidos : rpc'[s] = IF s = r THEN "gravar" ELSE rpc[s]
      /\ \A s \in Pedidos : rjob'[s] = IF s = r THEN j ELSE rjob[s]
  BY <1>0 DEF AprovarEnfileirar, TypeOK
<1>4. e \in Execucoes /\ status[e] \in NaoTerminais
  BY <1>1, ExecucaoAssumption
     DEF Unico, Visibilidade, VistasPorTodos, EmAberto
<1>5. cpc[e] = "fim"
  BY <1>0, <1>4 DEF NaoCriadas, Visivel, NaoTerminais
<1>6. \A i \in Jobs : Correndo(i) => jexec[i] # e
  BY <1>1 DEF Unico, Sozinhos
<1>7. j # NINGUEM /\ e # NINGUEM
  BY <1>4, ExecucaoAssumption
<1> HIDE DEF e
<1>8. /\ \A i \in Jobs : jpc'[i] = IF i = j THEN "fila" ELSE jpc[i]
      /\ \A i \in Jobs : jexec'[i] = IF i = j THEN e ELSE jexec[i]
      /\ jpc[j] = "livre"
      /\ \A f \in Execucoes : job_id[f] # j
      /\ \A s \in Pedidos : rjob[s] # j
      /\ UNCHANGED <<jabort, jvolta>>
  BY <1>1, <1>4, JobLivre
<1>9. rexec[r] = e
  BY DEF e
<1>10. Registros'
  BY <1>0, <1>1, <1>2, <1>3, <1>7, <1>8, <1>9 DEF Unico, Registros, TypeOK
<1>11. Sozinhos'
  <2>1. ASSUME NEW i \in Jobs, NEW k \in Jobs, Correndo(i)', Correndo(k)',
               jexec'[i] = jexec'[k]
        PROVE  i = k
    BY <1>6, <1>8, <2>1 DEF Unico, Sozinhos, Correndo
  <2>2. ASSUME NEW s \in Pedidos, NEW i \in Jobs, Correndo(i)', jexec'[i] = rexec'[s]
        PROVE  rpc'[s] = "gravar" /\ rjob'[s] = i /\ jpc'[i] = "fila"
    <3>1. CASE i = j
      <4>1. s = r
        BY <1>2, <1>7, <1>8, <1>9, <2>2, <3>1 DEF Unico, Sozinhos
      <4> QED BY <1>3, <1>8, <3>1, <4>1
    <3>2. CASE i # j
      <4>1. Correndo(i) /\ jexec[i] = rexec[s]
        BY <1>2, <1>8, <2>2, <3>2 DEF Correndo
      <4>2. s # r
        BY <1>6, <1>9, <4>1
      <4> QED BY <1>3, <1>8, <3>2, <4>1, <4>2 DEF Unico, Sozinhos
    <3> QED BY <3>1, <3>2
  <2>3. ASSUME NEW f \in Execucoes, NEW i \in Jobs, cpc'[f] # "fim", jexec'[i] = f
        PROVE  cpc'[f] = "enfileirada" /\ jpc'[i] \in {"fila", "fim"}
    BY <1>2, <1>5, <1>8, <2>3 DEF Unico, Sozinhos
  <2> QED BY <1>2, <2>1, <2>2, <2>3 DEF Unico, Sozinhos
<1>12. EmAberto'
  <2>1. status[e] \notin Terminais
    BY <1>4 DEF NaoTerminais, Terminais
  <2> QED BY <1>2, <1>8, <2>1 DEF Unico, EmAberto, Correndo
<1>13. SemSinais'
  BY <1>2, <1>8 DEF Unico, SemSinais
<1>14. ComTrava'
  BY <1>2, <1>3, <1>8 DEF Unico, ComTrava
<1> QED BY <1>10, <1>11, <1>12, <1>13, <1>14 DEF Unico

LEMMA UnicoAtender ==
  ASSUME Unico, Visibilidade', Eventos \subseteq EventosRegulares,
         NEW r \in Pedidos, Atender(r)
  PROVE  Unico'
<1>0. TypeOK
  BY DEF Unico, Visibilidade
<1>1. CASE CancelarTravarConta(r)
  <2>1. /\ rpc[r] = "conta" /\ trava = NINGUEM /\ trava' = r
        /\ rpc' = [rpc EXCEPT ![r] = "linha"]
        /\ UNCHANGED <<conta, status, job_id, linha, varredura, cpc, rexec, rjob,
                       jpc, jexec, jabort, jvolta>>
    BY <1>1 DEF CancelarTravarConta, agendaVars, jobVars
  <2>2. /\ \A i \in Jobs : jabort'[i] = FALSE
        /\ \A f \in Execucoes : linha'[f] # AGENDADOR
    BY <2>1 DEF Unico, SemSinais
  <2> QED BY <2>1, <2>2, UnicoMovePedido
<1>2. CASE CancelarTravarLinha(r)
  <2>1. /\ rpc[r] = "linha" /\ trava' = trava
        /\ linha' = [linha EXCEPT ![rexec[r]] = r]
        /\ rpc' = [rpc EXCEPT ![r] = "abortar"]
        /\ UNCHANGED <<conta, status, job_id, varredura, cpc, rexec, rjob,
                       jpc, jexec, jabort, jvolta>>
    BY <1>2 DEF CancelarTravarLinha, agendaVars, jobVars
  <2>2. \A i \in Jobs : jabort'[i] = FALSE
    BY <2>1 DEF Unico, SemSinais
  <2>3. \A f \in Execucoes : linha'[f] # AGENDADOR
    BY <1>0, <2>1, ExecucaoAssumption DEF Unico, SemSinais, TypeOK
  <2>4. trava = r
    BY <2>1 DEF Unico, ComTrava
  <2> QED BY <2>1, <2>2, <2>3, <2>4, UnicoMovePedido
<1>3. CASE CancelarAbortar(r)
  <2>1. /\ rpc[r] = "abortar"
        /\ rpc' = [rpc EXCEPT ![r] = "esperar"]
        /\ UNCHANGED <<conta, trava, status, job_id, linha, varredura, cpc, rexec,
                       rjob, jpc, jexec, jvolta>>
    BY <1>3 DEF CancelarAbortar, bancoVars, agendaVars
  <2>2. rjob[r] \in Jobs => jpc[rjob[r]] = "fim"
    <3>1. SUFFICES ASSUME rjob[r] \in Jobs PROVE jpc[rjob[r]] = "fim"
      OBVIOUS
    <3>2. jexec[rjob[r]] = rexec[r] /\ rexec[r] # NINGUEM
      BY <2>1, <3>1, ExecucaoAssumption DEF Unico, Registros
    <3>3. ~Correndo(rjob[r])
      BY <2>1, <3>1, <3>2 DEF Unico, Sozinhos
    <3>4. jpc[rjob[r]] # "livre"
      BY <3>1, <3>2 DEF Unico, Registros
    <3> QED BY <3>3, <3>4 DEF Correndo
  <2>3. ASSUME NEW i \in Jobs PROVE jabort'[i] = FALSE
    <3>1. jabort[i] = FALSE
      BY DEF Unico, SemSinais
    <3>2. jabort' = [jabort EXCEPT ![rjob[r]] = jpc[rjob[r]] # "fim"]
      BY <1>3 DEF CancelarAbortar
    <3>3. i \in DOMAIN jabort
      BY <1>0 DEF TypeOK
    <3>4. CASE i = rjob[r]
      BY <2>2, <3>2, <3>3, <3>4
    <3>5. CASE i # rjob[r]
      BY <3>1, <3>2, <3>3, <3>5
    <3> QED BY <3>4, <3>5
  <2>4. \A f \in Execucoes : linha'[f] # AGENDADOR
    BY <2>1 DEF Unico, SemSinais
  <2>5. trava = r
    BY <2>1 DEF Unico, ComTrava
  <2> QED BY <2>1, <2>3, <2>4, <2>5, UnicoMovePedido
<1>4. CASE \E j \in Jobs : AprovarEnfileirar(r, j)
  BY <1>4, UnicoAprovarEnfileirar
<1>5. ASSUME SoltarTudo(r)
      PROVE  /\ \A f \in Execucoes : linha'[f] # AGENDADOR
             /\ \A x \in Execucoes \cup Pedidos \cup Jobs :
                  x # r /\ trava = x => trava' = x
  BY <1>5, LinhaSemSemAgendador DEF SoltarTudo, TravaSem
<1>6. CASE CancelarGravar(r)
  <2>1. /\ rpc[r] \in {"abortar", "esperar"} /\ Responder(r) /\ SoltarTudo(r)
        /\ status' = [status EXCEPT ![rexec[r]] = "cancelada"]
        /\ UNCHANGED <<job_id, varredura, cpc, jpc, jexec, jabort, jvolta>>
    BY <1>6 DEF CancelarGravar, AbortRespondeu, agendaVars, jobVars
  <2>2. \A f \in Execucoes : status'[f] = status[f] \/ f = rexec[r]
    BY <1>0, <2>1 DEF TypeOK
  <2>3. trava \notin Execucoes
    BY <2>1, ExecucaoAssumption DEF Unico, ComTrava
  <2>4. rpc[r] \notin {"livre", "fim", "gravar"}
    BY <2>1
  <2> QED BY <1>5, <2>1, <2>2, <2>3, <2>4, UnicoResponde
<1>7. CASE AprovarFalhaFila(r) \/ RequisicaoCai(r) \/ ImpassePedido(r)
  <2>1. /\ rpc[r] \notin {"livre", "fim"} /\ Responder(r)
        /\ SoltarTudo(r) \/ UNCHANGED bancoVars
        /\ UNCHANGED <<conta, status, job_id, agendaVars, cpc, jobVars>>
    BY <1>7 DEF AprovarFalhaFila, RequisicaoCai, ImpassePedido, PedidoEmImpasse,
       bancoVars
  <2>2. UNCHANGED <<conta, status, job_id, varredura, cpc, jpc, jexec, jabort,
                    jvolta>>
    BY <2>1 DEF agendaVars, jobVars
  <2>3. CASE SoltarTudo(r)
    BY <1>5, <2>1, <2>2, <2>3, UnicoResponde
  <2>4. CASE UNCHANGED bancoVars
    <3>1. linha' = linha /\ trava' = trava
      BY <2>4 DEF bancoVars
    <3>2. \A f \in Execucoes : linha'[f] # AGENDADOR
      BY <3>1 DEF Unico, SemSinais
    <3> QED BY <2>1, <2>2, <3>1, <3>2, UnicoResponde
  <2> QED BY <2>1, <2>3, <2>4
<1>8. CASE AprovarGravar(r)
  <2>1. /\ rpc[r] = "gravar" /\ Responder(r)
        /\ status' = [status EXCEPT ![rexec[r]] = "executando"]
        /\ job_id' = [job_id EXCEPT ![rexec[r]] = rjob[r]]
        /\ UNCHANGED <<conta, trava, linha, varredura, cpc, jpc, jexec, jabort,
                       jvolta>>
    BY <1>8 DEF AprovarGravar, agendaVars, jobVars
  <2>2. rexec[r] \in Execucoes
    BY <2>1 DEF Unico, Visibilidade, VistasPorTodos
  <2>3. /\ \A f \in Execucoes : status'[f] = status[f] \/ f = rexec[r]
        /\ status'[rexec[r]] \notin Terminais
        /\ \A f \in Execucoes :
             job_id'[f] = job_id[f] \/ (f = rexec[r] /\ job_id'[f] = rjob[r])
    BY <1>0, <2>1, <2>2 DEF TypeOK, Terminais
  <2>4. \A f \in Execucoes : linha'[f] # AGENDADOR
    BY <2>1 DEF Unico, SemSinais
  <2> QED BY <2>1, <2>3, <2>4, UnicoResponde
<1>9. \A j \in Jobs : ~AprovarSemResposta(r, j)
  BY DEF AprovarSemResposta, EventosRegulares
<1> QED BY <1>1, <1>2, <1>3, <1>4, <1>6, <1>7, <1>8, <1>9 DEF Atender

LEMMA NaoAgenda ==
  ASSUME Unico, Eventos \subseteq EventosRegulares
  PROVE  ~Agendar
<1>1. \A S : ~SanearTravar(S) /\ ~AbandonarLer(S)
  BY DEF SanearTravar, AbandonarLer, EventosRegulares
<1>2. \A e \in Execucoes : linha[e] # AGENDADOR
  BY DEF Unico, SemSinais
<1>3. ~SanearGravar /\ ~ImpasseSanear
  BY <1>2 DEF SanearGravar, ImpasseSanear
<1>4. ~AbandonarGravar
  BY DEF AbandonarGravar, Unico, SemSinais
<1> QED BY <1>1, <1>3, <1>4 DEF Agendar

LEMMA UnicoPasso ==
  ASSUME Unico, Eventos \subseteq EventosRegulares, [Next]_vars
  PROVE  Unico'
<1>1. Visibilidade'
  BY VisibilidadePasso DEF Unico
<1>2. CASE \E e \in Execucoes : Criar(e)
  BY <1>1, <1>2, UnicoCriar
<1>3. CASE \E r \in Pedidos : Pedir(r) \/ Atender(r)
  BY <1>1, <1>3, UnicoPedir, UnicoAtender
<1>4. CASE \E j \in Jobs : Trabalhar(j) \/ Interromper(j)
  BY <1>1, <1>4, UnicoTrabalhar, UnicoInterromper
<1>5. CASE UNCHANGED vars
  <2>1. UNCHANGED <<conta, trava, status, job_id, linha, varredura, cpc, rpc, rexec,
                    rjob, jpc, jexec, jabort, jvolta>>
    BY <1>5 DEF vars, bancoVars, agendaVars, pedidoVars, jobVars
  <2>2. Registros' /\ Sozinhos'
    BY <2>1 DEF Unico, Registros, Sozinhos, Correndo
  <2>3. EmAberto' /\ SemSinais' /\ ComTrava'
    BY <2>1 DEF Unico, EmAberto, SemSinais, ComTrava, Correndo
  <2> QED BY <1>1, <2>2, <2>3 DEF Unico
<1> QED BY <1>2, <1>3, <1>4, <1>5, NaoAgenda DEF Next

-----------------------------------------------------------------------------
(* Every step is a step of UsoCredito or leaves its variables alone. *)

LEMMA ParametrosDoUso == UP!Parametros
<1>1. UP!ContaValida = ContaValida
  BY DEF UP!ContaValida, ContaValida
<1>2. UP!IsFiniteSet(Execucoes) <=> IsFiniteSet(Execucoes)
  BY DEF UP!IsFiniteSet, IsFiniteSet
<1> QED BY <1>1, <1>2, ExecucaoAssumption DEF UP!Parametros

\* A status that stays on its side of an execution's life changes no use.
LEMMA UsoNaoMuda ==
  ASSUME TypeOK, conta' = conta, debitos' = debitos,
         \A e \in Execucoes :
           \/ status'[e] = status[e]
           \/ status[e] \in NaoTerminais /\ status'[e] \in NaoTerminais
  PROVE  UNCHANGED UP!usoVars
<1>1. \A e \in Execucoes : UsoDe(e)' = UsoDe(e)
  BY DEF UsoDe, NaoTerminais
<1> QED BY <1>1 DEF UP!usoVars

\* Nothing else is touched.
LEMMA UsoMuda ==
  ASSUME TypeOK, NEW e \in Execucoes, NEW d, status' = [status EXCEPT ![e] = d]
  PROVE  [f \in Execucoes |-> UsoDe(f)'] =
           [[f \in Execucoes |-> UsoDe(f)] EXCEPT ![e] = UsoDe(e)']
<1>1. \A f \in Execucoes : f # e => UsoDe(f)' = UsoDe(f)
  BY DEF UsoDe, TypeOK
<1> QED BY <1>1

LEMMA EReservar ==
  ASSUME Unico, NEW e \in Execucoes, CriarGravar(e)
  PROVE  UP!ReservarUso(e)
<1>1. TypeOK /\ status[e] = "invisivel" /\ PodeReservar(conta, Reserva)
  BY DEF Unico, Visibilidade, NaoCriadas, Visivel, ComTrava, CriarGravar
<1>2. UsoDe(e) = "nenhum"
  BY <1>1 DEF UsoDe, NaoTerminais
<1>3. status' = [status EXCEPT ![e] = "enfileirado"]
      /\ conta' = [conta EXCEPT !.reservado = @ + Reserva] /\ debitos' = debitos
  BY DEF CriarGravar, Reservar
<1>4. UsoDe(e)' = "reservado"
  BY <1>1, <1>3 DEF UsoDe, TypeOK, NaoTerminais
<1>5. [f \in Execucoes |-> UsoDe(f)'] =
        [[f \in Execucoes |-> UsoDe(f)] EXCEPT ![e] = "reservado"]
  BY <1>1, <1>3, <1>4, UsoMuda
<1>6. UP!Disponivel(conta) >= Reserva
  BY <1>1 DEF UP!Disponivel, UP!Total, PodeReservar, Disponivel, Total
<1> QED BY <1>2, <1>3, <1>5, <1>6 DEF UP!ReservarUso

LEMMA ERecusar ==
  ASSUME Unico, NEW e \in Execucoes, cpc[e] = "reservada", CriarFalha(e)
  PROVE  UP!RecusarUso(e)
<1>1. TypeOK /\ status[e] = "invisivel"
  BY DEF Unico, Visibilidade, NaoCriadas, Visivel
<1>2. UsoDe(e) = "nenhum"
  BY <1>1 DEF UsoDe, NaoTerminais
<1>3. status' = [status EXCEPT ![e] = "falhou"] /\ conta' = conta
      /\ debitos' = debitos
  BY DEF CriarFalha
<1>4. UsoDe(e)' = "devolvido"
  BY <1>1, <1>3 DEF UsoDe, TypeOK, NaoTerminais
<1>5. [f \in Execucoes |-> UsoDe(f)'] =
        [[f \in Execucoes |-> UsoDe(f)] EXCEPT ![e] = "devolvido"]
  BY <1>1, <1>3, <1>4, UsoMuda
<1> QED BY <1>2, <1>3, <1>5 DEF UP!RecusarUso

\* The account still holds the reservation of a live execution, so that what
\* liberar_reserva takes, at most what is reserved, is the whole of it.
LEMMA LiberaInteira ==
  ASSUME TypeOK, UP!IndUso, NEW e \in Execucoes, status[e] \in NaoTerminais
  PROVE  /\ conta.reservado - Reserva \in Nat
         /\ Liberar(conta, Reserva) = [conta EXCEPT !.reservado = @ - Reserva]
         /\ UsoDe(e) = "reservado"
<1>1. UsoDe(e) = "reservado"
  BY DEF UsoDe, NaoTerminais
<1>2. [f \in Execucoes |-> UsoDe(f)][e] = "reservado"
  BY <1>1
<1>3. conta.reservado - Reserva \in Nat
  BY <1>2, ParametrosDoUso, UP!ReservaDoUso
<1>4. conta.reservado \in Nat /\ Reserva \in Nat
  BY ExecucaoAssumption DEF TypeOK, ContaValida
<1>5. Menor(conta.reservado, Reserva) = Reserva
  BY <1>3, <1>4 DEF Menor
<1> QED BY <1>1, <1>3, <1>5 DEF Liberar

LEMMA EDevolver ==
  ASSUME TypeOK, UP!IndUso, NEW e \in Execucoes, status[e] \in NaoTerminais,
         NEW d \in {"falhou", "cancelada"}, status' = [status EXCEPT ![e] = d],
         conta' = Liberar(conta, Reserva), debitos' = debitos
  PROVE  UP!DevolverUso(e)
<1>1. /\ conta' = [conta EXCEPT !.reservado = @ - Reserva]
      /\ UsoDe(e) = "reservado"
  BY LiberaInteira
<1>2. UsoDe(e)' = "devolvido"
  BY DEF UsoDe, TypeOK, NaoTerminais
<1>3. [f \in Execucoes |-> UsoDe(f)'] =
        [[f \in Execucoes |-> UsoDe(f)] EXCEPT ![e] = "devolvido"]
  BY <1>2, UsoMuda
<1> QED BY <1>1, <1>3 DEF UP!DevolverUso

LEMMA ECobrar ==
  ASSUME TypeOK, TypeOK', UP!IndUso, NEW j \in Jobs, NEW q \in Custos,
         NEW e \in Execucoes, e = jexec[j], status[e] \in NaoTerminais,
         Finalizar(j, q)
  PROVE  UP!CobrarUso(e, q)
<1> DEFINE livre == Liberar(conta, Reserva)
           doPlano == q - Menor(conta.extras, q)
<1>1. /\ status' = [status EXCEPT ![e] = "concluida"]
      /\ conta' = Debitar(livre, q)
      /\ debitos' = [debitos EXCEPT ![e] = @ + 1]
  BY DEF Finalizar, Registrar, Confirmar
<1>2. UsoDe(e)' = "debitado"
  BY <1>1 DEF UsoDe, TypeOK, NaoTerminais
<1>3. [f \in Execucoes |-> UsoDe(f)'] =
        [[f \in Execucoes |-> UsoDe(f)] EXCEPT ![e] = "debitado"]
  BY <1>1, <1>2, UsoMuda
<1>4. /\ livre = [conta EXCEPT !.reservado = @ - Reserva]
      /\ UsoDe(e) = "reservado"
  BY LiberaInteira
<1>5. conta \in ContaValida /\ q \in Nat
  BY ExecucaoAssumption DEF TypeOK
<1>6. doPlano \in 0..q /\ q - doPlano = Menor(conta.extras, q)
  BY <1>5 DEF Menor, ContaValida
<1>7. conta' = [plano |-> conta.plano - doPlano,
                extras |-> conta.extras - (q - doPlano),
                reservado |-> conta.reservado - Reserva]
  <2>1. livre = [plano |-> conta.plano, extras |-> conta.extras,
                 reservado |-> conta.reservado - Reserva]
    BY <1>4, <1>5 DEF ContaValida
  <2> HIDE DEF livre
  <2>2. conta' = [plano |-> conta.plano - (q - Menor(conta.extras, q)),
                  extras |-> conta.extras - Menor(conta.extras, q),
                  reservado |-> conta.reservado - Reserva]
    BY <1>1, <2>1 DEF Debitar
  <2> QED BY <1>6, <2>2
<1>8. conta' \in UP!ContaValida
  BY DEF TypeOK, ContaValida, UP!ContaValida
<1> HIDE DEF doPlano
<1>9. [f \in Execucoes |-> UsoDe(f)][e] = "reservado"
  BY <1>4
<1> QED BY <1>1, <1>3, <1>6, <1>7, <1>8, <1>9 DEF UP!CobrarUso

LEMMA PassoCriar ==
  ASSUME Unico, NEW e \in Execucoes, Criar(e)
  PROVE  [UP!NextUso]_(UP!usoVars)
<1>1. CASE CriarGravar(e)
  BY <1>1, EReservar DEF UP!NextUso
<1>2. CASE CriarFalhaFila(e) \/ \E j \in Jobs : CriarSemResposta(e, j)
  <2>1. cpc[e] = "reservada" /\ CriarFalha(e)
    BY <1>2 DEF CriarFalhaFila, CriarSemResposta
  <2> QED BY <2>1, ERecusar DEF UP!NextUso
<1>3. CASE CriarReservar(e) \/ CriarCai(e) \/ \E j \in Jobs : CriarEnfileirar(e, j)
  <2>1. TypeOK /\ UNCHANGED <<conta, status, debitos>>
    BY <1>3 DEF CriarReservar, CriarCai, CriarEnfileirar, Unico, Visibilidade
  <2> QED BY <2>1, UsoNaoMuda
<1> QED BY <1>1, <1>2, <1>3 DEF Criar

LEMMA PassoPedido ==
  ASSUME Unico, UP!IndUso, NEW r \in Pedidos, Pedir(r) \/ Atender(r)
  PROVE  [UP!NextUso]_(UP!usoVars)
<1>0. TypeOK
  BY DEF Unico, Visibilidade
<1>1. rpc[r] \notin {"livre", "fim"} =>
        rexec[r] \in Execucoes /\ status[rexec[r]] \in NaoTerminais
  BY ExecucaoAssumption DEF Unico, Visibilidade, VistasPorTodos, EmAberto
<1>2. CASE CancelarGravar(r)
  <2>1. /\ rpc[r] \notin {"livre", "fim"}
        /\ conta' = Liberar(conta, Reserva) /\ debitos' = debitos
        /\ status' = [status EXCEPT ![rexec[r]] = "cancelada"]
    BY <1>2 DEF CancelarGravar, AbortRespondeu
  <2>2. UP!DevolverUso(rexec[r])
    BY <1>0, <1>1, <2>1, EDevolver
  <2> QED BY <1>1, <2>1, <2>2 DEF UP!NextUso
<1>3. CASE AprovarGravar(r)
  <2>1. /\ rpc[r] = "gravar" /\ UNCHANGED <<conta, debitos>>
        /\ status' = [status EXCEPT ![rexec[r]] = "executando"]
    BY <1>3 DEF AprovarGravar
  <2>2. \A f \in Execucoes :
          \/ status'[f] = status[f]
          \/ status[f] \in NaoTerminais /\ status'[f] \in NaoTerminais
    BY <1>0, <1>1, <2>1 DEF TypeOK, NaoTerminais
  <2> QED BY <1>0, <2>1, <2>2, UsoNaoMuda
<1>4. CASE \/ Pedir(r) \/ CancelarTravarConta(r) \/ CancelarTravarLinha(r)
           \/ CancelarAbortar(r) \/ \E j \in Jobs : AprovarEnfileirar(r, j)
           \/ AprovarFalhaFila(r) \/ \E j \in Jobs : AprovarSemResposta(r, j)
           \/ RequisicaoCai(r) \/ ImpassePedido(r)
  <2>1. UNCHANGED <<conta, status, debitos>>
    BY <1>4 DEF Pedir, CancelarLer, AprovarLer, CancelarTravarConta,
       CancelarTravarLinha, CancelarAbortar, AprovarEnfileirar, AprovarFalhaFila,
          AprovarSemResposta,
       RequisicaoCai, ImpassePedido, bancoVars
  <2> QED BY <1>0, <2>1, UsoNaoMuda
<1> QED BY <1>2, <1>3, <1>4 DEF Atender

LEMMA PassoJob ==
  ASSUME Unico, TypeOK', UP!IndUso, NEW j \in Jobs, Trabalhar(j) \/ Interromper(j)
  PROVE  [UP!NextUso]_(UP!usoVars)
<1>0. TypeOK
  BY DEF Unico, Visibilidade
<1>1. jpc[j] # "livre" => jexec[j] \in Execucoes
  BY DEF Unico, Visibilidade, VistasPorTodos
<1>2. jpc[j] \in NoGrafoOuTratador \/ (jpc[j] = "abrir" /\ Visivel(jexec[j])) =>
        status[jexec[j]] \in NaoTerminais
  <2>1. SUFFICES ASSUME jpc[j] \in NoGrafoOuTratador
                          \/ (jpc[j] = "abrir" /\ Visivel(jexec[j]))
                 PROVE  status[jexec[j]] \in NaoTerminais
    OBVIOUS
  <2>2. Correndo(j) /\ jpc[j] # "fechando"
    BY <2>1 DEF Correndo, NoGrafoOuTratador, NoGrafo
  <2>3. Visivel(jexec[j])
    BY <2>1 DEF Unico, Visibilidade, VistasPorTodos
  <2>4. status[jexec[j]] \notin Terminais
    BY <2>2 DEF Unico, EmAberto
  <2> QED BY <1>0, <2>2, <2>3, <2>4, JobSozinho DEF TypeOK, Visivel
<1>3. ASSUME NEW q \in Custos, Finalizar(j, q) PROVE \E f \in Execucoes : UP!CobrarUso(f, q)
  <2>1. jpc[j] \in NoGrafoOuTratador /\ jpc[j] # "livre"
    BY <1>3 DEF Finalizar, NoGrafoOuTratador, NoGrafo
  <2>2. PICK f \in Execucoes : f = jexec[j]
    BY <1>1, <2>1
  <2> QED BY <1>0, <1>2, <1>3, <2>1, <2>2, ECobrar
<1>4. ASSUME NEW d \in {"falhou", "cancelada"}, jpc[j] \in NoGrafoOuTratador,
             status' = [status EXCEPT ![jexec[j]] = d],
             conta' = Liberar(conta, Reserva), debitos' = debitos
      PROVE  \E f \in Execucoes : UP!DevolverUso(f)
  <2>1. jexec[j] \in Execucoes
    BY <1>1, <1>4 DEF NoGrafoOuTratador, NoGrafo
  <2> QED BY <1>0, <1>2, <1>4, <2>1, EDevolver
<1>5. ASSUME \/ \E q \in Custos : FinalizarSemSaldo(j, q)
             \/ FalhaGravar(j) \/ LiberarGravar(j)
      PROVE  \E f \in Execucoes : UP!DevolverUso(f)
  <2>1. PICK d \in {"falhou", "cancelada"} :
               status' = [status EXCEPT ![jexec[j]] = d]
    BY <1>5 DEF FinalizarSemSaldo, FalhaGravar, LiberarGravar, Devolver
  <2>2. /\ jpc[j] \in NoGrafoOuTratador
        /\ conta' = Liberar(conta, Reserva) /\ debitos' = debitos
    BY <1>5 DEF FinalizarSemSaldo, FalhaGravar, LiberarGravar, Devolver,
       NoGrafoOuTratador, NoGrafo
  <2> QED BY <1>4, <2>1, <2>2
<1>6. CASE Abrir(j) \/ Retomar(j) \/ NoMarcarAguardando(j)
  <2>1. /\ UNCHANGED <<conta, debitos>>
        /\ \/ status' = status
           \/ \E d \in NaoTerminais : status' = [status EXCEPT ![jexec[j]] = d]
    BY <1>6 DEF Abrir, Retomar, NoMarcarAguardando, MarcarExecutando, NaoTerminais
  <2>2. status[jexec[j]] \in NaoTerminais
    BY <1>2, <1>6
       DEF Abrir, Retomar, NoMarcarAguardando, NoGrafoOuTratador, NoGrafo
  <2>3. \A f \in Execucoes :
          \/ status'[f] = status[f]
          \/ status[f] \in NaoTerminais /\ status'[f] \in NaoTerminais
    BY <1>0, <2>1, <2>2 DEF TypeOK
  <2> QED BY <1>0, <2>1, <2>3, UsoNaoMuda
<1>7. CASE \/ Pegar(j) \/ Descartar(j) \/ SemLinha(j) \/ NoInicio(j) \/ NoFim(j)
           \/ GrafoFim(j) \/ Verificar(j) \/ FinalizarLinha(j) \/ FecharSessao(j)
           \/ FalhaConta(j) \/ LerInterrompido(j) \/ LiberarConta(j)
  <2>1. UNCHANGED <<conta, status, debitos>>
    BY <1>7 DEF Pegar, Descartar, SemLinha, NoInicio, NoFim, GrafoFim, Verificar,
       FinalizarLinha, FecharSessao, FalhaConta, LerInterrompido, LiberarConta,
       bancoVars
  <2> QED BY <1>0, <2>1, UsoNaoMuda
<1>8. CASE Interromper(j)
  <2>1. UNCHANGED <<conta, status, debitos>>
    BY <1>8 DEF Interromper, Erro, TempoEsgotado, TempoEsgotadoNoCommit, Abortar,
       Desligar, JobTimeout, WorkerCai, ImpasseTratador, ImpasseDebito, Falhar,
       InterromperCom
  <2> QED BY <1>0, <2>1, UsoNaoMuda
<1> QED BY <1>3, <1>5, <1>6, <1>7, <1>8 DEF Trabalhar, UP!NextUso

LEMMA PassoImplementa ==
  ASSUME Unico, UP!IndUso, Eventos \subseteq EventosRegulares, [Next]_vars
  PROVE  [UP!NextUso]_(UP!usoVars)
<1>1. TypeOK /\ TypeOK'
  BY TipoPasso DEF Unico, Visibilidade
<1>2. CASE UNCHANGED vars
  <2>1. UNCHANGED <<conta, status, debitos>>
    BY <1>2 DEF vars, bancoVars
  <2> QED BY <1>1, <2>1, UsoNaoMuda
<1>3. CASE \E e \in Execucoes : Criar(e)
  BY <1>3, PassoCriar
<1>4. CASE \E r \in Pedidos : Pedir(r) \/ Atender(r)
  BY <1>4, PassoPedido
<1>5. CASE \E j \in Jobs : Trabalhar(j) \/ Interromper(j)
  BY <1>1, <1>5, PassoJob
<1> QED BY <1>2, <1>3, <1>4, <1>5, NaoAgenda DEF Next

LEMMA InicioDoUso == Init => UP!InitUso
<1> SUFFICES ASSUME Init PROVE UP!InitUso
  OBVIOUS
<1>1. \A e \in Execucoes : UsoDe(e) = "nenhum"
  BY DEF Init, UsoDe, NaoTerminais
<1> QED BY <1>1 DEF Init, UP!InitUso

LEMMA UsoSempre ==
  ASSUME Eventos \subseteq EventosRegulares
  PROVE  Spec => [](Unico /\ UP!IndUso)
<1>1. Init => Unico /\ UP!IndUso
  BY UnicoInicial, InicioDoUso, ParametrosDoUso, UP!InitIndUso
<1>2. Unico /\ UP!IndUso /\ [Next]_vars => (Unico /\ UP!IndUso)'
  BY UnicoPasso, PassoImplementa, ParametrosDoUso, UP!PassoIndUso
<1> QED BY <1>1, <1>2, PTL DEF Spec

\* With no event but the regular ones, executions implement the promise of
\* UsoCredito (credito_service.py): each reserves its estimate once, and is then
\* charged once, at no more than that, or has it back whole.  Any number of
\* executions, requests and jobs, and every interleaving of them.
THEOREM ExecucaoImplementaUso ==
  ASSUME Eventos \subseteq EventosRegulares
  PROVE  Spec => ImplementaUso
<1>1. Init => Uso!InitUso
  BY InicioDoUso DEF UP!InitUso, Uso!InitUso
<1>2. ASSUME Unico, UP!IndUso, [Next]_vars
      PROVE  [Uso!NextUso]_(Uso!usoVars)
  <2>1. [UP!NextUso]_(UP!usoVars)
    BY <1>2, PassoImplementa
  <2>2. UP!NextUso => Uso!NextUso
    BY DEF UP!NextUso, Uso!NextUso, UP!ReservarUso, Uso!ReservarUso,
       UP!RecusarUso, Uso!RecusarUso, UP!CobrarUso, Uso!CobrarUso,
       UP!DevolverUso, Uso!DevolverUso, UP!ContaValida, Uso!ContaValida,
       UP!Disponivel, Uso!Disponivel, UP!Total, Uso!Total
  <2>3. UNCHANGED UP!usoVars => UNCHANGED Uso!usoVars
    BY DEF UP!usoVars, Uso!usoVars
  <2> QED BY <2>1, <2>2, <2>3
<1>3. Spec => Uso!SpecUso
  BY <1>1, <1>2, UsoSempre, PTL DEF Spec, Uso!SpecUso
<1> QED BY <1>3 DEF ImplementaUso

\* docs/core/SDD.md has one transaction per execution, and the cancellation
\* answers that no credit was debited: with no event but the regular ones, both
\* are so (finalizar_sucesso, cancelar_execucao).
THEOREM UmDebitoPorExecucao ==
  ASSUME Eventos \subseteq EventosRegulares
  PROVE  Spec => [](NoMaximoUmDebito /\ CanceladaSemDebito)
<1>1. UP!IndUso => NoMaximoUmDebito /\ CanceladaSemDebito
  <2> SUFFICES ASSUME UP!IndUso, NEW e \in Execucoes
               PROVE  /\ debitos[e] <= 1
                      /\ status[e] = "cancelada" => debitos[e] = 0
    BY DEF NoMaximoUmDebito, CanceladaSemDebito
  <2>1. debitos[e] = IF UsoDe(e) = "debitado" THEN 1 ELSE 0
    BY DEF UP!IndUso, UP!UmDebito
  <2>2. status[e] = "cancelada" => UsoDe(e) # "debitado"
    BY DEF UsoDe, NaoTerminais
  <2> QED BY <2>1, <2>2
<1> QED BY <1>1, UsoSempre, PTL

\* Under the same events an account that covers what it has promised always
\* does: the row never falls below its reservations (reservar_creditos,
\* confirmar_debito).
THEOREM ContaSempreCoberta ==
  ASSUME Eventos \subseteq EventosRegulares, Disponivel(SaldoInicial) >= 0
  PROVE  Spec => [](Disponivel(conta) >= 0)
<1>1. UP!Disponivel(SaldoInicial) >= 0
  BY DEF UP!Disponivel, UP!Total, Disponivel, Total
<1>2. UP!SpecUso => []UP!SemDescoberto
  BY <1>1, ParametrosDoUso, UP!UsoCoberto
<1>3. Init => UP!InitUso
  BY InicioDoUso
<1>4. Unico /\ UP!IndUso /\ [Next]_vars => [UP!NextUso]_(UP!usoVars)
  BY PassoImplementa
<1>5. UP!SemDescoberto => Disponivel(conta) >= 0
  BY DEF UP!SemDescoberto, UP!Disponivel, UP!Total, Disponivel, Total
<1> QED BY <1>2, <1>3, <1>4, <1>5, UsoSempre, PTL DEF Spec, UP!SpecUso
=============================================================================
