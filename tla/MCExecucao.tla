----------------------------- MODULE MCExecucao -----------------------------
(* Credits are scaled down: a reservation of two, costs of one or two.  One  *)
(* credit is reserved by some other tool, so that a release too many takes   *)
(* from it what is not its own.                                              *)
EXTENDS Execucao, TLC

CONSTANTS e1, e2, r1, r2, r3, j1, j2, j3, j4

MCCustos == 1..2
MCCusto == {2}
MCSimetria == Permutations({j1, j2}) \cup Permutations({r1, r2})
MCSimetriaNormal == Permutations({j1, j2, j3, j4})
  \cup Permutations({r1, r2, r3}) \cup Permutations({e1, e2})
MCSaldoInicial == [plano |-> 2, extras |-> 1, reservado |-> 1]
MCSaldoNormal == [plano |-> 5, extras |-> 2, reservado |-> 1]

MCFalhas == {"apressado", "cancelar", "redis", "redis_tarde", "erro",
             "tempo_no_commit", "worker_cai", "desligar", "sanear", "abandonar"}
MCNormal == EventosRegulares
MCApressado == {"apressado"}
MCVida == {"apressado", "cancelar", "tempo", "api_cai", "commit_tardio"}

\* The instances on which the promises of the documents break.
MCCancelar == {"apressado", "cancelar"}
MCAbandonar == {"abandonar"}
MCDesligar == {"desligar"}
MCTempoNoCommit == {"tempo_no_commit"}
MCSanear == {"sanear"}
MCWorkerCai == {"worker_cai"}
MCRedisTarde == {"redis_tarde"}
=============================================================================
