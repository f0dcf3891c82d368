----------------------------- MODULE MCCarteira -----------------------------
(* Two uses of tools, two purchases and one renewal on an account of four    *)
(* credits, three of them the plan's.                                        *)
EXTENDS Carteira

MCCustos == 1..3
MCSaldoInicial == [plano |-> 3, extras |-> 1, reservado |-> 0]
=============================================================================
