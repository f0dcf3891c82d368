-------------------------- MODULE MCSessaoCliente --------------------------
(* sessao: one tab, two people of whom one uses a second factor, and a page *)
(* request beside the flows of the tab itself.  MCSoSair, with two tabs and *)
(* one person, is the instance on which SairRevoga falls.                   *)
EXTENDS SessaoCliente

MCEventos == TodosEventos
MCSoSair == {"sair"}
=============================================================================
