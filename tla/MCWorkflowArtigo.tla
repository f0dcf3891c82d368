-------------------------- MODULE MCWorkflowArtigo --------------------------
(* TLC instance of WorkflowArtigo.  The limits are those that make both     *)
(* loops turn more than once; the costs are those of ferramenta_service.py. *)
EXTENDS WorkflowArtigo
=============================================================================
