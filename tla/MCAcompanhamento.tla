-------------------------- MODULE MCAcompanhamento --------------------------
EXTENDS Acompanhamento
=============================================================================
