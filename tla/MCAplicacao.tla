---------------------------- MODULE MCAplicacao ----------------------------
EXTENDS Aplicacao

MCFerramentas == {"gerar_artigo"}
MCFerramentasBarra == {"gerar_artigo", "distribuir_inlinks"}
=============================================================================
