-------------------------- MODULE MCLanguageServer --------------------------
(* A small language server.                                                *)
EXTENDS LanguageServer

=============================================================================
