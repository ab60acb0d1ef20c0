------------------------------- MODULE MCSpark -------------------------------
(***************************************************************************)
(* Spark for model checking: its constants are plain numbers.              *)
(***************************************************************************)
EXTENDS Spark
=============================================================================
