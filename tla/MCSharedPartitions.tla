------------------------- MODULE MCSharedPartitions -------------------------
(***************************************************************************)
(* SharedPartitions for model checking: its constants are plain values.    *)
(***************************************************************************)
EXTENDS SharedPartitions
=============================================================================
