--------------------------- MODULE MCSharedTable ---------------------------
(* Instances of SharedTable. *)
EXTENDS SharedTable
=============================================================================
