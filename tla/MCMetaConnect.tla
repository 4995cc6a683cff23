--------------------------- MODULE MCMetaConnect ---------------------------
(* Small instances of MetaConnect; all constants are numbers.              *)
EXTENDS MetaConnect
=============================================================================
