----------------------------- MODULE MCProtocol -----------------------------
(***************************************************************************)
(* Protocol on small instances.                                            *)
(***************************************************************************)
EXTENDS Protocol
=============================================================================
