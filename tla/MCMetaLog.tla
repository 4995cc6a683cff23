----------------------------- MODULE MCMetaLog -----------------------------
(* Small instances of MetaLog: which mutations are never logged is chosen  *)
(* here, the bounds in the configurations.                                 *)
EXTENDS MetaLog

AllLogged == {}
FirstUnlogged == {1}
=============================================================================
