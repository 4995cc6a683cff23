---------------------------- MODULE MCChunkStore ----------------------------
(***************************************************************************)
(* Instances of ChunkStore: one chunk of two blocks of two cells, or two   *)
(* chunks.                                                                 *)
(***************************************************************************)
EXTENDS ChunkStore

MCReads == {<<0, 4>>, <<1, 1>>}
MCWrites == {<<0, 2>>, <<1, 1>>, <<2, 1>>}
=============================================================================
