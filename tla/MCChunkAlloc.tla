---------------------------- MODULE MCChunkAlloc ----------------------------
(* Small instances of ChunkAlloc.                                          *)
EXTENDS ChunkAlloc, TLC

CONSTANTS s1, s2
MCServers == {s1, s2}
Symmetry == Permutations(MCServers)
=============================================================================
