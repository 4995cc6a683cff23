--------------------------- MODULE MCReplication ---------------------------
(***************************************************************************)
(* A small instance of Replication: two servers on one rack, under the     *)
(* lower utilization threshold, and one on another rack, over the upper    *)
(* one.  The first two are interchangeable.                                *)
(***************************************************************************)
EXTENDS Replication, TLC

CONSTANTS s1, s2, s3

TheServers == {s1, s2, s3}
TheRacks == (s1 :> 1) @@ (s2 :> 1) @@ (s3 :> 2)
TheUtil == (s1 :> 1) @@ (s2 :> 1) @@ (s3 :> 3)
Symmetry == Permutations({s1, s2})
=============================================================================
