------------------------------ MODULE MCLeases ------------------------------
EXTENDS Leases, TLC
CONSTANTS s1, s2
MCServers == {s1, s2}
\* No definition tells the chunkservers apart.
Symmetry == Permutations(MCServers)
=============================================================================
