----------------------------- MODULE MCClientIO -----------------------------
(* A file of two chunks of two cells on a chain of two servers.  A write of  *)
(* one cell is buffered; one of two cells from cell 1 goes through to the     *)
(* first chunk and is buffered for the second; the read crosses both.         *)
EXTENDS ClientIO

TheCalls ==
    {[op |-> "write", at |-> 0, n |-> 1], [op |-> "write", at |-> 1, n |-> 2],
     [op |-> "read", at |-> 0, n |-> 3], [op |-> "close", at |-> 0, n |-> 0]}
=============================================================================
