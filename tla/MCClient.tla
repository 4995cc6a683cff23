------------------------------- MODULE MCClient -------------------------------
(* Instance of Client for TLC: two names, one of them also a directory's,  *)
(* and a file system that has the directory and both files.               *)
EXTENDS Client

MCPaths == {<<"a">>, <<"b">>, <<"a", "b">>}

MCTrees ==
    LET dir == mkdir(NewTree, ROOTFID, "a")
    IN  {create(create(dir.ns, dir.fid, "b", FALSE).ns, ROOTFID, "b", FALSE).ns}

MCOpenFlags == {Flags("rw", FALSE, FALSE), Flags("rw", TRUE, TRUE)}
=============================================================================
