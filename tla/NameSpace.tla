------------------------------ MODULE NameSpace ------------------------------
(***************************************************************************)
(* The name space the metaserver keeps in its tree (meta/kfsops.cc) and    *)
(* the request handlers that change it (meta/request.cc), as operators     *)
(* from a name space to a result.                                          *)
(*                                                                         *)
(* A name space is a record:                                               *)
(*   dents    the directory entries, from <<directory, name>> to file id,  *)
(*            "." and ".." included (MetaDentry)                           *)
(*   type     the attributes, from file id to "dir" or "file" (MetaFattr)  *)
(*   leased   the files with a chunk on which a valid lease is issued      *)
(*   nextFid  the file id genid() hands out next                           *)
(*   counter  the counter of moveToDumpster()                              *)
(* A path is the sequence of its names; the first one is looked up in the  *)
(* root directory.  A file's replicas, sizes and times do not matter here. *)
(***************************************************************************)
EXTENDS Integers, FiniteSets, Sequences, SequencesExt

CONSTANTS
    WormMode,   \* the metaserver runs in WORM mode: removals are refused
    TmpNames    \* the names isWormMutationAllowed() accepts in WORM mode

ASSUME WormAssumption == WormMode \in BOOLEAN

ROOTFID == 2
NoFid == 0
DUMPSTERDIR == "dumpster"

Result(ns, status, fid) == [ns |-> ns, status |-> status, fid |-> fid]
Fails(ns, status) == Result(ns, status, NoFid)

-----------------------------------------------------------------------------
(* Looking things up.                                                      *)

\* Tree::readdir(): the names in a directory.
readdir(ns, dir) == {k[2] : k \in {e \in DOMAIN ns.dents : e[1] = dir}}

\* Tree::lookup(), through getDentry() and getFattr().
lookup(ns, dir, fname) ==
    IF <<dir, fname>> \in DOMAIN ns.dents THEN ns.dents[dir, fname] ELSE NoFid

is_dir(ns, fid) == fid \in DOMAIN ns.type /\ ns.type[fid] = "dir"
is_file(ns, fid) == fid \in DOMAIN ns.type /\ ns.type[fid] = "file"

\* Tree::emptydir(): nothing but "." and "..".
emptydir(ns, dir) == Cardinality(readdir(ns, dir)) = 2

\* Tree::lookupPath() on the directory part of a new name: the part before
\* the last slash is empty for a name directly under the root, and an empty
\* path is not an absolute one, so "/" is then looked up in rootdir.
lookupPath(ns, rootdir, path) ==
    IF path = <<>> THEN lookup(ns, rootdir, "/")
    ELSE FoldLeft(LAMBDA dir, component : lookup(ns, dir, component), ROOTFID, path)

\* Tree::is_descendant(): climb from dst by ".." until src or the root.
is_descendant(ns, src, dst) ==
    LET climbed[n \in 0 .. Cardinality(DOMAIN ns.type)] ==
            IF n = 0 THEN dst
            ELSE IF climbed[n - 1] \in {src, ROOTFID} THEN climbed[n - 1]
            ELSE lookup(ns, climbed[n - 1], "..")
    IN  climbed[Cardinality(DOMAIN ns.type)] = src

-----------------------------------------------------------------------------
(* Changing the tree.                                                      *)

\* Tree::link() for the entry alone.
Linked(ns, dir, fname, fid) ==
    [ns EXCEPT !.dents = [k \in DOMAIN @ \cup {<<dir, fname>>} |->
                             IF k = <<dir, fname>> THEN fid ELSE @[k]]]

Unlinked(ns, dir, fname) ==
    [ns EXCEPT !.dents = Restrict(@, DOMAIN @ \ {<<dir, fname>>})]

WithFattr(ns, fid, t) ==
    [ns EXCEPT !.type = [f \in DOMAIN @ \cup {fid} |-> IF f = fid THEN t ELSE @[f]],
               !.nextFid = fid + 1]

WithoutFattr(ns, fid) == [ns EXCEPT !.type = Restrict(@, DOMAIN @ \ {fid})]

\* The end of Tree::rename(): the entry moves, and a directory's ".." with it.
Moved(ns, dir, fname, ddir, dname) ==
    LET fid == ns.dents[dir, fname]
        at  == Linked(Unlinked(ns, dir, fname), ddir, dname, fid)
    IN  IF ns.type[fid] = "dir" THEN Linked(at, fid, "..", ddir) ELSE at

\* Tree::moveToDumpster(): the file gets a name of its own in the dumpster,
\* its old name and a counter, of which the counter is kept.
moveToDumpster(ns, dir, fname) ==
    LET dumpster == lookup(ns, ROOTFID, DUMPSTERDIR)
    IN  IF dumpster = dir THEN Fails(ns, "EEXIST")
        ELSE Result([Moved(ns, dir, fname, dumpster, ToString(ns.counter))
                        EXCEPT !.counter = @ + 1], "OK", NoFid)

\* A mutant: a busy file is deleted at once.
NeverBusy(ns, fid) == FALSE

\* Tree::remove()'s question whether the file has to go to the dumpster:
\* it has chunks and IsValidLeaseIssued() finds a valid lease on one.
Busy(ns, fid) == fid \in ns.leased

\* Tree::remove().
remove(ns, dir, fname) ==
    LET fid == lookup(ns, dir, fname)
    IN  IF fid = NoFid THEN Fails(ns, "ENOENT")
        ELSE IF is_dir(ns, fid) THEN Fails(ns, "EISDIR")
        ELSE IF is_file(ns, fid) /\ Busy(ns, fid) THEN moveToDumpster(ns, dir, fname)
        ELSE Result(WithoutFattr(Unlinked(ns, dir, fname), fid), "OK", NoFid)

\* Tree::create(): an existing file is removed first, unless the creation
\* is exclusive.
create(ns, dir, fname, exclusive) ==
    LET old  == lookup(ns, dir, fname)
        gone == IF old = NoFid THEN Result(ns, "OK", NoFid) ELSE remove(ns, dir, fname)
    IN  IF old # NoFid /\ is_dir(ns, old) THEN Fails(ns, "EISDIR")
        ELSE IF old # NoFid /\ exclusive THEN Fails(ns, "EEXIST")
        ELSE Result(WithFattr(Linked(gone.ns, dir, fname, gone.ns.nextFid),
                                       gone.ns.nextFid, "file"),
                             "OK", gone.ns.nextFid)

\* Tree::mkdir().
mkdir(ns, dir, dname) ==
    LET fid  == ns.nextFid
        made == WithFattr(Linked(ns, dir, dname, fid), fid, "dir")
    IN  IF lookup(ns, dir, dname) # NoFid THEN Fails(ns, "EEXIST")
        ELSE Result(Linked(Linked(made, fid, ".", fid), fid, "..", dir), "OK", fid)

\* Tree::rmdir().
rmdir(ns, dir, dname) ==
    LET fid  == lookup(ns, dir, dname)
        bare == Unlinked(Unlinked(ns, fid, "."), fid, "..")
    IN  IF dir = ROOTFID /\ dname = DUMPSTERDIR THEN Fails(ns, "EPERM")
        ELSE IF fid = NoFid THEN Fails(ns, "ENOENT")
        ELSE IF is_file(ns, fid) THEN Fails(ns, "ENOTDIR")
        ELSE IF dname \in {".", ".."} THEN Fails(ns, "EPERM")
        ELSE IF ~emptydir(ns, fid) THEN Fails(ns, "ENOTEMPTY")
        ELSE Result(WithoutFattr(Unlinked(bare, dir, dname), fid), "OK", NoFid)

\* A mutant: a directory may become its own descendant.
AnyMove(ns, src, ddir) == FALSE

\* Tree::rename()'s last check before it changes anything.
MovesIntoItself(ns, src, ddir) == is_dir(ns, src) /\ is_descendant(ns, src, ddir)

\* Tree::rename() to an absolute new path.
rename(ns, parent, oldname, newpath, overwrite) ==
    LET src   == lookup(ns, parent, oldname)
        ddir  == lookupPath(ns, parent, Front(newpath))
        dname == Last(newpath)
        dst   == lookup(ns, ddir, dname)
        gone  == IF dst = NoFid THEN Result(ns, "OK", NoFid)
                 ELSE IF is_dir(ns, src) THEN rmdir(ns, ddir, dname)
                 ELSE remove(ns, ddir, dname)
    IN  IF src = NoFid THEN Fails(ns, "ENOENT")
        ELSE IF ddir = NoFid THEN Fails(ns, "ENOENT")
        ELSE IF ~is_dir(ns, ddir) THEN Fails(ns, "ENOTDIR")
        ELSE IF ddir = parent /\ dname = oldname THEN Result(ns, "OK", NoFid)
        ELSE IF dst # NoFid /\ ~overwrite THEN Fails(ns, "EEXIST")
        ELSE IF dst # NoFid /\ ns.type[src] # ns.type[dst] THEN
                 Fails(ns, IF is_dir(ns, src) THEN "ENOTDIR" ELSE "EISDIR")
        ELSE IF dst # NoFid /\ is_dir(ns, src) /\ ~emptydir(ns, dst) THEN Fails(ns, "ENOTEMPTY")
        ELSE IF MovesIntoItself(ns, src, ddir) THEN Fails(ns, "EINVAL")
        ELSE IF gone.status # "OK" THEN Fails(ns, gone.status)
        ELSE Result(Moved(gone.ns, parent, oldname, ddir, dname), "OK", NoFid)

\* Tree::cleanupDumpster(): remove() on every entry of the dumpster, which
\* refuses the directories and, with moveToDumpster(), the busy files.
cleanupDumpster(ns) ==
    LET dir == lookup(ns, ROOTFID, DUMPSTERDIR)
    IN  FoldSet(LAMBDA fname, left : remove(left, dir, fname).ns, ns, readdir(ns, dir))

-----------------------------------------------------------------------------
(* The request handlers.                                                   *)

\* handle_create().
handle_create(ns, dir, fname, exclusive) ==
    IF is_dir(ns, dir) THEN create(ns, dir, fname, exclusive) ELSE Fails(ns, "ENOTDIR")

\* handle_mkdir().
handle_mkdir(ns, dir, dname) ==
    IF is_dir(ns, dir) THEN mkdir(ns, dir, dname) ELSE Fails(ns, "ENOTDIR")

isWormMutationAllowed(fname) == fname \in TmpNames

\* handle_remove().
handle_remove(ns, dir, fname) ==
    IF WormMode /\ ~isWormMutationAllowed(fname) THEN Fails(ns, "EPERM")
    ELSE remove(ns, dir, fname)

\* handle_rmdir().
handle_rmdir(ns, dir, dname) ==
    IF WormMode /\ ~isWormMutationAllowed(dname) THEN Fails(ns, "EPERM")
    ELSE rmdir(ns, dir, dname)

\* handle_rename(), which in WORM mode asks path_exists() of the new path.
handle_rename(ns, dir, oldname, newpath, overwrite) ==
    IF WormMode /\ (~isWormMutationAllowed(oldname) \/ lookupPath(ns, ROOTFID, newpath) # NoFid)
    THEN Fails(ns, "EPERM")
    ELSE rename(ns, dir, oldname, newpath, overwrite)

\* handle_lookup().
handle_lookup(ns, dir, fname) ==
    IF lookup(ns, dir, fname) = NoFid THEN Fails(ns, "ENOENT")
    ELSE Result(ns, "OK", lookup(ns, dir, fname))

\* handle_readdir().
handle_readdir(ns, dir) ==
    Fails(ns, IF dir \notin DOMAIN ns.type THEN "ENOENT"
              ELSE IF is_file(ns, dir) THEN "ENOTDIR"
              ELSE "OK")

\* EnumerateReaddirPlusInfo: the attributes that go with each name.
EnumerateReaddirPlusInfo(ns, dir) ==
    {<<fname, is_dir(ns, lookup(ns, dir, fname))>> : fname \in readdir(ns, dir)}

\* handle_readdirplus(), the status.
handle_readdirplus(ns, dir) == handle_readdir(ns, dir)

\* The name space the metaserver starts a new file system with: new_tree()'s
\* root and the dumpster emptyDumpsterDir() makes.
NewTree ==
    LET root == [dents   |-> [k \in {ROOTFID} \X {"/", ".", ".."} |-> ROOTFID],
                 type    |-> [f \in {ROOTFID} |-> "dir"],
                 leased  |-> {},
                 nextFid |-> ROOTFID + 1,
                 counter |-> 1]
    IN  mkdir(root, ROOTFID, DUMPSTERDIR).ns
=============================================================================
