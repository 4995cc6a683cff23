-------------------------------- MODULE Client --------------------------------
(***************************************************************************)
(* The name-space side of the client library (libkfsClient/KfsClient.cc):  *)
(* the table of open files that doubles as an attribute cache, the path    *)
(* cache, and the calls that go through them to the metaserver, whose name *)
(* space (module NameSpace) other clients change at the same time.         *)
(*                                                                         *)
(* A call holds mMutex, so calls of one client do not interleave.  But a   *)
(* call makes several RPCs, and between two of them the name space moves.  *)
(* Each action is one RPC of the call in progress, or one look at the      *)
(* caches, with the local work around it; the calls that call each other   *)
(* form a stack of frames.  Time advances in units of which ValidTime make *)
(* FILE_CACHE_ENTRY_VALID_TIME.  Paths are absolute.                       *)
(***************************************************************************)
EXTENDS NameSpace

CONSTANTS
    MaxFiles,   \* MAX_FILES, the size of the file table
    ValidTime,  \* FILE_CACHE_ENTRY_VALID_TIME
    ListMax,    \* the largest listing ReaddirPlus() caches
    Trees,      \* the name spaces the client may find when it starts
    Paths,      \* the paths the applications use
    Kinds,      \* the calls the application makes
    OpenFlags,  \* the flags it opens with: [mode, creat, excl]
    MaxCalls,   \* bound: calls of the application
    MaxPeer,    \* bound: changes other clients make
    MaxTime     \* bound: the clock

ASSUME BoundsAssumption == MaxFiles \in Nat \ {0} /\ ValidTime \in Nat \ {0}

VARIABLES
    ns,         \* the metaserver's name space
    mFileTable, \* 0 .. MaxFiles - 1 to entries
    mPathCache, \* path to index in the table
    stack,      \* the frames of the call in progress, innermost first
    now,        \* the time
    up,         \* FALSE once the process has died
    held,       \* the descriptors the application was given and has not closed
    handles,    \* history: [fd, fid] of the files it has open for writing
    was,        \* history: <<directory, name, file, time>> of entries that ended
    crossed,    \* history: a Rename() met an entry under another path
    calls, peer \* the bounds' counters

vars == <<ns, mFileTable, mPathCache, stack, now, up, held, handles, was, crossed, calls, peer>>

Fds == 0 .. MaxFiles - 1
NoFd == -1
NoPath == <<>>

\* FileTableEntry, with mode "none" for openMode 0, which is also O_RDONLY.
Entry(parent, name, path, t) ==
    [live |-> TRUE, parent |-> parent, name |-> name, path |-> path, mode |-> "none",
     fid |-> NoFid, isDir |-> FALSE, time |-> t]

NullEntry == [Entry(NoFid, "", NoPath, 0) EXCEPT !.live = FALSE]

-----------------------------------------------------------------------------
(* The file table and the path cache.  c is the pair of them; an operator  *)
(* that searches returns the index it found, or NoFd, in fte.              *)

Caches == [table |-> mFileTable, cache |-> mPathCache, fte |-> NoFd]

\* A mutant: a file open for writing expires like any other entry.
IsFileTableEntryRecent(e) == e.fid = ROOTFID \/ now - e.time < ValidTime

\* A mutant: an entry is kept for one unit too long.
IsFileTableEntryValidLonger(e) ==
    (~e.isDir /\ e.mode # "none") \/ e.fid = ROOTFID \/ now - e.time <= ValidTime

\* IsFileTableEntryValid().
IsFileTableEntryValid(e) ==
    \/ ~e.isDir /\ e.mode # "none"
    \/ e.fid = ROOTFID
    \/ now - e.time < ValidTime

\* ReleaseFileTableEntry().
ReleaseFileTableEntry(c, i) ==
    [c EXCEPT !.table[i] = NullEntry,
              !.cache = Restrict(@, DOMAIN @ \ {c.table[i].path}),
              !.fte = NoFd]

\* fte_compare(): which of two entries is recycled first.
fte_compare(first, second) ==
    IF first.isDir = second.isDir THEN first.time < second.time
    ELSE first.isDir /\ second.mode # "none"

\* min_element() over the table.
Oldest(table) ==
    FoldLeft(LAMBDA best, i : IF fte_compare(table[i], table[best]) THEN i ELSE best,
             0, [i \in 1 .. MaxFiles - 1 |-> i])

\* FindFreeFileTableEntry(): the first free slot, or that of the entry to
\* recycle, provided nobody has it open.
FindFreeFileTableEntry(c) ==
    LET free == {i \in Fds : ~c.table[i].live}
        old  == Oldest(c.table)
    IN  IF free # {} THEN [c EXCEPT !.fte = Min(free)]
        ELSE IF c.table[old].isDir \/ c.table[old].mode = "none"
             THEN [ReleaseFileTableEntry(c, old) EXCEPT !.fte = old]
             ELSE [c EXCEPT !.fte = NoFd]

\* AllocFileTableEntry().
AllocFileTableEntry(c, parent, name, path) ==
    LET r == FindFreeFileTableEntry(c)
    IN  IF r.fte = NoFd THEN r
        ELSE [r EXCEPT !.table[r.fte] = Entry(parent, name, path, now),
                       !.cache = IF path = NoPath THEN @
                                 ELSE [p \in DOMAIN @ \cup {path} |->
                                          IF p = path THEN r.fte ELSE @[p]]]

\* FTMatcher: the entries of a name in a directory.
Matches(c, parent, name) ==
    {i \in Fds : c.table[i].live /\ c.table[i].parent = parent /\ c.table[i].name = name}

\* LookupFileTableEntry(parentFid, name): the first match, released if it
\* has to be revalidated.
LookupFileTableEntry(c, parent, name) ==
    LET m == Matches(c, parent, name)
    IN  IF m = {} THEN [c EXCEPT !.fte = NoFd]
        ELSE IF IsFileTableEntryValid(c.table[Min(m)]) THEN [c EXCEPT !.fte = Min(m)]
        ELSE ReleaseFileTableEntry(c, Min(m))

\* ClaimFileTableEntry().
ClaimFileTableEntry(c, parent, name, path) ==
    LET r == LookupFileTableEntry(c, parent, name)
    IN  IF r.fte # NoFd THEN r ELSE AllocFileTableEntry(r, parent, name, path)

\* The entry found or made is given the attributes the server answered.
WithAttr(c, fid, dir, mode) ==
    [c EXCEPT !.table[c.fte].fid = fid, !.table[c.fte].isDir = dir,
              !.table[c.fte].mode = mode]

SetCaches(c) == mFileTable' = c.table /\ mPathCache' = c.cache

-----------------------------------------------------------------------------
(* Frames.  path and new are the paths of the call, flags those of Open()  *)
(* and Create(); pc is where the frame is and cont where it goes once its  *)
(* path is walked; parent and todo are GetPathComponents()'s directory and *)
(* the components left; list is what Rmdirs() has left to remove and res   *)
(* what the frame it called returned.                                      *)

Listings == {"readdir", "readdirplus"}

Flags(mode, creat, excl) == [mode |-> mode, creat |-> creat, excl |-> excl]
NoFlags == Flags("none", FALSE, FALSE)

Answer(status, fid, dir, list) ==
    [status |-> status, fid |-> fid, isDir |-> dir, list |-> list]
Status(status) == Answer(status, NoFid, FALSE, {})

\* GetPathComponents() begins: a path of one name is in the root directory.
Walking(f, cont) ==
    [f EXCEPT !.parent = ROOTFID, !.todo = Front(f.path), !.cont = cont,
              !.pc = IF Len(f.path) = 1 THEN cont ELSE "walk"]

\* Where each call begins.
Frame(op, path, new, flags) ==
    LET f == [op |-> op, path |-> path, new |-> new, flags |-> flags, pc |-> "start",
              cont |-> "", parent |-> NoFid, todo |-> <<>>, list |-> {}, res |-> Status("")]
    IN  CASE op \in {"stat"} \cup Listings -> [f EXCEPT !.pc = "cache"]
          [] op = "mkdirs" -> [f EXCEPT !.pc = "next", !.todo = path]
          [] op \in {"rmdirs", "replication"} -> f
          [] OTHER -> Walking(f, "go")

Top == Head(stack)
At(ops, pc) == up /\ stack # <<>> /\ Top.op \in ops /\ Top.pc = pc

Goto(f) == stack' = <<f>> \o Tail(stack)
Call(g, f) == stack' = <<g, f>> \o Tail(stack)
Return(r) ==
    stack' = IF Len(stack) = 1 THEN <<>>
             ELSE <<[stack[2] EXCEPT !.res = r]>> \o SubSeq(stack, 3, Len(stack))

\* The server executes a request: the entries it ends are remembered.
Serve(r) ==
    /\ ns' = r.ns
    /\ was' = was \cup {<<k[1], k[2], ns.dents[k], now>> :
                           k \in {e \in DOMAIN ns.dents :
                                     e \notin DOMAIN r.ns.dents \/ r.ns.dents[e] # ns.dents[e]}}
Asks == UNCHANGED <<ns, was>>

\* What a step leaves alone unless it says otherwise.
KeepApp == UNCHANGED <<now, up, calls, peer>>
KeepHandles == UNCHANGED <<held, handles>>

\* The handles to an index of the table end: it was closed, or a call named
\* the file itself (Remove, Rmdir, Create, Mkdir).
WithoutFd(i) == {h \in handles : h.fd # i}

-----------------------------------------------------------------------------
(* Walking a path, and finding the entry of a path.                        *)

\* The calls that open a path they do not find in the table.
Opening == Listings \cup {"replication"}

CallOpen == Call(Frame("open", Top.path, NoPath, NoFlags), [Top EXCEPT !.pc = "opened"])

\* GetPathComponents(), one component: Lookup() in the table, or at the
\* server.  The entry of a file keeps the openMode it was constructed with,
\* which nothing initialised; that of a directory is never read.
WalkFails(status) ==
    CASE Top.op = "stat" /\ Top.cont = "entry" -> Goto(Walking(Top, "go"))
      [] Top.op \in Opening -> CallOpen
      [] OTHER -> Return(Status(status))

WalksOn(fid, dir) ==
    IF ~dir THEN WalkFails("ENOTDIR")
    ELSE Goto([Top EXCEPT !.parent = fid, !.todo = Tail(@),
                          !.pc = IF Len(Top.todo) = 1 THEN Top.cont ELSE "walk"])

GetPathComponents ==
    /\ up /\ stack # <<>> /\ Top.pc = "walk"
    /\ LET name == Head(Top.todo)
           c    == LookupFileTableEntry(Caches, Top.parent, name)
           r    == handle_lookup(ns, Top.parent, name)
           new  == AllocFileTableEntry(c, Top.parent, name, NoPath)
           dir  == is_dir(ns, r.fid)
       IN  \/ /\ c.fte # NoFd
              /\ SetCaches(c)
              /\ WalksOn(c.table[c.fte].fid, c.table[c.fte].isDir)
           \/ /\ c.fte = NoFd
              /\ \/ r.status # "OK" /\ SetCaches(c) /\ WalkFails(r.status)
                 \/ r.status = "OK" /\ new.fte = NoFd /\ SetCaches(new) /\ WalkFails("EMFILE")
                 \/ /\ r.status = "OK" /\ new.fte # NoFd
                    /\ \E mode \in IF dir THEN {"none"} ELSE {"none", "garbage"} :
                          SetCaches(WithAttr(new, r.fid, dir, mode))
                    /\ WalksOn(r.fid, dir)
    /\ Asks /\ KeepApp /\ KeepHandles
    /\ UNCHANGED crossed

\* What Stat() and the listings do with the entry they found.
Found(c) ==
    LET e == c.table[c.fte]
    IN  IF Top.op = "stat" THEN Return(Answer("OK", e.fid, e.isDir, {}))
        ELSE IF Top.op \in Listings /\ ~e.isDir THEN Return(Status("ENOTDIR"))
        ELSE Goto([Top EXCEPT !.pc = "go", !.parent = e.fid])

\* ... and without one: LookupAttr(), or Open().
NotFound == IF Top.op = "stat" THEN Goto(Walking(Top, "go")) ELSE CallOpen

\* LookupFileTableEntry(pathname), the path cache: an index whose entry is
\* gone, or has another path, ends the process.
LookupPathCache ==
    /\ At({"stat"} \cup Opening, "cache")
    /\ \/ /\ Top.path \notin DOMAIN mPathCache
          /\ Goto(Walking(Top, "entry"))
          /\ UNCHANGED <<mFileTable, mPathCache, up>>
       \/ /\ Top.path \in DOMAIN mPathCache
          /\ LET i == mPathCache[Top.path]
                 e == mFileTable[i]
             IN  \/ /\ e.live /\ IsFileTableEntryValid(e) /\ e.path = Top.path
                    /\ Found([Caches EXCEPT !.fte = i])
                    /\ UNCHANGED <<mFileTable, mPathCache, up>>
                 \/ /\ ~e.live \/ (IsFileTableEntryValid(e) /\ e.path # Top.path)
                    /\ up' = FALSE
                    /\ UNCHANGED <<mFileTable, mPathCache, stack>>
                 \/ /\ e.live /\ ~IsFileTableEntryValid(e)
                    /\ SetCaches(ReleaseFileTableEntry(Caches, i))
                    /\ NotFound
                    /\ UNCHANGED up
    /\ Asks /\ KeepHandles
    /\ UNCHANGED <<now, calls, peer, crossed>>

\* LookupFileTableEntry(pathname), by directory and name.
LookupEntry ==
    /\ At({"stat"} \cup Opening, "entry")
    /\ LET c == LookupFileTableEntry(Caches, Top.parent, Last(Top.path))
       IN  /\ SetCaches(c)
           /\ \/ c.fte # NoFd /\ Found(c)
              \/ c.fte = NoFd /\ NotFound
    /\ Asks /\ KeepApp /\ KeepHandles
    /\ UNCHANGED crossed
-----------------------------------------------------------------------------
(* The calls.                                                              *)

Leaf == Last(Top.path)

\* LookupAttr(): the entry, or the server's answer, which is cached without
\* a path.
LookupAttr ==
    /\ At({"stat"}, "go")
    /\ LET c   == LookupFileTableEntry(Caches, Top.parent, Leaf)
           r   == handle_lookup(ns, Top.parent, Leaf)
           new == AllocFileTableEntry(c, Top.parent, Leaf, NoPath)
           dir == is_dir(ns, r.fid)
       IN  \/ /\ c.fte # NoFd
              /\ SetCaches(c)
              /\ Return(Answer("OK", c.table[c.fte].fid, c.table[c.fte].isDir, {}))
           \/ /\ c.fte = NoFd
              /\ \/ r.status # "OK" /\ SetCaches(c) /\ Return(Status(r.status))
                 \/ /\ r.status = "OK"
                    /\ SetCaches(IF new.fte = NoFd THEN new ELSE WithAttr(new, r.fid, dir, "none"))
                    /\ Return(Answer("OK", r.fid, dir, {}))
    /\ Asks /\ KeepApp /\ KeepHandles
    /\ UNCHANGED crossed

\* The handles that are left when the entry of the name is taken over.
NotTakenOver == WithoutFd(LookupFileTableEntry(Caches, Top.parent, Leaf).fte)

\* Mkdir(), which takes over an entry the table still has for the name.
Mkdir ==
    /\ At({"mkdir"}, "go")
    /\ LET r == handle_mkdir(ns, Top.parent, Leaf)
           c == ClaimFileTableEntry(Caches, Top.parent, Leaf, Top.path)
       IN  /\ Serve(r)
           /\ \/ /\ r.status # "OK"
                 /\ Return(Status(r.status))
                 /\ UNCHANGED <<mFileTable, mPathCache, handles>>
              \/ /\ r.status = "OK" /\ c.fte = NoFd
                 /\ SetCaches(c) /\ Return(Status("EMFILE"))
                 /\ UNCHANGED handles
              \/ /\ r.status = "OK" /\ c.fte # NoFd
                 /\ SetCaches(WithAttr(c, r.fid, TRUE, c.table[c.fte].mode))
                 /\ handles' = NotTakenOver
                 /\ Return(Status("OK"))
    /\ KeepApp
    /\ UNCHANGED <<held, crossed>>

\* Remove() and Rmdir(): the first entry of the name goes, unless it is in
\* the first slot, whether or not the server then agrees.
Unlink ==
    /\ At({"remove", "rmdir"}, "go")
    /\ LET r == IF Top.op = "remove" THEN handle_remove(ns, Top.parent, Leaf)
                                     ELSE handle_rmdir(ns, Top.parent, Leaf)
           c == LookupFileTableEntry(Caches, Top.parent, Leaf)
       IN  /\ SetCaches(IF c.fte > 0 THEN ReleaseFileTableEntry(c, c.fte) ELSE c)
           /\ handles' = IF c.fte > 0 THEN WithoutFd(c.fte) ELSE handles
           /\ Serve(r)
           /\ Return(Status(r.status))
    /\ KeepApp
    /\ UNCHANGED <<held, crossed>>

\* A mutant: the old path stays in the path cache.
RenamedPathKept(c, old, new) ==
    [c EXCEPT !.cache = [p \in DOMAIN c.cache \cup {new} |->
                            IF p = new THEN c.fte ELSE c.cache[p]],
              !.table[c.fte].path = new]

\* Rename()'s end: the path cache forgets the old path, and the entry is
\* found under the new one.  It keeps its directory and name.
RenamedPath(c, old, new) ==
    [c EXCEPT !.cache = [p \in (DOMAIN c.cache \ {old}) \cup {new} |->
                            IF p = new THEN c.fte ELSE c.cache[p]],
              !.table[c.fte].path = new]

\* Rename(), with overwrite, its default.
Rename ==
    /\ At({"rename"}, "go")
    /\ LET r == handle_rename(ns, Top.parent, Leaf, Top.new, TRUE)
           c == LookupFileTableEntry(Caches, Top.parent, Leaf)
           e == c.table[c.fte]
       IN  /\ Serve(r)
           /\ \/ /\ r.status # "OK"
                 /\ UNCHANGED <<mFileTable, mPathCache, crossed>>
              \/ /\ r.status = "OK" /\ c.fte <= 0
                 /\ SetCaches(c)
                 /\ UNCHANGED crossed
              \/ /\ r.status = "OK" /\ c.fte > 0
                 /\ SetCaches(RenamedPath(c, Top.path, Top.new))
                 /\ crossed' = (crossed \/ e.path \notin {NoPath, Top.path, Top.new})
           /\ Return(Status(r.status))
    /\ KeepApp /\ KeepHandles
\* The application gets a descriptor, if it is the one that called.  Only
\* an ordinary file open for writing is a handle the table promises to keep.
Gives(fd, fid, writable, others) ==
    /\ held' = IF Len(stack) = 1 THEN held \cup {fd} ELSE held
    /\ handles' = others \cup
                  (IF Len(stack) = 1 /\ writable THEN {[fd |-> fd, fid |-> fid]} ELSE {})

\* A mutant: O_EXCL is only looked at when the file was seen to exist.
CreatesAnyway(flags) == FALSE

\* Open() passes O_EXCL on to Create().
CreatesExclusively(flags) == flags.excl

\* Create(), which takes over an entry the table still has for the name.
Create ==
    /\ At({"create"}, "go")
    /\ LET r == handle_create(ns, Top.parent, Leaf, CreatesExclusively(Top.flags))
           c == ClaimFileTableEntry(Caches, Top.parent, Leaf, Top.path)
       IN  /\ Serve(r)
           /\ \/ /\ r.status # "OK"
                 /\ Return(Status(r.status))
                 /\ KeepHandles
                 /\ UNCHANGED <<mFileTable, mPathCache>>
              \/ /\ r.status = "OK" /\ c.fte = NoFd
                 /\ SetCaches(c) /\ Return(Status("EMFILE"))
                 /\ KeepHandles
              \/ /\ r.status = "OK" /\ c.fte # NoFd
                 /\ SetCaches(WithAttr(c, r.fid, FALSE, "rw"))
                 /\ Gives(c.fte, r.fid, TRUE, NotTakenOver)
                 /\ Return(Answer("OK", r.fid, FALSE, {}))
    /\ KeepApp
    /\ UNCHANGED crossed

\* Open(): the server is always asked; a missing file is created, by a call
\* of its own; an existing one gets an entry of its own.
Open ==
    /\ At({"open"}, "go")
    /\ LET r   == handle_lookup(ns, Top.parent, Leaf)
           c   == AllocFileTableEntry(Caches, Top.parent, Leaf, Top.path)
           dir == is_dir(ns, r.fid)
       IN  \/ /\ r.status # "OK" /\ Top.flags.creat
              /\ Goto(Frame("create", Top.path, NoPath, Top.flags))
              /\ KeepHandles
              /\ UNCHANGED <<mFileTable, mPathCache>>
           \/ /\ r.status # "OK" /\ ~Top.flags.creat
              /\ Return(Status(r.status))
              /\ KeepHandles
              /\ UNCHANGED <<mFileTable, mPathCache>>
           \/ /\ r.status = "OK" /\ Top.flags.creat /\ Top.flags.excl
              /\ Return(Status("EEXIST"))
              /\ KeepHandles
              /\ UNCHANGED <<mFileTable, mPathCache>>
           \/ /\ r.status = "OK" /\ ~(Top.flags.creat /\ Top.flags.excl)
              /\ IF c.fte = NoFd
                 THEN SetCaches(c) /\ Return(Status("EMFILE")) /\ KeepHandles
                 ELSE /\ SetCaches(WithAttr(c, r.fid, dir, Top.flags.mode))
                      /\ Gives(c.fte, r.fid, ~dir /\ Top.flags.mode # "none", handles)
                      /\ Return(Answer("OK", r.fid, dir, {}))
    /\ Asks /\ KeepApp
    /\ UNCHANGED crossed

\* Close(): whatever entry has the descriptor now is released.
Close(fd) ==
    /\ up /\ stack = <<>> /\ fd \in held
    /\ held' = held \ {fd}
    /\ handles' = WithoutFd(fd)
    /\ IF mFileTable[fd].live THEN SetCaches(ReleaseFileTableEntry(Caches, fd))
       ELSE UNCHANGED <<mFileTable, mPathCache>>
    /\ UNCHANGED <<ns, stack, now, up, was, crossed, calls, peer>>

\* ReaddirPlus() caches one entry of the listing, unless the table has it.
CachedListing(c, dir, path, name) ==
    LET found == LookupFileTableEntry(c, dir, name)
        full  == IF name \in {".", ".."} THEN NoPath ELSE Append(path, name)
        new   == AllocFileTableEntry(found, dir, name, full)
        fid   == lookup(ns, dir, name)
    IN  IF found.fte # NoFd THEN found
        ELSE IF new.fte = NoFd THEN new
        ELSE WithAttr(new, fid, is_dir(ns, fid), "none")

\* Readdir(): the server lists the directory.
Readdir ==
    /\ At({"readdir"}, "go")
    /\ Return(Status(handle_readdir(ns, Top.parent).status))
    /\ UNCHANGED <<mFileTable, mPathCache, crossed>>
    /\ Asks /\ KeepApp /\ KeepHandles

\* ReaddirPlus(): the server lists the directory with attributes, and the
\* entries of a listing that is not too long are cached.
ReaddirPlus ==
    /\ At({"readdirplus"}, "go")
    /\ LET r     == handle_readdirplus(ns, Top.parent)
           names == readdir(ns, Top.parent)
       IN  \/ /\ r.status # "OK"
              /\ Return(Status(r.status))
              /\ UNCHANGED <<mFileTable, mPathCache>>
           \/ /\ r.status = "OK"
              /\ IF Cardinality(names) > ListMax
                 THEN UNCHANGED <<mFileTable, mPathCache>>
                 ELSE SetCaches(FoldSet(LAMBDA name, c : CachedListing(c, Top.parent, Top.path, name),
                                        Caches, names))
              /\ Return(Answer("OK", Top.parent, TRUE, EnumerateReaddirPlusInfo(ns, Top.parent)))
    /\ Asks /\ KeepApp /\ KeepHandles
    /\ UNCHANGED crossed

\* A listing, or a change of the replication, goes on with what Open()
\* returned.
Opened ==
    /\ At(Opening, "opened")
    /\ IF Top.res.status # "OK" THEN Return(Top.res)
       ELSE IF Top.op \in Listings /\ ~Top.res.isDir THEN Return(Status("ENOTDIR"))
       ELSE Goto([Top EXCEPT !.pc = "go", !.parent = Top.res.fid])
    /\ UNCHANGED <<mFileTable, mPathCache, crossed>>
    /\ Asks /\ KeepApp /\ KeepHandles

\* SetReplicationFactor(): IsFile() first, and at the end the request, which
\* handle_change_file_replication() refuses for a file that is gone.
Replication ==
    /\ \/ /\ At({"replication"}, "start")
          /\ Call(Frame("stat", Top.path, NoPath, NoFlags), [Top EXCEPT !.pc = "isfile"])
       \/ /\ At({"replication"}, "isfile")
          /\ IF Top.res.status = "OK" /\ ~Top.res.isDir
             THEN Goto([Top EXCEPT !.pc = "cache"]) ELSE Return(Status("ENOENT"))
       \/ /\ At({"replication"}, "go")
          /\ Return(Status(IF Top.parent \in DOMAIN ns.type THEN "OK" ELSE "ENOENT"))
    /\ UNCHANGED <<mFileTable, mPathCache, crossed>>
    /\ Asks /\ KeepApp /\ KeepHandles
\* Mkdirs(): for each component Exists(), then IsFile() or Mkdir().
Mkdirs ==
    /\ LET component == SubSeq(Top.path, 1, Len(Top.path) - Len(Top.todo) + 1)
           goes(op, pc) == Call(Frame(op, component, NoPath, NoFlags), [Top EXCEPT !.pc = pc])
           onward == Goto([Top EXCEPT !.pc = "next", !.todo = Tail(@)])
       IN  \/ /\ At({"mkdirs"}, "next")
              /\ IF Top.todo = <<>> THEN Return(Status("OK")) ELSE goes("stat", "exists")
           \/ /\ At({"mkdirs"}, "exists")
              /\ IF Top.res.status = "OK" THEN goes("stat", "isfile") ELSE goes("mkdir", "made")
           \/ /\ At({"mkdirs"}, "isfile")
              /\ IF Top.res.status = "OK" /\ ~Top.res.isDir THEN Return(Status("ENOTDIR")) ELSE onward
           \/ /\ At({"mkdirs"}, "made")
              /\ IF Top.res.status # "OK" THEN Return(Top.res) ELSE onward
    /\ UNCHANGED <<mFileTable, mPathCache, crossed>>
    /\ Asks /\ KeepApp /\ KeepHandles

\* Rmdirs(): a listing, then Rmdirs() or Remove() on what it held, until one
\* of them fails, then Rmdir().
Rmdirs ==
    /\ LET removing(f) ==
               IF f.list = {}
               THEN Goto(Frame("rmdir", Top.path, NoPath, NoFlags))
               ELSE LET e == CHOOSE x \in f.list : TRUE
                    IN  Call(Frame(IF e[2] THEN "rmdirs" ELSE "remove",
                                   Append(Top.path, e[1]), NoPath, NoFlags),
                             [f EXCEPT !.pc = "child", !.list = @ \ {e}])
       IN  \/ /\ At({"rmdirs"}, "start")
              /\ Call(Frame("readdirplus", Top.path, NoPath, NoFlags), [Top EXCEPT !.pc = "listed"])
           \/ /\ At({"rmdirs"}, "listed")
              /\ IF Top.res.status # "OK" THEN Return(Top.res)
                 ELSE removing([Top EXCEPT !.list = {x \in Top.res.list : x[1] \notin {".", ".."}}])
           \/ /\ At({"rmdirs"}, "child")
              /\ IF Top.res.status # "OK" THEN Return(Top.res) ELSE removing(Top)
    /\ UNCHANGED <<mFileTable, mPathCache, crossed>>
    /\ Asks /\ KeepApp /\ KeepHandles

-----------------------------------------------------------------------------
(* The application, the other clients, and time.                           *)

\* A call made of calls counts as several.
Cost(op) == IF op \in {"mkdirs", "rmdirs", "replication", "readdir"} THEN 3 ELSE 1

\* The application makes a call.
Begin ==
    /\ up /\ stack = <<>>
    /\ \E op \in Kinds, path \in Paths :
          /\ calls + Cost(op) <= MaxCalls
          /\ calls' = calls + Cost(op)
          /\ \E new  \in IF op = "rename" THEN Paths \ {path} ELSE {NoPath},
                flag \in IF op = "open" THEN OpenFlags ELSE {NoFlags} :
                stack' = <<Frame(op, path, new, flag)>>
    /\ UNCHANGED <<ns, mFileTable, mPathCache, now, up, held, handles, was, crossed, peer>>

Names == UNION {{p[i] : i \in 1 .. Len(p)} : p \in Paths}

\* The directories a client can name: all but the dumpster.
Dirs == {f \in DOMAIN ns.type : ns.type[f] = "dir"} \ {lookup(ns, ROOTFID, DUMPSTERDIR)}

\* The client is about to make an RPC, or idle.  What it does between two
\* RPCs it does to its own state, so the rest of the world may as well move
\* before or after.
AtRPC == stack # <<>> => Top.pc \in {"walk", "go"}

\* Another client changes the name space.
Peer ==
    /\ AtRPC
    /\ peer < MaxPeer
    /\ peer' = peer + 1
    /\ \E dir \in Dirs, name \in Names :
          \/ Serve(handle_create(ns, dir, name, FALSE))
          \/ Serve(handle_mkdir(ns, dir, name))
          \/ Serve(handle_remove(ns, dir, name))
          \/ Serve(handle_rmdir(ns, dir, name))
          \/ \E new \in Paths : Serve(handle_rename(ns, dir, name, new, TRUE))
    /\ ns' # ns
    /\ UNCHANGED <<mFileTable, mPathCache, stack, now, up, held, handles, crossed, calls>>

\* A client writes a file, which takes a lease on its chunk.
LeaseIssued ==
    /\ AtRPC
    /\ peer < MaxPeer
    /\ peer' = peer + 1
    /\ \E k \in DOMAIN ns.dents :
          /\ k[1] \in Dirs /\ is_file(ns, ns.dents[k]) /\ ns.dents[k] \notin ns.leased
          /\ ns' = [ns EXCEPT !.leased = @ \cup {ns.dents[k]}]
    /\ UNCHANGED <<mFileTable, mPathCache, stack, now, up, held, handles, was, crossed, calls>>

LeaseEnds ==
    /\ AtRPC
    /\ \E f \in ns.leased : ns' = [ns EXCEPT !.leased = @ \ {f}]
    /\ UNCHANGED <<mFileTable, mPathCache, stack, now, up, held, handles, was, crossed, calls, peer>>

\* The lease cleaner empties the dumpster of what is no longer busy.
CleanupDumpster ==
    /\ AtRPC
    /\ cleanupDumpster(ns) # ns
    /\ Serve([ns |-> cleanupDumpster(ns)])
    /\ UNCHANGED <<mFileTable, mPathCache, stack, now, up, held, handles, crossed, calls, peer>>

\* Time passes.
Tick ==
    /\ AtRPC
    /\ now < MaxTime
    /\ now' = now + 1
    /\ was' = {w \in was : now + 1 - w[4] < ValidTime}
    /\ UNCHANGED <<ns, mFileTable, mPathCache, stack, up, held, handles, crossed, calls, peer>>

\* KfsClientImpl(): the root directory is the first entry of the table.
Init ==
    /\ ns \in Trees
    /\ mFileTable = [i \in Fds |-> IF i = 0 THEN [Entry(ROOTFID, "/", <<"/">>, 0)
                                                     EXCEPT !.fid = ROOTFID, !.isDir = TRUE]
                                   ELSE NullEntry]
    /\ mPathCache = [p \in {<<"/">>} |-> 0]
    /\ stack = <<>> /\ now = 0 /\ up = TRUE
    /\ held = {} /\ handles = {} /\ was = {} /\ crossed = FALSE
    /\ calls = 0 /\ peer = 0

Next ==
    \/ Begin
    \/ GetPathComponents \/ LookupPathCache \/ LookupEntry \/ LookupAttr
    \/ Mkdir \/ Unlink \/ Rename \/ Create \/ Open
    \/ Readdir \/ ReaddirPlus \/ Opened \/ Replication \/ Mkdirs \/ Rmdirs
    \/ \E fd \in Fds : Close(fd)
    \/ Peer \/ LeaseIssued \/ LeaseEnds \/ CleanupDumpster \/ Tick

Spec == Init /\ [][Next]_vars
-----------------------------------------------------------------------------
(* What is checked.                                                        *)

IsEntry(e) ==
    /\ e.live \in BOOLEAN /\ e.isDir \in BOOLEAN
    /\ e.mode \in {"none", "rw", "garbage"}
    /\ e.parent \in Nat /\ e.fid \in Nat /\ e.time \in 0 .. MaxTime

\* The variables have the types they are declared with.
TypeOK ==
    /\ DOMAIN mFileTable = Fds /\ \A i \in Fds : IsEntry(mFileTable[i])
    /\ \A p \in DOMAIN mPathCache : mPathCache[p] \in Fds
    /\ held \subseteq Fds
    /\ handles \subseteq [fd : Fds, fid : Nat]
    /\ now \in 0 .. MaxTime /\ calls \in 0 .. MaxCalls /\ peer \in 0 .. MaxPeer
    /\ up \in BOOLEAN /\ crossed \in BOOLEAN

\* A descriptor of a file open for writing goes on meaning that file until
\* it is closed or the application itself removes or re-creates the name,
\* whatever is looked up, opened, listed or renamed in between, however long
\* it stays open and however full the table is: "The entries for files open
\* for read/write are valid.  This is a handle that is given to the
\* application" (KfsClient.cc, IsFileTableEntryValid).
HandleKeepsFile ==
    \A h \in handles : mFileTable[h.fd].live /\ mFileTable[h.fd].fid = h.fid

\* The path cache names live entries, each with the path it is cached
\* under, as LookupFileTableEntry() asserts, and so the process survives;
\* unless a Rename() found an entry that an earlier one had given another
\* path.
PathCacheMatches ==
    ~crossed => /\ up
                /\ \A p \in DOMAIN mPathCache :
                      mFileTable[mPathCache[p]].live /\ mFileTable[mPathCache[p]].path = p

\* What a call may take from the table instead of asking the server was so
\* at the server within the last ValidTime, whatever other clients and this
\* one did since.  The exceptions are the entries that are never revalidated:
\* those of files open for writing, and those that lead to the root.
CachedAnswersRecent ==
    \A i \in Fds :
       LET e == mFileTable[i]
       IN  e.live /\ IsFileTableEntryValid(e) /\ (e.isDir \/ e.mode = "none")
              /\ e.fid # ROOTFID =>
              \/ lookup(ns, e.parent, e.name) = e.fid
              \/ \E w \in was : w[1] = e.parent /\ w[2] = e.name /\ w[3] = e.fid

\* The metaserver's tree stays a tree: every entry leads to attributes,
\* every file and directory has one name, a directory's "." and ".." agree
\* with where it is linked, and ".." leads every directory to the root, which
\* is what is_descendant() climbs by.
TreeWellFormed ==
    LET links(f) == {k \in DOMAIN ns.dents : ns.dents[k] = f /\ k[2] \notin {".", "..", "/"}}
    IN  /\ \A k \in DOMAIN ns.dents : ns.dents[k] \in DOMAIN ns.type /\ is_dir(ns, k[1])
        /\ \A f \in DOMAIN ns.type \ {ROOTFID} :
              /\ Cardinality(links(f)) = 1
              /\ is_dir(ns, f) => /\ lookup(ns, f, ".") = f
                                  /\ \A k \in links(f) : lookup(ns, f, "..") = k[1]
                                  /\ is_descendant(ns, ROOTFID, f)

\* A file with a valid lease on a chunk outlives its name: remove(), an
\* overwriting create() and an overwriting rename() leave it in the dumpster.
LeasedFilesKept == ns.leased \subseteq DOMAIN ns.type

\* An exclusive Open() destroys nothing, even when another client creates
\* the file between its lookup and its create.
ExclusiveKeepsOthers ==
    [][stack # <<>> /\ Top.flags.excl /\ stack' # stack
          => DOMAIN ns.type \subseteq DOMAIN ns'.type]_vars
=============================================================================
