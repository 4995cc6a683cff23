------------------------------- MODULE MetaLog -------------------------------
(***************************************************************************)
(* How the KFS metaserver makes metadata mutations durable.                *)
(*                                                                         *)
(* Four threads and a second process share the work:                       *)
(*   request thread   runs a handler on the tree (process_request) and     *)
(*                    queues the result for the logger;                    *)
(*   logger thread    writes a successful mutation to the current log,     *)
(*                    flushes it, and queues the result for the network;   *)
(*   network thread   sends results to clients (NetDispatch::Dispatch);    *)
(*   timer thread     asks for a new log file every 600 s (logtimer);      *)
(*   logcompactor     turns finished log files into a new checkpoint.      *)
(* The metaserver may crash at any point and then restores the "latest"    *)
(* checkpoint and replays the logs from the one the checkpoint names.      *)
(*                                                                         *)
(* The tree is the sequence of the mutations applied to it; what a         *)
(* mutation does to the name space is left to other modules.  log.0 of the *)
(* code is log 1 here.                                                     *)
(***************************************************************************)
EXTENDS Naturals, Sequences, SequencesExt

CONSTANTS MaxOps,          \* bound: mutations clients ask for
          MaxCrashes,      \* bound: crashes of the metaserver
          MaxLogs,         \* bound: log files
          Unlogged,        \* mutations whose log routine writes nothing
          RolloverWindow,  \* may a crash, or a new checkpoint, fall between the link of
                           \* LASTLOG and the creation of the next log in finishLog?
          LinkWindow       \* may a crash, or a restart, fall between the unlink and the
                           \* link of LASTCP in link_latest?

ASSUME BoundsAssumption == /\ MaxOps \in Nat /\ MaxCrashes \in Nat /\ MaxLogs \in Nat
                           /\ Unlogged \subseteq 1..MaxOps
                           /\ {RolloverWindow, LinkWindow} \subseteq BOOLEAN

VARIABLES up,           \* is the metaserver running?
          requestList,  \* requests waiting for the request thread
          tree,         \* mutations applied to the metatree, oldest first
          pending,      \* results waiting for the logger thread
          logger,       \* where the logger thread is: see finishLog
          logged,       \* results waiting for the network thread
          lognum,       \* the log file being written
          dirty,        \* cp.isCPNeeded(): mutations logged since the last rollover
          timer,        \* the timer thread: "sleeping", or "waiting" for its rollover
          logs,         \* disk: the contents of the log files
          last,         \* disk: the log the link LASTLOG names; 0 if there is no link
          latest,       \* disk: the checkpoint the link LASTCP names, or NoCP
          compactor,    \* the logcompactor process
          submitted,    \* number of mutations clients asked for so far
          known,        \* mutations that clients have been told of
          crashes,      \* number of crashes so far
          aborted       \* did the compactor fail its assertion on the link count?

disk == <<logs, last, latest>>
queues == <<requestList, pending, logged>>
threads == <<logger, lognum, dirty, timer>>
vars == <<up, tree, disk, queues, threads, compactor, submitted, known, crashes, aborted>>

Ids == 1..MaxOps
NoCP == [tree |-> <<>>, log |-> 0]
Idle == [pc |-> "idle", tree |-> <<>>, log |-> 0, last |-> 0]

Seen(t) == {t[i] : i \in DOMAIN t}

\* A request on its way in, and its result on its way out.
Mutation(m) == [op |-> "mutate", id |-> m]
Read == [op |-> "read", id |-> 0]
Rollover == [op |-> "rollover", id |-> 0]
Result(r, ok, seen) == [op |-> r.op, id |-> r.id, ok |-> ok, seen |-> seen]

Init == /\ up = TRUE
        /\ requestList = <<>> /\ pending = <<>> /\ logged = <<>>
        /\ tree = <<>>
        /\ logger = "main" /\ lognum = 1 /\ dirty = FALSE /\ timer = "sleeping"
        /\ logs = << <<>> >> /\ last = 0 /\ latest = [tree |-> <<>>, log |-> 1]
        /\ compactor = Idle
        /\ submitted = 0 /\ known = {} /\ crashes = 0 /\ aborted = FALSE

-----------------------------------------------------------------------------
(* The threads of the metaserver. *)

\* A client's request reaches requestList.
submit_request(r) == requestList' = Append(requestList, r)

SubmitMutation ==
    /\ up /\ submitted < MaxOps
    /\ submit_request(Mutation(submitted + 1))
    /\ submitted' = submitted + 1
    /\ UNCHANGED <<up, tree, disk, pending, logged, threads, compactor, known, crashes, aborted>>

\* One read at a time is enough: known only grows.
SubmitRead ==
    /\ up
    /\ \A q \in {requestList, pending, logged} : \A i \in DOMAIN q : q[i].op # "read"
    /\ submit_request(Read)
    /\ UNCHANGED <<up, tree, disk, pending, logged, threads, compactor, submitted, known,
                   crashes, aborted>>

\* A handler's effect: a mutation that succeeds changes the tree, a read
\* returns what it sees, a rollover does nothing here.
Applied(r, ok) == IF r.op = "mutate" /\ ok THEN Append(tree, r.id) ELSE tree

\* Mutant: the result of a read skips the logger, which has nothing to write for it.
process_requestReadsFirst ==
    /\ up /\ requestList # <<>>
    /\ LET r == Head(requestList) IN
       \E ok \in IF r.op = "mutate" THEN BOOLEAN ELSE {TRUE} :
          /\ tree' = Applied(r, ok)
          /\ IF r.op = "read"
             THEN logged' = Append(logged, Result(r, ok, Seen(tree))) /\ UNCHANGED pending
             ELSE pending' = Append(pending, Result(r, ok, {})) /\ UNCHANGED logged
    /\ requestList' = Tail(requestList)
    /\ UNCHANGED <<up, disk, threads, compactor, submitted, known, crashes, aborted>>

process_request ==
    /\ up /\ requestList # <<>>
    /\ LET r == Head(requestList) IN
       \E ok \in IF r.op = "mutate" THEN BOOLEAN ELSE {TRUE} :
          /\ tree' = Applied(r, ok)
          /\ pending' = Append(pending,
                               Result(r, ok, IF r.op = "read" THEN Seen(tree) ELSE {}))
    /\ requestList' = Tail(requestList)
    /\ UNCHANGED <<up, disk, logged, threads, compactor, submitted, known, crashes, aborted>>

\* Mutant: logger_main forgets to look at the status.
WrittenFailed(r) == IF r.op = "mutate" /\ r.id \notin Unlogged THEN <<r.id>> ELSE <<>>

\* What log(file) followed by flushResult puts on disk for a result.
Written(r) == IF r.op = "mutate" /\ r.ok /\ r.id \notin Unlogged THEN <<r.id>> ELSE <<>>

logger_main ==
    /\ up /\ logger = "main" /\ pending # <<>>
    /\ LET r == Head(pending) IN
       /\ r.op # "rollover"
       /\ logs' = [logs EXCEPT ![lognum] = @ \o Written(r)]
       /\ dirty' = (dirty \/ (r.op = "mutate" /\ r.ok))
       /\ logged' = Append(logged, r)
    /\ pending' = Tail(pending)
    /\ UNCHANGED <<up, tree, last, latest, requestList, logger, lognum, timer, compactor,
                   submitted, known, crashes, aborted>>

\* Mutant: finishLog returns with the thread lock held when there is no old link.
finishLogUnlinkBlocked ==
    /\ up /\ logger = "main" /\ pending # <<>> /\ Head(pending).op = "rollover"
    /\ last # 0
    /\ last' = 0
    /\ logger' = "unlinked"
    /\ UNCHANGED <<up, tree, logs, latest, queues, lognum, dirty, timer, compactor,
                   submitted, known, crashes, aborted>>

\* finishLog runs in the logger thread and makes three changes on disk, in this
\* order: LASTLOG is unlinked, LASTLOG is linked to the log just closed, the
\* next log is created.
finishLogUnlink ==
    /\ up /\ logger = "main" /\ pending # <<>> /\ Head(pending).op = "rollover"
    /\ last' = 0
    /\ logger' = "unlinked"
    /\ UNCHANGED <<up, tree, logs, latest, queues, lognum, dirty, timer, compactor,
                   submitted, known, crashes, aborted>>

finishLogLink ==
    /\ up /\ logger = "unlinked"
    /\ last' = lognum
    /\ logger' = "linked"
    /\ UNCHANGED <<up, tree, logs, latest, queues, lognum, dirty, timer, compactor,
                   submitted, known, crashes, aborted>>

\* startLog appends to the file if it is there, and creates it otherwise;
\* save_cp then wakes the timer thread.
startLog(n) == logs' = IF n \in DOMAIN logs THEN logs ELSE Append(logs, <<>>)

\* Mutant: the log number is not advanced.
finishLogStartStays ==
    /\ up /\ logger = "linked"
    /\ startLog(lognum + 1)
    /\ dirty' = FALSE
    /\ logger' = "main"
    /\ pending' = Tail(pending)
    /\ timer' = "sleeping"
    /\ UNCHANGED <<up, tree, last, latest, requestList, logged, lognum, compactor, submitted,
                   known, crashes, aborted>>

\* Mutant: the rollover is not handed back to the timer thread (save_cp).
finishLogStartNoWake ==
    /\ up /\ logger = "linked"
    /\ startLog(lognum + 1)
    /\ lognum' = lognum + 1
    /\ dirty' = FALSE
    /\ logger' = "main"
    /\ pending' = Tail(pending)
    /\ UNCHANGED <<up, tree, last, latest, requestList, logged, timer, compactor, submitted,
                   known, crashes, aborted>>

finishLogStart ==
    /\ up /\ logger = "linked"
    /\ startLog(lognum + 1)
    /\ lognum' = lognum + 1
    /\ dirty' = FALSE
    /\ logger' = "main"
    /\ pending' = Tail(pending)
    /\ timer' = "sleeping"
    /\ UNCHANGED <<up, tree, last, latest, requestList, logged, compactor, submitted,
                   known, crashes, aborted>>

logtimer ==
    /\ up /\ timer = "sleeping" /\ dirty
    /\ lognum < MaxLogs
    /\ submit_request(Rollover)
    /\ timer' = "waiting"
    /\ UNCHANGED <<up, tree, disk, pending, logged, logger, lognum, dirty, compactor,
                   submitted, known, crashes, aborted>>

\* The network thread sends a reply.
Told(r) == IF r.op = "mutate" /\ r.ok THEN {r.id} ELSE r.seen

Dispatch ==
    /\ up /\ logged # <<>>
    /\ known' = known \cup Told(Head(logged))
    /\ logged' = Tail(logged)
    /\ UNCHANGED <<up, tree, disk, requestList, pending, threads, compactor, submitted,
                   crashes, aborted>>

-----------------------------------------------------------------------------
(* Crash and recovery. *)

\* The process ends: everything but the disk is gone.  tree keeps what was in
\* memory until the restart replaces it.
Crash ==
    /\ up /\ crashes < MaxCrashes
    /\ logger = "linked" => RolloverWindow
    /\ up' = FALSE
    /\ crashes' = crashes + 1
    /\ requestList' = <<>> /\ pending' = <<>> /\ logged' = <<>>
    /\ logger' = "main" /\ dirty' = FALSE /\ timer' = "sleeping"
    /\ UNCHANGED <<tree, disk, lognum, compactor, submitted, known, aborted>>

\* openlog falls back to the first log when the one it is given is missing.
openlog(n) == IF n \in DOMAIN logs THEN n ELSE 1

\* The mutations in logs i..j.
Replayed(i, j) == FlattenSeq(SubSeq(logs, i, j))

\* setup_initial_tree and playAllLogs: a new tree, and no replay, if there is
\* no "latest" checkpoint.
Recovered == IF latest = NoCP THEN <<>>
             ELSE latest.tree \o Replayed(openlog(latest.log), Len(logs))

\* kfs_startup, with logger_init (append to the last log replayed) and
\* initial_CP (a checkpoint if there is none).
kfs_startup ==
    /\ ~up
    /\ compactor.pc = "unlinked" => LinkWindow
    /\ tree' = Recovered
    /\ lognum' = IF latest = NoCP THEN 1 ELSE Len(logs)
    /\ latest' = IF latest = NoCP THEN [tree |-> <<>>, log |-> 1] ELSE latest
    /\ up' = TRUE
    /\ UNCHANGED <<logs, last, queues, logger, dirty, timer, compactor, submitted, known,
                   crashes, aborted>>

-----------------------------------------------------------------------------
(* The log compactor, run by kfsclean.sh next to the metaserver. *)

\* Without a checkpoint it finds no log and gives up.
restoreCheckpoint ==
    /\ compactor.pc = "idle" /\ latest # NoCP
    /\ compactor' = [pc |-> "restored", tree |-> latest.tree,
                     log |-> openlog(latest.log), last |-> 0]
    /\ UNCHANGED <<up, tree, disk, queues, threads, submitted, known, crashes, aborted>>

\* stat(LASTLOG)
statLast ==
    /\ compactor.pc = "restored"
    /\ compactor' = IF last = 0 THEN Idle
                    ELSE [compactor EXCEPT !.pc = "searching", !.last = last]
    /\ UNCHANGED <<up, tree, disk, queues, threads, submitted, known, crashes, aborted>>

\* The search for the inode of LASTLOG, the assertion that LASTLOG is its
\* second link, and the two early returns.
LinkCount(n) == IF n = last THEN 2 ELSE 1

findLast ==
    /\ compactor.pc = "searching"
    /\ LET found == compactor.last >= compactor.log
           bad == found /\ LinkCount(compactor.last) # 2
       IN /\ aborted' = (aborted \/ bad)
          /\ compactor' = IF bad \/ compactor.last <= compactor.log THEN Idle
                          ELSE [compactor EXCEPT !.pc = "replaying"]
    /\ UNCHANGED <<up, tree, disk, queues, threads, submitted, known, crashes>>

replayLogs ==
    /\ compactor.pc = "replaying"
    /\ compactor' = [compactor EXCEPT !.pc = "replayed",
                                      !.tree = @ \o Replayed(compactor.log, compactor.last),
                                      !.log = compactor.last + 1]
    /\ UNCHANGED <<up, tree, disk, queues, threads, submitted, known, crashes, aborted>>

\* do_CP writes the checkpoint file and calls link_latest, which unlinks LASTCP ...
do_CPUnlink ==
    /\ compactor.pc = "replayed"
    /\ latest' = NoCP
    /\ compactor' = [compactor EXCEPT !.pc = "unlinked"]
    /\ UNCHANGED <<up, tree, logs, last, queues, threads, submitted, known, crashes, aborted>>

\* ... and links it again; the link fails if the metaserver made a checkpoint
\* of its own in between.
do_CPLink ==
    /\ compactor.pc = "unlinked"
    /\ logger = "linked" => RolloverWindow
    /\ latest' = IF latest = NoCP THEN [tree |-> compactor.tree, log |-> compactor.log]
                 ELSE latest
    /\ compactor' = Idle
    /\ UNCHANGED <<up, tree, logs, last, queues, threads, submitted, known, crashes, aborted>>

CompactorCrash ==
    /\ compactor.pc # "idle"
    /\ compactor.pc = "unlinked" => LinkWindow
    /\ compactor' = Idle
    /\ UNCHANGED <<up, tree, disk, queues, threads, submitted, known, crashes, aborted>>

-----------------------------------------------------------------------------
ServerThreads == \/ process_request \/ logger_main \/ logtimer \/ Dispatch
                 \/ finishLogUnlink \/ finishLogLink \/ finishLogStart

Next == \/ SubmitMutation \/ SubmitRead
        \/ ServerThreads
        \/ Crash \/ kfs_startup
        \/ restoreCheckpoint \/ statLast \/ findLast \/ replayLogs
        \/ do_CPUnlink \/ do_CPLink \/ CompactorCrash

Spec == Init /\ [][Next]_vars

\* Each thread runs when it has work: they block only on their own queue.
FairSpec == /\ Spec
            /\ WF_vars(process_request)
            /\ WF_vars(logger_main \/ finishLogUnlink \/ finishLogLink \/ finishLogStart)
            /\ WF_vars(Dispatch)
-----------------------------------------------------------------------------
(* Properties. *)

Requests == [op : {"mutate", "read", "rollover"}, id : 0..MaxOps]
Results == [op : {"mutate", "read", "rollover"}, id : 0..MaxOps, ok : BOOLEAN,
            seen : SUBSET Ids]

\* Type invariant: the queues hold requests and results, the logs and the
\* checkpoint hold mutations, and the server always writes to a log that exists.
TypeOK ==
    /\ up \in BOOLEAN /\ dirty \in BOOLEAN /\ aborted \in BOOLEAN
    /\ requestList \in Seq(Requests) /\ pending \in Seq(Results) /\ logged \in Seq(Results)
    /\ tree \in Seq(Ids) /\ known \subseteq Ids /\ submitted \in 0..MaxOps
    /\ logger \in {"main", "unlinked", "linked"} /\ timer \in {"sleeping", "waiting"}
    /\ logs \in Seq(Seq(Ids)) /\ lognum \in DOMAIN logs /\ last \in 0..Len(logs)
    /\ latest \in [tree : Seq(Ids), log : 0..MaxLogs + 1]
    /\ compactor.pc \in {"idle", "restored", "searching", "replaying", "replayed", "unlinked"}
    /\ compactor.tree \in Seq(Ids) /\ {compactor.log, compactor.last} \subseteq 0..MaxLogs + 1
    /\ crashes \in 0..MaxCrashes

\* What a client was told, by the reply to its mutation or through a read that
\* saw somebody else's, is in the tree of every later incarnation of the
\* metaserver: the logger flushes a result before NetDispatch may send it, and
\* results leave in the order in which the request thread made them.
KnownSurvives == up => known \subseteq Seen(tree)

\* The mutations the logger still has to write.
Unwritten(q) == FlattenSeq([i \in DOMAIN q |-> Written(q[i])])

\* At every moment the tree in memory is what a restart would rebuild from the
\* latest checkpoint and the logs it names, followed by the mutations that are
\* still queued for the logger, in that order: replay loses, repeats and
\* reorders nothing across rollovers, restarts and compactions.
ReplayRebuildsTree ==
    up /\ latest # NoCP => tree = Recovered \o Unwritten(pending)

\* "we want to replay log files that are complete---those that won't ever be
\* written to again": the logs up to the one that LASTLOG names never change
\* (logcompactor_main.cc, replayLogs).
CompleteLogsFrozen ==
    [][last # 0 => \A i \in 1..last : i \in DOMAIN logs' /\ logs'[i] = logs[i]]_vars

\* assert(buf.st_nlink == 2): the log found by the inode of LASTLOG has exactly
\* two links when the compactor looks at it (logcompactor_main.cc, replayLogs).
CompactorLinkCount == ~aborted

\* The threads, logs and checkpoints together implement a store that a restart
\* may cut back only by mutations nobody has learnt of.
Store == INSTANCE DurableStore WITH Mutations <- Ids, store <- tree
DurableStoreSpec == Store!Spec

InQueue(q, m) == \E i \in DOMAIN q : q[i].op = "mutate" /\ q[i].id = m

\* Every mutation that reaches requestList is answered, unless the server
\* crashes: no thread waits for one that waits for it, rollovers included.
RequestsLeave ==
    \A m \in Ids : (\E q \in {requestList, pending, logged} : InQueue(q, m))
                    ~> (\A q \in {requestList, pending, logged} : ~InQueue(q, m))

\* The timer thread gets its rollover back and goes on (wait_for_cp).
TimerReturns == timer = "waiting" ~> timer = "sleeping"
=============================================================================
