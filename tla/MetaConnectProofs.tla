-------------------------- MODULE MetaConnectProofs --------------------------
(***************************************************************************)
(* RPCInOnePlace for any number of connections, RPCs, requests, heartbeats *)
(* and breaks: an RPC of the metaserver is never lost and never resumed    *)
(* twice.  The argument needs nothing of the chunkserver and nothing of    *)
(* the messages in flight: whatever arrives, the metaserver's queues hand  *)
(* an RPC on from one to the next.                                         *)
(***************************************************************************)
EXTENDS MetaConnect, FiniteSetTheorems, SequenceTheorems, TLAPS

Request == [type : {"rpc"}, id : Nat, seq : Nat]

\* What waits for the request thread names a connection.
Queue(q) == \E T : q \in Seq(T) /\ \A r \in T : r.conn \in Conns

\* The types of the metaserver's queues.
Typed ==
    /\ server \in 0..MaxConns /\ rpcs \in Nat
    /\ state \in [Conns -> {"none", "accepted", "up", "down"}]
    /\ mSeqNo \in [Conns -> Nat]
    /\ mPendingReqs \in [Conns -> Seq(Request)]
    /\ mDispatchedReqs \in [Conns -> SUBSET Request]
    /\ Queue(requestList)

\* The RPCs that wait for the registered server.
Waiting == IF server = 0 THEN <<>> ELSE mPendingReqs[server]

SentOn(i, k) == state[k] = "up" /\ \E r \in mDispatchedReqs[k] : r.id = i

\* RPC i is in one of the three places, and there once.
Somewhere(i) ==
    \/ \E n \in 1..Len(Waiting) : Waiting[n].id = i
    \/ \E k \in Conns : SentOn(i, k)
    \/ \E p \in resumed : p[1] = i

Once(i) ==
    /\ \A m, n \in 1..Len(Waiting) : Waiting[m].id = i /\ Waiting[n].id = i => m = n
    /\ \A k, l \in Conns : SentOn(i, k) /\ SentOn(i, l) => k = l
    /\ \A p, q \in resumed : p[1] = i /\ q[1] = i => p = q
    /\ \A n \in 1..Len(Waiting), k \in Conns : ~(Waiting[n].id = i /\ SentOn(i, k))
    /\ \A n \in 1..Len(Waiting), p \in resumed : ~(Waiting[n].id = i /\ p[1] = i)
    /\ \A k \in Conns, p \in resumed : ~(SentOn(i, k) /\ p[1] = i)

\* A connection that is not registered has at most heartbeats to send: what
\* IssueRPC queued was failed when the server was taken down.
OthersIdle ==
    \A k \in Conns : k # server => \A n \in 1..Len(mPendingReqs[k]) : mPendingReqs[k][n].id = 0

\* A connection that is not up has no RPCs out: NetError failed them.
DownIsEmpty == \A k \in Conns : state[k] # "up" => mDispatchedReqs[k] = {}

\* An RPC is sent once on a connection, so that a reply leaves no copy of it.
SentOnce ==
    \A k \in Conns : \A r, q \in mDispatchedReqs[k] : r.id = q.id /\ r.id # 0 => r = q

\* The queues hold only RPCs that were issued.
Issued ==
    /\ \A n \in 1..Len(Waiting) : Waiting[n].id <= rpcs
    /\ \A k \in Conns : \A r \in mDispatchedReqs[k] : r.id <= rpcs
    /\ \A p \in resumed : p[1] \in 1..rpcs

Inv ==
    /\ Typed /\ OthersIdle /\ DownIsEmpty /\ SentOnce /\ Issued
    /\ \A i \in 1..rpcs : Somewhere(i) /\ Once(i)

-----------------------------------------------------------------------------
(* Lemmas. *)

\* An RPC that is somewhere, once, has one place.
LEMMA OnePlace ==
    ASSUME NEW i, Somewhere(i), Once(i)
    PROVE  Cardinality(Places(i)) = 1
<1> DEFINE W == {<<"pending", n>> : n \in {n \in 1..Len(Waiting) : Waiting[n].id = i}}
           S == {<<"sent", k>> : k \in {k \in Conns : SentOn(i, k)}}
           B == {<<"resumed", p>> : p \in {p \in resumed : p[1] = i}}
<1>1. Places(i) = W \cup S \cup B
  <2>1. {<<"pending", n>> : n \in {n \in 1..Len(IF server = 0 THEN <<>> ELSE mPendingReqs[server]) :
                                 mPendingReqs[server][n].id = i}} = W
    <3>1. CASE server = 0
      <4>1. Len(<<>>) = 0 /\ 1..0 = {}
        OBVIOUS
      <4>2. QED
        BY <3>1, <4>1 DEF Waiting
    <3>2. CASE server # 0
      BY <3>2 DEF Waiting
    <3>3. QED
      BY <3>1, <3>2
  <2>2. QED
    BY <2>1 DEF Places, SentOn
<1>2. \E x : W \cup S \cup B = {x}
  <2>1. CASE \E n \in 1..Len(Waiting) : Waiting[n].id = i
    <3>1. PICK n \in 1..Len(Waiting) : Waiting[n].id = i
      BY <2>1
    <3>2. W = {<<"pending", n>>}
      BY <3>1 DEF Once
    <3>3. S = {} /\ B = {}
      BY <3>1 DEF Once
    <3>4. QED
      BY <3>2, <3>3
  <2>2. CASE \E k \in Conns : SentOn(i, k)
    <3>1. PICK k \in Conns : SentOn(i, k)
      BY <2>2
    <3>2. S = {<<"sent", k>>}
      BY <3>1 DEF Once
    <3>3. W = {} /\ B = {}
      BY <3>1 DEF Once
    <3>4. QED
      BY <3>2, <3>3
  <2>3. CASE \E p \in resumed : p[1] = i
    <3>1. PICK p \in resumed : p[1] = i
      BY <2>3
    <3>2. B = {<<"resumed", p>>}
      BY <3>1 DEF Once
    <3>3. W = {} /\ S = {}
      BY <3>1 DEF Once
    <3>4. QED
      BY <3>2, <3>3
  <2>4. QED
    BY <2>1, <2>2, <2>3 DEF Somewhere
<1>3. QED
  BY <1>1, <1>2, FS_Singleton

\* The request thread's queue stays one when a request is queued or taken.
LEMMA QueueAppend ==
    ASSUME NEW q, Queue(q), NEW r, r.conn \in Conns
    PROVE  Queue(Append(q, r))
<1>1. PICK T : q \in Seq(T) /\ \A x \in T : x.conn \in Conns
  BY DEF Queue
<1>2. q \in Seq(T \cup {r})
  <2>1. q \in [1..Len(q) -> T \cup {r}] /\ Len(q) \in Nat
    BY <1>1
  <2>2. QED
    BY <2>1, SeqDef
<1>3. Append(q, r) \in Seq(T \cup {r})
  BY <1>2
<1>4. QED
  BY <1>1, <1>3 DEF Queue

LEMMA QueueHead ==
    ASSUME NEW q, Queue(q), q # <<>>
    PROVE  Queue(Tail(q)) /\ Head(q).conn \in Conns
<1>1. PICK T : q \in Seq(T) /\ \A x \in T : x.conn \in Conns
  BY DEF Queue
<1>2. Head(q) \in T /\ Tail(q) \in Seq(T)
  BY <1>1
<1>3. QED
  BY <1>1, <1>2 DEF Queue

\* The ids in the queues.
LEMMA Ids ==
    ASSUME Inv
    PROVE  /\ Waiting \in Seq(Request) /\ rpcs \in Nat
           /\ \A n \in 1..Len(Waiting) : Waiting[n].id \in Nat /\ Waiting[n].id <= rpcs
           /\ \A k \in Conns : \A r \in mDispatchedReqs[k] : r.id \in Nat /\ r.id <= rpcs
<1>1. Waiting \in Seq(Request) /\ rpcs \in Nat
  BY DEF Inv, Typed, Waiting, Conns
<1>2. \A n \in 1..Len(Waiting) : Waiting[n] \in Request
  BY <1>1
<1>3. \A k \in Conns : \A r \in mDispatchedReqs[k] : r \in Request
  BY DEF Inv, Typed
<1>4. QED
  BY <1>1, <1>2, <1>3 DEF Request, Inv, Issued

\* Where an RPC is depends on the registered server's queue, on what is out on
\* the connections that are up, and on what was resumed.
LEMMA Unmoved ==
    ASSUME Inv, Typed', OthersIdle', DownIsEmpty', Waiting' = Waiting,
           UNCHANGED <<rpcs, resumed, mDispatchedReqs>>
    PROVE  Inv'
<1>1. \A i, k : k \in Conns => (SentOn(i, k)' <=> SentOn(i, k))
  <2> SUFFICES ASSUME NEW i, NEW k \in Conns, \E r \in mDispatchedReqs[k] : r.id = i
               PROVE  state'[k] = "up" <=> state[k] = "up"
    BY DEF SentOn
  <2>1. mDispatchedReqs[k] # {} /\ mDispatchedReqs'[k] # {}
    OBVIOUS
  <2>2. QED
    BY <2>1 DEF Inv, DownIsEmpty
<1>2. SentOnce' /\ Issued'
  BY DEF Inv, SentOnce, Issued
<1>3. ASSUME NEW i \in 1..rpcs PROVE Somewhere(i)' /\ Once(i)'
  <2>1. Somewhere(i) /\ Once(i)
    BY <1>3 DEF Inv
  <2>2. QED
    BY <1>1, <2>1 DEF Somewhere, Once
<1>4. QED
  BY <1>2, <1>3 DEF Inv

-----------------------------------------------------------------------------
(* The chunkserver's steps: a new connection is not the registered one. *)

LEMMA StepConnect ==
    ASSUME Inv, NEW k \in Conns, NEW output, Connect(k, output),
           UNCHANGED <<server, rpcs, resumed, mDispatchedReqs, requestList>>
    PROVE  Inv'
<1> USE DEF Inv, Typed
<1>1. k # server /\ state[k] # "up"
  BY DEF Connect, Unused
<1>2. Typed'
  <2>1. <<>> \in Seq(Request)
    OBVIOUS
  <2>2. mPendingReqs' \in [Conns -> Seq(Request)]
    BY <2>1 DEF Connect
  <2>3. Queue(requestList)'
    BY DEF Queue
  <2>4. QED
    BY <2>2, <2>3 DEF Connect
<1>3. Waiting' = Waiting
  BY <1>1 DEF Connect, Waiting
<1>4. OthersIdle'
  BY <1>1 DEF Connect, OthersIdle
<1>5. DownIsEmpty'
  BY <1>1 DEF Connect, DownIsEmpty
<1>6. QED
  BY <1>2, <1>3, <1>4, <1>5, Unmoved

LEMMA StepChunk ==
    ASSUME Inv, ChunkNext
    PROVE  Inv'
<1>1. CASE UNCHANGED meta
  BY <1>1, Unmoved DEF meta, Inv, Typed, Queue, OthersIdle, DownIsEmpty, Waiting
<1>2. CASE TimeoutReconnect
  BY <1>2, StepConnect DEF TimeoutReconnect
<1>3. CASE DispatchHello
  <2>1. CASE \E k \in Conns : Connect(k, <<Hello>>)
    BY <1>3, <2>1, StepConnect DEF DispatchHello
  <2>2. CASE UNCHANGED <<state, mSeqNo, mPendingReqs, mHeartbeatSent>>
    BY <1>1, <1>3, <2>2 DEF DispatchHello, meta
  <2>3. QED
    BY <1>3, <2>1, <2>2 DEF DispatchHello
<1>4. QED
  BY <1>1, <1>2, <1>3 DEF ChunkNext, EnqueueOp, TimeoutDispatch, HandleMsg, EnqueueResponse,
                          ChunkNetError, meta

-----------------------------------------------------------------------------
(* The metaserver's steps that move no RPC. *)

LEMMA StepHandleHello ==
    ASSUME Inv, NEW k \in Conns, HandleHello(k)
    PROVE  Inv'
<1> USE DEF Inv, Typed
<1>1. state' \in [Conns -> {"none", "accepted", "up", "down"}]
  BY DEF HandleHello, Close
<1>2. Queue(requestList')
  <2>1. [type |-> "hello", conn |-> k, id |-> 0].conn \in Conns
    OBVIOUS
  <2>2. Queue(Append(requestList, [type |-> "hello", conn |-> k, id |-> 0]))
    BY <2>1, QueueAppend
  <2>3. QED
    BY <2>2 DEF HandleHello
<1>3. mDispatchedReqs[k] = {}
  BY DEF HandleHello, DownIsEmpty
<1>4. DownIsEmpty'
  BY <1>3 DEF HandleHello, Close, DownIsEmpty
<1>5. Typed' /\ OthersIdle' /\ Waiting' = Waiting
  BY <1>1, <1>2 DEF HandleHello, OthersIdle, Waiting
<1>6. QED
  BY <1>4, <1>5, Unmoved DEF HandleHello

LEMMA StepHandleCmd ==
    ASSUME Inv, NEW k \in Conns, HandleCmd(k)
    PROVE  Inv'
<1>1. Queue(requestList')
  BY QueueAppend DEF HandleCmd, Inv, Typed
<1>2. Typed' /\ OthersIdle' /\ DownIsEmpty' /\ Waiting' = Waiting
  BY <1>1 DEF HandleCmd, Inv, Typed, OthersIdle, DownIsEmpty, Waiting
<1>3. QED
  BY <1>2, Unmoved DEF HandleCmd

LEMMA StepHandleOp ==
    ASSUME Inv, handle_op
    PROVE  Inv'
<1>1. Queue(requestList')
  BY QueueHead DEF handle_op, Inv, Typed
<1>2. Typed' /\ OthersIdle' /\ DownIsEmpty' /\ Waiting' = Waiting
  BY <1>1 DEF handle_op, Inv, Typed, OthersIdle, DownIsEmpty, Waiting
<1>3. QED
  BY <1>2, Unmoved DEF handle_op

-----------------------------------------------------------------------------
(* The metaserver's steps that move RPCs. *)

\* Heartbeat: a heartbeat is no RPC of a request.
LEMMA StepHeartbeat ==
    ASSUME Inv, NEW k \in Conns, Heartbeat(k)
    PROVE  Inv'
<1> DEFINE b == RPC(0, mSeqNo[k])
<1>1. b \in Request /\ b.id = 0
  BY DEF RPC, Request, Inv, Typed
<1>2. /\ mPendingReqs' = [mPendingReqs EXCEPT ![k] = Append(@, b)]
      /\ UNCHANGED <<server, rpcs, state, resumed, mDispatchedReqs, requestList>>
  BY DEF Heartbeat
<1>3. Typed'
  <2>1. mPendingReqs' \in [Conns -> Seq(Request)]
    BY <1>1, <1>2 DEF Inv, Typed
  <2>2. mSeqNo' \in [Conns -> Nat]
    BY DEF Heartbeat, Inv, Typed
  <2>3. QED
    BY <1>2, <2>1, <2>2 DEF Inv, Typed, Queue
<1>4. OthersIdle'
  <2> SUFFICES ASSUME NEW l \in Conns, l # server, NEW n \in 1..Len(mPendingReqs'[l])
               PROVE  mPendingReqs'[l][n].id = 0
    BY <1>2 DEF OthersIdle
  <2>1. CASE l # k
    BY <1>2, <2>1 DEF Inv, Typed, OthersIdle
  <2>2. CASE l = k
    <3>1. mPendingReqs'[l] = Append(mPendingReqs[k], b) /\ mPendingReqs[k] \in Seq(Request)
      BY <1>2, <2>2 DEF Inv, Typed
    <3>2. n \in 1..Len(mPendingReqs[k]) \/ mPendingReqs'[l][n] = b
      BY <1>1, <3>1
    <3>3. n \in 1..Len(mPendingReqs[k]) => mPendingReqs'[l][n] = mPendingReqs[k][n]
      BY <1>1, <3>1
    <3>4. QED
      BY <1>1, <2>2, <3>2, <3>3 DEF Inv, OthersIdle
  <2>3. QED
    BY <2>1, <2>2
<1>5. DownIsEmpty' /\ SentOnce'
  BY <1>2 DEF Inv, DownIsEmpty, SentOnce
<1>6. /\ Waiting \in Seq(Request) /\ Waiting' \in Seq(Request)
      /\ Len(Waiting') \in Nat /\ Len(Waiting) \in Nat /\ Len(Waiting') >= Len(Waiting)
      /\ \A n \in 1..Len(Waiting) : Waiting'[n] = Waiting[n]
      /\ \A n \in 1..Len(Waiting') : n \notin 1..Len(Waiting) => Waiting'[n].id = 0
  <2>1. CASE k = server
    <3>1. server # 0 /\ server \in Conns
      BY <2>1 DEF Conns
    <3>2. Waiting' = Append(Waiting, b) /\ Waiting \in Seq(Request)
      BY <1>2, <2>1, <3>1 DEF Inv, Typed, Waiting
    <3>3. QED
      BY <1>1, <3>2
  <2>2. CASE k # server
    <3>1. Waiting' = Waiting
      BY <1>2, <2>2 DEF Inv, Typed, Waiting
    <3>2. Waiting \in Seq(Request)
      BY DEF Inv, Typed, Waiting, Conns
    <3>3. QED
      BY <3>1, <3>2
  <2>3. QED
    BY <2>1, <2>2
<1>7. Issued'
  <2>1. rpcs \in Nat /\ Issued
    BY DEF Inv, Typed
  <2>2. \A n \in 1..Len(Waiting') : Waiting'[n].id <= rpcs
    <3> TAKE n \in 1..Len(Waiting')
    <3>1. CASE n \in 1..Len(Waiting)
      BY <1>6, <2>1, <3>1 DEF Issued
    <3>2. CASE n \notin 1..Len(Waiting)
      BY <1>6, <2>1, <3>2
    <3>3. QED
      BY <3>1, <3>2
  <2>3. QED
    BY <1>2, <2>1, <2>2 DEF Issued
<1>8. ASSUME NEW i \in 1..rpcs PROVE Somewhere(i)' /\ Once(i)'
  <2>1. Somewhere(i) /\ Once(i) /\ i # 0
    BY <1>8 DEF Inv
  <2>2. \A l : SentOn(i, l)' <=> SentOn(i, l)
    BY <1>2 DEF SentOn
  <2>3. Somewhere(i)'
    BY <1>2, <1>6, <2>1, <2>2 DEF Somewhere
  <2>4. \A n \in 1..Len(Waiting') : Waiting'[n].id = i => n \in 1..Len(Waiting) /\ Waiting[n].id = i
    BY <1>6, <2>1
  <2>5. Once(i)'
    BY <1>2, <2>1, <2>2, <2>4 DEF Once
  <2>6. QED
    BY <2>3, <2>5
<1>9. QED
  BY <1>2, <1>3, <1>4, <1>5, <1>7, <1>8 DEF Inv

\* IssueRPC: the new RPC waits for the registered server, and is nowhere else.
LEMMA StepIssueRPC ==
    ASSUME Inv, IssueRPC
    PROVE  Inv'
<1> DEFINE b == RPC(rpcs + 1, mSeqNo[server])
<1>1. server \in Conns /\ server # 0 /\ rpcs \in Nat
  BY DEF IssueRPC, Inv, Typed, Conns
<1>2. b \in Request /\ b.id = rpcs + 1
  BY <1>1 DEF RPC, Request, Inv, Typed
<1>3. /\ mPendingReqs' = [mPendingReqs EXCEPT ![server] = Append(@, b)]
      /\ rpcs' = rpcs + 1
      /\ UNCHANGED <<server, state, resumed, mDispatchedReqs, requestList>>
  BY DEF IssueRPC
<1>4. Typed'
  <2>1. mPendingReqs' \in [Conns -> Seq(Request)]
    BY <1>1, <1>2, <1>3 DEF Inv, Typed
  <2>2. mSeqNo' \in [Conns -> Nat]
    BY <1>1 DEF IssueRPC, Inv, Typed
  <2>3. QED
    BY <1>1, <1>3, <2>1, <2>2 DEF Inv, Typed, Queue
<1>5. OthersIdle' /\ DownIsEmpty' /\ SentOnce'
  BY <1>3 DEF Inv, Typed, OthersIdle, DownIsEmpty, SentOnce
<1>6. Waiting' = Append(Waiting, b) /\ Waiting \in Seq(Request)
  BY <1>1, <1>3 DEF Inv, Typed, Waiting
<1>7. /\ Len(Waiting) \in Nat /\ Len(Waiting') = Len(Waiting) + 1
      /\ Waiting'[Len(Waiting) + 1] = b
      /\ \A n \in 1..Len(Waiting) : Waiting'[n] = Waiting[n] /\ Waiting[n].id \in Nat
  <2>1. \A n \in 1..Len(Waiting) : Waiting[n] \in Request
    BY <1>6
  <2>2. \A n \in 1..Len(Waiting) : Waiting[n].id \in Nat
    BY <2>1 DEF Request
  <2> HIDE DEF b
  <2>3. QED
    BY <1>2, <1>6, <2>2
<1>8. \A n \in 1..Len(Waiting') : n = Len(Waiting) + 1 \/ n \in 1..Len(Waiting)
  BY <1>7
<1>9. Issued'
  <2>1. Issued
    BY DEF Inv
  <2>2. \A n \in 1..Len(Waiting') : Waiting'[n].id <= rpcs + 1
    <3> TAKE n \in 1..Len(Waiting')
    <3>1. CASE n \in 1..Len(Waiting)
      BY <1>1, <1>7, <2>1, <3>1 DEF Issued
    <3>2. CASE n = Len(Waiting) + 1
      BY <1>1, <1>2, <1>7, <3>2
    <3>3. QED
      BY <1>8, <3>1, <3>2
  <2>3. \A k \in Conns : \A r \in mDispatchedReqs[k] : r.id \in Nat /\ r.id <= rpcs + 1
    BY <1>1, <2>1 DEF Issued, Inv, Typed, Request
  <2>4. \A p \in resumed : p[1] \in 1..rpcs + 1
    BY <1>1, <2>1 DEF Issued
  <2>5. QED
    BY <1>3, <2>2, <2>3, <2>4 DEF Issued
<1>10. \A i, l : SentOn(i, l)' <=> SentOn(i, l)
  BY <1>3 DEF SentOn
<1>11. ASSUME NEW i \in 1..rpcs PROVE Somewhere(i)' /\ Once(i)'
  <2>1. Somewhere(i) /\ Once(i) /\ i # rpcs + 1
    BY <1>1, <1>11 DEF Inv
  <2>2. \A n \in 1..Len(Waiting) : n \in 1..Len(Waiting') /\ Waiting'[n] = Waiting[n]
    BY <1>7
  <2>3. Somewhere(i)'
    BY <1>3, <1>10, <2>1, <2>2 DEF Somewhere
  <2>4. \A n \in 1..Len(Waiting') : Waiting'[n].id = i => n \in 1..Len(Waiting) /\ Waiting[n].id = i
    BY <1>2, <1>7, <1>8, <2>1
  <2>5. Once(i)'
    BY <1>3, <1>10, <2>1, <2>4 DEF Once
  <2>6. QED
    BY <2>3, <2>5
<1>12. ASSUME NEW i, i = rpcs + 1 PROVE Somewhere(i)' /\ Once(i)'
  <2>1. \A n \in 1..Len(Waiting') : Waiting'[n].id = i <=> n = Len(Waiting) + 1
    <3> TAKE n \in 1..Len(Waiting')
    <3>1. n \in 1..Len(Waiting) => Waiting'[n].id <= rpcs /\ Waiting'[n].id \in Nat /\ n # Len(Waiting) + 1
      BY <1>7 DEF Inv, Issued
    <3>2. QED
      BY <1>1, <1>2, <1>7, <1>8, <1>12, <3>1
  <2>2. \A k \in Conns : ~SentOn(i, k)'
    <3>1. \A k \in Conns : \A r \in mDispatchedReqs[k] : r.id # i
      BY <1>1, <1>12, Ids
    <3>2. QED
      BY <1>3, <3>1 DEF SentOn
  <2>3. \A p \in resumed' : p[1] # i
    BY <1>1, <1>3, <1>12 DEF Inv, Issued
  <2>4. Len(Waiting) + 1 \in 1..Len(Waiting')
    BY <1>7
  <2>5. QED
    BY <2>1, <2>2, <2>3, <2>4 DEF Somewhere, Once
<1>13. ASSUME NEW i \in 1..rpcs' PROVE Somewhere(i)' /\ Once(i)'
  <2>1. i \in 1..rpcs \/ i = rpcs + 1
    BY <1>1, <1>3, <1>13
  <2>2. QED
    BY <1>11, <1>12, <2>1
<1>14. QED
  BY <1>4, <1>5, <1>9, <1>13 DEF Inv

\* What waits for the registered server fails: Dispatch finds its connection gone,
\* or ServerDown takes it down.
LEMMA StepFail ==
    ASSUME Inv, Typed', OthersIdle', server # 0, Waiting' = <<>>,
           Resume(Elements(Waiting), EIO), UNCHANGED <<state, rpcs, mDispatchedReqs>>
    PROVE  Inv'
<1>1. Waiting \in Seq(Request) /\ rpcs \in Nat
  BY DEF Inv, Typed, Waiting, Conns
<1>2. Len(Waiting') = 0 /\ 1..Len(Waiting') = {}
  OBVIOUS
<1>3. \A p : p \in resumed' <=> \/ p \in resumed
                               \/ \E n \in 1..Len(Waiting) : Waiting[n].id # 0 /\ p = <<Waiting[n].id, EIO>>
  <2>1. DOMAIN Waiting = 1..Len(Waiting)
    BY <1>1
  <2>2. QED
    BY <2>1 DEF Resume, Elements
<1>4. DownIsEmpty' /\ SentOnce'
  BY DEF Inv, DownIsEmpty, SentOnce
<1>5. Issued'
  <2>1. \A n \in 1..Len(Waiting) : Waiting[n].id \in Nat /\ Waiting[n].id <= rpcs
    BY Ids
  <2>2. ASSUME NEW p \in resumed' PROVE p[1] \in 1..rpcs
    <3>1. CASE p \in resumed
      BY <3>1 DEF Inv, Issued
    <3>2. CASE \E n \in 1..Len(Waiting) : Waiting[n].id # 0 /\ p = <<Waiting[n].id, EIO>>
      BY <1>1, <2>1, <3>2
    <3>3. QED
      BY <1>3, <2>2, <3>1, <3>2
  <2>3. QED
    BY <1>2, <2>2 DEF Inv, Issued
<1>6. \A i, l : SentOn(i, l)' <=> SentOn(i, l)
  BY DEF SentOn
<1>7. ASSUME NEW i \in 1..rpcs PROVE Somewhere(i)' /\ Once(i)'
  <2>1. Somewhere(i) /\ Once(i) /\ i # 0
    BY <1>7 DEF Inv
  <2>2. ASSUME NEW p \in resumed', p[1] = i, p \notin resumed
        PROVE  p = <<i, EIO>> /\ \E n \in 1..Len(Waiting) : Waiting[n].id = i
    <3>1. PICK n \in 1..Len(Waiting) : p = <<Waiting[n].id, EIO>>
      BY <1>3, <2>2
    <3>2. Waiting[n].id = i
      BY <2>2, <3>1
    <3>3. QED
      BY <3>1, <3>2
  <2>3. \A n \in 1..Len(Waiting) : Waiting[n].id = i => <<i, EIO>> \in resumed' /\ <<i, EIO>>[1] = i
    BY <1>3, <2>1
  <2>4. resumed \subseteq resumed'
    BY <1>3
  <2>5. Somewhere(i)'
    BY <1>6, <2>1, <2>3, <2>4 DEF Somewhere
  <2>6. \A p, q \in resumed' : p[1] = i /\ q[1] = i => p = q
    BY <2>1, <2>2 DEF Once
  <2>7. \A k \in Conns, p \in resumed' : ~(SentOn(i, k) /\ p[1] = i)
    BY <2>1, <2>2 DEF Once
  <2>8. Once(i)'
    BY <1>2, <1>6, <2>1, <2>6, <2>7 DEF Once
  <2>9. QED
    BY <2>5, <2>8
<1>8. QED
  BY <1>4, <1>5, <1>7 DEF Inv

\* Dispatch: what waits is sent, or fails if the connection is gone.
LEMMA StepDispatch ==
    ASSUME Inv, Dispatch
    PROVE  Inv'
<1>1. server \in Conns /\ server # 0 /\ rpcs \in Nat
  BY DEF Dispatch, Inv, Typed, Conns
<1>2. Waiting = mPendingReqs[server] /\ Waiting \in Seq(Request)
  BY <1>1 DEF Waiting, Inv, Typed
<1>3. Waiting' = <<>> /\ Len(Waiting') = 0 /\ 1..Len(Waiting') = {}
  BY <1>1 DEF Waiting, Dispatch, Inv, Typed
<1>4. mPendingReqs' \in [Conns -> Seq(Request)]
  <2>1. <<>> \in Seq(Request)
    OBVIOUS
  <2>2. QED
    BY <2>1 DEF Dispatch, Inv, Typed
<1>5. OthersIdle'
  BY <1>1 DEF Dispatch, Inv, Typed, OthersIdle
<1>6. Queue(requestList)'
  BY DEF Dispatch, Inv, Typed, Queue
<1>7. CASE state[server] # "up"
  <2>1. Typed'
    BY <1>4, <1>6, <1>7 DEF Dispatch, Inv, Typed
  <2>2. QED
    BY <1>1, <1>2, <1>3, <1>5, <1>7, <2>1, StepFail DEF Dispatch
<1>8. CASE state[server] = "up"
  <2>1. /\ mDispatchedReqs' = [mDispatchedReqs EXCEPT ![server] = @ \cup Elements(Waiting)]
        /\ UNCHANGED <<server, rpcs, state, resumed>>
    BY <1>2, <1>8 DEF Dispatch
  <2>2. Elements(Waiting) \subseteq Request
    BY <1>2 DEF Elements
  <2>3. \A r : r \in Elements(Waiting) <=> \E n \in 1..Len(Waiting) : r = Waiting[n]
    BY <1>2 DEF Elements
  <2>4. Typed'
    BY <1>4, <1>6, <1>8, <2>1, <2>2 DEF Dispatch, Inv, Typed
  <2>5. DownIsEmpty'
    BY <1>8, <2>1 DEF Inv, Typed, DownIsEmpty
  <2>6. \A k \in Conns : \A r : r \in mDispatchedReqs'[k] <=>
              r \in mDispatchedReqs[k] \/ (k = server /\ \E n \in 1..Len(Waiting) : r = Waiting[n])
    BY <1>1, <2>1, <2>3 DEF Inv, Typed
  <2>7. Issued'
    BY <1>3, <2>1, <2>6 DEF Inv, Issued
  <2>8. \A i : \A k \in Conns : SentOn(i, k)' <=>
              SentOn(i, k) \/ (k = server /\ \E n \in 1..Len(Waiting) : Waiting[n].id = i)
    BY <1>8, <2>1, <2>6 DEF SentOn
  <2>9. SentOnce'
    <3> SUFFICES ASSUME NEW k \in Conns, NEW r \in mDispatchedReqs'[k], NEW q \in mDispatchedReqs'[k],
                        r.id = q.id, r.id # 0
                 PROVE  r = q
      BY DEF SentOnce
    <3>1. CASE r \in mDispatchedReqs[k] /\ q \in mDispatchedReqs[k]
      BY <3>1 DEF Inv, SentOnce
    <3>2. CASE r \notin mDispatchedReqs[k] \/ q \notin mDispatchedReqs[k]
      <4>1. k = server /\ \E n \in 1..Len(Waiting) : Waiting[n].id = r.id
        BY <2>6, <3>2
      <4>2. r.id \in 1..rpcs
        <5>1. \A n \in 1..Len(Waiting) : Waiting[n].id \in Nat /\ Waiting[n].id <= rpcs
          BY Ids
        <5>2. QED
          BY <1>1, <4>1, <5>1
      <4>3. Once(r.id)
        BY <4>2 DEF Inv
      <4>4. ~SentOn(r.id, k)
        BY <4>1, <4>3 DEF Once
      <4>5. r \notin mDispatchedReqs[k] /\ q \notin mDispatchedReqs[k]
        BY <1>8, <4>1, <4>4 DEF SentOn
      <4>6. QED
        BY <2>6, <4>3, <4>5 DEF Once
    <3>3. QED
      BY <3>1, <3>2
  <2>10. ASSUME NEW i \in 1..rpcs PROVE Somewhere(i)' /\ Once(i)'
    <3>1. Somewhere(i) /\ Once(i)
      BY <2>10 DEF Inv
    <3>2. Somewhere(i)'
      BY <1>1, <2>1, <2>8, <3>1 DEF Somewhere
    <3>3. Once(i)'
      BY <1>3, <2>1, <2>8, <3>1 DEF Once
    <3>4. QED
      BY <3>2, <3>3
  <2>11. QED
    BY <1>5, <2>1, <2>4, <2>5, <2>7, <2>9, <2>10 DEF Inv
<1>9. QED
  BY <1>7, <1>8

\* The connection of an established server is lost: the RPCs out on it fail.
LEMMA StepNetError ==
    ASSUME Inv, NEW k \in Conns, state[k] = "up", NetError(k),
           UNCHANGED <<server, rpcs, mSeqNo, mPendingReqs>>
    PROVE  Inv'
<1>1. /\ mDispatchedReqs' = [mDispatchedReqs EXCEPT ![k] = {}]
      /\ state' = [state EXCEPT ![k] = "down"]
  BY DEF NetError, Close
<1>2. Queue(requestList')
  <2>1. [type |-> "bye", conn |-> k, id |-> 0].conn \in Conns
    OBVIOUS
  <2>2. QED
    BY <2>1, QueueAppend DEF NetError, Inv, Typed
<1>3. Typed'
  BY <1>1, <1>2 DEF Inv, Typed
<1>4. OthersIdle' /\ Waiting' = Waiting
  BY DEF Inv, OthersIdle, Waiting
<1>5. DownIsEmpty' /\ SentOnce'
  BY <1>1 DEF Inv, Typed, DownIsEmpty, SentOnce
<1>6. \A p : p \in resumed' <=> \/ p \in resumed
                               \/ \E r \in mDispatchedReqs[k] : r.id # 0 /\ p = <<r.id, EIO>>
  BY DEF NetError, Resume
<1>7. Issued'
  <2>1. ASSUME NEW p \in resumed' PROVE p[1] \in 1..rpcs
    <3>1. CASE p \in resumed
      BY <3>1 DEF Inv, Issued
    <3>2. CASE p \notin resumed
      <4>1. PICK r \in mDispatchedReqs[k] : r.id # 0 /\ p = <<r.id, EIO>>
        BY <1>6, <2>1, <3>2
      <4>2. r.id \in 1..rpcs
        BY <4>1, Ids
      <4>3. QED
        BY <4>1, <4>2
    <3>3. QED
      BY <3>1, <3>2
  <2>2. \A l \in Conns : \A r \in mDispatchedReqs'[l] : r \in mDispatchedReqs[l]
    BY <1>1 DEF Inv, Typed
  <2>3. QED
    BY <1>4, <2>1, <2>2 DEF Inv, Issued
<1>8. \A i : \A l \in Conns : SentOn(i, l)' <=> SentOn(i, l) /\ l # k
  BY <1>1 DEF SentOn, Inv, Typed
<1>9. ASSUME NEW i \in 1..rpcs PROVE Somewhere(i)' /\ Once(i)'
  <2>1. Somewhere(i) /\ Once(i) /\ i # 0
    BY <1>9 DEF Inv
  <2>2. ASSUME NEW p \in resumed', p[1] = i, p \notin resumed PROVE p = <<i, EIO>> /\ SentOn(i, k)
    <3>1. PICK r \in mDispatchedReqs[k] : p = <<r.id, EIO>>
      BY <1>6, <2>2
    <3>2. r.id = i
      BY <2>2, <3>1
    <3>3. QED
      BY <3>1, <3>2 DEF SentOn
  <2>3. SentOn(i, k) => <<i, EIO>> \in resumed' /\ <<i, EIO>>[1] = i
    BY <1>6, <2>1 DEF SentOn
  <2>4. resumed \subseteq resumed'
    BY <1>6
  <2>5. Somewhere(i)'
    BY <1>4, <1>8, <2>1, <2>3, <2>4 DEF Somewhere
  <2>6. Once(i)'
    BY <1>4, <1>8, <2>1, <2>2 DEF Once
  <2>7. QED
    BY <2>5, <2>6
<1>10. QED
  BY <1>3, <1>4, <1>5, <1>7, <1>9 DEF Inv

\* HandleReply: the RPCs with the number of the response are resumed.
LEMMA StepHandleReply ==
    ASSUME Inv, NEW k \in Conns, HandleReply(k)
    PROVE  Inv'
<1> DEFINE m == Head(toMeta[k])
           rs == Matching(k, m.seq)
<1>1. /\ mDispatchedReqs' = [mDispatchedReqs EXCEPT ![k] = @ \ rs]
      /\ rs \subseteq mDispatchedReqs[k] /\ state[k] = "up"
      /\ Resume(rs, m.id)
      /\ UNCHANGED <<server, rpcs, state, mSeqNo, mPendingReqs, requestList>>
  BY DEF HandleReply, Matching
<1> HIDE DEF m, rs
<1>2. PICK by : by = m.id
  OBVIOUS
<1>3. \A p : p \in resumed' <=> p \in resumed \/ \E r \in rs : r.id # 0 /\ p = <<r.id, by>>
  BY <1>1, <1>2 DEF Resume
<1>4. Typed'
  BY <1>1 DEF Inv, Typed, Queue
<1>5. OthersIdle' /\ Waiting' = Waiting
  BY <1>1 DEF Inv, OthersIdle, Waiting
<1>6. \A l \in Conns : \A r : r \in mDispatchedReqs'[l] <=>
            r \in mDispatchedReqs[l] /\ (l = k => r \notin rs)
  BY <1>1 DEF Inv, Typed
<1>7. DownIsEmpty' /\ SentOnce'
  BY <1>1, <1>6 DEF Inv, DownIsEmpty, SentOnce
<1>8. Issued'
  <2>1. ASSUME NEW p \in resumed' PROVE p[1] \in 1..rpcs
    <3>1. CASE p \in resumed
      BY <3>1 DEF Inv, Issued
    <3>2. CASE p \notin resumed
      <4>1. PICK r \in rs : r.id # 0 /\ p = <<r.id, by>>
        BY <1>3, <2>1, <3>2
      <4>2. r.id \in 1..rpcs
        BY <1>1, <4>1, Ids
      <4>3. QED
        BY <4>1, <4>2
    <3>3. QED
      BY <3>1, <3>2
  <2>2. QED
    BY <1>1, <1>5, <1>6, <2>1 DEF Inv, Issued
<1>9. ASSUME NEW i \in 1..rpcs PROVE Somewhere(i)' /\ Once(i)'
  <2>1. Somewhere(i) /\ Once(i) /\ i # 0
    BY <1>9 DEF Inv
  <2>2. CASE \A r \in rs : r.id # i
    <3>1. \A l \in Conns : SentOn(i, l)' <=> SentOn(i, l)
      BY <1>1, <1>6, <2>2 DEF SentOn
    <3>2. \A p : p[1] = i => (p \in resumed' <=> p \in resumed)
      BY <1>3, <2>2
    <3>3. QED
      BY <1>5, <2>1, <3>1, <3>2 DEF Somewhere, Once
  <2>3. CASE \E r \in rs : r.id = i
    <3>1. PICK r \in rs : r.id = i
      BY <2>3
    <3>2. SentOn(i, k)
      BY <1>1, <3>1 DEF SentOn
    <3>3. \A l \in Conns : ~SentOn(i, l)'
      <4>1. \A l \in Conns : SentOn(i, l)' => SentOn(i, l) /\ l = k
        BY <1>1, <1>6, <2>1, <3>2 DEF SentOn, Once
      <4>2. ~SentOn(i, k)'
        BY <1>1, <1>6, <2>1, <3>1 DEF SentOn, Inv, SentOnce
      <4>3. QED
        BY <4>1, <4>2
    <3>4. \A n \in 1..Len(Waiting) : Waiting[n].id # i
      BY <2>1, <3>2 DEF Once
    <3>5. \A p \in resumed : p[1] # i
      BY <2>1, <3>2 DEF Once
    <3>6. <<i, by>> \in resumed' /\ <<i, by>>[1] = i
      BY <1>3, <2>1, <3>1
    <3>7. ASSUME NEW p \in resumed', p[1] = i PROVE p = <<i, by>>
      <4>1. PICK q \in rs : p = <<q.id, by>>
        BY <1>3, <3>5, <3>7
      <4>2. QED
        BY <3>7, <4>1
    <3>8. QED
      BY <1>5, <3>3, <3>4, <3>6, <3>7 DEF Somewhere, Once
  <2>4. QED
    BY <2>2, <2>3
<1>10. QED
  BY <1>1, <1>4, <1>5, <1>7, <1>8, <1>9 DEF Inv

LEMMA StepMetaNetError ==
    ASSUME Inv, NEW k \in Conns, MetaNetError(k)
    PROVE  Inv'
<1>1. CASE state[k] = "up" /\ NetError(k)
  BY <1>1, StepNetError DEF MetaNetError
<1>2. CASE state[k] = "accepted" /\ Close(k) /\ UNCHANGED <<mDispatchedReqs, requestList, resumed>>
  <2>1. Typed'
    BY <1>2 DEF MetaNetError, Close, Inv, Typed, Queue
  <2>2. DownIsEmpty'
    BY <1>2 DEF Close, Inv, Typed, DownIsEmpty
  <2>3. OthersIdle' /\ Waiting' = Waiting
    BY DEF MetaNetError, Inv, OthersIdle, Waiting
  <2>4. QED
    BY <1>2, <2>1, <2>2, <2>3, Unmoved DEF MetaNetError
<1>3. QED
  BY <1>1, <1>2 DEF MetaNetError

\* handle_hello: a server that is added has only heartbeats to send.
LEMMA StepHello ==
    ASSUME Inv, handle_hello
    PROVE  Inv'
<1> DEFINE k == Head(requestList).conn
<1>1. k \in Conns /\ Queue(requestList')
  BY QueueHead DEF handle_hello, Inv, Typed
<1>2. UNCHANGED <<rpcs, state, mSeqNo, mPendingReqs, mDispatchedReqs, resumed>>
  BY DEF handle_hello
<1>3. server' = server \/ (server = 0 /\ server' = k)
  BY DEF handle_hello, AddNewServer
<1> HIDE DEF k
<1>4. Typed'
  BY <1>1, <1>2, <1>3 DEF Inv, Typed, Conns
<1>5. DownIsEmpty'
  BY <1>2 DEF Inv, DownIsEmpty
<1>6. CASE server' = server
  BY <1>2, <1>4, <1>5, <1>6, Unmoved DEF Inv, OthersIdle, Waiting
<1>7. CASE server = 0 /\ server' = k
  <2>1. k # 0
    BY <1>1 DEF Conns
  <2>2. OthersIdle /\ OthersIdle'
    BY <1>2, <1>7 DEF Inv, OthersIdle, Conns
  <2>3. \A n \in 1..Len(Waiting') : Waiting'[n].id = 0
    BY <1>1, <1>2, <1>7, <2>1, <2>2 DEF OthersIdle, Waiting
  <2>4. Len(Waiting) = 0 /\ 1..Len(Waiting) = {}
    BY <1>7 DEF Waiting
  <2>5. \A i, l : SentOn(i, l)' <=> SentOn(i, l)
    BY <1>2 DEF SentOn
  <2>6. SentOnce' /\ Issued'
    BY <1>2, <2>3, Ids DEF Inv, SentOnce, Issued
  <2>7. ASSUME NEW i \in 1..rpcs PROVE Somewhere(i)' /\ Once(i)'
    <3>1. Somewhere(i) /\ Once(i) /\ i # 0
      BY <2>7 DEF Inv
    <3>2. QED
      BY <1>2, <2>3, <2>4, <2>5, <3>1 DEF Somewhere, Once
  <2>8. QED
    BY <1>2, <1>4, <1>5, <2>2, <2>6, <2>7 DEF Inv
<1>8. QED
  BY <1>3, <1>6, <1>7

\* handle_bye: the RPCs that wait for the server fail with it.
LEMMA StepBye ==
    ASSUME Inv, handle_bye
    PROVE  Inv'
<1> DEFINE k == Head(requestList).conn
<1>1. k \in Conns /\ k # 0 /\ Queue(requestList')
  BY QueueHead DEF handle_bye, Inv, Typed, Conns
<1>2. ServerDown(k) /\ UNCHANGED <<rpcs, state, mSeqNo, mDispatchedReqs>>
  BY DEF handle_bye
<1> HIDE DEF k
<1>3. DownIsEmpty'
  BY <1>2 DEF Inv, DownIsEmpty
<1>4. CASE server # k
  <2>1. UNCHANGED <<resumed, mPendingReqs, server>>
    BY <1>2, <1>4 DEF ServerDown
  <2>2. Typed' /\ OthersIdle' /\ Waiting' = Waiting
    BY <1>1, <1>2, <2>1 DEF Inv, Typed, OthersIdle, Waiting
  <2>3. QED
    BY <1>2, <1>3, <2>1, <2>2, Unmoved
<1>5. CASE server = k
  <2>1. /\ Resume(Elements(Waiting), EIO)
        /\ mPendingReqs' = [mPendingReqs EXCEPT ![k] = <<>>]
        /\ server' = 0 /\ Waiting' = <<>>
    BY <1>1, <1>2, <1>5 DEF ServerDown, Waiting
  <2>2. Typed'
    <3>1. <<>> \in Seq(Request)
      OBVIOUS
    <3>2. mPendingReqs' \in [Conns -> Seq(Request)]
      BY <2>1, <3>1 DEF Inv, Typed
    <3>3. server' \in 0..MaxConns
      BY <2>1, ConnectAssumption
    <3>4. QED
      BY <1>1, <1>2, <3>2, <3>3 DEF Inv, Typed
  <2>3. OthersIdle'
    <3> SUFFICES ASSUME NEW l \in Conns, NEW n \in 1..Len(mPendingReqs'[l])
                 PROVE  mPendingReqs'[l][n].id = 0
      BY DEF OthersIdle
    <3>1. l # k
      BY <2>1 DEF Inv, Typed
    <3>2. QED
      BY <1>5, <2>1, <3>1 DEF Inv, Typed, OthersIdle
  <2>4. QED
    BY <1>1, <1>2, <1>5, <2>1, <2>2, <2>3, StepFail
<1>6. QED
  BY <1>4, <1>5

-----------------------------------------------------------------------------
LEMMA InvInit == Init => Inv
<1> SUFFICES ASSUME Init PROVE Inv
  OBVIOUS
<1>1. Typed
  <2>1. Queue(requestList)
    <3>1. requestList \in Seq({}) /\ \A r \in {} : r.conn \in Conns
      BY DEF Init
    <3>2. QED
      BY <3>1 DEF Queue
  <2>2. <<>> \in Seq(Request)
    OBVIOUS
  <2>3. server \in 0..MaxConns /\ rpcs \in Nat
    BY ConnectAssumption DEF Init
  <2>4. QED
    BY <2>1, <2>2, <2>3 DEF Init, Typed
<1>2. OthersIdle
  BY DEF Init, OthersIdle
<1>3. DownIsEmpty /\ SentOnce
  BY DEF Init, DownIsEmpty, SentOnce
<1>4. Issued
  BY DEF Init, Issued, Waiting
<1>5. 1..rpcs = {}
  BY DEF Init
<1>6. QED
  BY <1>1, <1>2, <1>3, <1>4, <1>5 DEF Inv

LEMMA InvNext == Inv /\ [Next]_vars => Inv'
<1> SUFFICES ASSUME Inv, [Next]_vars PROVE Inv'
  OBVIOUS
<1>1. CASE UNCHANGED meta
  BY <1>1, Unmoved DEF meta, Inv, Typed, Queue, OthersIdle, DownIsEmpty, Waiting
<1>2. CASE ChunkNext
  BY <1>2, StepChunk
<1>3. CASE MetaNext
  <2>1. ASSUME NEW k \in Conns, HeartbeatTimeout(k) PROVE Inv'
    <3>1. /\ state[k] = "up" /\ NetError(k)
          /\ UNCHANGED <<server, rpcs, mSeqNo, mPendingReqs>>
      BY <2>1 DEF HeartbeatTimeout
    <3>2. QED
      BY <2>1, <3>1, StepNetError
  <2>2. ASSUME NEW k \in Conns, \/ HandleHello(k) \/ HandleReply(k) \/ HandleCmd(k)
                                \/ MetaNetError(k) \/ Heartbeat(k)
        PROVE  Inv'
    BY <2>2, StepHandleHello, StepHandleReply, StepHandleCmd, StepMetaNetError, StepHeartbeat
  <2>3. CASE Dispatch \/ IssueRPC \/ handle_hello \/ handle_bye \/ handle_op
    BY <2>3, StepDispatch, StepIssueRPC, StepHello, StepBye, StepHandleOp
  <2>4. QED
    BY <1>3, <2>1, <2>2, <2>3 DEF MetaNext
<1>4. QED
  BY <1>1, <1>2, <1>3 DEF Next, Break, vars

\* RPCInOnePlace holds of every instance: an RPC that the request thread of the
\* metaserver issued (MetaAllocate::numServerReplies counts on its return) waits
\* for the registered server, is out on a connection, or was resumed once.
THEOREM ConnectRPCInOnePlace == Spec => []RPCInOnePlace
<1>1. Inv => RPCInOnePlace
  BY OnePlace DEF Inv, RPCInOnePlace
<1>2. QED
  BY <1>1, InvInit, InvNext, PTL DEF Spec
=============================================================================
