----------------------------- MODULE MetaConnect -----------------------------
(***************************************************************************)
(* The connection between one chunkserver and the metaserver: how it is    *)
(* made, lost and made again, and what becomes of the requests that travel *)
(* on it in both directions.                                               *)
(*                                                                         *)
(* Chunkserver (chunk/MetaServerSM): a network thread owns the connection; *)
(* an event processor runs the metaserver's RPCs and prepares the HELLO.   *)
(* Requests of its own ("ops": lease renewals, corrupt chunks) are queued, *)
(* sent, kept until answered, and sent again after a reconnect.            *)
(* Metaserver (meta/ChunkServer): one object per connection.  The network  *)
(* thread reads messages and sends RPCs; the request thread registers the  *)
(* server, issues RPCs and takes the server down.                          *)
(***************************************************************************)
EXTENDS Integers, Sequences, FiniteSets

CONSTANTS MaxConns,   \* bound: connections that exist at a time
          MaxRPCs,    \* bound: RPCs the request thread issues
          MaxOps,     \* bound: requests the chunkserver makes
          MaxBeats,   \* bound: heartbeats on one connection
          MaxBreaks   \* bound: breaks of the network and delays that look like one

ASSUME ConnectAssumption == /\ MaxConns \in Nat \ {0} /\ MaxRPCs \in Nat
                            /\ MaxOps \in Nat /\ MaxBeats \in Nat /\ MaxBreaks \in Nat

Conns == 1..MaxConns
EIO == -1

VARIABLES
    \* the network
    cut,            \* connections that are broken
    toMeta, toChunk,  \* messages in flight on each connection
    breaks,         \* number of breaks so far
    \* the chunkserver
    conn,           \* mNetConnection: the connection in use, 0 if none
    mSentHello,     \* was HELLO sent on it?
    mHelloOp,       \* is a HELLO being prepared by the event processor?
    mPendingOps, mDispatchedOps,   \* requests to send; requests sent (or held), unanswered
    running,        \* RPCs in the event processor
    mPendingResponses,             \* responses to send
    ops,            \* number of requests made so far
    answered,       \* requests that got their reply
    \* the metaserver
    state,          \* of each connection's ChunkServer object
    mSeqNo,         \* its next sequence number
    mPendingReqs, mDispatchedReqs, \* RPCs to send; RPCs sent, unanswered
    mHeartbeatSent, \* is a heartbeat unanswered?
    requestList,    \* HELLO, BYE and ops waiting for the request thread
    server,         \* the connection registered in mChunkServers, 0 if none
    rpcs,           \* number of RPCs issued so far
    resumed         \* how each RPC came back: <<rpc, the rpc that was run, or EIO>>

network == <<cut, toMeta, toChunk, breaks>>
chunk == <<conn, mSentHello, mHelloOp, mPendingOps, mDispatchedOps, running,
           mPendingResponses, ops, answered>>
meta == <<state, mSeqNo, mPendingReqs, mDispatchedReqs, mHeartbeatSent, requestList,
          server, rpcs, resumed>>
vars == <<network, chunk, meta>>

Hello == [type |-> "hello", id |-> 0, seq |-> 0]
Op(i) == [type |-> "op", id |-> i, seq |-> 0]
Reply(i) == [type |-> "reply", id |-> i, seq |-> 0]
RPC(i, n) == [type |-> "rpc", id |-> i, seq |-> n]      \* i = 0: a heartbeat
Response(r) == [r EXCEPT !.type = "response"]

Map(F(_), s) == [i \in DOMAIN s |-> F(s[i])]
Elements(s) == {s[i] : i \in DOMAIN s}

Init ==
    /\ cut = {} /\ breaks = 0
    /\ toMeta = [k \in Conns |-> <<>>] /\ toChunk = [k \in Conns |-> <<>>]
    /\ conn = 0 /\ mSentHello = FALSE /\ mHelloOp = FALSE
    /\ mPendingOps = <<>> /\ mDispatchedOps = <<>> /\ mPendingResponses = <<>>
    /\ running = {} /\ ops = 0 /\ answered = {}
    /\ state = [k \in Conns |-> "none"] /\ mSeqNo = [k \in Conns |-> 1]
    /\ mPendingReqs = [k \in Conns |-> <<>>] /\ mDispatchedReqs = [k \in Conns |-> {}]
    /\ mHeartbeatSent = [k \in Conns |-> FALSE]
    /\ requestList = <<>> /\ server = 0 /\ rpcs = 0 /\ resumed = {}

-----------------------------------------------------------------------------
(* Chunkserver. *)

\* The event processor asks for a lease renewal or reports a corrupt chunk.
EnqueueOp ==
    /\ ops < MaxOps
    /\ ops' = ops + 1
    /\ mPendingOps' = Append(mPendingOps, ops + 1)
    /\ UNCHANGED <<network, meta, conn, mSentHello, mHelloOp, mDispatchedOps, running,
                   mPendingResponses, answered>>

\* A connection is made: the metaserver's acceptor creates a ChunkServer for it,
\* which counts its RPCs from 1.  The number of a connection that both ends have
\* forgotten is used again.
Unused(k) == /\ state[k] \in {"none", "down"} /\ k # server
             /\ \A i \in DOMAIN requestList : requestList[i].conn # k

Connect(k, output) ==
    /\ Unused(k)
    /\ conn' = k
    /\ cut' = cut \ {k}
    /\ toMeta' = [toMeta EXCEPT ![k] = output]
    /\ toChunk' = [toChunk EXCEPT ![k] = <<>>]
    /\ state' = [state EXCEPT ![k] = "accepted"]
    /\ mSeqNo' = [mSeqNo EXCEPT ![k] = 1]
    /\ mPendingReqs' = [mPendingReqs EXCEPT ![k] = <<>>]
    /\ mHeartbeatSent' = [mHeartbeatSent EXCEPT ![k] = FALSE]

\* DispatchOps: without a connection that has said HELLO, one op is moved to the
\* dispatched list, unsent, and the loop is left.
Moved(sent) == IF sent \/ mPendingOps = <<>> THEN mPendingOps ELSE <<Head(mPendingOps)>>

DispatchOps(sent) ==
    /\ mPendingOps' = SubSeq(mPendingOps, Len(Moved(sent)) + 1, Len(mPendingOps))
    /\ mDispatchedOps' = mDispatchedOps \o Moved(sent)

\* What one Timeout writes: the ops sent again (ResubmitOps), the ops sent for
\* the first time (DispatchOps) and the responses (DispatchResponse).
Output(again, sent) ==
    Map(Op, (IF again THEN mDispatchedOps ELSE <<>>) \o (IF sent THEN Moved(TRUE) ELSE <<>>))
      \o mPendingResponses

\* Timeout without a connection: reconnect, ask the event processor for a HELLO
\* unless one is on its way, resubmit, and go on as usual.
TimeoutReconnect ==
    /\ conn = 0
    /\ \E k \in Conns : Connect(k, Output(TRUE, FALSE))
    /\ mHelloOp' = TRUE
    /\ DispatchOps(FALSE)
    /\ mPendingResponses' = <<>>
    /\ UNCHANGED <<breaks, mSentHello, running, ops, answered, mDispatchedReqs, requestList,
                   server, rpcs, resumed>>

\* Timeout with a connection.
TimeoutDispatch ==
    /\ conn # 0 /\ mPendingOps \o mPendingResponses # <<>>
    /\ toMeta' = [toMeta EXCEPT ![conn] = @ \o Output(FALSE, mSentHello)]
    /\ DispatchOps(mSentHello)
    /\ mPendingResponses' = <<>>
    /\ UNCHANGED <<breaks, cut, toChunk, conn, mSentHello, mHelloOp, running, ops, answered, meta>>

\* The HELLO comes back from the event processor: send it, on a new connection
\* if the old one is gone; give up if none can be made.
DispatchHello ==
    /\ mHelloOp
    /\ mHelloOp' = FALSE
    /\ \/ /\ conn # 0
          /\ toMeta' = [toMeta EXCEPT ![conn] = Append(@, Hello)]
          /\ mSentHello' = TRUE
          /\ UNCHANGED <<conn, cut, toChunk, state, mSeqNo, mPendingReqs, mHeartbeatSent>>
       \/ /\ conn = 0
          /\ \E k \in Conns : Connect(k, <<Hello>>)
          /\ mSentHello' = TRUE
       \/ /\ conn = 0
          /\ UNCHANGED <<cut, toMeta, toChunk, conn, mSentHello, state, mSeqNo, mPendingReqs,
                         mHeartbeatSent>>
    /\ UNCHANGED <<breaks, mPendingOps, mDispatchedOps, running, mPendingResponses, ops, answered,
                   mDispatchedReqs, requestList, server, rpcs, resumed>>

\* A message from the metaserver: the reply to an op, or an RPC to run.
HandleMsg ==
    /\ conn # 0 /\ toChunk[conn] # <<>>
    /\ LET m == Head(toChunk[conn]) IN
       IF m.type = "reply"
       THEN /\ mDispatchedOps' = SelectSeq(mDispatchedOps, LAMBDA o : o # m.id)
            /\ answered' = answered \cup {m.id}
            /\ UNCHANGED running
       ELSE /\ running' = running \cup {m}
            /\ UNCHANGED <<mDispatchedOps, answered>>
    /\ toChunk' = [toChunk EXCEPT ![conn] = Tail(@)]
    /\ UNCHANGED <<breaks, cut, toMeta, conn, mSentHello, mHelloOp, mPendingOps,
                   mPendingResponses, ops, meta>>

\* The event processor finishes an RPC; the response is queued.
EnqueueResponse ==
    /\ \E r \in running : /\ running' = running \ {r}
                          /\ mPendingResponses' = Append(mPendingResponses, Response(r))
    /\ UNCHANGED <<network, meta, conn, mSentHello, mHelloOp, mPendingOps, mDispatchedOps,
                   ops, answered>>

\* EVENT_NET_ERROR: the chunkserver notices that the connection is gone.
ChunkNetError ==
    /\ conn # 0 /\ conn \in cut
    /\ conn' = 0 /\ mSentHello' = FALSE
    /\ toChunk' = [toChunk EXCEPT ![conn] = <<>>]
    /\ UNCHANGED <<breaks, cut, toMeta, meta, mHelloOp, mPendingOps, mDispatchedOps, running,
                   mPendingResponses, ops, answered>>

-----------------------------------------------------------------------------
(* Metaserver, network thread. *)

\* A ChunkServer object gives up its connection, and what it did not read.
Close(k) == /\ cut' = cut \cup {k}
            /\ toMeta' = [toMeta EXCEPT ![k] = <<>>]
            /\ state' = [state EXCEPT ![k] = "down"]

\* HandleHello: the first message of a connection must be HELLO; anything else
\* closes the connection, with no BYE for a server that was never added.
HandleHello(k) ==
    /\ state[k] = "accepted" /\ toMeta[k] # <<>>
    /\ IF Head(toMeta[k]).type = "hello"
       THEN /\ toMeta' = [toMeta EXCEPT ![k] = Tail(@)]
            /\ state' = [state EXCEPT ![k] = "up"]
            /\ requestList' = Append(requestList, [type |-> "hello", conn |-> k, id |-> 0])
            /\ UNCHANGED cut
       ELSE /\ Close(k)
            /\ UNCHANGED requestList
    /\ UNCHANGED <<breaks, toChunk, chunk, mSeqNo, mPendingReqs, mDispatchedReqs,
                   mHeartbeatSent, server, rpcs, resumed>>

\* FindMatchingRequest: a response is matched with the RPC of the same number.
Matching(k, seq) == {r \in mDispatchedReqs[k] : r.seq = seq}

\* ResumeOp: an RPC is over; a heartbeat (0) leaves nothing to resume.
Resume(rs, by) == resumed' = resumed \cup {<<r.id, by>> : r \in {q \in rs : q.id # 0}}

\* HandleReply
HandleReply(k) ==
    /\ state[k] = "up" /\ toMeta[k] # <<>> /\ Head(toMeta[k]).type = "response"
    /\ LET m == Head(toMeta[k])
           rs == Matching(k, m.seq)
       IN /\ mDispatchedReqs' = [mDispatchedReqs EXCEPT ![k] = @ \ rs]
          /\ mHeartbeatSent' = [mHeartbeatSent EXCEPT ![k] = @ /\ \A r \in rs : r.id # 0]
          /\ Resume(rs, m.id)
    /\ toMeta' = [toMeta EXCEPT ![k] = Tail(@)]
    /\ UNCHANGED <<breaks, cut, toChunk, chunk, state, mSeqNo, mPendingReqs, requestList,
                   server, rpcs>>

\* HandleCmd: the chunkserver's own request goes to the request thread.
HandleCmd(k) ==
    /\ state[k] = "up" /\ toMeta[k] # <<>> /\ Head(toMeta[k]).type = "op"
    /\ requestList' = Append(requestList,
                             [type |-> "op", conn |-> k, id |-> Head(toMeta[k]).id])
    /\ toMeta' = [toMeta EXCEPT ![k] = Tail(@)]
    /\ UNCHANGED <<breaks, cut, toChunk, chunk, state, mSeqNo, mPendingReqs, mDispatchedReqs,
                   mHeartbeatSent, server, rpcs, resumed>>

\* Mutant: without FailDispatchedOps.
NetErrorForgets(k) ==
    /\ requestList' = Append(requestList, [type |-> "bye", conn |-> k, id |-> 0])
    /\ Close(k)
    /\ UNCHANGED <<mDispatchedReqs, resumed>>

\* EVENT_NET_ERROR on an established connection: RPCs that were sent fail, BYE
\* goes to the request thread.
NetError(k) ==
    /\ Resume(mDispatchedReqs[k], EIO)
    /\ mDispatchedReqs' = [mDispatchedReqs EXCEPT ![k] = {}]
    /\ requestList' = Append(requestList, [type |-> "bye", conn |-> k, id |-> 0])
    /\ Close(k)

\* The metaserver notices that the connection is gone.
MetaNetError(k) ==
    /\ k \in cut
    /\ \/ /\ state[k] = "up"
          /\ NetError(k)
       \/ /\ state[k] = "accepted"
          /\ Close(k)
          /\ UNCHANGED <<mDispatchedReqs, requestList, resumed>>
    /\ UNCHANGED <<breaks, toChunk, chunk, mSeqNo, mPendingReqs, mHeartbeatSent,
                   server, rpcs>>

\* Mutant: heartbeats for registered servers only.
HeartbeatRegistered(k) ==
    /\ k = server /\ state[k] = "up" /\ ~mHeartbeatSent[k] /\ mSeqNo[k] <= MaxBeats
    /\ mHeartbeatSent' = [mHeartbeatSent EXCEPT ![k] = TRUE]
    /\ mPendingReqs' = [mPendingReqs EXCEPT ![k] = Append(@, RPC(0, mSeqNo[k]))]
    /\ mSeqNo' = [mSeqNo EXCEPT ![k] = @ + 1]
    /\ UNCHANGED <<network, chunk, state, mDispatchedReqs, requestList, server, rpcs, resumed>>

\* Heartbeat: one at a time; a server that leaves one unanswered for too long is
\* taken down as if its connection broke.
Heartbeat(k) ==
    /\ state[k] = "up" /\ ~mHeartbeatSent[k] /\ mSeqNo[k] <= MaxBeats
    /\ mHeartbeatSent' = [mHeartbeatSent EXCEPT ![k] = TRUE]
    /\ mPendingReqs' = [mPendingReqs EXCEPT ![k] = Append(@, RPC(0, mSeqNo[k]))]
    /\ mSeqNo' = [mSeqNo EXCEPT ![k] = @ + 1]
    /\ UNCHANGED <<network, chunk, state, mDispatchedReqs, requestList, server, rpcs, resumed>>

\* A connection whose HELLO AddNewServer dropped.  Its heartbeat is never sent; on
\* any other connection only a slow network makes one late, which counts as a break.
PassedOver(k) == /\ state[k] = "up" /\ k # server
                 /\ \A i \in DOMAIN requestList :
                      requestList[i].conn = k => requestList[i].type # "hello"

HeartbeatTimeout(k) ==
    /\ state[k] = "up" /\ mHeartbeatSent[k]
    /\ IF PassedOver(k) THEN breaks' = breaks
       ELSE breaks < MaxBreaks /\ breaks' = breaks + 1
    /\ NetError(k)
    /\ UNCHANGED <<toChunk, chunk, mSeqNo, mPendingReqs, mHeartbeatSent, server, rpcs>>

\* LayoutManager::Dispatch sends the RPCs of the servers in mChunkServers; those
\* of a server whose connection is gone fail.
Dispatch ==
    /\ server # 0 /\ mPendingReqs[server] # <<>>
    /\ mPendingReqs' = [mPendingReqs EXCEPT ![server] = <<>>]
    /\ IF state[server] = "up"
       THEN /\ toChunk' = [toChunk EXCEPT ![server] = @ \o mPendingReqs[server]]
            /\ mDispatchedReqs' = [mDispatchedReqs EXCEPT
                                     ![server] = @ \cup Elements(mPendingReqs[server])]
            /\ UNCHANGED resumed
       ELSE /\ Resume(Elements(mPendingReqs[server]), EIO)
            /\ UNCHANGED <<toChunk, mDispatchedReqs>>
    /\ UNCHANGED <<breaks, cut, toMeta, chunk, state, mSeqNo, mHeartbeatSent, requestList,
                   server, rpcs>>

-----------------------------------------------------------------------------
(* Metaserver, request thread. *)

\* The request thread sends an RPC to the server on behalf of some request.
IssueRPC ==
    /\ rpcs < MaxRPCs /\ server # 0
    /\ rpcs' = rpcs + 1
    /\ mPendingReqs' = [mPendingReqs EXCEPT ![server] = Append(@, RPC(rpcs + 1, mSeqNo[server]))]
    /\ mSeqNo' = [mSeqNo EXCEPT ![server] = @ + 1]
    /\ UNCHANGED <<network, chunk, state, mDispatchedReqs, mHeartbeatSent, requestList,
                   server, resumed>>

\* AddNewServer: a connection that is down by now is ignored, and so is a server
\* whose location is registered already.
AddNewServer(k) == server' = IF state[k] = "down" \/ server # 0 THEN server ELSE k

handle_hello ==
    /\ requestList # <<>> /\ Head(requestList).type = "hello"
    /\ AddNewServer(Head(requestList).conn)
    /\ requestList' = Tail(requestList)
    /\ UNCHANGED <<network, chunk, state, mSeqNo, mPendingReqs, mDispatchedReqs,
                   mHeartbeatSent, rpcs, resumed>>

\* Mutant: without FailPendingOps.
ServerDownForgets(k) ==
    /\ server' = IF server = k THEN 0 ELSE server
    /\ UNCHANGED <<resumed, mPendingReqs>>

\* ServerDown: RPCs that were not sent fail and the server is forgotten, if this
\* is the connection that is registered.
ServerDown(k) ==
    IF server = k
    THEN /\ Resume(Elements(mPendingReqs[k]), EIO)
         /\ mPendingReqs' = [mPendingReqs EXCEPT ![k] = <<>>]
         /\ server' = 0
    ELSE UNCHANGED <<resumed, mPendingReqs, server>>

handle_bye ==
    /\ requestList # <<>> /\ Head(requestList).type = "bye"
    /\ ServerDown(Head(requestList).conn)
    /\ requestList' = Tail(requestList)
    /\ UNCHANGED <<network, chunk, state, mSeqNo, mDispatchedReqs, mHeartbeatSent, rpcs>>

\* An op is run, and answered unless its connection is down.
handle_op ==
    /\ requestList # <<>> /\ Head(requestList).type = "op"
    /\ LET r == Head(requestList) IN
       toChunk' = IF state[r.conn] = "up"
                  THEN [toChunk EXCEPT ![r.conn] = Append(@, Reply(r.id))] ELSE toChunk
    /\ requestList' = Tail(requestList)
    /\ UNCHANGED <<breaks, cut, toMeta, chunk, state, mSeqNo, mPendingReqs, mDispatchedReqs,
                   mHeartbeatSent, server, rpcs, resumed>>

-----------------------------------------------------------------------------
\* The network breaks the connection in use; both ends notice in their own time.
Break ==
    /\ conn # 0 /\ conn \notin cut /\ breaks < MaxBreaks
    /\ breaks' = breaks + 1
    /\ cut' = cut \cup {conn}
    /\ UNCHANGED <<toMeta, toChunk, chunk, meta>>

ChunkNext == \/ EnqueueOp \/ TimeoutReconnect \/ TimeoutDispatch \/ DispatchHello
             \/ HandleMsg \/ EnqueueResponse \/ ChunkNetError

MetaNext == \/ \E k \in Conns : \/ HandleHello(k) \/ HandleReply(k) \/ HandleCmd(k)
                                \/ MetaNetError(k) \/ Heartbeat(k) \/ HeartbeatTimeout(k)
            \/ Dispatch \/ IssueRPC \/ handle_hello \/ handle_bye \/ handle_op

Next == ChunkNext \/ MetaNext \/ Break

Spec == Init /\ [][Next]_vars

\* Both servers keep working: their threads take every message, request and
\* timer in turn, and a heartbeat that was never sent runs into its timeout.
FairSpec ==
    /\ Spec
    /\ WF_vars(TimeoutReconnect) /\ WF_vars(TimeoutDispatch) /\ WF_vars(DispatchHello)
    /\ WF_vars(HandleMsg) /\ WF_vars(EnqueueResponse) /\ WF_vars(ChunkNetError)
    /\ \A k \in Conns : /\ WF_vars(HandleHello(k)) /\ WF_vars(HandleReply(k))
                        /\ WF_vars(HandleCmd(k)) /\ WF_vars(MetaNetError(k))
                        /\ WF_vars(Heartbeat(k))
                        /\ WF_vars(PassedOver(k) /\ HeartbeatTimeout(k))
    /\ WF_vars(Dispatch) /\ WF_vars(handle_hello \/ handle_bye \/ handle_op)

-----------------------------------------------------------------------------
(* Properties. *)

Messages == [type : {"hello", "op", "reply", "rpc", "response"},
             id : 0..MaxRPCs + MaxOps, seq : Nat]

\* Type invariant: the connection in use exists on the metaserver's side, HELLO
\* is only ever sent on a connection, and the queues hold messages.
TypeOK ==
    /\ cut \subseteq Conns /\ breaks \in 0..MaxBreaks
    /\ toMeta \in [Conns -> Seq(Messages)] /\ toChunk \in [Conns -> Seq(Messages)]
    /\ conn \in 0..MaxConns /\ (mSentHello => conn # 0) /\ mHelloOp \in BOOLEAN
    /\ mPendingOps \in Seq(1..MaxOps) /\ mDispatchedOps \in Seq(1..MaxOps)
    /\ running \subseteq Messages /\ mPendingResponses \in Seq(Messages)
    /\ ops \in 0..MaxOps /\ answered \subseteq 1..MaxOps
    /\ state \in [Conns -> {"none", "accepted", "up", "down"}]
    /\ conn # 0 => state[conn] # "none"
    /\ mSeqNo \in [Conns -> Nat] /\ mPendingReqs \in [Conns -> Seq(Messages)]
    /\ mDispatchedReqs \in [Conns -> SUBSET Messages] /\ mHeartbeatSent \in [Conns -> BOOLEAN]
    /\ requestList \in Seq([type : {"hello", "bye", "op"}, conn : Conns, id : 0..MaxOps])
    /\ server \in 0..MaxConns /\ rpcs \in 0..MaxRPCs
    /\ resumed \subseteq (1..MaxRPCs) \X (-1..MaxRPCs)

\* The places where RPC i can be: waiting for the registered server, sent to a
\* server whose connection is up, or resumed (once for every time it was).
Places(i) ==
    {<<"pending", n>> : n \in {n \in 1..Len(IF server = 0 THEN <<>> ELSE mPendingReqs[server]) :
                                 mPendingReqs[server][n].id = i}}
    \cup {<<"sent", k>> : k \in {k \in Conns : state[k] = "up"
                                    /\ \E r \in mDispatchedReqs[k] : r.id = i}}
    \cup {<<"resumed", p>> : p \in {p \in resumed : p[1] = i}}

\* The request that waits for an RPC (MetaAllocate::numServerReplies counts on
\* it) hears of it exactly once: replies, a lost connection, a server taken down
\* and the gap between the two never lose an RPC and never resume it twice.
RPCInOnePlace == \A i \in 1..rpcs : Cardinality(Places(i)) = 1

\* Every RPC comes back to the request that waits for it, by a response or by
\* the failure of the connection.
RPCsReturn == \A i \in 1..MaxRPCs : rpcs >= i ~> \E p \in resumed : p[1] = i

\* However connections break, the chunkserver ends up registered, under the
\* connection it uses: a HELLO that AddNewServer dropped as a duplicate of a dead
\* connection leaves a connection whose heartbeat is never sent, and the timeout
\* of that heartbeat makes the chunkserver try again. It is stated for a
\* chunkserver with no requests of its own: one of those that is sent ahead of
\* the HELLO is what HandleHelloMsg turns the connection away for.
Rejoins == [](ops = 0) => <>[](server # 0 /\ server = conn)

\* "We should only get a HELLO message here; anything else is bad": the first
\* message the metaserver finds on a connection is HELLO.
HelloFirst ==
    \A k \in Conns : state[k] = "accepted" /\ toMeta[k] # <<>> => Head(toMeta[k]).type = "hello"

\* "match the response to its request": the response that resumes an RPC is the
\* response to that RPC.
ResponseMatches == \A p \in resumed : p[2] \in {p[1], EIO}

\* "Metaserver connection is down...will dispatch later": a request of the
\* chunkserver reaches the metaserver and is answered in the end.
OpsAnswered == \A i \in 1..MaxOps : ops >= i ~> i \in answered
=============================================================================
