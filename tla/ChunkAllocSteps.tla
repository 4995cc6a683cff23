---------------------------- MODULE ChunkAllocSteps ----------------------------
(***************************************************************************)
(* The inductive invariant of ChunkAlloc and its preservation by every     *)
(* step, for any number of chunkservers, requests, chunk ids and faults.   *)
(* What InOrder does is a hypothesis here: the proof needs the theorems    *)
(* about finite sets, and ChunkAllocProofs discharges it.                  *)
(***************************************************************************)
EXTENDS ChunkAlloc, TLAPS

\* InOrder lists every set of requests and of chunks, each element once.
Listed(S) ==
    /\ Cardinality(S) \in Nat
    /\ \A i \in 1..Cardinality(S) : InOrder(S)[i] \in S
    /\ \A i, j \in 1..Cardinality(S) : InOrder(S)[i] = InOrder(S)[j] => i = j
InOrderLists == (\A S \in SUBSET Reqs : Listed(S)) /\ (\A S \in SUBSET Ids : Listed(S))

-----------------------------------------------------------------------------
(* Sequences of anything. *)

IsSeq(q) == \E T : q \in Seq(T)

LEMMA SeqAppend ==
    ASSUME NEW q, IsSeq(q), NEW e
    PROVE  /\ IsSeq(Append(q, e)) /\ Len(q) \in Nat
           /\ \A i \in 1..Len(Append(q, e)) :
                \/ i \in 1..Len(q) /\ Append(q, e)[i] = q[i]
                \/ i = Len(q) + 1 /\ Append(q, e)[i] = e
<1>1. PICK T : q \in Seq(T)
  BY DEF IsSeq
<1>2. q \in Seq(T \cup {e})
  <2>1. q \in [1..Len(q) -> T \cup {e}] /\ Len(q) \in Nat
    BY <1>1
  <2>2. QED
    BY <2>1
<1>3. Append(q, e) \in Seq(T \cup {e})
  BY <1>2
<1>4. IsSeq(Append(q, e))
  BY <1>3 DEF IsSeq
<1>5. QED
  BY <1>2, <1>4

LEMMA SeqTail ==
    ASSUME NEW q, IsSeq(q), q # <<>>
    PROVE  /\ IsSeq(Tail(q)) /\ Len(q) \in Nat /\ Len(Tail(q)) \in Nat
           /\ 1 \in 1..Len(q) /\ Head(q) = q[1]
           /\ \A i \in 1..Len(Tail(q)) : i + 1 \in 1..Len(q) /\ Tail(q)[i] = q[i + 1]
<1>1. PICK T : q \in Seq(T)
  BY DEF IsSeq
<1>2. Tail(q) \in Seq(T) /\ Len(q) \in Nat \ {0} /\ Len(Tail(q)) = Len(q) - 1
  BY <1>1
<1>3. IsSeq(Tail(q))
  BY <1>2 DEF IsSeq
<1>4. QED
  BY <1>1, <1>2, <1>3

LEMMA SeqConcat ==
    ASSUME NEW q, IsSeq(q), NEW n \in Nat, NEW p, p = [i \in 1..n |-> p[i]]
    PROVE  /\ IsSeq(q \o p) /\ Len(q) \in Nat
           /\ \A i \in 1..Len(q \o p) :
                \/ i \in 1..Len(q) /\ (q \o p)[i] = q[i]
                \/ i - Len(q) \in 1..n /\ (q \o p)[i] = p[i - Len(q)]
<1>1. PICK T : q \in Seq(T)
  BY DEF IsSeq
<1> DEFINE U == T \cup {p[i] : i \in 1..n}
<1>2. q \in Seq(U)
  <2>1. q \in [1..Len(q) -> U] /\ Len(q) \in Nat
    BY <1>1
  <2>2. QED
    BY <2>1
<1>3. p \in Seq(U) /\ Len(p) = n
  <2>1. p \in [1..n -> U]
    OBVIOUS
  <2>2. p \in Seq(U)
    BY <2>1
  <2>3. QED
    BY <2>1, <2>2
<1> HIDE DEF U
<1>4. q \o p \in Seq(U) /\ Len(q) \in Nat /\ Len(q \o p) = Len(q) + n
  BY <1>2, <1>3
<1>5. IsSeq(q \o p)
  BY <1>4 DEF IsSeq
<1>6. ASSUME NEW i \in 1..Len(q \o p)
      PROVE  \/ i \in 1..Len(q) /\ (q \o p)[i] = q[i]
             \/ i - Len(q) \in 1..n /\ (q \o p)[i] = p[i - Len(q)]
  BY <1>2, <1>3, <1>4
<1>7. QED
  BY <1>4, <1>5, <1>6

-----------------------------------------------------------------------------
(* The invariant.  Its parts take what they are about as parameters: R     *)
(* stands for reqs, q for requestList, ib and ob for the RPCs and the      *)
(* answers of one server.                                                  *)

Late == {"logging", "failing", "answered"}

Rec == [kind : {"allocate", "truncate"},
        state : {"none", "layout", "ready", "stuck", "lost"} \cup Late,
        id : 0..NumIds, vers : Nat, servers : SUBSET Servers, alive : SUBSET Servers,
        waiting : SUBSET Servers, failed : BOOLEAN]
Msg == [op : {"alloc", "vers", "stale"}, id : 0..NumIds, vers : Nat, req : 0..MaxReqs,
        live : BOOLEAN]
Answer == [req : Reqs, ok : BOOLEAN]
Version == [id : 0..NumIds, vers : Nat]

Types ==
    /\ tree \in Version /\ log \in Version /\ genid \in Nat \ {0}
    /\ hosts \in [Ids -> SUBSET Servers] /\ servers \subseteq Servers

\* Only a request in its layout waits.
ReqsOK(R) == R \in [Reqs -> Rec] /\ \A r \in Reqs : R[r].waiting # {} => R[r].state = "layout"

\* A layout waits for the request thread once, and only while the request is
\* ready for it; other requests that wait there, or for the logger, are past their
\* layout.
ItemOK(x, R) ==
    /\ x.op = "layout" => x.req \in Reqs /\ R[x.req].state = "ready"
    /\ x.op \in {"inc", "truncate"} => x.req \in Reqs /\ R[x.req].state \in Late
    /\ x.op = "hello" => x.server \in Servers
ListOK(q, R) ==
    /\ IsSeq(q)
    /\ \A i \in 1..Len(q) : ItemOK(q[i], R)
    /\ \A i, j \in 1..Len(q) :
         q[i].op = "layout" /\ q[j].op = "layout" /\ q[i].req = q[j].req => i = j
PendingOK(p, R) == p \in Seq(Reqs) /\ \A i \in 1..Len(p) : R[p[i]].state \in Late

\* A request waits for every server that has an RPC of it to answer or an answer to
\* it under way, and the server has one of the two, once.
Asks(m, r) == m.live /\ m.req = r
ServerOK(s, ib, ob, R) ==
    /\ \A i \in 1..Len(ib) : \A r \in Reqs : Asks(ib[i], r) =>
         /\ s \in R[r].waiting
         /\ \A a \in ob : a.req # r
         /\ \A j \in 1..Len(ib) : Asks(ib[j], r) => i = j
    /\ \A a \in ob : s \in R[a.req].waiting /\ \A b \in ob : a.req = b.req => a = b
ServersOK(R) ==
    /\ inbox \in [Servers -> Seq(Msg)] /\ outbox \in [Servers -> SUBSET Answer]
    /\ \A s \in Servers : ServerOK(s, inbox[s], outbox[s], R)

\* As long as the tree has no chunk, the chunks of the layouts under way are in the
\* map, and no two layouts have the same one, so that none can take it away from
\* another.
Active(x) == x.state \in {"layout", "ready"}
PlacedOK(R, t, mp, g) ==
    t.id = 0 => \A r \in Reqs : Active(R[r]) =>
       /\ R[r].id \in mp /\ R[r].id \in 1..g - 1
       /\ \A u \in Reqs : Active(R[u]) /\ R[u].id = R[r].id => u = r

Inv == /\ Types /\ ReqsOK(reqs) /\ ListOK(requestList, reqs) /\ PendingOK(pending, reqs)
       /\ ServersOK(reqs) /\ PlacedOK(reqs, tree, mapped, genid) /\ TreeChunkMapped

-----------------------------------------------------------------------------
(* Lemmas about the parts. *)

LEMMA Lists ==
    ASSUME NEW q, NEW R, ListOK(q, R), q # <<>>
    PROVE  /\ ListOK(Tail(q), R) /\ ItemOK(Head(q), R)
           /\ \A i \in 1..Len(Tail(q)) :
                Tail(q)[i].op = "layout" /\ Head(q).op = "layout" => Tail(q)[i].req # Head(q).req
<1> DEFINE t == Tail(q)
<1>1. /\ IsSeq(t) /\ Len(q) \in Nat /\ Len(t) \in Nat /\ 1 \in 1..Len(q) /\ Head(q) = q[1]
      /\ \A i \in 1..Len(t) : i + 1 \in 1..Len(q) /\ t[i] = q[i + 1]
  BY SeqTail DEF ListOK
<1> HIDE DEF t
<1>2. ListOK(t, R) /\ ItemOK(Head(q), R)
  BY <1>1 DEF ListOK
<1>3. ASSUME NEW i \in 1..Len(t), t[i].op = "layout", Head(q).op = "layout", t[i].req = Head(q).req
      PROVE  FALSE
  <2>1. i + 1 = 1
    BY <1>1, <1>3 DEF ListOK
  <2>2. QED
    BY <1>1, <2>1
<1>4. QED
  BY <1>2, <1>3 DEF t

LEMMA ListsAppend ==
    ASSUME NEW q, NEW R, ListOK(q, R), NEW x, ItemOK(x, R),
           x.op = "layout" => \A i \in 1..Len(q) : q[i].op = "layout" => q[i].req # x.req
    PROVE  ListOK(Append(q, x), R)
<1> DEFINE p == Append(q, x)
<1>1. /\ IsSeq(p) /\ Len(q) \in Nat
      /\ \A i \in 1..Len(p) : \/ i \in 1..Len(q) /\ p[i] = q[i]
                              \/ i = Len(q) + 1 /\ p[i] = x
  BY SeqAppend DEF ListOK
<1> HIDE DEF p
<1>2. \A i \in 1..Len(p) : ItemOK(p[i], R)
  BY <1>1 DEF ListOK
<1>3. ASSUME NEW i \in 1..Len(p), NEW j \in 1..Len(p),
             p[i].op = "layout", p[j].op = "layout", p[i].req = p[j].req
      PROVE  i = j
  BY <1>1, <1>3 DEF ListOK
<1>4. QED
  BY <1>1, <1>2, <1>3 DEF ListOK, p

\* A request that moves on is not listed any more, or is Late and stays so.
LEMMA ListsMove ==
    ASSUME NEW q, NEW R, ListOK(q, R), NEW R2,
           \A i \in 1..Len(q) : q[i].op = "layout" => R2[q[i].req].state = "ready",
           \A r \in Reqs : R[r].state \in Late => R2[r].state \in Late
    PROVE  ListOK(q, R2)
BY DEF ListOK, ItemOK

\* The requests D come out of their layouts, each of them once.
LayoutItems(p, n, D) ==
    /\ n \in Nat /\ p = [i \in 1..n |-> p[i]]
    /\ \A i \in 1..n : p[i].op = "layout" /\ p[i].req \in D
    /\ \A i, j \in 1..n : p[i].req = p[j].req => i = j

LEMMA ListsConcat ==
    ASSUME NEW q, NEW R, ListOK(q, R), NEW D \in SUBSET Reqs, NEW p, NEW n, LayoutItems(p, n, D),
           \A r \in D : R[r].state = "ready",
           \A i \in 1..Len(q) : q[i].op = "layout" => q[i].req \notin D
    PROVE  ListOK(q \o p, R)
<1>1. /\ n \in Nat /\ p = [i \in 1..n |-> p[i]]
      /\ \A i \in 1..n : p[i].op = "layout" /\ p[i].req \in D
      /\ \A i, j \in 1..n : p[i].req = p[j].req => i = j
  BY DEF LayoutItems
<1> DEFINE u == q \o p
           Old(i) == i \in 1..Len(q) /\ u[i] = q[i]
           New(i) == i - Len(q) \in 1..n /\ u[i] = p[i - Len(q)]
<1>2. IsSeq(q)
  BY DEF ListOK
<1>3. IsSeq(u) /\ Len(q) \in Nat /\ \A i \in 1..Len(u) : Old(i) \/ New(i)
  <2>1. n \in Nat /\ p = [i \in 1..n |-> p[i]]
    BY <1>1
  <2>2. QED
    BY <1>2, <2>1, SeqConcat
<1> HIDE DEF u
<1>4. \A i \in 1..n : ItemOK(p[i], R)
  BY <1>1 DEF ItemOK
<1>5. \A i \in 1..Len(u) : ItemOK(u[i], R)
  BY <1>3, <1>4 DEF ListOK
<1>6. ASSUME NEW i \in 1..Len(u), NEW j \in 1..Len(u),
             u[i].op = "layout", u[j].op = "layout", u[i].req = u[j].req
      PROVE  i = j
  <2>1. CASE Old(i) /\ Old(j)
    BY <1>6, <2>1 DEF ListOK
  <2>2. CASE New(i) /\ New(j)
    <3>1. i - Len(q) = j - Len(q)
      BY <1>1, <1>6, <2>2
    <3>2. QED
      BY <1>3, <3>1
  <2>3. CASE Old(i) /\ New(j)
    BY <1>1, <1>6, <2>3
  <2>4. CASE New(i) /\ Old(j)
    BY <1>1, <1>6, <2>4
  <2>5. QED
    BY <1>3, <2>1, <2>2, <2>3, <2>4
<1>7. QED
  BY <1>3, <1>5, <1>6 DEF ListOK, u

LEMMA LayoutDoneItems ==
    ASSUME InOrderLists, NEW rs \in SUBSET Reqs, NEW s, NEW D, D = {r \in rs : reqs[r].waiting = {s}}
    PROVE  LayoutItems(LayoutDone(rs, s), Cardinality(D), D)
<1>2. D \in SUBSET Reqs
  OBVIOUS
<1> DEFINE n == Cardinality(D)
           p == LayoutDone(rs, s)
<1>5. /\ n \in Nat
      /\ \A i \in 1..n : InOrder(D)[i] \in D
      /\ \A i, j \in 1..n : InOrder(D)[i] = InOrder(D)[j] => i = j
  BY <1>2 DEF InOrderLists, Listed
<1>6. p = [i \in 1..n |-> Item("layout", InOrder(D)[i], 0, NoChunks)]
  BY DEF LayoutDone
<1> HIDE DEF p, n
<1>7. p = [i \in 1..n |-> p[i]]
  BY <1>6
<1>8. \A i \in 1..n : p[i].op = "layout" /\ p[i].req = InOrder(D)[i]
  BY <1>6 DEF Item
<1>9. LayoutItems(p, n, D)
  BY <1>5, <1>7, <1>8 DEF LayoutItems
<1>10. QED
  BY <1>9 DEF p, n

\* A server goes on with its RPCs while requests wait for it as before.
LEMMA ServerMove ==
    ASSUME NEW s, NEW ib, NEW ob \in SUBSET Answer, NEW R, NEW R2, ServerOK(s, ib, ob, R),
           \A r \in Reqs : s \in R[r].waiting => s \in R2[r].waiting
    PROVE  ServerOK(s, ib, ob, R2)
BY DEF ServerOK, Answer

\* A server gets RPCs that nobody waits for.
LEMMA ServerTold ==
    ASSUME NEW s, NEW ib \in Seq(Msg), NEW ob, NEW R, ServerOK(s, ib, ob, R),
           NEW p \in Seq(Msg), \A i \in 1..Len(p) : p[i].req = 0
    PROVE  ServerOK(s, ib \o p, ob, R) /\ ib \o p \in Seq(Msg)
<1> DEFINE u == ib \o p
<1>1. u \in Seq(Msg) /\ Len(ib) \in Nat
  OBVIOUS
<1>2. \A i \in 1..Len(u) : \/ i \in 1..Len(ib) /\ u[i] = ib[i]
                           \/ u[i].req = 0
  OBVIOUS
<1> HIDE DEF u
<1>3. \A r \in Reqs : r # 0
  BY DEF Reqs
<1>4. \A i \in 1..Len(u) : \A r \in Reqs : Asks(u[i], r) => i \in 1..Len(ib) /\ Asks(ib[i], r)
  BY <1>2, <1>3 DEF Asks
<1>5. ServerOK(s, u, ob, R)
  BY <1>4 DEF ServerOK
<1>6. QED
  BY <1>1, <1>5 DEF u

\* A request that does not wait moves on, to a state that is not part of a layout.
LEMMA LateMove ==
    ASSUME Inv, NEW r \in Reqs, NEW x \in Rec, x.waiting = {}, ~Active(x),
           reqs[r].state \in Late => x.state \in Late,
           reqs[r].waiting = {}, reqs' = [reqs EXCEPT ![r] = x]
    PROVE  /\ ReqsOK(reqs') /\ PendingOK(pending, reqs')
           /\ \A s \in Servers : ServerOK(s, inbox[s], outbox[s], reqs')
           /\ \A u \in Reqs : reqs[u].state \in Late => reqs'[u].state \in Late
           /\ \A u \in Reqs : Active(reqs'[u]) => u # r /\ reqs'[u] = reqs[u]
           /\ \A u \in Reqs : u # r => reqs'[u] = reqs[u]
           /\ reqs'[r] = x
<1>1. reqs \in [Reqs -> Rec]
  BY DEF Inv, ReqsOK
<1>2. reqs' \in [Reqs -> Rec] /\ reqs'[r] = x /\ \A u \in Reqs : u # r => reqs'[u] = reqs[u]
  BY <1>1
<1>3. ReqsOK(reqs')
  BY <1>2 DEF Inv, ReqsOK
<1>4. PendingOK(pending, reqs')
  <2>1. pending \in Seq(Reqs) /\ \A i \in 1..Len(pending) : pending[i] \in Reqs
    BY DEF Inv, PendingOK
  <2>2. QED
    BY <1>2, <2>1 DEF Inv, PendingOK
<1>5. ASSUME NEW s \in Servers PROVE ServerOK(s, inbox[s], outbox[s], reqs')
  <2>1. \A u \in Reqs : s \in reqs[u].waiting => s \in reqs'[u].waiting
    BY <1>2
  <2>2. outbox[s] \in SUBSET Answer /\ ServerOK(s, inbox[s], outbox[s], reqs)
    BY DEF Inv, ServersOK
  <2>3. QED
    BY <2>1, <2>2, ServerMove
<1>6. QED
  BY <1>2, <1>3, <1>4, <1>5

-----------------------------------------------------------------------------
(* The steps. *)

LEMMA StepFrame ==
    ASSUME Inv, UNCHANGED <<tree, genid, mapped, hosts, reqs, requestList, pending, servers, log,
                            inbox, outbox>>
    PROVE  Inv'
<1>1. ServersOK(reqs)' /\ Types' /\ TreeChunkMapped'
  BY DEF Inv, ServersOK, Types, TreeChunkMapped
<1>2. QED
  BY <1>1 DEF Inv

LEMMA StepSendHello ==
    ASSUME Inv, NEW s \in Servers, SendHello(s)
    PROVE  Inv'
<1> DEFINE x == Item("hello", 0, s, [c \in Ids |-> disk[s][c].vers])
<1>1. requestList' = Append(requestList, x)
  BY DEF SendHello
<1>2. x.op = "hello" /\ x.server = s
  BY DEF Item
<1> HIDE DEF x
<1>3. ListOK(requestList', reqs)
  BY <1>1, <1>2, ListsAppend DEF Inv, ItemOK
<1>4. UNCHANGED <<tree, genid, mapped, hosts, reqs, pending, servers, log, inbox, outbox>>
  BY DEF SendHello, memory, chunkservers
<1>5. ServersOK(reqs)' /\ Types' /\ TreeChunkMapped'
  BY <1>4 DEF Inv, ServersOK, Types, TreeChunkMapped
<1>6. QED
  BY <1>3, <1>4, <1>5 DEF Inv

LEMMA StepTruncate ==
    ASSUME Inv, handle_truncate
    PROVE  Inv'
<1> DEFINE r == Head(requestList).req
           x == [reqs[r] EXCEPT !.state = "answered"]
<1>1. requestList # <<>> /\ Head(requestList).op = "truncate" /\ requestList' = Tail(requestList)
  BY DEF handle_truncate, Handling
<1>2. /\ ListOK(Tail(requestList), reqs) /\ ItemOK(Head(requestList), reqs)
  BY <1>1, Lists DEF Inv
<1>3. r \in Reqs /\ reqs[r].state \in Late
  BY <1>1, <1>2 DEF ItemOK
<1>4. reqs' = [reqs EXCEPT ![r] = x]
  BY <1>3 DEF handle_truncate, Inv, ReqsOK
<1>5. reqs[r] \in Rec /\ reqs[r].waiting = {}
  BY <1>3 DEF Inv, ReqsOK, Late
<1>6. x \in Rec /\ x.waiting = {} /\ x.state \in Late /\ ~Active(x)
  BY <1>5 DEF Rec, Late, Active
<1> HIDE DEF x, r
<1>7. /\ ReqsOK(reqs') /\ PendingOK(pending, reqs')
      /\ \A s \in Servers : ServerOK(s, inbox[s], outbox[s], reqs')
      /\ \A u \in Reqs : reqs[u].state \in Late => reqs'[u].state \in Late
      /\ \A u \in Reqs : Active(reqs'[u]) => u # r /\ reqs'[u] = reqs[u]
      /\ \A u \in Reqs : u # r => reqs'[u] = reqs[u]
  BY <1>3, <1>4, <1>5, <1>6, LateMove
<1>8. ListOK(requestList', reqs')
  <2>1. \A i \in 1..Len(Tail(requestList)) : Tail(requestList)[i].op = "layout" =>
           reqs'[Tail(requestList)[i].req].state = "ready"
    BY <1>2, <1>3, <1>7 DEF ListOK, ItemOK, Late
  <2>2. QED
    BY <1>1, <1>2, <1>7, <2>1, ListsMove
<1>9. UNCHANGED <<tree, genid, mapped, hosts, pending, servers, log, inbox, outbox>>
  BY DEF handle_truncate, memory, chunkservers
<1>10. PlacedOK(reqs', tree, mapped, genid)
  BY <1>7 DEF Inv, PlacedOK
<1>11. ServersOK(reqs)' /\ Types' /\ TreeChunkMapped'
  BY <1>7, <1>9 DEF Inv, ServersOK, Types, TreeChunkMapped
<1>12. QED
  BY <1>7, <1>8, <1>9, <1>10, <1>11 DEF Inv

LEMMA StepInc ==
    ASSUME Inv, handle_change_chunkVersionInc
    PROVE  Inv'
<1> DEFINE r == Head(requestList).req
<1>1. requestList # <<>> /\ Head(requestList).op = "inc" /\ requestList' = Tail(requestList)
  BY DEF handle_change_chunkVersionInc, Handling
<1>2. ListOK(Tail(requestList), reqs) /\ ItemOK(Head(requestList), reqs)
  BY <1>1, Lists DEF Inv
<1>3. r \in Reqs /\ reqs[r].state \in Late
  BY <1>1, <1>2 DEF ItemOK
<1>4. pending' = Append(pending, r)
  BY DEF handle_change_chunkVersionInc
<1> HIDE DEF r
<1>5. PendingOK(pending', reqs)
  <2>1. pending \in Seq(Reqs)
    BY DEF Inv, PendingOK
  <2>2. /\ pending' \in Seq(Reqs)
        /\ \A i \in 1..Len(pending') : \/ i \in 1..Len(pending) /\ pending'[i] = pending[i]
                                       \/ pending'[i] = r
    BY <1>3, <1>4, <2>1
  <2>3. QED
    BY <1>3, <2>2 DEF Inv, PendingOK
<1>6. UNCHANGED <<tree, genid, mapped, hosts, reqs, servers, log, inbox, outbox>>
  BY DEF handle_change_chunkVersionInc, memory, chunkservers
<1>7. ServersOK(reqs)' /\ Types' /\ TreeChunkMapped'
  BY <1>6 DEF Inv, ServersOK, Types, TreeChunkMapped
<1>8. QED
  BY <1>1, <1>2, <1>5, <1>6, <1>7 DEF Inv

\* logger_main: the request stays late, and the log keeps a chunk id of the model.
LEMMA StepLogger ==
    ASSUME Inv, logger_main
    PROVE  Inv'
<1> DEFINE r == Head(pending)
           x == [reqs[r] EXCEPT !.state = "answered"]
           e == Item("truncate", r, 0, NoChunks)
<1>1. pending \in Seq(Reqs) /\ pending # <<>> /\ pending' = Tail(pending)
  BY DEF logger_main, Inv, PendingOK
<1>2. r \in Reqs /\ reqs[r].state \in Late
  BY <1>1 DEF Inv, PendingOK
<1>3. reqs \in [Reqs -> Rec] /\ reqs[r] \in Rec /\ reqs[r].waiting = {}
  BY <1>2 DEF Inv, ReqsOK, Late
<1>4. x \in Rec /\ x.waiting = {} /\ x.state \in Late /\ ~Active(x)
  BY <1>3 DEF Rec, Late, Active
<1>5. log' \in Version
  <2>1. reqs[r].id \in 0..NumIds /\ reqs[r].vers \in Nat /\ log \in Version
    BY <1>3 DEF Rec, Inv, Types
  <2>2. CASE UNCHANGED log
    BY <2>1, <2>2
  <2>3. CASE replay_allocate(reqs[r].id, reqs[r].vers)
    BY <2>1, <2>3 DEF replay_allocate, Version
  <2>4. QED
    BY <2>2, <2>3 DEF logger_main
<1>6. UNCHANGED <<tree, genid, mapped, hosts, servers, inbox, outbox>>
  BY DEF logger_main, memory, chunkservers
<1>7. \/ requestList' = Append(requestList, e) /\ reqs' = reqs
      \/ requestList' = requestList /\ reqs' = [reqs EXCEPT ![r] = x]
  BY <1>2, <1>3 DEF logger_main
<1>8. e.op = "truncate" /\ e.req = r
  BY DEF Item
<1> HIDE DEF x, r, e
<1>9. Types' /\ TreeChunkMapped'
  BY <1>5, <1>6 DEF Inv, Types, TreeChunkMapped
<1>10. ASSUME NEW R, PendingOK(pending, R) PROVE PendingOK(pending', R)
  <2>1. pending' \in Seq(Reqs) /\ \A i \in 1..Len(pending') : i + 1 \in 1..Len(pending) /\ pending'[i] = pending[i + 1]
    BY <1>1
  <2>2. QED
    BY <1>10, <2>1 DEF PendingOK
<1>11. CASE requestList' = Append(requestList, e) /\ reqs' = reqs
  <2>1. ListOK(requestList', reqs)
    BY <1>2, <1>8, <1>11, ListsAppend DEF Inv, ItemOK
  <2>2. PendingOK(pending', reqs)
    BY <1>10 DEF Inv
  <2>3. ServersOK(reqs)'
    BY <1>6, <1>11 DEF Inv, ServersOK
  <2>4. QED
    BY <1>6, <1>9, <1>11, <2>1, <2>2, <2>3 DEF Inv
<1>12. CASE requestList' = requestList /\ reqs' = [reqs EXCEPT ![r] = x]
  <2>1. /\ ReqsOK(reqs') /\ PendingOK(pending, reqs')
        /\ \A s \in Servers : ServerOK(s, inbox[s], outbox[s], reqs')
        /\ \A u \in Reqs : reqs[u].state \in Late => reqs'[u].state \in Late
        /\ \A u \in Reqs : Active(reqs'[u]) => u # r /\ reqs'[u] = reqs[u]
        /\ \A u \in Reqs : u # r => reqs'[u] = reqs[u]
    BY <1>2, <1>3, <1>4, <1>12, LateMove
  <2>2. ListOK(requestList, reqs')
    <3>1. \A i \in 1..Len(requestList) : requestList[i].op = "layout" =>
             reqs'[requestList[i].req].state = "ready"
      BY <1>2, <2>1 DEF Inv, ListOK, ItemOK, Late
    <3>2. QED
      BY <2>1, <3>1, ListsMove DEF Inv
  <2>3. PlacedOK(reqs', tree, mapped, genid)
    BY <2>1 DEF Inv, PlacedOK
  <2>4. ServersOK(reqs)'
    BY <1>6, <2>1 DEF Inv, ServersOK
  <2>5. QED
    BY <1>6, <1>9, <1>10, <1>12, <2>1, <2>2, <2>3, <2>4 DEF Inv
<1>13. QED
  BY <1>7, <1>11, <1>12

LEMMA StepBye ==
    ASSUME Inv, handle_bye
    PROVE  Inv'
<1>1. requestList # <<>> /\ requestList' = Tail(requestList)
  BY DEF handle_bye, Handling
<1>2. ListOK(requestList', reqs)
  BY <1>1, Lists DEF Inv
<1>3. UNCHANGED <<tree, genid, mapped, reqs, pending, log, inbox, outbox>>
  BY DEF handle_bye, chunkservers
<1>4. Types'
  BY <1>3 DEF handle_bye, Inv, Types
<1>5. ServersOK(reqs)' /\ TreeChunkMapped'
  BY <1>3 DEF Inv, ServersOK, TreeChunkMapped
<1>6. QED
  BY <1>2, <1>3, <1>4, <1>5 DEF Inv

\* handle_hello: nobody waits for the notices a server is sent.
LEMMA StepHello ==
    ASSUME InOrderLists, Inv, handle_hello
    PROVE  Inv'
<1> DEFINE s == Head(requestList).server
           chunks == Head(requestList).chunks
<1>1. requestList # <<>> /\ Head(requestList).op = "hello" /\ requestList' = Tail(requestList)
  BY DEF handle_hello, Handling
<1>2. ListOK(requestList', reqs) /\ s \in Servers
  BY <1>1, Lists DEF Inv, ItemOK
<1>3. UNCHANGED <<tree, genid, mapped, reqs, pending, log, outbox>>
  BY DEF handle_hello
<1>4. UNCHANGED <<hosts, inbox, servers>> \/ AddNewServer(s, chunks)
  BY DEF handle_hello
<1> HIDE DEF s, chunks
<1>5. CASE UNCHANGED <<hosts, inbox, servers>>
  <2>1. ServersOK(reqs)' /\ Types' /\ TreeChunkMapped'
    BY <1>3, <1>5 DEF Inv, ServersOK, Types, TreeChunkMapped
  <2>2. QED
    BY <1>2, <1>3, <2>1 DEF Inv
<1>6. CASE AddNewServer(s, chunks)
  <2> DEFINE kept == {c \in Ids : c = tree.id /\ tree.vers <= chunks[c] /\ c \in mapped}
             N == {c \in Ids : chunks[c] # 0 /\ (c \in kept => tree.vers < chunks[c])}
             Notice(c) == IF c \in kept THEN RPC("vers", c, tree.vers, 0) ELSE RPC("stale", c, 0, 0)
             n == Cardinality(N)
             p == [i \in 1..n |-> Notice(InOrder(N)[i])]
  <2>1. /\ hosts' = [c \in Ids |-> IF c \in kept THEN hosts[c] \cup {s} ELSE hosts[c]]
        /\ inbox' = [inbox EXCEPT ![s] = @ \o p]
        /\ servers' = servers \cup {s}
    BY <1>6 DEF AddNewServer
  <2>2. N \in SUBSET Ids
    OBVIOUS
  <2>3. \A c \in Ids : Notice(c) \in Msg /\ Notice(c).req = 0
    BY AllocAssumption DEF Inv, Types, Version, RPC, Msg, Ids
  <2> HIDE DEF N, Notice
  <2>4. n \in Nat /\ \A i \in 1..n : InOrder(N)[i] \in Ids
    BY <2>2 DEF InOrderLists, Listed
  <2> HIDE DEF n
  <2>5. p \in Seq(Msg) /\ Len(p) = n /\ \A i \in 1..Len(p) : p[i].req = 0
    <3>1. p \in [1..n -> Msg]
      BY <2>3, <2>4
    <3>2. p \in Seq(Msg) /\ Len(p) = n
      BY <2>4, <3>1
    <3>3. QED
      BY <2>3, <2>4, <3>2
  <2> HIDE DEF p
  <2>6. inbox \in [Servers -> Seq(Msg)] /\ outbox \in [Servers -> SUBSET Answer]
    BY DEF Inv, ServersOK
  <2>7. ServerOK(s, inbox[s] \o p, outbox[s], reqs) /\ inbox[s] \o p \in Seq(Msg)
    BY <1>2, <2>5, <2>6, ServerTold DEF Inv, ServersOK
  <2>8. ServersOK(reqs)'
    BY <1>2, <1>3, <2>1, <2>6, <2>7 DEF Inv, ServersOK
  <2>9. Types' /\ TreeChunkMapped'
    BY <1>2, <1>3, <2>1 DEF Inv, Types, TreeChunkMapped
  <2>10. QED
    BY <1>2, <1>3, <2>8, <2>9 DEF Inv
<1>7. QED
  BY <1>4, <1>5, <1>6

\* A notice that nobody waits for is sent to some servers.
LEMMA SendNotice ==
    ASSUME NEW R, ServersOK(R), NEW S, NEW m \in Msg, m.req = 0, Send(S, m)
    PROVE  /\ inbox' \in [Servers -> Seq(Msg)]
           /\ \A s \in Servers : ServerOK(s, inbox'[s], outbox[s], R)
<1>1. inbox \in [Servers -> Seq(Msg)]
  BY DEF ServersOK
<1>2. ASSUME NEW s \in Servers
      PROVE  inbox'[s] \in Seq(Msg) /\ ServerOK(s, inbox'[s], outbox[s], R)
  <2>1. inbox'[s] = inbox[s] \/ inbox'[s] = Append(inbox[s], m)
    BY DEF Send
  <2>2. inbox[s] \in Seq(Msg) /\ ServerOK(s, inbox[s], outbox[s], R)
    BY <1>1 DEF ServersOK
  <2>3. <<m>> \in Seq(Msg) /\ \A i \in 1..Len(<<m>>) : <<m>>[i].req = 0
    OBVIOUS
  <2>4. Append(inbox[s], m) = inbox[s] \o <<m>>
    BY <2>2
  <2>5. ServerOK(s, inbox[s] \o <<m>>, outbox[s], R) /\ inbox[s] \o <<m>> \in Seq(Msg)
    BY <2>2, <2>3, ServerTold
  <2>6. QED
    BY <2>1, <2>2, <2>4, <2>5
<1>3. inbox' = [s \in Servers |-> inbox'[s]]
  BY DEF Send
<1>4. QED
  BY <1>2, <1>3

\* handle_layoutDone: the layout that ends takes its chunk into the tree, or takes
\* it out of the map; no other layout has the same chunk.
LEMMA StepLayoutDone ==
    ASSUME Inv, handle_layoutDone
    PROVE  Inv'
<1> DEFINE r == Head(requestList).req
           q == reqs[r]
<1>1. requestList # <<>> /\ Head(requestList).op = "layout"
  BY DEF handle_layoutDone, Handling
<1>2. /\ ListOK(Tail(requestList), reqs) /\ ItemOK(Head(requestList), reqs)
      /\ \A i \in 1..Len(Tail(requestList)) :
           Tail(requestList)[i].op = "layout" => Tail(requestList)[i].req # r
  BY <1>1, Lists DEF Inv
<1>3. r \in Reqs /\ q.state = "ready"
  BY <1>1, <1>2 DEF ItemOK
<1>4. reqs \in [Reqs -> Rec] /\ q \in Rec /\ q.waiting = {}
  BY <1>3 DEF Inv, ReqsOK
<1>5. UNCHANGED <<genid, servers, log, outbox>> /\ (LayoutSucceeds(r) \/ LayoutFails(r))
  BY DEF handle_layoutDone
<1>6. tree.id = 0 => q.id \in mapped /\ q.id # 0
  BY <1>3 DEF Inv, PlacedOK, Active
<1>7. q.id \in 0..NumIds /\ q.vers \in Nat /\ tree \in Version /\ tree.id \in 0..NumIds /\ tree.vers \in Nat
  BY <1>4 DEF Rec, Version, Inv, Types
<1>8. q.state \notin Late
  BY <1>3 DEF Late
<1> HIDE DEF r
<1>9. ASSUME NEW x \in Rec, x.waiting = {}, x.state \in Late, reqs' = [reqs EXCEPT ![r] = x]
      PROVE  /\ ReqsOK(reqs') /\ PendingOK(pending, reqs')
             /\ \A s \in Servers : ServerOK(s, inbox[s], outbox[s], reqs')
             /\ \A u \in Reqs : Active(reqs'[u]) => u # r /\ reqs'[u] = reqs[u]
             /\ reqs'[r] = x /\ ListOK(Tail(requestList), reqs')
  <2>1. ~Active(x)
    BY <1>9 DEF Active, Late
  <2>2. /\ ReqsOK(reqs') /\ PendingOK(pending, reqs')
        /\ \A s \in Servers : ServerOK(s, inbox[s], outbox[s], reqs')
        /\ \A u \in Reqs : reqs[u].state \in Late => reqs'[u].state \in Late
        /\ \A u \in Reqs : Active(reqs'[u]) => u # r /\ reqs'[u] = reqs[u]
        /\ \A u \in Reqs : u # r => reqs'[u] = reqs[u]
        /\ reqs'[r] = x
    BY <1>3, <1>4, <1>9, <2>1, LateMove
  <2>3. \A i \in 1..Len(Tail(requestList)) : Tail(requestList)[i].op = "layout" =>
           reqs'[Tail(requestList)[i].req].state = "ready"
    BY <1>2, <2>2 DEF ListOK, ItemOK
  <2>4. QED
    BY <1>2, <2>2, <2>3, ListsMove
<1>10. CASE LayoutSucceeds(r)
  <2> DEFINE x == [q EXCEPT !.state = "logging", !.failed = (tree.id # 0 /\ tree.vers = q.vers)]
  <2>1. /\ reqs' = [reqs EXCEPT ![r] = x] /\ tree' = assignChunkId(q.id, q.vers)
        /\ pending' = Append(pending, r) /\ requestList' = Tail(requestList)
        /\ UNCHANGED <<mapped, hosts, inbox>>
    BY <1>3, <1>4, <1>10 DEF LayoutSucceeds
  <2>2. x \in Rec /\ x.waiting = {} /\ x.state \in Late
    BY <1>4 DEF Rec, Late
  <2> HIDE DEF x
  <2>3. /\ ReqsOK(reqs') /\ PendingOK(pending, reqs')
        /\ \A s \in Servers : ServerOK(s, inbox[s], outbox[s], reqs')
        /\ reqs'[r] = x /\ ListOK(Tail(requestList), reqs')
    BY <1>9, <2>1, <2>2
  <2>4. PendingOK(pending', reqs')
    <3>1. pending \in Seq(Reqs)
      BY DEF Inv, PendingOK
    <3>2. /\ pending' \in Seq(Reqs)
          /\ \A i \in 1..Len(pending') : \/ i \in 1..Len(pending) /\ pending'[i] = pending[i]
                                         \/ pending'[i] = r
      BY <1>3, <2>1, <3>1
    <3>3. QED
      BY <2>2, <2>3, <3>2 DEF PendingOK
  <2>5. tree' \in Version /\ tree'.id # 0 /\ tree'.id \in mapped
    <3>1. CASE tree.id = 0
      BY <1>6, <1>7, <2>1, <3>1 DEF assignChunkId, Version
    <3>2. CASE tree.id # 0
      BY <1>7, <2>1, <3>2 DEF assignChunkId, Version, Inv, TreeChunkMapped
    <3>3. QED
      BY <3>1, <3>2
  <2>6. Types' /\ TreeChunkMapped' /\ PlacedOK(reqs', tree', mapped', genid')
    BY <1>5, <2>1, <2>5 DEF Inv, Types, TreeChunkMapped, PlacedOK
  <2>7. ServersOK(reqs)'
    BY <1>5, <2>1, <2>3 DEF Inv, ServersOK
  <2>8. QED
    BY <2>1, <2>3, <2>4, <2>6, <2>7 DEF Inv
<1>11. CASE LayoutFails(r)
  <2> DEFINE x == [q EXCEPT !.state = "failing"]
             e == Item("inc", r, 0, NoChunks)
             m == RPC("vers", q.id, tree.vers, 0)
  <2>1. /\ reqs' = [reqs EXCEPT ![r] = x] /\ UNCHANGED <<tree, pending>>
        /\ requestList' = Append(Tail(requestList), e)
        /\ \/ tree.id = q.id /\ Send(q.alive, m) /\ UNCHANGED <<mapped, hosts>>
           \/ /\ tree.id # q.id /\ mapped' = mapped \ {q.id}
              /\ hosts' = [hosts EXCEPT ![q.id] = {}] /\ UNCHANGED inbox
    BY <1>3, <1>4, <1>11 DEF LayoutFails
  <2>2. x \in Rec /\ x.waiting = {} /\ x.state \in Late
    BY <1>4 DEF Rec, Late
  <2>3. e.op = "inc" /\ e.req = r
    BY DEF Item
  <2>4. m \in Msg /\ m.req = 0
    BY <1>7, AllocAssumption DEF RPC, Msg
  <2> HIDE DEF x, e, m
  <2>5. /\ ReqsOK(reqs') /\ PendingOK(pending, reqs')
        /\ \A s \in Servers : ServerOK(s, inbox[s], outbox[s], reqs')
        /\ \A u \in Reqs : Active(reqs'[u]) => u # r /\ reqs'[u] = reqs[u]
        /\ reqs'[r] = x /\ ListOK(Tail(requestList), reqs')
    BY <1>9, <2>1, <2>2
  <2>6. ListOK(requestList', reqs')
    <3>1. PICK R : R = reqs'
      OBVIOUS
    <3>2. ItemOK(e, R)
      BY <1>3, <2>2, <2>3, <2>5, <3>1 DEF ItemOK
    <3>3. ListOK(Append(Tail(requestList), e), R)
      BY <2>3, <2>5, <3>1, <3>2, ListsAppend
    <3>4. QED
      BY <2>1, <3>1, <3>3
  <2>7. ServersOK(reqs)'
    <3>1. inbox \in [Servers -> Seq(Msg)] /\ outbox \in [Servers -> SUBSET Answer]
      BY DEF Inv, ServersOK
    <3>2. CASE UNCHANGED inbox
      BY <1>5, <2>5, <3>1, <3>2 DEF ServersOK
    <3>3. CASE Send(q.alive, m)
      <4>1. PICK R : R = reqs'
        OBVIOUS
      <4>2. ServersOK(R)
        BY <2>5, <3>1, <4>1 DEF ServersOK
      <4>3. /\ inbox' \in [Servers -> Seq(Msg)]
            /\ \A s \in Servers : ServerOK(s, inbox'[s], outbox[s], R)
        BY <2>4, <3>3, <4>2, SendNotice
      <4>4. QED
        BY <1>5, <3>1, <4>1, <4>3 DEF ServersOK
    <3>4. QED
      BY <2>1, <3>2, <3>3
  <2>8. Types'
    BY <1>5, <2>1 DEF Inv, Types
  <2>9. TreeChunkMapped'
    BY <2>1 DEF Inv, TreeChunkMapped
  <2>10. PlacedOK(reqs', tree', mapped', genid')
    <3>1. ASSUME tree.id = 0, NEW u \in Reqs, Active(reqs'[u])
          PROVE  /\ reqs'[u].id \in mapped' /\ reqs'[u].id \in 1..genid - 1
                 /\ \A v \in Reqs : Active(reqs'[v]) /\ reqs'[v].id = reqs'[u].id => v = u
      <4>1. u # r /\ reqs'[u] = reqs[u] /\ Active(reqs[u]) /\ Active(q)
        BY <1>3, <2>5, <3>1 DEF Active
      <4>2. reqs[u].id \in mapped /\ reqs[u].id \in 1..genid - 1 /\ reqs[u].id # q.id
        BY <1>3, <3>1, <4>1 DEF Inv, PlacedOK
      <4>3. reqs[u].id \in mapped'
        BY <2>1, <4>2
      <4>4. \A v \in Reqs : Active(reqs'[v]) /\ reqs'[v].id = reqs'[u].id => v = u
        BY <2>5, <3>1, <4>1 DEF Inv, PlacedOK
      <4>5. QED
        BY <4>1, <4>2, <4>3, <4>4
    <3>2. QED
      BY <1>5, <2>1, <3>1 DEF PlacedOK
  <2>11. QED
    BY <2>1, <2>5, <2>6, <2>7, <2>8, <2>9, <2>10 DEF Inv
<1>12. QED
  BY <1>5, <1>10, <1>11

\* A new request that ends, or goes to the logger, without a layout.
LEMMA NewRequest ==
    ASSUME Inv, NEW r \in Reqs, reqs[r].state = "none", NEW x \in Rec, x.waiting = {}, ~Active(x),
           reqs' = [reqs EXCEPT ![r] = x]
    PROVE  /\ ReqsOK(reqs') /\ PendingOK(pending, reqs') /\ ListOK(requestList, reqs')
           /\ \A s \in Servers : ServerOK(s, inbox[s], outbox[s], reqs')
           /\ PlacedOK(reqs', tree, mapped, genid) /\ reqs'[r] = x
<1>1. reqs[r].waiting = {} /\ reqs[r].state \notin Late
  BY DEF Inv, ReqsOK, Late
<1>2. /\ ReqsOK(reqs') /\ PendingOK(pending, reqs')
      /\ \A s \in Servers : ServerOK(s, inbox[s], outbox[s], reqs')
      /\ \A u \in Reqs : reqs[u].state \in Late => reqs'[u].state \in Late
      /\ \A u \in Reqs : Active(reqs'[u]) => u # r /\ reqs'[u] = reqs[u]
      /\ \A u \in Reqs : u # r => reqs'[u] = reqs[u]
      /\ reqs'[r] = x
  BY <1>1, LateMove
<1>3. ListOK(requestList, reqs')
  <2>1. \A i \in 1..Len(requestList) : requestList[i].op = "layout" =>
           reqs'[requestList[i].req].state = "ready"
    BY <1>2 DEF Inv, ListOK, ItemOK
  <2>2. QED
    BY <1>2, <2>1, ListsMove DEF Inv
<1>4. PlacedOK(reqs', tree, mapped, genid)
  BY <1>2 DEF Inv, PlacedOK
<1>5. QED
  BY <1>2, <1>3, <1>4

\* Request r is under way for chunk c, and the other requests are as before.
LaidOut(r, c) ==
    /\ ReqsOK(reqs') /\ PendingOK(pending, reqs') /\ ListOK(requestList', reqs')
    /\ ServersOK(reqs)'
    /\ \A u \in Reqs : u # r => reqs'[u] = reqs[u]
    /\ reqs'[r].id = c

\* Layout: the servers that get the RPC are the ones that the request waits for.
LEMMA LayoutParts ==
    ASSUME Inv, NEW r \in Reqs, reqs[r].state = "none", NEW kind \in {"allocate", "truncate"},
           NEW c \in Ids, NEW v \in Nat, NEW S \in SUBSET Servers, Layout(r, kind, c, v, S),
           UNCHANGED outbox
    PROVE  LaidOut(r, c)
<1> DEFINE up == {s \in S : conn[s] = "up"}
           m == RPC("alloc", c, v, r)
           x == [kind |-> kind, state |-> IF up = {} THEN "ready" ELSE "layout",
                 id |-> c, vers |-> v, servers |-> S, alive |-> up, waiting |-> up,
                 failed |-> up # S]
           e == Item("layout", r, 0, NoChunks)
<1>1. /\ inbox' = [s \in Servers |-> IF s \in up THEN Append(inbox[s], m) ELSE inbox[s]]
      /\ reqs' = [reqs EXCEPT ![r] = x]
      /\ requestList' = IF up = {} THEN Append(requestList, e) ELSE requestList
  BY DEF Layout, Send
<1>2. /\ up \in SUBSET Servers /\ x \in Rec /\ x.waiting = up /\ x.id = c
      /\ (up # {} => x.state = "layout") /\ (up = {} => x.state = "ready")
  <2>1. up \in SUBSET Servers /\ S \in SUBSET Servers /\ c \in 0..NumIds /\ (up # S) \in BOOLEAN
    BY AllocAssumption DEF Ids
  <2> HIDE DEF up
  <2>2. x.waiting = up /\ x.id = c /\ (up # {} => x.state = "layout") /\ (up = {} => x.state = "ready")
    OBVIOUS
  <2>3. CASE up = {}
    BY <2>1, <2>3 DEF Rec
  <2>4. CASE up # {}
    BY <2>1, <2>4 DEF Rec
  <2>5. QED
    BY <2>1, <2>2, <2>3, <2>4
<1>3. m \in Msg /\ m.live /\ m.req = r
  BY AllocAssumption DEF RPC, Msg, Ids, Reqs
<1>4. e.op = "layout" /\ e.req = r
  BY DEF Item
<1> HIDE DEF up, m, x, e
<1>5. reqs \in [Reqs -> Rec] /\ reqs[r].waiting = {} /\ reqs[r].state \notin Late
  BY DEF Inv, ReqsOK, Late
<1>6. reqs' \in [Reqs -> Rec] /\ reqs'[r] = x /\ \A u \in Reqs : u # r => reqs'[u] = reqs[u]
  BY <1>1, <1>2, <1>5
<1>7. ReqsOK(reqs')
  BY <1>2, <1>6 DEF Inv, ReqsOK
<1>8. PendingOK(pending, reqs')
  <2>1. pending \in Seq(Reqs) /\ \A i \in 1..Len(pending) : pending[i] \in Reqs
    BY DEF Inv, PendingOK
  <2>2. QED
    BY <1>5, <1>6, <2>1 DEF Inv, PendingOK
<1>9. ListOK(requestList', reqs')
  <2>1. \A i \in 1..Len(requestList) : requestList[i].op = "layout" =>
           requestList[i].req # r /\ reqs'[requestList[i].req].state = "ready"
    BY <1>6 DEF Inv, ListOK, ItemOK
  <2>2. PICK R : R = reqs'
    OBVIOUS
  <2>3. ListOK(requestList, R)
    <3>1. ListOK(requestList, reqs)
      BY DEF Inv
    <3>2. \A i \in 1..Len(requestList) : requestList[i].op = "layout" => R[requestList[i].req].state = "ready"
      BY <2>1, <2>2
    <3>3. \A u \in Reqs : reqs[u].state \in Late => R[u].state \in Late
      BY <1>5, <1>6, <2>2
    <3>4. QED
      BY <3>1, <3>2, <3>3, ListsMove
  <2>4. CASE up = {}
    <3>1. ItemOK(e, R)
      BY <1>2, <1>4, <1>6, <2>2, <2>4 DEF ItemOK
    <3>2. ListOK(Append(requestList, e), R)
      BY <1>4, <2>1, <2>3, <3>1, ListsAppend
    <3>3. QED
      BY <1>1, <2>2, <2>4, <3>2
  <2>5. CASE up # {}
    BY <1>1, <2>2, <2>3, <2>5
  <2>6. QED
    BY <2>4, <2>5
<1>10. inbox \in [Servers -> Seq(Msg)] /\ outbox \in [Servers -> SUBSET Answer]
  BY DEF Inv, ServersOK
<1>11. inbox' \in [Servers -> Seq(Msg)]
  <2>1. \A s \in Servers : inbox[s] \in Seq(Msg) /\ Append(inbox[s], m) \in Seq(Msg)
    BY <1>3, <1>10
  <2>2. QED
    BY <1>1, <2>1
<1>12. ASSUME NEW s \in Servers PROVE ServerOK(s, inbox'[s], outbox[s], reqs')
  <2>1. ServerOK(s, inbox[s], outbox[s], reqs) /\ inbox[s] \in Seq(Msg) /\ outbox[s] \in SUBSET Answer
    BY <1>10 DEF Inv, ServersOK
  <2>2. \A u \in Reqs : s \in reqs[u].waiting => u # r /\ s \in reqs'[u].waiting
    BY <1>5, <1>6
  <2>3. ServerOK(s, inbox[s], outbox[s], reqs')
    BY <2>1, <2>2, ServerMove
  <2>4. CASE s \notin up
    BY <1>1, <2>3, <2>4
  <2>5. CASE s \in up
    <3> DEFINE b == Append(inbox[s], m)
    <3>1. /\ Len(inbox[s]) \in Nat /\ Len(b) = Len(inbox[s]) + 1 /\ b[Len(b)] = m
          /\ \A i \in 1..Len(inbox[s]) : b[i] = inbox[s][i]
      BY <1>3, <2>1
    <3>2. inbox'[s] = b
      BY <1>1, <2>5
    <3> HIDE DEF b
    <3>3. s \in reqs'[r].waiting
      BY <1>2, <1>6, <2>5
    <3>4. \A i \in 1..Len(inbox[s]) : ~Asks(inbox[s][i], r)
      BY <2>1, <2>2 DEF ServerOK
    <3>5. \A a \in outbox[s] : a.req # r
      BY <2>1, <2>2 DEF ServerOK, Answer
    <3>6. \A u \in Reqs : Asks(m, u) => u = r
      BY <1>3 DEF Asks
    <3>7. ASSUME NEW i \in 1..Len(b), NEW u \in Reqs, Asks(b[i], u)
          PROVE  \/ u = r /\ i = Len(b)
                 \/ u # r /\ i \in 1..Len(inbox[s]) /\ Asks(inbox[s][i], u)
      <4>1. i = Len(b) \/ i \in 1..Len(inbox[s])
        BY <3>1
      <4>2. QED
        BY <3>1, <3>4, <3>6, <3>7, <4>1
    <3>8. ASSUME NEW i \in 1..Len(b), NEW u \in Reqs, Asks(b[i], u)
          PROVE  /\ s \in reqs'[u].waiting
                 /\ \A a \in outbox[s] : a.req # u
                 /\ \A j \in 1..Len(b) : Asks(b[j], u) => i = j
      <4>1. CASE u = r
        BY <3>3, <3>5, <3>7, <3>8, <4>1
      <4>2. CASE u # r
        BY <2>3, <3>7, <3>8, <4>2 DEF ServerOK
      <4>3. QED
        BY <4>1, <4>2
    <3>9. ServerOK(s, b, outbox[s], reqs')
      BY <2>3, <3>8 DEF ServerOK
    <3>10. QED
      BY <3>2, <3>9
  <2>6. QED
    BY <2>4, <2>5
<1>13. ServersOK(reqs)'
  BY <1>10, <1>11, <1>12 DEF ServersOK
<1>14. QED
  BY <1>2, <1>6, <1>7, <1>8, <1>9, <1>13 DEF LaidOut

\* handle_allocate: a new layout has a chunk of its own as long as the tree has none.
LEMMA StepAllocate ==
    ASSUME Inv, NEW r \in Reqs, NEW kind \in Kinds, handle_allocate(r, kind)
    PROVE  Inv'
<1>1. reqs[r].state = "none" /\ kind \in {"allocate", "truncate"}
  BY AllocAssumption DEF handle_allocate
<1>2. UNCHANGED <<tree, servers, log, outbox>>
  BY DEF handle_allocate
<1>3. /\ Types /\ TreeChunkMapped /\ ServersOK(reqs) /\ tree.id \in 0..NumIds /\ tree.vers \in Nat
      /\ genid \in Nat \ {0}
  BY DEF Inv, Types, Version
<1>4. CASE Ended(r, kind) /\ UNCHANGED <<genid, mapped, hosts, inbox, requestList, pending>>
  <2> DEFINE x == [NoReq EXCEPT !.kind = kind,
                                !.state = IF kind = "truncate" THEN "stuck" ELSE "answered"]
  <2>1. reqs' = [reqs EXCEPT ![r] = x]
    BY <1>4 DEF Ended
  <2>2. x \in Rec /\ x.waiting = {} /\ ~Active(x)
    <3>1. 0 \in 0..NumIds /\ 0 \in Nat
      BY AllocAssumption
    <3>2. CASE kind = "truncate"
      BY <3>1, <3>2 DEF NoReq, Rec, Active
    <3>3. CASE kind = "allocate"
      BY <3>1, <3>3 DEF NoReq, Rec, Active, Late
    <3>4. QED
      BY <1>1, <3>2, <3>3
  <2> HIDE DEF x
  <2>3. /\ ReqsOK(reqs') /\ PendingOK(pending, reqs') /\ ListOK(requestList, reqs')
        /\ \A s \in Servers : ServerOK(s, inbox[s], outbox[s], reqs')
        /\ PlacedOK(reqs', tree, mapped, genid)
    BY <1>1, <2>1, <2>2, NewRequest
  <2>4. ServersOK(reqs)' /\ Types' /\ TreeChunkMapped'
    BY <1>2, <1>3, <1>4, <2>3 DEF ServersOK, Types, TreeChunkMapped
  <2>5. QED
    BY <1>2, <1>4, <2>3, <2>4 DEF Inv
<1>5. CASE AllocateChunk(r, kind)
  <2>1. CASE Ended(r, kind) /\ UNCHANGED <<genid, mapped, hosts, lease, inbox, requestList, issued, reissued>>
    BY <1>4, <1>5, <2>1 DEF AllocateChunk
  <2>2. ASSUME NEW S \in SUBSET {s \in servers : conn[s] = "up"} \ {{}},
               genid <= NumIds, genid' = genid + 1, mapped' = mapped \cup {genid},
               hosts' = [hosts EXCEPT ![genid] = S], Layout(r, kind, genid, chunkVersionInc, S)
        PROVE  Inv'
    <3>1. S \in SUBSET Servers /\ genid \in Ids /\ chunkVersionInc \in Nat
      BY <1>3, <2>2, AllocAssumption DEF Types, Ids, chunkVersionInc
    <3>11. Layout(r, kind, genid, chunkVersionInc, S) /\ UNCHANGED outbox
      BY <1>2, <2>2
    <3>2. /\ ReqsOK(reqs') /\ PendingOK(pending, reqs') /\ ListOK(requestList', reqs')
          /\ ServersOK(reqs)'
          /\ \A u \in Reqs : u # r => reqs'[u] = reqs[u]
          /\ reqs'[r].id = genid
      <4>1. LaidOut(r, genid)
        BY <1>1, <3>1, <3>11, LayoutParts
      <4>2. QED
        BY <4>1 DEF LaidOut
    <3>3. pending' = pending
      BY <1>5 DEF AllocateChunk
    <3>4. Types' /\ TreeChunkMapped'
      <4>1. genid' \in Nat \ {0}
        <5>1. genid \in Nat \ {0} /\ genid' = genid + 1
          BY <1>3, <2>2, Zenon
        <5>2. QED
          BY <5>1
      <4>2. hosts' \in [Ids -> SUBSET Servers]
        BY <1>3, <2>2, <3>1 DEF Types
      <4>3. mapped \subseteq mapped'
        BY <2>2
      <4>4. QED
        BY <1>2, <1>3, <4>1, <4>2, <4>3 DEF Types, TreeChunkMapped
    <3>5. ASSUME tree.id = 0, NEW u \in Reqs, Active(reqs'[u])
          PROVE  /\ reqs'[u].id \in mapped' /\ reqs'[u].id \in 1..genid' - 1
                 /\ \A w \in Reqs : Active(reqs'[w]) /\ reqs'[w].id = reqs'[u].id => w = u
      <4>1. \A w \in Reqs : w # r /\ Active(reqs'[w]) =>
               /\ reqs'[w].id \in mapped /\ reqs'[w].id \in 1..genid - 1
               /\ \A z \in Reqs : z # r /\ Active(reqs'[z]) /\ reqs'[z].id = reqs'[w].id => z = w
        BY <3>2, <3>5 DEF Inv, PlacedOK
      <4>2. genid \notin 1..genid - 1 /\ genid \in 1..genid' - 1 /\ 1..genid - 1 \subseteq 1..genid' - 1
        BY <1>3, <2>2
      <4>3. QED
        BY <2>2, <3>2, <3>5, <4>1, <4>2
    <3>6. PlacedOK(reqs', tree', mapped', genid')
      BY <1>2, <3>5 DEF PlacedOK
    <3>7. QED
      BY <3>2, <3>3, <3>4, <3>6 DEF Inv
  <2>3. QED
    BY <1>5, <2>1, <2>2 DEF AllocateChunk
<1>6. CASE GetChunkWriteLease(r, kind)
  <2>1. tree.id # 0 /\ tree.id \in Ids /\ UNCHANGED <<genid, mapped, hosts>>
    BY <1>3, <1>6, AllocAssumption DEF GetChunkWriteLease, Ids
  <2>2. Types' /\ TreeChunkMapped' /\ \A R : PlacedOK(R, tree', mapped', genid')
    BY <1>2, <1>3, <2>1 DEF Types, TreeChunkMapped, PlacedOK
  <2>3. CASE Ended(r, kind) /\ UNCHANGED <<lease, inbox, requestList, pending, issued, reissued>>
    BY <1>4, <2>1, <2>3
  <2>4. CASE /\ reqs' = [reqs EXCEPT ![r] = [NoReq EXCEPT !.state = "logging", !.id = tree.id,
                                               !.vers = tree.vers, !.servers = hosts[tree.id]]]
             /\ pending' = Append(pending, r)
             /\ UNCHANGED <<lease, inbox, requestList, issued, reissued>>
    <3> DEFINE x == [NoReq EXCEPT !.state = "logging", !.id = tree.id,
                                  !.vers = tree.vers, !.servers = hosts[tree.id]]
    <3>1. hosts[tree.id] \in SUBSET Servers
      BY <1>3, <2>1 DEF Types
    <3>2. x \in Rec /\ x.waiting = {} /\ ~Active(x) /\ x.state \in Late
      BY <1>3, <3>1 DEF NoReq, Rec, Active, Late
    <3>3. reqs' = [reqs EXCEPT ![r] = x]
      BY <2>4
    <3> HIDE DEF x
    <3>4. /\ ReqsOK(reqs') /\ PendingOK(pending, reqs') /\ ListOK(requestList, reqs')
          /\ \A s \in Servers : ServerOK(s, inbox[s], outbox[s], reqs')
          /\ reqs'[r] = x
      BY <1>1, <3>2, <3>3, NewRequest
    <3>5. PendingOK(pending', reqs')
      <4>1. pending \in Seq(Reqs)
        BY DEF Inv, PendingOK
      <4>2. /\ pending' \in Seq(Reqs)
            /\ \A i \in 1..Len(pending') : \/ i \in 1..Len(pending) /\ pending'[i] = pending[i]
                                           \/ pending'[i] = r
        BY <2>4, <4>1
      <4>3. QED
        BY <3>2, <3>4, <4>2 DEF PendingOK
    <3>6. ServersOK(reqs)'
      BY <1>2, <1>3, <2>4, <3>4 DEF ServersOK
    <3>7. QED
      BY <2>2, <2>4, <3>4, <3>5, <3>6 DEF Inv
  <2>5. CASE /\ Layout(r, kind, tree.id, tree.vers + chunkVersionInc, hosts[tree.id])
             /\ UNCHANGED pending
    <3>1. hosts[tree.id] \in SUBSET Servers /\ tree.vers + chunkVersionInc \in Nat
      BY <1>3, <2>1 DEF Types, chunkVersionInc
    <3>2. /\ ReqsOK(reqs') /\ PendingOK(pending, reqs') /\ ListOK(requestList', reqs')
          /\ ServersOK(reqs)'
      <4>1. LaidOut(r, tree.id)
        BY <1>1, <1>2, <2>1, <2>5, <3>1, LayoutParts
      <4>2. QED
        BY <4>1 DEF LaidOut
    <3>3. QED
      BY <2>2, <2>5, <3>2 DEF Inv
  <2>6. QED
    BY <1>6, <2>3, <2>4, <2>5 DEF GetChunkWriteLease
<1>7. QED
  BY <1>5, <1>6 DEF handle_allocate

\* ResumeOp: the requests rs, which wait for server s, wait for it no longer.  R2 is
\* what becomes of the requests.
LEMMA ResumedParts ==
    ASSUME InOrderLists, Inv, NEW s \in Servers, NEW rs \in SUBSET Reqs, \A r \in rs : s \in reqs[r].waiting,
           NEW R2 \in [Reqs -> Rec],
           \A r \in Reqs \ rs : R2[r].waiting = reqs[r].waiting /\ R2[r].state = reqs[r].state,
           \A r \in Reqs : R2[r].id = reqs[r].id,
           \A r \in rs : /\ R2[r].waiting = reqs[r].waiting \ {s}
                         /\ R2[r].state = IF reqs[r].waiting = {s} THEN "ready" ELSE reqs[r].state
    PROVE  /\ ReqsOK(R2) /\ PendingOK(pending, R2) /\ ListOK(requestList \o LayoutDone(rs, s), R2)
           /\ PlacedOK(R2, tree, mapped, genid)
           /\ \A t \in Servers \ {s} : ServerOK(t, inbox[t], outbox[t], R2)
<1> DEFINE D == {r \in rs : reqs[r].waiting = {s}}
           p == LayoutDone(rs, s)
           n == Cardinality(D)
<1>1. \A r \in rs : reqs[r].state = "layout" /\ reqs[r].state \notin Late
  BY DEF Inv, ReqsOK, Late
<1>2. \A r \in rs : R2[r].state \in {"layout", "ready"}
  BY <1>1
<1>3. \A r \in Reqs : R2[r].waiting # {} => R2[r].state = "layout"
  <2>1. ASSUME NEW r \in rs, R2[r].waiting # {} PROVE R2[r].state = "layout"
    BY <1>1, <2>1
  <2>2. \A r \in Reqs \ rs : R2[r].waiting # {} => R2[r].state = "layout"
    BY DEF Inv, ReqsOK
  <2>3. QED
    BY <2>1, <2>2
<1>4. \A r \in Reqs : reqs[r].state \in Late => R2[r].state \in Late
  BY <1>1
<1>5. PendingOK(pending, R2)
  <2>1. pending \in Seq(Reqs) /\ \A i \in 1..Len(pending) : pending[i] \in Reqs
    BY DEF Inv, PendingOK
  <2>2. QED
    BY <1>4, <2>1 DEF Inv, PendingOK
<1>6. \A i \in 1..Len(requestList) : requestList[i].op = "layout" =>
         requestList[i].req \notin rs /\ R2[requestList[i].req].state = "ready"
  BY <1>1 DEF Inv, ListOK, ItemOK
<1>7. ListOK(requestList, R2)
  BY <1>4, <1>6, ListsMove DEF Inv
<1>8. LayoutItems(p, n, D) /\ D \in SUBSET Reqs
  BY LayoutDoneItems
<1>9. \A r \in D : R2[r].state = "ready" /\ r \in rs
  OBVIOUS
<1> HIDE DEF D, n, p
<1>10. ListOK(requestList \o p, R2)
  <2>1. \A r \in D : R2[r].state = "ready"
    BY <1>9
  <2>2. \A i \in 1..Len(requestList) :
           requestList[i].op = "layout" => requestList[i].req \notin D
    BY <1>6, <1>9
  <2>3. QED
    BY <1>7, <1>8, <2>1, <2>2, ListsConcat
<1>11. \A r \in Reqs : Active(R2[r]) => Active(reqs[r])
  <2>1. \A r \in rs : Active(reqs[r])
    BY <1>1 DEF Active
  <2>2. \A r \in Reqs \ rs : Active(R2[r]) => Active(reqs[r])
    BY DEF Active
  <2>3. QED
    BY <2>1, <2>2
<1>12. PlacedOK(R2, tree, mapped, genid)
  BY <1>11 DEF Inv, PlacedOK
<1>13. ASSUME NEW t \in Servers \ {s} PROVE ServerOK(t, inbox[t], outbox[t], R2)
  <2>1. outbox[t] \in SUBSET Answer /\ ServerOK(t, inbox[t], outbox[t], reqs)
    BY DEF Inv, ServersOK
  <2>2. \A r \in Reqs : t \in reqs[r].waiting => t \in R2[r].waiting
    OBVIOUS
  <2>3. QED
    BY <2>1, <2>2, ServerMove
<1>14. QED
  BY <1>3, <1>5, <1>10, <1>12, <1>13 DEF ReqsOK, p

\* An answer is the last that its server says to the request.
LEMMA StepReply ==
    ASSUME InOrderLists, Inv, NEW s \in Servers, HandleReply(s)
    PROVE  Inv'
<1>1. inbox \in [Servers -> Seq(Msg)] /\ outbox \in [Servers -> SUBSET Answer]
  BY DEF Inv, ServersOK
<1>2. PICK m \in outbox[s] :
         /\ outbox' = [outbox EXCEPT ![s] = @ \ {m}]
         /\ reqs' = Resumed({m.req}, s, m.ok)
         /\ requestList' = requestList \o LayoutDone({m.req}, s)
  BY DEF HandleReply
<1>3. UNCHANGED <<tree, genid, mapped, hosts, pending, servers, log, inbox>>
  BY DEF HandleReply, memory
<1>4. m \in Answer /\ m.req \in Reqs /\ m.ok \in BOOLEAN
  BY <1>1, <1>2 DEF Answer
<1> DEFINE r == m.req
<1>5. ServerOK(s, inbox[s], outbox[s], reqs)
  BY DEF Inv, ServersOK
<1>6. s \in reqs[r].waiting /\ reqs \in [Reqs -> Rec]
  BY <1>2, <1>5 DEF ServerOK, Inv, ReqsOK
<1>7. PICK R2 : R2 = reqs'
  OBVIOUS
<1> DEFINE left == reqs[r].waiting \ {s}
           x == [reqs[r] EXCEPT !.waiting = left, !.failed = @ \/ ~m.ok,
                                !.state = IF left = {} THEN "ready" ELSE @]
<1>8. R2 = [u \in Reqs |-> IF u \notin {r} THEN reqs[u] ELSE x]
  BY <1>2, <1>7 DEF Resumed
<1>9. /\ x \in Rec /\ x.waiting = reqs[r].waiting \ {s} /\ x.id = reqs[r].id
      /\ x.state = IF reqs[r].waiting = {s} THEN "ready" ELSE reqs[r].state
  <2>1. reqs[r] \in Rec
    BY <1>4, <1>6
  <2>2. left = {} <=> reqs[r].waiting = {s}
    BY <1>6
  <2>3. left \in SUBSET Servers
    BY <2>1 DEF Rec
  <2>4. (reqs[r].failed \/ ~m.ok) \in BOOLEAN
    OBVIOUS
  <2>5. (IF left = {} THEN "ready" ELSE reqs[r].state) \in {"none", "layout", "ready", "stuck", "lost"} \cup Late
    BY <2>1 DEF Rec
  <2> HIDE DEF left
  <2>6. x \in Rec /\ x.waiting = left /\ x.id = reqs[r].id
        /\ x.state = IF left = {} THEN "ready" ELSE reqs[r].state
    BY <2>1, <2>3, <2>4, <2>5 DEF Rec
  <2>7. QED
    BY <2>2, <2>6 DEF left
<1> HIDE DEF x, left
<1>10. /\ R2 \in [Reqs -> Rec] /\ R2[r] = x /\ \A u \in Reqs \ {r} : R2[u] = reqs[u]
  BY <1>4, <1>6, <1>8, <1>9
<1>11. /\ ReqsOK(R2) /\ PendingOK(pending, R2) /\ ListOK(requestList \o LayoutDone({r}, s), R2)
       /\ PlacedOK(R2, tree, mapped, genid)
       /\ \A t \in Servers \ {s} : ServerOK(t, inbox[t], outbox[t], R2)
  <2>1. \A u \in Reqs : R2[u].id = reqs[u].id
    BY <1>9, <1>10
  <2>2. \A u \in {r} : /\ R2[u].waiting = reqs[u].waiting \ {s}
                       /\ R2[u].state = IF reqs[u].waiting = {s} THEN "ready" ELSE reqs[u].state
    BY <1>9, <1>10
  <2>3. {r} \in SUBSET Reqs /\ \A u \in {r} : s \in reqs[u].waiting
    BY <1>4, <1>6
  <2>4. \A u \in Reqs \ {r} : R2[u].waiting = reqs[u].waiting /\ R2[u].state = reqs[u].state
    BY <1>10
  <2>5. R2 \in [Reqs -> Rec]
    BY <1>10
  <2> HIDE DEF r
  <2>6. QED
    BY <2>1, <2>2, <2>3, <2>4, <2>5, ResumedParts
<1>12. ServerOK(s, inbox[s], outbox[s] \ {m}, R2)
  <2>1. \A u \in Reqs : u # r /\ s \in reqs[u].waiting => s \in R2[u].waiting
    BY <1>10
  <2>2. \A i \in 1..Len(inbox[s]) : ~Asks(inbox[s][i], r)
    BY <1>2, <1>4, <1>5 DEF ServerOK
  <2>3. \A a \in outbox[s] \ {m} : a.req # r /\ a.req \in Reqs
    <3>1. \A a \in outbox[s] : a.req \in Reqs
      BY <1>1 DEF Answer
    <3>2. \A a \in outbox[s] : a.req = m.req => a = m
      BY <1>2, <1>5 DEF ServerOK
    <3>3. QED
      BY <3>1, <3>2
  <2>4. QED
    BY <1>5, <2>1, <2>2, <2>3 DEF ServerOK
<1>13. ServersOK(reqs)'
  <2>1. outbox' \in [Servers -> SUBSET Answer]
    BY <1>1, <1>2
  <2>2. ASSUME NEW t \in Servers PROVE ServerOK(t, inbox[t], outbox'[t], R2)
    <3>1. CASE t = s
      BY <1>1, <1>2, <1>12, <3>1
    <3>2. CASE t # s
      BY <1>1, <1>2, <1>11, <3>2
    <3>3. QED
      BY <3>1, <3>2
  <2>3. QED
    BY <1>1, <1>3, <1>7, <2>1, <2>2 DEF ServersOK
<1>14. Types' /\ TreeChunkMapped'
  BY <1>3 DEF Inv, Types, TreeChunkMapped
<1>15. QED
  BY <1>2, <1>3, <1>7, <1>11, <1>13, <1>14 DEF Inv

\* A server answers an RPC that it takes from its queue.
LEMMA StepExecute ==
    ASSUME Inv, NEW s \in Servers, Execute(s)
    PROVE  Inv'
<1> DEFINE m == Head(inbox[s])
           b == Tail(inbox[s])
           Ans(ok) == [req |-> m.req, ok |-> ok]
<1>1. inbox \in [Servers -> Seq(Msg)] /\ outbox \in [Servers -> SUBSET Answer]
  BY DEF Inv, ServersOK
<1>2. inbox[s] \in Seq(Msg) /\ inbox[s] # <<>> /\ inbox' = [inbox EXCEPT ![s] = b]
  BY <1>1 DEF Execute
<1>3. /\ m \in Msg /\ b \in Seq(Msg) /\ m = inbox[s][1] /\ 1 \in 1..Len(inbox[s])
      /\ \A i \in 1..Len(b) : i + 1 \in 1..Len(inbox[s]) /\ i + 1 # 1 /\ b[i] = inbox[s][i + 1]
  BY <1>2
<1>4. UNCHANGED <<tree, genid, mapped, hosts, reqs, requestList, pending, servers, log>>
  BY DEF Execute, memory
<1>5. \/ outbox' = outbox
      \/ /\ m.live /\ m.req # 0
         /\ \E ok \in BOOLEAN : outbox' = [outbox EXCEPT ![s] = @ \cup {Ans(ok)}]
  BY DEF Execute
<1>6. ServerOK(s, inbox[s], outbox[s], reqs)
  BY DEF Inv, ServersOK
<1> HIDE DEF m, b
<1>7. ServerOK(s, b, outbox[s], reqs)
  <2>1. \A i \in 1..Len(b) : \A r \in Reqs : Asks(b[i], r) => Asks(inbox[s][i + 1], r)
    BY <1>3
  <2>2. ASSUME NEW i \in 1..Len(b), NEW r \in Reqs, Asks(b[i], r)
        PROVE  /\ s \in reqs[r].waiting
               /\ \A a \in outbox[s] : a.req # r
               /\ \A j \in 1..Len(b) : Asks(b[j], r) => i = j
    <3>1. i + 1 \in 1..Len(inbox[s]) /\ Asks(inbox[s][i + 1], r)
      BY <1>3, <2>1, <2>2
    <3>2. \A j \in 1..Len(inbox[s]) : Asks(inbox[s][j], r) => i + 1 = j
      BY <1>6, <3>1 DEF ServerOK
    <3>3. ASSUME NEW j \in 1..Len(b), Asks(b[j], r) PROVE i = j
      <4>1. i + 1 = j + 1
        BY <1>3, <2>1, <3>2, <3>3
      <4>2. QED
        BY <4>1
    <3>4. QED
      BY <1>6, <3>1, <3>3 DEF ServerOK
  <2>3. QED
    BY <1>6, <2>2 DEF ServerOK
<1>8. ASSUME m.live, m.req # 0, NEW ok \in BOOLEAN
      PROVE  ServerOK(s, b, outbox[s] \cup {Ans(ok)}, reqs) /\ Ans(ok) \in Answer
  <2>1. m.req \in Reqs
    BY <1>3, <1>8, AllocAssumption DEF Msg, Reqs
  <2>2. Asks(m, m.req)
    BY <1>8 DEF Asks
  <2>3. /\ s \in reqs[m.req].waiting /\ \A a \in outbox[s] : a.req # m.req
        /\ \A j \in 1..Len(inbox[s]) : Asks(inbox[s][j], m.req) => 1 = j
    BY <1>3, <1>6, <2>1, <2>2 DEF ServerOK
  <2>4. \A i \in 1..Len(b) : ~Asks(b[i], m.req)
    BY <1>3, <2>3
  <2>5. Ans(ok).req = m.req /\ Ans(ok) \in Answer
    BY <2>1 DEF Answer
  <2> HIDE DEF Ans
  <2>6. ASSUME NEW i \in 1..Len(b), NEW r \in Reqs, Asks(b[i], r)
        PROVE  /\ s \in reqs[r].waiting
               /\ \A a \in outbox[s] \cup {Ans(ok)} : a.req # r
               /\ \A j \in 1..Len(b) : Asks(b[j], r) => i = j
    <3>1. /\ s \in reqs[r].waiting /\ \A a \in outbox[s] : a.req # r
          /\ \A j \in 1..Len(b) : Asks(b[j], r) => i = j
      BY <1>7, <2>6 DEF ServerOK
    <3>2. m.req # r
      BY <2>4, <2>6
    <3>3. QED
      BY <2>5, <3>1, <3>2
  <2>7. ASSUME NEW a \in outbox[s] \cup {Ans(ok)}
        PROVE  /\ s \in reqs[a.req].waiting
               /\ \A d \in outbox[s] \cup {Ans(ok)} : a.req = d.req => a = d
    <3>1. \A d \in outbox[s] : /\ s \in reqs[d.req].waiting
                                /\ \A e \in outbox[s] : d.req = e.req => d = e
      BY <1>7 DEF ServerOK
    <3>2. QED
      BY <2>3, <2>5, <3>1
  <2>8. QED
    BY <2>5, <2>6, <2>7 DEF ServerOK
<1>9. outbox' \in [Servers -> SUBSET Answer] /\ ServerOK(s, b, outbox'[s], reqs)
      /\ \A t \in Servers \ {s} : outbox'[t] = outbox[t]
  <2>1. CASE outbox' = outbox
    BY <1>1, <1>7, <2>1
  <2>2. ASSUME m.live, m.req # 0, NEW ok \in BOOLEAN, outbox' = [outbox EXCEPT ![s] = @ \cup {Ans(ok)}]
        PROVE  /\ outbox' \in [Servers -> SUBSET Answer] /\ ServerOK(s, b, outbox'[s], reqs)
               /\ \A t \in Servers \ {s} : outbox'[t] = outbox[t]
    <3>1. ServerOK(s, b, outbox[s] \cup {Ans(ok)}, reqs) /\ Ans(ok) \in Answer
      BY <1>8, <2>2
    <3> HIDE DEF Ans
    <3>2. outbox'[s] = outbox[s] \cup {Ans(ok)}
      BY <1>1, <2>2
    <3>3. QED
      BY <1>1, <2>2, <3>1, <3>2
  <2>3. QED
    BY <1>5, <2>1, <2>2
<1>10. ServersOK(reqs)'
  <2>1. inbox' \in [Servers -> Seq(Msg)]
    BY <1>1, <1>2, <1>3
  <2>2. ASSUME NEW t \in Servers PROVE ServerOK(t, inbox'[t], outbox'[t], reqs)
    <3>1. CASE t = s
      BY <1>1, <1>2, <1>9, <3>1
    <3>2. CASE t # s
      BY <1>1, <1>2, <1>9, <3>2 DEF Inv, ServersOK
    <3>3. QED
      BY <3>1, <3>2
  <2>3. QED
    BY <1>4, <1>9, <2>1, <2>2 DEF ServersOK
<1>11. Types' /\ TreeChunkMapped'
  BY <1>4 DEF Inv, Types, TreeChunkMapped
<1>12. QED
  BY <1>4, <1>10, <1>11 DEF Inv

\* Nobody waits for RPCs of a connection that is gone.
LEMMA OrphansOK ==
    ASSUME Inv, NEW s \in Servers, NEW n \in 0..Len(inbox[s]), NEW R
    PROVE  Orphans(s, n) \in Seq(Msg) /\ ServerOK(s, Orphans(s, n), {}, R)
<1>1. inbox[s] \in Seq(Msg)
  BY DEF Inv, ServersOK
<1>2. n \in Nat /\ \A i \in 1..n : inbox[s][i] \in Msg
  <2>1. PICK q \in Seq(Msg) : q = inbox[s]
    BY <1>1
  <2>2. n \in Nat /\ \A i \in 1..n : i \in 1..Len(q)
    BY <2>1
  <2>3. \A i \in 1..n : q[i] \in Msg
    BY <2>2
  <2>4. QED
    BY <2>1, <2>2, <2>3
<1>3. \A i \in 1..n : [inbox[s][i] EXCEPT !.live = FALSE] \in Msg /\ ~[inbox[s][i] EXCEPT !.live = FALSE].live
  <2>1. \A m \in Msg : [m EXCEPT !.live = FALSE] \in Msg /\ ~[m EXCEPT !.live = FALSE].live
    BY DEF Msg
  <2>2. QED
    BY <1>2, <2>1
<1> DEFINE o == Orphans(s, n)
<1>4. o \in [1..n -> Msg] /\ \A i \in 1..n : ~o[i].live
  BY <1>2, <1>3 DEF Orphans
<1> HIDE DEF o
<1>5. o \in Seq(Msg) /\ Len(o) = n
  BY <1>2, <1>4
<1>6. ServerOK(s, o, {}, R)
  BY <1>4, <1>5 DEF ServerOK, Asks
<1>7. QED
  BY <1>5, <1>6 DEF o

LEMMA StepBreak ==
    ASSUME InOrderLists, Inv, NEW s \in Servers, Break(s)
    PROVE  Inv'
<1> DEFINE rs == {r \in Reqs : s \in reqs[r].waiting}
           e == Item("bye", 0, s, NoChunks)
           left(r) == reqs[r].waiting \ {s}
           x(r) == [reqs[r] EXCEPT !.waiting = left(r), !.failed = @ \/ TRUE,
                                   !.state = IF left(r) = {} THEN "ready" ELSE @]
<1>1. /\ requestList' = Append(requestList \o LayoutDone(rs, s), e)
      /\ outbox' = [outbox EXCEPT ![s] = {}]
      /\ UNCHANGED <<tree, genid, mapped, hosts, pending, servers, log>>
  BY DEF Break, memory
<1>2. PICK n \in 0..Len(inbox[s]) : inbox' = [inbox EXCEPT ![s] = Orphans(s, n)]
  BY DEF Break
<1>3. inbox \in [Servers -> Seq(Msg)] /\ outbox \in [Servers -> SUBSET Answer] /\ reqs \in [Reqs -> Rec]
  BY DEF Inv, ServersOK, ReqsOK
<1>4. PICK R1 : R1 = Resumed(rs, s, FALSE)
  OBVIOUS
<1>5. R1 = [r \in Reqs |-> IF r \notin rs THEN reqs[r] ELSE x(r)]
  BY <1>4 DEF Resumed
<1>6. PICK R2 : R2 = reqs'
  OBVIOUS
<1>7. R2 = [r \in Reqs |-> [R1[r] EXCEPT !.alive = @ \ {s}]]
  BY <1>4, <1>6 DEF Break
<1>8. ASSUME NEW r \in Reqs
      PROVE  /\ R1[r] \in Rec /\ R1[r].id = reqs[r].id
             /\ r \notin rs => R1[r] = reqs[r]
             /\ r \in rs => /\ R1[r].waiting = reqs[r].waiting \ {s}
                            /\ R1[r].state = IF reqs[r].waiting = {s} THEN "ready" ELSE reqs[r].state
  <2>1. CASE r \notin rs
    BY <1>3, <1>5, <2>1
  <2>2. CASE r \in rs
    <3>1. R1[r] = x(r)
      BY <1>5, <2>2
    <3>2. reqs[r] \in Rec
      BY <1>3
    <3>3. left(r) = {} <=> reqs[r].waiting = {s}
      BY <2>2
    <3>4. left(r) \in SUBSET Servers
      BY <3>2 DEF Rec
    <3>5. (IF left(r) = {} THEN "ready" ELSE reqs[r].state) \in {"none", "layout", "ready", "stuck", "lost"} \cup Late
      BY <3>2 DEF Rec
    <3> HIDE DEF left
    <3>6. x(r) \in Rec /\ x(r).waiting = left(r) /\ x(r).id = reqs[r].id
          /\ x(r).state = IF left(r) = {} THEN "ready" ELSE reqs[r].state
      BY <3>2, <3>4, <3>5 DEF Rec
    <3> HIDE DEF x
    <3>7. left(r) = reqs[r].waiting \ {s}
      BY DEF left
    <3>8. QED
      BY <2>2, <3>1, <3>3, <3>6, <3>7
  <2>3. QED
    BY <2>1, <2>2
<1> HIDE DEF x, left
<1>9. ASSUME NEW r \in Reqs
      PROVE  /\ R2[r] \in Rec /\ R2[r].id = R1[r].id
             /\ R2[r].waiting = R1[r].waiting /\ R2[r].state = R1[r].state
  <2>1. \A y \in Rec : /\ [y EXCEPT !.alive = @ \ {s}] \in Rec /\ [y EXCEPT !.alive = @ \ {s}].id = y.id
                       /\ [y EXCEPT !.alive = @ \ {s}].waiting = y.waiting
                       /\ [y EXCEPT !.alive = @ \ {s}].state = y.state
    BY DEF Rec
  <2>2. QED
    BY <1>7, <1>8, <2>1
<1>10. R2 \in [Reqs -> Rec]
  BY <1>7, <1>9
<1>11. /\ ReqsOK(R2) /\ PendingOK(pending, R2) /\ ListOK(requestList \o LayoutDone(rs, s), R2)
       /\ PlacedOK(R2, tree, mapped, genid)
       /\ \A t \in Servers \ {s} : ServerOK(t, inbox[t], outbox[t], R2)
  <2>1. \A r \in Reqs : R2[r].id = reqs[r].id
    BY <1>8, <1>9
  <2>2. \A r \in rs : /\ R2[r].waiting = reqs[r].waiting \ {s}
                      /\ R2[r].state = IF reqs[r].waiting = {s} THEN "ready" ELSE reqs[r].state
    BY <1>8, <1>9
  <2>3. rs \in SUBSET Reqs /\ \A r \in rs : s \in reqs[r].waiting
    OBVIOUS
  <2>4. \A r \in Reqs \ rs : R2[r].waiting = reqs[r].waiting /\ R2[r].state = reqs[r].state
    BY <1>8, <1>9
  <2> HIDE DEF rs
  <2>5. QED
    BY <1>10, <2>1, <2>2, <2>3, <2>4, ResumedParts
<1>12. e.op = "bye"
  BY DEF Item
<1> HIDE DEF e, rs
<1>13. ListOK(requestList', R2)
  <2>1. ItemOK(e, R2)
    BY <1>12 DEF ItemOK
  <2>2. QED
    BY <1>1, <1>11, <1>12, <2>1, ListsAppend
<1>14. Orphans(s, n) \in Seq(Msg) /\ ServerOK(s, Orphans(s, n), {}, R2)
  BY <1>2, OrphansOK
<1>15. ServersOK(reqs)'
  <2>1. inbox' \in [Servers -> Seq(Msg)] /\ outbox' \in [Servers -> SUBSET Answer]
    BY <1>1, <1>2, <1>3, <1>14
  <2>2. ASSUME NEW t \in Servers PROVE ServerOK(t, inbox'[t], outbox'[t], R2)
    <3>1. CASE t = s
      BY <1>1, <1>2, <1>3, <1>14, <3>1
    <3>2. CASE t # s
      BY <1>1, <1>2, <1>3, <1>11, <3>2
    <3>3. QED
      BY <3>1, <3>2
  <2>3. QED
    BY <1>6, <2>1, <2>2 DEF ServersOK
<1>16. Types' /\ TreeChunkMapped'
  BY <1>1 DEF Inv, Types, TreeChunkMapped
<1>17. QED
  BY <1>1, <1>6, <1>11, <1>13, <1>15, <1>16 DEF Inv

\* A restart: the chunk that the log has is in the map, and no layout is under way.
LEMMA StepCrash ==
    ASSUME Inv, Crash
    PROVE  Inv'
<1>1. /\ tree' = log /\ genid' = log.id + 1 /\ log' = log
      /\ mapped' = {log.id} \cap Ids /\ hosts' = [c \in Ids |-> {}] /\ servers' = {}
      /\ reqs' = [r \in Reqs |-> IF reqs[r].state \in {"none", "answered"} THEN reqs[r]
                                 ELSE [NoReq EXCEPT !.state = "lost"]]
      /\ requestList' = <<>> /\ pending' = <<>> /\ outbox' = [s \in Servers |-> {}]
  BY DEF Crash
<1>2. PICK n \in [Servers -> 0..MaxReqs + 1] : /\ \A s \in Servers : n[s] <= Len(inbox[s])
                                               /\ inbox' = [s \in Servers |-> Orphans(s, n[s])]
  BY DEF Crash
<1>3. log \in Version /\ log.id \in 0..NumIds /\ NumIds \in Nat
  BY AllocAssumption DEF Inv, Types, Version
<1>4. Types' /\ TreeChunkMapped'
  BY <1>1, <1>3 DEF Types, TreeChunkMapped, Ids
<1>5. reqs' \in [Reqs -> Rec] /\ \A r \in Reqs : reqs'[r].waiting = {} /\ ~Active(reqs'[r])
  <2>1. ASSUME NEW r \in Reqs PROVE reqs'[r] \in Rec /\ reqs'[r].waiting = {} /\ ~Active(reqs'[r])
    <3>1. CASE reqs[r].state \in {"none", "answered"}
      BY <1>1, <3>1 DEF Inv, ReqsOK, Active
    <3>2. CASE reqs[r].state \notin {"none", "answered"}
      <4>1. 0 \in 0..NumIds /\ 0 \in Nat
        BY AllocAssumption
      <4>2. [NoReq EXCEPT !.state = "lost"] \in Rec
        BY <4>1 DEF NoReq, Rec
      <4>3. QED
        BY <1>1, <3>2, <4>2 DEF NoReq, Active
    <3>3. QED
      BY <3>1, <3>2
  <2>2. QED
    BY <1>1, <2>1
<1>6. ReqsOK(reqs') /\ PlacedOK(reqs', tree', mapped', genid')
  BY <1>5 DEF ReqsOK, PlacedOK
<1>7. IsSeq(<<>>) /\ Len(<<>>) = 0 /\ <<>> \in Seq(Reqs)
  BY DEF IsSeq
<1>8. ListOK(requestList', reqs') /\ PendingOK(pending', reqs')
  BY <1>1, <1>7 DEF ListOK, PendingOK
<1>9. ASSUME NEW s \in Servers PROVE inbox'[s] \in Seq(Msg) /\ ServerOK(s, inbox'[s], {}, reqs')
  <2>1. inbox[s] \in Seq(Msg)
    BY DEF Inv, ServersOK
  <2>2. n[s] \in 0..Len(inbox[s])
    BY <1>2, <2>1, AllocAssumption
  <2>3. PICK R2 : R2 = reqs'
    OBVIOUS
  <2>4. Orphans(s, n[s]) \in Seq(Msg) /\ ServerOK(s, Orphans(s, n[s]), {}, R2)
    BY <2>2, OrphansOK
  <2>5. QED
    BY <1>2, <2>3, <2>4
<1>10. inbox' \in [Servers -> Seq(Msg)] /\ outbox' \in [Servers -> SUBSET Answer]
  BY <1>1, <1>2, <1>9
<1>11. ServersOK(reqs)'
  BY <1>1, <1>9, <1>10 DEF ServersOK
<1>12. QED
  BY <1>4, <1>6, <1>8, <1>11 DEF Inv

LEMMA InvInit == Init => Inv
<1> SUFFICES ASSUME Init PROVE Inv
  OBVIOUS
<1>1. NoReq \in Rec /\ NoReq.waiting = {} /\ ~Active(NoReq)
  <2>1. 0 \in 0..NumIds /\ 0 \in Nat
    BY AllocAssumption
  <2>2. QED
    BY <2>1 DEF NoReq, Rec, Active
<1>2. Types /\ TreeChunkMapped
  BY AllocAssumption DEF Init, Types, TreeChunkMapped, NoChunk, Version
<1>3. ReqsOK(reqs) /\ PlacedOK(reqs, tree, mapped, genid)
  BY <1>1 DEF Init, ReqsOK, PlacedOK
<1>4. IsSeq(<<>>) /\ Len(<<>>) = 0 /\ <<>> \in Seq(Reqs) /\ <<>> \in Seq(Msg)
  BY DEF IsSeq
<1>5. ListOK(requestList, reqs) /\ PendingOK(pending, reqs)
  <2>1. PICK z : z = <<>>
    BY Zenon
  <2>2. IsSeq(z) /\ Len(z) = 0 /\ z \in Seq(Reqs) /\ 1..Len(z) = {}
    BY <1>4, <2>1
  <2>3. \A R : ListOK(z, R) /\ PendingOK(z, R)
    BY <2>2 DEF ListOK, PendingOK
  <2>4. QED
    BY <2>1, <2>3 DEF Init
<1>6. ServersOK(reqs)
  <2>1. PICK z : z = <<>>
    BY Zenon
  <2>2. z \in Seq(Msg) /\ 1..Len(z) = {}
    BY <1>4, <2>1
  <2>3. \A s, R : ServerOK(s, z, {}, R)
    BY <2>2 DEF ServerOK
  <2>4. inbox = [s \in Servers |-> z] /\ outbox = [s \in Servers |-> {}]
    BY <2>1 DEF Init
  <2>5. QED
    BY <2>2, <2>3, <2>4 DEF ServersOK
<1>7. QED
  BY <1>2, <1>3, <1>5, <1>6 DEF Inv

LEMMA InvNext ==
    ASSUME InOrderLists
    PROVE  Inv /\ [Next]_vars => Inv'
<1> SUFFICES ASSUME Inv, [Next]_vars PROVE Inv'
  OBVIOUS
<1>1. ASSUME NEW r \in Reqs, NEW kind \in Kinds, handle_allocate(r, kind) PROVE Inv'
  BY <1>1, StepAllocate
<1>2. ASSUME NEW s \in Servers, HandleReply(s) PROVE Inv'
  BY <1>2, StepReply
<1>3. ASSUME NEW s \in Servers, Execute(s) PROVE Inv'
  BY <1>3, StepExecute
<1>4. ASSUME NEW s \in Servers, Break(s) PROVE Inv'
  BY <1>4, StepBreak
<1>5. ASSUME NEW s \in Servers, SendHello(s) PROVE Inv'
  BY <1>5, StepSendHello
<1>6. CASE MetaNext
  BY <1>6, StepLayoutDone, StepInc, StepTruncate, StepHello, StepBye, StepLogger DEF MetaNext
<1>7. ASSUME NEW c \in Ids, LeaseExpires(c) PROVE Inv'
  BY <1>7, StepFrame DEF LeaseExpires, chunkservers
<1>8. CASE RecoveryEnds
  BY <1>8, StepFrame DEF RecoveryEnds, chunkservers
<1>9. CASE Crash
  BY <1>9, StepCrash
<1>10. CASE Write
  BY <1>10, StepFrame DEF Write, memory
<1>11. CASE UNCHANGED vars
  BY <1>11, StepFrame DEF vars, memory, chunkservers
<1>12. QED
  BY <1>1, <1>2, <1>3, <1>4, <1>5, <1>6, <1>7, <1>8, <1>9, <1>10, <1>11 DEF Next
=============================================================================
