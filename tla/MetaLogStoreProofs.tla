------------------------- MODULE MetaLogStoreProofs -------------------------
(***************************************************************************)
(* MetaLog implements DurableStore: the invariant of MetaLogProofs, with   *)
(* who may know of which mutation, shows every step to be one of the       *)
(* store, or to change nothing it is about.                                *)
(***************************************************************************)
EXTENDS MetaLogProofs

-----------------------------------------------------------------------------
(* Who knows what. *)

OkIds(q, n) == {q[i].id : i \in {j \in 1..n : q[j].op = "mutate" /\ q[j].ok}}

\* Who knows what: nothing that is not on disk has been told to a client or may
\* be sent to one; a result that waits for the logger reveals only what was
\* queued before it.
KnowledgeOK ==
    /\ known \subseteq Seen(OnDisk)
    /\ \A i \in DOMAIN logged : Told(logged[i]) \subseteq Seen(OnDisk)
    /\ \A i \in DOMAIN pending : Told(pending[i]) \subseteq Seen(OnDisk) \cup OkIds(pending, i)
    /\ up => Seen(tree) = Seen(OnDisk) \cup OkIds(pending, Len(pending))

\* A mutation that is still to run is not in the tree, and is queued once.
FreshOK ==
    /\ Seen(tree) \subseteq 1..submitted
    /\ \A i \in DOMAIN requestList : requestList[i].op = "mutate" =>
          /\ requestList[i].id \in 1..submitted \ Seen(tree)
          /\ \A j \in DOMAIN requestList :
                requestList[j].op = "mutate" /\ requestList[j].id = requestList[i].id => j = i

Inv == ReplayInv /\ KnowledgeOK /\ FreshOK

OkOf(r) == IF r.op = "mutate" /\ r.ok THEN {r.id} ELSE {}

LEMMA SeenCat ==
    ASSUME NEW T, NEW a \in Words(T), NEW b \in Words(T)
    PROVE  Seen(Cat(a, b)) = Seen(a) \cup Seen(b)
<1>1. a \in Seq(T) /\ b \in Seq(T) /\ Len(a) \in Nat /\ Len(b) \in Nat
  BY DEF Words
<1>2. PICK c : c = Cat(a, b)
  OBVIOUS
<1>3. /\ c \in Seq(T) /\ Len(c) = Len(a) + Len(b)
      /\ \A i \in 1..Len(a) + Len(b) : c[i] = IF i <= Len(a) THEN a[i] ELSE b[i - Len(a)]
  BY <1>1, <1>2, ConcatProperties DEF Cat
<1>4. ASSUME NEW x, x \in Seen(c) PROVE x \in Seen(a) \cup Seen(b)
  <2>1. PICK i \in 1..Len(a) + Len(b) : x = c[i]
    BY <1>3, <1>4 DEF Seen
  <2>2. i <= Len(a) => i \in DOMAIN a
    BY <1>1
  <2>3. ~(i <= Len(a)) => i - Len(a) \in DOMAIN b
    BY <1>1
  <2>4. QED
    BY <1>3, <2>1, <2>2, <2>3 DEF Seen
<1>5. ASSUME NEW x, x \in Seen(a) PROVE x \in Seen(c)
  <2>1. PICK i \in 1..Len(a) : x = a[i]
    BY <1>1, <1>5 DEF Seen
  <2>2. i \in 1..Len(a) + Len(b) /\ i \in DOMAIN c
    BY <1>1, <1>3
  <2>3. QED
    BY <1>3, <2>1, <2>2 DEF Seen
<1>6. ASSUME NEW x, x \in Seen(b) PROVE x \in Seen(c)
  <2>1. PICK i \in 1..Len(b) : x = b[i]
    BY <1>1, <1>6 DEF Seen
  <2>2. PICK j : j = i + Len(a)
    OBVIOUS
  <2>3. j \in 1..Len(a) + Len(b) /\ j \in DOMAIN c /\ ~(j <= Len(a)) /\ j - Len(a) = i
    BY <1>1, <1>3, <2>2
  <2>4. QED
    BY <1>3, <2>1, <2>3 DEF Seen
<1>7. QED
  BY <1>2, <1>4, <1>5, <1>6

LEMMA SeenWritten ==
    ASSUME Windows, NEW r
    PROVE  Seen(Written(r)) = OkOf(r)
<1>1. CASE r.op = "mutate" /\ r.ok
  <2>1. Written(r) = <<r.id>>
    BY <1>1 DEF Written, Windows
  <2>2. QED
    BY <1>1, <2>1 DEF Seen, OkOf
<1>2. CASE ~(r.op = "mutate" /\ r.ok)
  <2>1. Written(r) = <<>>
    BY <1>2 DEF Written
  <2>2. QED
    BY <1>2, <2>1 DEF Seen, OkOf
<1>3. QED
  BY <1>1, <1>2

LEMMA OkAppend ==
    ASSUME NEW q \in Seq(Results), NEW r \in Results
    PROVE  /\ \A i \in 1..Len(q) : OkIds(Append(q, r), i) = OkIds(q, i)
           /\ OkIds(Append(q, r), Len(q) + 1) = OkIds(q, Len(q)) \cup OkOf(r)
<1>1. PICK p : p = Append(q, r)
  BY Zenon
<1>2. /\ Len(q) \in Nat /\ p[Len(q) + 1] = r
      /\ \A i \in 1..Len(q) : p[i] = q[i]
  BY <1>1
<1>3. \A i \in 1..Len(q) : \A j \in 1..i : p[j] = q[j]
  BY <1>2
<1>4. \A i \in 1..Len(q) : OkIds(p, i) = OkIds(q, i)
  BY <1>3 DEF OkIds
<1>5. PICK n : n = Len(q) + 1
  OBVIOUS
<1>6. 1..n = (1..Len(q)) \cup {n} /\ p[n] = r
  BY <1>2, <1>5
<1>7. OkIds(p, n) = OkIds(q, Len(q)) \cup OkOf(r)
  <2> DEFINE Good(j) == p[j].op = "mutate" /\ p[j].ok
  <2>1. OkIds(p, n) = {p[j].id : j \in {i \in 1..n : Good(i)}}
    BY DEF OkIds
  <2>2. OkIds(q, Len(q)) = {p[j].id : j \in {i \in 1..Len(q) : Good(i)}}
    BY <1>2 DEF OkIds
  <2>3. OkOf(r) = {p[j].id : j \in {i \in {n} : Good(i)}}
    BY <1>6 DEF OkOf
  <2> HIDE DEF Good
  <2>4. QED
    BY <1>6, <2>1, <2>2, <2>3
<1>8. QED
  BY <1>1, <1>4, <1>5, <1>7

LEMMA OkTail ==
    ASSUME NEW q \in Seq(Results), q # <<>>
    PROVE  /\ OkIds(q, 1) = OkOf(Head(q))
           /\ \A i \in 0..Len(q) - 1 : OkIds(q, i + 1) = OkOf(Head(q)) \cup OkIds(Tail(q), i)
<1>1. PICK p : p = Tail(q)
  BY Zenon
<1>2. /\ Len(q) \in Nat /\ Len(q) # 0 /\ Head(q) = q[1] /\ Len(p) = Len(q) - 1
      /\ \A i \in 1..Len(q) - 1 : p[i] = q[i + 1]
  BY <1>1
<1>3. OkIds(q, 1) = OkOf(Head(q))
  BY <1>2 DEF OkIds, OkOf
<1>4. ASSUME NEW i \in 0..Len(q) - 1, NEW k, k = i + 1
      PROVE  OkIds(q, k) = OkOf(Head(q)) \cup OkIds(p, i)
  <2>1. ASSUME NEW x, x \in OkIds(q, k) PROVE x \in OkOf(q[1]) \cup OkIds(p, i)
    <3>1. PICK j \in 1..k : q[j].op = "mutate" /\ q[j].ok /\ x = q[j].id
      BY <2>1 DEF OkIds
    <3>2. CASE j = 1
      BY <3>1, <3>2 DEF OkOf
    <3>3. CASE j # 1
      <4>1. j - 1 \in 1..i /\ j - 1 \in 1..Len(q) - 1 /\ (j - 1) + 1 = j
        BY <1>2, <1>4, <3>3
      <4>2. p[j - 1] = q[j]
        BY <1>2, <4>1
      <4>3. QED
        BY <3>1, <4>1, <4>2 DEF OkIds
    <3>4. QED
      BY <3>2, <3>3
  <2>2. ASSUME NEW x, x \in OkOf(q[1]) PROVE x \in OkIds(q, k)
    <3>1. 1 \in 1..k
      BY <1>2, <1>4
    <3>2. QED
      BY <2>2, <3>1 DEF OkOf, OkIds
  <2>3. ASSUME NEW x, x \in OkIds(p, i) PROVE x \in OkIds(q, k)
    <3>1. PICK j \in 1..i : p[j].op = "mutate" /\ p[j].ok /\ x = p[j].id
      BY <2>3 DEF OkIds
    <3>2. j + 1 \in 1..k /\ j \in 1..Len(q) - 1
      BY <1>2, <1>4
    <3>3. p[j] = q[j + 1]
      BY <1>2, <3>2
    <3>4. QED
      BY <3>1, <3>2, <3>3 DEF OkIds
  <2>4. QED
    BY <1>2, <2>1, <2>2, <2>3
<1>5. QED
  BY <1>1, <1>3, <1>4

LEMMA KnowInit ==
    ASSUME Init
    PROVE  KnowledgeOK /\ FreshOK
<1>1. Seen(<<>>) = {} /\ OkIds(<<>>, Len(<<>>)) = {}
  BY DEF Seen, OkIds
<1>2. OnDisk = <<>>
  <2>1. tree = Cat(OnDisk, Unwritten(pending)) /\ OnDisk \in Words(Ids) /\ tree = <<>> /\ pending = <<>>
    BY ReplayInit, DiskTypes, Zenon DEF Init, ReplayInv, TreeOK
  <2>2. Cat(OnDisk, <<>>) = OnDisk
    BY <2>1, CatType
  <2>3. QED
    BY <2>1, <2>2, UnwrittenEmpty, Zenon
<1>3. QED
  BY <1>1, <1>2 DEF Init, KnowledgeOK, FreshOK

LEMMA KnowSame ==
    ASSUME KnowledgeOK, UNCHANGED <<up, known, logged, pending, tree>>, OnDisk' = OnDisk
    PROVE  KnowledgeOK'
BY DEF KnowledgeOK

LEMMA FreshSame ==
    ASSUME FreshOK, UNCHANGED <<tree, submitted, requestList>>
    PROVE  FreshOK'
BY DEF FreshOK, Seen

LEMMA FreshSubmit ==
    ASSUME FreshOK, requestList \in Seq(Requests), submitted \in Nat, UNCHANGED tree,
           NEW r \in Requests, submit_request(r),
           \/ r.op = "mutate" /\ r.id = submitted + 1 /\ submitted' = submitted + 1
           \/ r.op # "mutate" /\ submitted' = submitted
    PROVE  FreshOK'
<1>1. PICK q : q = requestList'
  OBVIOUS
<1>2. PICK n \in Nat : n = Len(requestList)
  OBVIOUS
<1>3. /\ DOMAIN requestList = 1..n /\ DOMAIN q = 1..n + 1 /\ q[n + 1] = r
      /\ \A i \in 1..n : q[i] = requestList[i]
  BY <1>1, <1>2 DEF submit_request
<1>4. /\ Seen(tree) \subseteq 1..submitted
      /\ \A i \in 1..n : requestList[i].op = "mutate" =>
            /\ requestList[i].id \in 1..submitted \ Seen(tree)
            /\ \A j \in 1..n :
                 requestList[j].op = "mutate" /\ requestList[j].id = requestList[i].id => j = i
  BY <1>3 DEF FreshOK
<1>5. PICK m \in Nat : m = submitted'
  OBVIOUS
<1>6. \A x \in 1..submitted : x \in 1..m /\ (r.op = "mutate" => x # r.id)
  BY <1>5
<1>7. r.op = "mutate" => r.id \in 1..m /\ r.id \notin 1..submitted
  BY <1>5
<1>8. \A i \in 1..n + 1 : i \in 1..n \/ i = n + 1
  OBVIOUS
<1>9. \A i \in 1..n + 1 : q[i].op = "mutate" => q[i].id \in 1..m \ Seen(tree)
  BY <1>3, <1>4, <1>6, <1>7, <1>8
<1>10. \A i, j \in 1..n + 1 : q[i].op = "mutate" /\ q[j].op = "mutate" /\ q[j].id = q[i].id => j = i
  BY <1>3, <1>4, <1>6, <1>8
<1>11. Seen(tree) \subseteq 1..m
  BY <1>4, <1>6
<1>12. QED
  BY <1>1, <1>3, <1>5, <1>9, <1>10, <1>11 DEF FreshOK, Seen

LEMMA KnowProcess ==
    ASSUME Inv, Windows, process_request, OnDisk' = OnDisk
    PROVE  KnowledgeOK' /\ FreshOK' /\
           (tree' = tree \/ \E m \in Ids \ Seen(tree) : tree' = Append(tree, m))
<1> DEFINE r == Head(requestList)
<1>1. /\ requestList \in Seq(Requests) /\ requestList # <<>> /\ tree \in Seq(Ids)
      /\ pending \in Seq(Results)
  BY DEF Inv, ReplayInv, Types, process_request, Words, Proper
<1>2. r \in Requests /\ r = requestList[1] /\ 1 \in DOMAIN requestList
  BY <1>1
<1> HIDE DEF r
<1>3. r.op = "mutate" => r.id \in 1..submitted \ Seen(tree) /\ r.id \in Ids
  <2>1. r.op = "mutate" => r.id \in 1..submitted \ Seen(tree)
    BY <1>2 DEF Inv, FreshOK
  <2>2. submitted <= MaxOps /\ submitted \in Nat
    BY DEF Inv, ReplayInv, Types
  <2>3. QED
    BY <2>1, <2>2, BoundsAssumption DEF Ids
<1>4. PICK ok \in BOOLEAN :
          /\ tree' = Applied(r, ok)
          /\ pending' = Append(pending, Result(r, ok, IF r.op = "read" THEN Seen(tree) ELSE {}))
  BY Zenon DEF process_request, r
<1>5. PICK p : p = Result(r, ok, IF r.op = "read" THEN Seen(tree) ELSE {})
  OBVIOUS
<1>6. p.op = r.op /\ p.id = r.id /\ p.ok = ok /\ p.seen = (IF r.op = "read" THEN Seen(tree) ELSE {})
      /\ p \in Results
  <2>1. Seen(tree) \in SUBSET Ids
    BY <1>1 DEF Seen
  <2>2. QED
    BY <1>2, <1>5, <2>1 DEF Result, Requests, Results
<1>7. /\ UNCHANGED <<up, known, logged, submitted>> /\ up /\ pending' = Append(pending, p)
      /\ requestList' = Tail(requestList)
  BY <1>4, <1>5 DEF process_request
<1>8. Seen(tree)' = Seen(tree) \cup OkOf(p)
  <2>1. CASE r.op = "mutate" /\ ok
    <3>1. tree' = Append(tree, r.id)
      BY <1>4, <2>1 DEF Applied
    <3>2. QED
      <4>1. PICK n \in Nat : n = Len(tree)
        BY <1>1
      <4>2. PICK t : t = tree'
        OBVIOUS
      <4>3. /\ DOMAIN tree = 1..n /\ DOMAIN t = (1..n) \cup {n + 1} /\ t[n + 1] = r.id
            /\ \A i \in 1..n : t[i] = tree[i]
        BY <1>1, <1>3, <2>1, <3>1, <4>1, <4>2
      <4>4. {t[i] : i \in DOMAIN t} = {tree[i] : i \in DOMAIN tree} \cup {r.id}
        BY <4>3
      <4>5. QED
        BY <1>6, <2>1, <4>2, <4>4 DEF Seen, OkOf
  <2>2. CASE ~(r.op = "mutate" /\ ok)
    BY <1>4, <1>6, <2>2 DEF Applied, Seen, OkOf
  <2>3. QED
    BY <2>1, <2>2
<1>9. PICK n \in Nat : n = Len(pending)
  BY <1>1
<1>10. PICK q : q = pending'
  OBVIOUS
<1>11. /\ DOMAIN pending = 1..n /\ DOMAIN q = 1..n + 1 /\ q[n + 1] = p /\ Len(q) = n + 1
       /\ \A i \in 1..n : q[i] = pending[i]
  BY <1>1, <1>6, <1>7, <1>9, <1>10
<1>12. /\ \A i \in 1..n : OkIds(q, i) = OkIds(pending, i)
       /\ OkIds(q, n + 1) = OkIds(pending, n) \cup OkOf(p)
  BY <1>1, <1>6, <1>7, <1>9, <1>10, OkAppend
<1>13. /\ known \subseteq Seen(OnDisk) /\ Seen(tree) = Seen(OnDisk) \cup OkIds(pending, n)
       /\ \A i \in DOMAIN logged : Told(logged[i]) \subseteq Seen(OnDisk)
       /\ \A i \in 1..n : Told(pending[i]) \subseteq Seen(OnDisk) \cup OkIds(pending, i)
  BY <1>7, <1>9, <1>11 DEF Inv, KnowledgeOK
<1>14. Told(p) \subseteq Seen(OnDisk) \cup OkIds(q, n + 1)
  BY <1>6, <1>12, <1>13 DEF Told, OkOf
<1>15. \A i \in 1..n + 1 : Told(q[i]) \subseteq Seen(OnDisk) \cup OkIds(q, i)
  <2>1. \A i \in 1..n + 1 : i \in 1..n \/ i = n + 1
    OBVIOUS
  <2>2. QED
    BY <1>11, <1>12, <1>13, <1>14, <2>1
<1>16. Seen(tree)' = Seen(OnDisk) \cup OkIds(q, Len(q))
  BY <1>8, <1>11, <1>12, <1>13
<1>17. KnowledgeOK'
  <2>1. Seen(OnDisk)' = Seen(OnDisk)
    BY DEF Seen
  <2>2. \A i \in DOMAIN pending' : Told(pending'[i]) \subseteq Seen(OnDisk) \cup OkIds(pending', i)
    BY <1>10, <1>11, <1>15, Zenon
  <2>3. QED
    BY <1>7, <1>10, <1>13, <1>16, <2>1, <2>2, Zenon DEF KnowledgeOK
<1>18. FreshOK'
  <2>1. PICK k \in Nat : k = Len(requestList)
    BY <1>1
  <2>2. PICK u : u = requestList'
    OBVIOUS
  <2>3. /\ DOMAIN requestList = 1..k /\ k # 0 /\ DOMAIN u = 1..k - 1
        /\ \A i \in 1..k - 1 : u[i] = requestList[i + 1]
    BY <1>1, <1>7, <2>1, <2>2
  <2>4. \A i \in 1..k - 1 : i + 1 \in 1..k /\ i + 1 # 1 /\ 1 \in 1..k
    BY <2>3
  <2>5. /\ Seen(tree) \subseteq 1..submitted
        /\ \A i \in 1..k : requestList[i].op = "mutate" =>
              /\ requestList[i].id \in 1..submitted \ Seen(tree)
              /\ \A j \in 1..k :
                   requestList[j].op = "mutate" /\ requestList[j].id = requestList[i].id => j = i
    BY <2>3, Zenon DEF Inv, FreshOK
  <2>6. Seen(tree)' \subseteq 1..submitted
    BY <1>3, <1>6, <1>8, <2>5 DEF OkOf
  <2>7. \A i \in 1..k - 1 : u[i].op = "mutate" => u[i].id \notin OkOf(p)
    BY <1>2, <1>6, <2>3, <2>4, <2>5 DEF OkOf
  <2>8. \A i \in 1..k - 1 : u[i].op = "mutate" => u[i].id \in 1..submitted \ Seen(tree)'
    BY <1>8, <2>3, <2>4, <2>5, <2>7
  <2>9. \A i, j \in 1..k - 1 : u[i].op = "mutate" /\ u[j].op = "mutate" /\ u[j].id = u[i].id => j = i
    <3>1. SUFFICES ASSUME NEW i \in 1..k - 1, NEW j \in 1..k - 1,
                          u[i].op = "mutate", u[j].op = "mutate", u[j].id = u[i].id
                   PROVE  j = i
      OBVIOUS
    <3>2. PICK a \in 1..k : a = i + 1 /\ u[i] = requestList[a]
      BY <2>3, <2>4
    <3>3. PICK b \in 1..k : b = j + 1 /\ u[j] = requestList[b]
      BY <2>3, <2>4
    <3>4. b = a
      BY <2>5, <3>1, <3>2, <3>3
    <3>5. QED
      BY <3>2, <3>3, <3>4
  <2>10. QED
    BY <1>7, <2>2, <2>3, <2>6, <2>8, <2>9, Zenon DEF FreshOK
<1>19. tree' = tree \/ \E m \in Ids \ Seen(tree) : tree' = Append(tree, m)
  BY <1>3, <1>4 DEF Applied
<1>20. QED
  BY <1>17, <1>18, <1>19

\* A result leaves the front of the queue, and what it stands for is on disk.
LEMMA KnowTail ==
    ASSUME KnowledgeOK, pending \in Seq(Results), pending # <<>>, pending' = Tail(pending),
           UNCHANGED <<up, known, tree>>, Seen(OnDisk)' = Seen(OnDisk) \cup OkOf(Head(pending)),
           \A i \in DOMAIN logged' : Told(logged'[i]) \subseteq Seen(OnDisk)'
    PROVE  KnowledgeOK'
<1>1. PICK n \in Nat : n = Len(pending)
  OBVIOUS
<1>2. PICK q : q = pending'
  OBVIOUS
<1>3. /\ DOMAIN pending = 1..n /\ n # 0 /\ DOMAIN q = 1..n - 1 /\ Len(q) = n - 1
      /\ \A i \in 1..n - 1 : q[i] = pending[i + 1]
  BY <1>1, <1>2
<1>4. \A i \in 0..n - 1 : OkIds(pending, i + 1) = OkOf(Head(pending)) \cup OkIds(q, i)
  BY <1>1, <1>2, OkTail, Zenon
<1>5. PICK D : D = Seen(OnDisk)
  OBVIOUS
<1>6. PICK E : E = Seen(OnDisk)'
  BY Zenon
<1>7. E = D \cup OkOf(Head(pending))
  BY <1>5, <1>6
<1>8. /\ known \subseteq D /\ (up => Seen(tree) = D \cup OkIds(pending, n))
      /\ \A i \in 1..n : Told(pending[i]) \subseteq D \cup OkIds(pending, i)
  BY <1>1, <1>3, <1>5 DEF KnowledgeOK
<1>9. up => Seen(tree) = E \cup OkIds(q, n - 1)
  <2>1. OkIds(pending, (n - 1) + 1) = OkOf(Head(pending)) \cup OkIds(q, n - 1)
    BY <1>3, <1>4
  <2>2. (n - 1) + 1 = n
    OBVIOUS
  <2>3. QED
    BY <1>7, <1>8, <2>1, <2>2
<1>10. ASSUME NEW i \in 1..n - 1 PROVE Told(q[i]) \subseteq E \cup OkIds(q, i)
  <2>1. i + 1 \in 1..n /\ i \in 0..n - 1
    OBVIOUS
  <2>2. Told(pending[i + 1]) \subseteq D \cup OkIds(pending, i + 1)
    BY <1>8, <2>1
  <2>3. OkIds(pending, i + 1) = OkOf(Head(pending)) \cup OkIds(q, i)
    BY <1>4, <2>1
  <2>4. QED
    BY <1>3, <1>7, <2>2, <2>3
<1>11. QED
  BY <1>2, <1>3, <1>6, <1>7, <1>8, <1>9, <1>10, Zenon DEF KnowledgeOK

LEMMA KnowLogger ==
    ASSUME Inv, Windows, logger_main
    PROVE  KnowledgeOK'
<1> DEFINE r == Head(pending)
<1>1. Proper(pending) /\ pending # <<>> /\ Proper(logged) /\ up /\ logger = "main"
  BY DEF Inv, ReplayInv, Types, logger_main
<1>2. pending \in Seq(Results) /\ logged \in Seq(Results) /\ r \in Results /\ (r.op = "mutate" => r.id # 0)
      /\ r = pending[1] /\ 1 \in DOMAIN pending
  BY <1>1 DEF Proper
<1> HIDE DEF r
<1>3. Written(r) \in Words(Ids) /\ OnDisk \in Words(Ids)
  BY <1>2, WrittenType, DiskTypes DEF Inv, ReplayInv
<1>4. /\ logs' = [logs EXCEPT ![lognum] = @ \o Written(r)]
      /\ pending' = Tail(pending) /\ logged' = Append(logged, r)
      /\ UNCHANGED <<up, tree, latest, compactor, known>>
  BY DEF logger_main, r
<1>5. OnDisk' = Cat(OnDisk, Written(r))
  BY <1>1, <1>3, <1>4, LogExtended, Zenon DEF Inv
<1>6. Seen(OnDisk)' = Seen(OnDisk) \cup OkOf(r)
  <2>1. Seen(Cat(OnDisk, Written(r))) = Seen(OnDisk) \cup Seen(Written(r))
    BY <1>3, SeenCat
  <2>2. QED
    BY <1>5, <2>1, SeenWritten
<1>7. Told(r) \subseteq Seen(OnDisk) \cup OkOf(r)
  <2>1. Told(r) \subseteq Seen(OnDisk) \cup OkIds(pending, 1)
    BY <1>2 DEF Inv, KnowledgeOK
  <2>2. QED
    BY <1>1, <1>2, <2>1, OkTail DEF r
<1>8. ASSUME NEW i \in DOMAIN logged' PROVE Told(logged'[i]) \subseteq Seen(OnDisk)'
  <2>1. \/ i \in DOMAIN logged /\ logged'[i] = logged[i]
        \/ logged'[i] = r
    <3>1. PICK n \in Nat : n = Len(logged)
      BY <1>2
    <3>2. PICK q : q = logged'
      BY Zenon
    <3>3. /\ DOMAIN logged = 1..n /\ DOMAIN q = 1..n + 1 /\ q[n + 1] = r
          /\ \A j \in 1..n : q[j] = logged[j]
      BY <1>2, <1>4, <3>1, <3>2
    <3>4. i \in 1..n \/ i = n + 1
      BY <3>2, <3>3
    <3>5. QED
      BY <3>2, <3>3, <3>4
  <2>2. i \in DOMAIN logged => Told(logged[i]) \subseteq Seen(OnDisk)
    BY DEF Inv, KnowledgeOK
  <2>3. QED
    BY <1>6, <1>7, <2>1, <2>2
<1>9. QED
  BY <1>1, <1>2, <1>4, <1>6, <1>8, KnowTail DEF Inv, r

LEMMA KnowFinishStart ==
    ASSUME Inv, finishLogStart, OnDisk' = OnDisk
    PROVE  KnowledgeOK'
<1>1. /\ pending # <<>> /\ Head(pending).op = "rollover" /\ pending \in Seq(Results)
      /\ pending' = Tail(pending) /\ UNCHANGED <<up, known, tree, logged>>
  BY DEF Inv, ReplayInv, LinksOK, Types, Proper, finishLogStart
<1>2. OkOf(Head(pending)) = {}
  BY <1>1 DEF OkOf
<1>3. Seen(OnDisk)' = Seen(OnDisk) \cup OkOf(Head(pending))
  BY <1>2
<1>4. \A i \in DOMAIN logged' : Told(logged'[i]) \subseteq Seen(OnDisk)'
  BY <1>1 DEF Inv, KnowledgeOK
<1>5. QED
  BY <1>1, <1>3, <1>4, KnowTail DEF Inv

LEMMA KnowDispatch ==
    ASSUME Inv, Dispatch, OnDisk' = OnDisk
    PROVE  KnowledgeOK' /\ \E S \in SUBSET Seen(tree) : known' = known \cup S
<1>1. /\ logged # <<>> /\ logged \in Seq(Results) /\ up
      /\ known' = known \cup Told(Head(logged)) /\ logged' = Tail(logged)
      /\ UNCHANGED <<up, tree, pending>>
  BY DEF Inv, ReplayInv, Types, Proper, Dispatch
<1>2. Head(logged) = logged[1] /\ 1 \in DOMAIN logged
  BY <1>1
<1>3. Told(Head(logged)) \subseteq Seen(OnDisk)
  BY <1>2 DEF Inv, KnowledgeOK
<1>4. \A i \in DOMAIN logged' : i + 1 \in DOMAIN logged /\ logged'[i] = logged[i + 1]
  BY <1>1
<1>5. KnowledgeOK'
  BY <1>1, <1>3, <1>4 DEF Inv, KnowledgeOK
<1>6. Seen(OnDisk) \subseteq Seen(tree)
  BY <1>1 DEF Inv, KnowledgeOK
<1>7. QED
  BY <1>1, <1>3, <1>5, <1>6, Zenon

LEMMA KnowCrash ==
    ASSUME Inv, Crash, OnDisk' = OnDisk
    PROVE  KnowledgeOK' /\ FreshOK'
<1>1. /\ UNCHANGED <<tree, known, submitted>> /\ up' = FALSE
      /\ requestList' = <<>> /\ pending' = <<>> /\ logged' = <<>>
  BY DEF Crash
<1>2. DOMAIN <<>> = {}
  OBVIOUS
<1>3. KnowledgeOK'
  BY <1>1, <1>2 DEF Inv, KnowledgeOK
<1>4. FreshOK'
  BY <1>1, <1>2, Zenon DEF Inv, FreshOK
<1>5. QED
  BY <1>3, <1>4

LEMMA KnowStartup ==
    ASSUME Inv, Windows, kfs_startup, OnDisk' = OnDisk
    PROVE  /\ KnowledgeOK' /\ FreshOK' /\ tree' = OnDisk /\ UNCHANGED known
           /\ known \subseteq Seen(OnDisk)
           /\ \E n \in 0..Len(tree) : OnDisk = SubSeq(tree, 1, n)
<1>1. /\ ~up /\ compactor.pc # "unlinked"
      /\ tree' = Recovered /\ UNCHANGED <<known, submitted, requestList, pending, logged>>
  BY DEF kfs_startup, queues, Windows
<1>2. latest # NoCP /\ pending = <<>> /\ logged = <<>> /\ requestList = <<>>
  BY <1>1 DEF Inv, ReplayInv, LinksOK
<1>3. tree' = OnDisk
  BY <1>1, <1>2, RecoveredIsOnDisk DEF Inv, ReplayInv
<1>4. PICK n \in 0..Len(tree) : OnDisk = SubSeq(tree, 1, n)
  BY <1>1 DEF Inv, ReplayInv, TreeOK
<1>5. Seen(OnDisk) \subseteq Seen(tree)
  <2>1. tree \in Seq(Ids)
    BY DEF Inv, ReplayInv, Types, Words
  <2>2. PICK d : d = OnDisk
    OBVIOUS
  <2>3. DOMAIN d = 1..n /\ \A i \in 1..n : d[i] = tree[i] /\ i \in DOMAIN tree
    BY <1>4, <2>1, <2>2
  <2>4. QED
    BY <2>2, <2>3 DEF Seen
<1>6. DOMAIN <<>> = {} /\ OkIds(<<>>, Len(<<>>)) = {}
  BY DEF OkIds
<1>7. known \subseteq Seen(OnDisk)
  BY DEF Inv, KnowledgeOK
<1>8. KnowledgeOK'
  BY <1>1, <1>2, <1>3, <1>6, <1>7 DEF KnowledgeOK
<1>9. FreshOK'
  BY <1>1, <1>2, <1>3, <1>5, <1>6 DEF Inv, FreshOK
<1>10. QED
  BY <1>1, <1>3, <1>4, <1>7, <1>8, <1>9

\* A step preserves the invariant and is a step of the store, or changes
\* nothing the store is about.
LEMMA InvNext ==
    ASSUME Inv, Windows, [Next]_vars
    PROVE  Inv' /\ [Store!Next]_<<tree, known>>
<1>1. ReplayInv' /\ (logger_main \/ OnDisk' = OnDisk)
  BY ReplayNext DEF Inv
<1>2. requestList \in Seq(Requests) /\ submitted \in Nat
  BY DEF Inv, ReplayInv, Types
<1>3. ASSUME UNCHANGED <<up, known, logged, pending, tree, submitted, requestList>>, OnDisk' = OnDisk
      PROVE  Inv' /\ [Store!Next]_<<tree, known>>
  BY <1>1, <1>3, KnowSame, FreshSame DEF Inv
<1>4. ASSUME UNCHANGED <<up, known, logged, pending, tree>>, OnDisk' = OnDisk, FreshOK'
      PROVE  Inv' /\ [Store!Next]_<<tree, known>>
  BY <1>1, <1>4, KnowSame DEF Inv
<1>5. CASE UNCHANGED vars
  <2>1. UNCHANGED <<up, known, logged, pending, tree, submitted, requestList, logs, latest, compactor>>
    BY <1>5 DEF vars, queues, disk
  <2>2. QED
    BY <1>3, <2>1, DiskSame
<1>6. CASE SubmitMutation
  <2>1. /\ UNCHANGED <<up, known, logged, pending, tree, logs, latest, compactor>>
        /\ submitted' = submitted + 1 /\ submit_request(Mutation(submitted + 1))
        /\ submitted < MaxOps
    BY <1>6 DEF SubmitMutation, disk
  <2>2. PICK r : r = Mutation(submitted + 1)
    OBVIOUS
  <2>3. r \in Requests /\ r.op = "mutate" /\ r.id = submitted + 1
    BY <1>2, <2>1, <2>2, BoundsAssumption DEF Mutation, Requests
  <2>4. FreshOK'
    BY <1>2, <2>1, <2>2, <2>3, FreshSubmit DEF Inv
  <2>5. QED
    BY <1>4, <2>1, <2>4, DiskSame
<1>7. CASE SubmitRead \/ logtimer
  <2>1. PICK r \in {Read, Rollover} :
          UNCHANGED <<up, known, logged, pending, tree, logs, latest, compactor, submitted>> /\ submit_request(r)
    BY <1>7 DEF SubmitRead, logtimer, disk
  <2>2. r \in Requests /\ r.op # "mutate"
    BY <2>1, BoundsAssumption DEF Read, Rollover, Requests
  <2>3. FreshOK'
    BY <1>2, <2>1, <2>2, FreshSubmit DEF Inv
  <2>4. QED
    BY <1>4, <2>1, <2>3, DiskSame
<1>8. CASE process_request
  <2>1. OnDisk' = OnDisk /\ UNCHANGED known
    BY <1>8, StepProcess, Zenon DEF Inv, process_request
  <2>2. KnowledgeOK' /\ FreshOK'
        /\ (tree' = tree \/ \E m \in Ids \ Seen(tree) : tree' = Append(tree, m))
    BY <1>8, <2>1, KnowProcess
  <2>3. Seen(tree) = Store!Stored
    BY DEF Seen, Store!Stored
  <2>4. [Store!Next]_<<tree, known>>
    BY <2>1, <2>2, <2>3 DEF Store!Next, Store!Write
  <2>5. QED
    BY <1>1, <2>2, <2>4 DEF Inv
<1>9. CASE logger_main
  <2>1. UNCHANGED <<tree, known, submitted, requestList>>
    BY <1>9 DEF logger_main
  <2>2. QED
    BY <1>1, <1>9, <2>1, KnowLogger, FreshSame DEF Inv
<1>10. CASE finishLogStart
  <2>1. UNCHANGED <<tree, known, submitted, requestList>> /\ OnDisk' = OnDisk
    BY <1>10, StepFinishStart, Zenon DEF finishLogStart, Inv
  <2>2. QED
    BY <1>1, <1>10, <2>1, KnowFinishStart, FreshSame DEF Inv
<1>11. CASE Dispatch
  <2>1. UNCHANGED <<tree, submitted, requestList>> /\ OnDisk' = OnDisk
    BY <1>11, StepDispatch DEF Dispatch, Inv
  <2>2. KnowledgeOK' /\ \E S \in SUBSET Seen(tree) : known' = known \cup S
    BY <1>11, <2>1, KnowDispatch
  <2>3. Seen(tree) = Store!Stored
    BY DEF Seen, Store!Stored
  <2>4. Store!Next
    BY <2>1, <2>2, <2>3 DEF Store!Next, Store!Learn
  <2>5. QED
    BY <1>1, <2>1, <2>2, <2>4, FreshSame DEF Inv
<1>12. CASE Crash
  <2>1. UNCHANGED <<tree, known>> /\ OnDisk' = OnDisk
    BY <1>12, StepCrash, Zenon DEF Crash, Inv
  <2>2. QED
    BY <1>1, <1>12, <2>1, KnowCrash DEF Inv
<1>13. CASE kfs_startup
  <2>1. OnDisk' = OnDisk
    BY <1>13, StepStartup DEF Inv
  <2>2. /\ KnowledgeOK' /\ FreshOK' /\ tree' = OnDisk /\ UNCHANGED known
        /\ known \subseteq Seen(OnDisk)
        /\ \E n \in 0..Len(tree) : OnDisk = SubSeq(tree, 1, n)
    BY <1>13, <2>1, KnowStartup
  <2>3. Store!Recover
    BY <2>2 DEF Store!Recover, Seen
  <2>4. QED
    BY <1>1, <2>2, <2>3 DEF Inv, Store!Next
<1>14. CASE finishLogUnlink \/ finishLogLink
  <2>1. UNCHANGED <<up, known, logged, pending, tree, submitted, requestList, logs, latest, compactor>>
    BY <1>14 DEF finishLogUnlink, finishLogLink, queues
  <2>2. QED
    BY <1>3, <2>1, DiskSame
<1>15. CASE restoreCheckpoint \/ statLast \/ findLast \/ replayLogs \/ do_CPUnlink \/ do_CPLink \/ CompactorCrash
  <2>1. UNCHANGED <<up, known, logged, pending, tree, submitted, requestList, logger, logs>>
    BY <1>15 DEF restoreCheckpoint, statLast, findLast, replayLogs, do_CPUnlink, do_CPLink,
       CompactorCrash, queues, disk, threads
  <2>2. ~logger_main
    <3>1. ASSUME logger_main PROVE FALSE
      <4>1. pending' = Tail(pending) /\ pending # <<>> /\ pending \in Seq(Results)
        BY <3>1 DEF logger_main, Inv, ReplayInv, Types, Proper
      <4>2. Len(Tail(pending)) = Len(pending) - 1 /\ Len(pending) \in Nat
        BY <4>1
      <4>3. QED
        BY <2>1, <4>1, <4>2
    <3>2. QED
      BY <3>1
  <2>3. QED
    BY <1>1, <1>3, <2>1, <2>2
<1>16. QED
  BY <1>5, <1>6, <1>7, <1>8, <1>9, <1>10, <1>11, <1>12, <1>13, <1>14, <1>15 DEF Next, ServerThreads

\* The threads, logs, checkpoints, crashes and restarts implement one store that
\* a restart may cut back only by mutations nobody has learnt of, from a reply or
\* from a read.
THEOREM ImplementsDurableStore ==
    ASSUME Windows
    PROVE  Spec => DurableStoreSpec
<1>1. Init => Inv /\ Store!Init
  BY ReplayInit, KnowInit, Zenon DEF Inv, Init, Store!Init
<1>2. Inv /\ [Next]_vars => Inv' /\ [Store!Next]_<<tree, known>>
  BY InvNext
<1>3. QED
  BY <1>1, <1>2, PTL DEF Spec, DurableStoreSpec, Store!Spec

\* What a client was told stays in the tree of every incarnation of the server,
\* as long as no crash or restart falls into a window of finishLog or link_latest.
THEOREM KnownSurvivesOutsideWindows ==
    ASSUME Windows
    PROVE  Spec => []KnownSurvives
<1>1. Init => Inv
  BY ReplayInit, KnowInit DEF Inv
<1>2. Inv /\ [Next]_vars => Inv'
  BY InvNext
<1>3. Inv => KnownSurvives
  BY DEF Inv, KnowledgeOK, KnownSurvives
<1>4. QED
  BY <1>1, <1>2, <1>3, PTL DEF Spec
=============================================================================
