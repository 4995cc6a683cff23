------------------------- MODULE LeasesTableProofs --------------------------
(***************************************************************************)
(* The inductive invariant of Leases, and the metaserver's steps on its    *)
(* lease table that keep it: every claim a chunkserver makes on a chunk,   *)
(* or will make when a message under way arrives, is covered by a lease in *)
(* the table or by the recovery period.                                    *)
(***************************************************************************)
EXTENDS LeasesProofs

USE DEF READ_LEASE, WRITE_LEASE

OneWriteLease ==
  \A c \in Chunks : \A l, m \in leases[c] :
    l.type = WRITE_LEASE /\ m.type = WRITE_LEASE => l = m

SerialsBounded == \A c \in Chunks : \A l \in leases[c] : l.serial <= serial

ChunksUsed == inFile \subseteq used /\ \A l \in layouts : l.chunk \in used

\* t more seconds of a claim are backed by the recovery period rec or by a
\* lease in L.
Cover(rec, L, t) == t <= 0 \/ t <= rec \/ \E l \in L : t <= l.left

\* Messages that give, or give back, a full lease interval.
Promises(m) == m.kind = "grant" \/ (m.kind = "reply" /\ m.ok)

ClerkCovered ==
  \A s \in Servers, c \in mapped :
    clerk[s][c] # NoLease => Cover(recLeft, leases[c], clerk[s][c].left - MaxDelay)

MessageCovered ==
  \A s \in Servers : \A i \in DOMAIN toServer[s] :
    LET m == toServer[s][i]
    IN  m.chunk \in mapped /\ Promises(m)
          => Cover(recLeft, leases[m.chunk], LeaseInterval - m.age)

Safe ==
  /\ OneWriteLease
  /\ SerialsBounded
  /\ ChunksUsed
  /\ ClerkCovered
  /\ MessageCovered

-----------------------------------------------------------------------------
(* One step of the protocol, from the point of view of the claims. *)

\* Recovery period rec or lease list L back a claim for a full interval.
Full(rec, L) == rec = LeaseInterval \/ \E l \in L : l.left = LeaseInterval

\* What backed a chunk before the step backs it after the step.
Backed ==
  \A c \in mapped' :
    \/ Full(recLeft', leases'[c])
    \/ /\ c \in mapped /\ recLeft' = recLeft
       /\ \A l \in leases[c] : l.left > 0 => \E m \in leases'[c] : l.left <= m.left

\* Claims are given up, kept, or taken from a message that promised them.
ClaimsKept ==
  \A s \in Servers, c \in Chunks :
    \/ clerk'[s][c] = NoLease
    \/ clerk[s][c] # NoLease /\ clerk'[s][c].left = clerk[s][c].left
    \/ \E i \in DOMAIN toServer[s] :
         toServer[s][i].chunk = c /\ Promises(toServer[s][i])

\* Messages were under way before, or promise what the table now backs.
MessagesKept ==
  \A s \in Servers : \A i \in DOMAIN toServer'[s] :
    \/ \E j \in DOMAIN toServer[s] : toServer'[s][i] = toServer[s][j]
    \/ Promises(toServer'[s][i]) => Full(recLeft', leases'[toServer'[s][i].chunk])

\* A fully backed chunk covers every claim.
LEMMA FullCovers ==
  ASSUME NEW rec, NEW L, NEW t \in Int, t <= LeaseInterval, Full(rec, L)
  PROVE  Cover(rec, L, t)
BY DEF Full, Cover

\* The time a clerk has left and the age of a message are bounded.
Bounds ==
  /\ \A s \in Servers, c \in Chunks : clerk[s][c] # NoLease =>
       clerk[s][c].left \in Int /\ clerk[s][c].left <= LeaseInterval
  /\ \A s \in Servers : \A i \in DOMAIN toServer[s] :
       /\ toServer[s][i].chunk \in Chunks
       /\ toServer[s][i].age \in Nat /\ toServer[s][i].age <= MaxDelay
  /\ \A c \in Chunks : \A l \in leases[c] : l.left \in Int
  /\ recLeft \in Int
  /\ mapped \subseteq Chunks

\* Typed states are within these bounds.
LEMMA ClaimBounds == Typed => Bounds
<1> SUFFICES ASSUME Typed PROVE Bounds
  OBVIOUS
<1> USE LeaseConstants
<1>1. \A s \in Servers, c \in Chunks : clerk[s][c] # NoLease => clerk[s][c] \in ClerkLease
  BY DEF Typed, TypeOK
<1>2. \A s \in Servers : \A i \in DOMAIN toServer[s] : toServer[s][i] \in Message
  <2> TAKE s \in Servers
  <2>1. toServer[s] \in Seq(Message)
    BY DEF Typed, TypeOK
  <2> QED
    BY <2>1
<1>3. \A c \in Chunks : \A l \in leases[c] : l \in Lease
  BY DEF Typed, TypeOK
<1>4. \A s \in Servers, c \in Chunks : clerk[s][c] # NoLease =>
        clerk[s][c].left \in Int /\ clerk[s][c].left <= LeaseInterval
  BY <1>1 DEF ClerkLease
<1>5. \A s \in Servers : \A i \in DOMAIN toServer[s] :
        /\ toServer[s][i].chunk \in Chunks
        /\ toServer[s][i].age \in Nat /\ toServer[s][i].age <= MaxDelay
  <2>1. \A m \in Message : m.chunk \in Chunks /\ m.age \in Nat /\ m.age <= MaxDelay
    BY DEF Message
  <2> QED
    BY <1>2, <2>1
<1>6. \A c \in Chunks : \A l \in leases[c] : l.left \in Int
  BY <1>3 DEF Lease
<1>7. recLeft \in Int /\ mapped \subseteq Chunks
  BY DEF Typed, TypeOK
<1> QED
  BY <1>4, <1>5, <1>6, <1>7 DEF Bounds

\* A step that does not pass time and is of this shape keeps claims covered.
LEMMA CoverStep ==
  ASSUME Typed, Typed', ClerkCovered, MessageCovered,
         Backed, ClaimsKept, MessagesKept
  PROVE  ClerkCovered' /\ MessageCovered'
<1> USE LeaseConstants
<1>b. Bounds /\ Bounds'
  BY ClaimBounds, PTL
<1>1. ASSUME NEW c \in mapped', NEW t \in Int, t <= LeaseInterval,
             c \in mapped => Cover(recLeft, leases[c], t)
      PROVE  Cover(recLeft', leases'[c], t)
  <2>1. CASE Full(recLeft', leases'[c])
    BY <1>1, <2>1, FullCovers
  <2>2. CASE /\ c \in mapped /\ recLeft' = recLeft
             /\ \A l \in leases[c] : l.left > 0 => \E m \in leases'[c] : l.left <= m.left
    <3>1. c \in Chunks /\ Cover(recLeft, leases[c], t)
      BY <2>2, <1>1, <1>b DEF Bounds
    <3>2. CASE t <= 0 \/ t <= recLeft
      BY <3>2, <2>2 DEF Cover
    <3>3. CASE t > 0 /\ \E l \in leases[c] : t <= l.left
      <4>1. PICK l \in leases[c] : t <= l.left
        BY <3>3
      <4>2. l.left \in Int
        BY <3>1, <1>b DEF Bounds
      <4>3. PICK m \in leases'[c] : l.left <= m.left
        BY <4>1, <4>2, <3>3, <2>2
      <4>4. m.left \in Int
        BY <3>1, <1>b DEF Bounds
      <4> QED
        BY <4>1, <4>2, <4>3, <4>4 DEF Cover
    <3> QED
      BY <3>1, <3>2, <3>3 DEF Cover
  <2> QED
    BY <2>1, <2>2 DEF Backed
<1>2. ASSUME NEW s \in Servers, NEW c \in mapped', clerk'[s][c] # NoLease
      PROVE  Cover(recLeft', leases'[c], clerk'[s][c].left - MaxDelay)
  <2>1. c \in Chunks /\ clerk'[s][c].left \in Int /\ clerk'[s][c].left <= LeaseInterval
    BY <1>b, <1>2 DEF Bounds
  <2>2. PICK t \in Int : t = clerk'[s][c].left - MaxDelay /\ t <= LeaseInterval
    BY <2>1
  <2>3. ASSUME c \in mapped PROVE Cover(recLeft, leases[c], t)
    <3>1. CASE clerk[s][c] # NoLease /\ clerk'[s][c].left = clerk[s][c].left
      BY <2>2, <2>3, <3>1 DEF ClerkCovered
    <3>2. CASE \E i \in DOMAIN toServer[s] :
                 toServer[s][i].chunk = c /\ Promises(toServer[s][i])
      <4>1. PICK i \in DOMAIN toServer[s] :
                 toServer[s][i].chunk = c /\ Promises(toServer[s][i])
        BY <3>2
      <4>2. Cover(recLeft, leases[c], LeaseInterval - toServer[s][i].age)
        BY <4>1, <2>3 DEF MessageCovered
      <4>3. toServer[s][i].age \in Nat /\ toServer[s][i].age <= MaxDelay
        BY <1>b DEF Bounds
      <4>4. (\A l \in leases[c] : l.left \in Int) /\ recLeft \in Int
        BY <2>1, <1>b DEF Bounds
      <4> QED
        BY <4>2, <4>3, <4>4, <2>1, <2>2 DEF Cover
    <3> QED
      BY <2>1, <1>2, <3>1, <3>2 DEF ClaimsKept
  <2> QED
    BY <1>1, <2>2, <2>3
<1>3. ASSUME NEW s \in Servers, NEW i \in DOMAIN toServer'[s],
             toServer'[s][i].chunk \in mapped', Promises(toServer'[s][i])
      PROVE  Cover(recLeft', leases'[toServer'[s][i].chunk],
                   LeaseInterval - toServer'[s][i].age)
  <2>1. PICK m : m = toServer'[s][i]
    OBVIOUS
  <2>2. m.age \in Nat
    BY <1>b, <2>1 DEF Bounds
  <2>3. PICK t \in Int : t = LeaseInterval - m.age /\ t <= LeaseInterval
    BY <2>2
  <2>4. CASE \E j \in DOMAIN toServer[s] : m = toServer[s][j]
    <3>1. m.chunk \in mapped => Cover(recLeft, leases[m.chunk], t)
      BY <2>1, <2>3, <2>4, <1>3 DEF MessageCovered
    <3> QED
      BY <1>1, <1>3, <2>1, <2>3, <3>1
  <2>5. CASE Full(recLeft', leases'[m.chunk])
    BY <2>1, <2>3, <2>5, FullCovers
  <2> QED
    BY <1>3, <2>1, <2>4, <2>5 DEF MessagesKept
<1>4. ClerkCovered'
  BY <1>2 DEF ClerkCovered
<1>5. MessageCovered'
  BY <1>3 DEF MessageCovered
<1> QED
  BY <1>4, <1>5

\* A step that leaves clerks and connections alone keeps claims and messages.
LEMMA QuietStep ==
  ASSUME clerk' = clerk, toServer' = toServer
  PROVE  ClaimsKept /\ MessagesKept
<1>1. ClaimsKept
  BY DEF ClaimsKept
<1>2. MessagesKept
  BY DEF MessagesKept
<1> QED
  BY <1>1, <1>2

\* A step that leaves the lease table alone.
LEMMA SameTable ==
  ASSUME Typed, Safe, UNCHANGED <<mapped, leases, recLeft, serial>>
  PROVE  Backed /\ OneWriteLease' /\ SerialsBounded'
<1>1. Backed
  BY ClaimBounds DEF Backed, Bounds
<1> QED
  BY <1>1 DEF Safe, OneWriteLease, SerialsBounded

\* A step that takes leases without any time left out of the table, or leases
\* of chunks that leave the map.
LEMMA SmallerTable ==
  ASSUME Typed, Safe, UNCHANGED <<recLeft, serial>>, mapped' \subseteq mapped,
         \A c \in Chunks : leases'[c] \subseteq leases[c],
         \A c \in mapped' : \A l \in leases[c] : l.left > 0 => l \in leases'[c]
  PROVE  Backed /\ OneWriteLease' /\ SerialsBounded'
<1>1. Backed
  BY ClaimBounds DEF Backed, Bounds
<1>2. OneWriteLease'
  BY DEF Safe, OneWriteLease
<1>3. SerialsBounded'
  BY DEF Safe, SerialsBounded
<1> QED
  BY <1>1, <1>2, <1>3

\* What is left of a queue that loses its first or its last message was in it.
LEMMA EndsElements ==
  ASSUME NEW S, NEW q \in Seq(S), q # <<>>
  PROVE  /\ \A i \in DOMAIN Tail(q) : \E j \in DOMAIN q : Tail(q)[i] = q[j]
         /\ \A i \in DOMAIN SubSeq(q, 1, Len(q) - 1) :
              \E j \in DOMAIN q : SubSeq(q, 1, Len(q) - 1)[i] = q[j]
<1>1. \A i \in DOMAIN Tail(q) : i + 1 \in DOMAIN q /\ Tail(q)[i] = q[i + 1]
  OBVIOUS
<1>2. \A i \in DOMAIN SubSeq(q, 1, Len(q) - 1) :
        i \in DOMAIN q /\ SubSeq(q, 1, Len(q) - 1)[i] = q[i]
  OBVIOUS
<1> QED
  BY <1>1, <1>2, Zenon

\* A step in which the queues only lose messages makes no new promise.
LEMMA ShorterQueue ==
  ASSUME NEW s \in Servers,
         \A z \in Servers \ {s} : toServer'[z] = toServer[z],
         \A i \in DOMAIN toServer'[s] :
           \E j \in DOMAIN toServer[s] : toServer'[s][i] = toServer[s][j]
  PROVE  MessagesKept
<1> SUFFICES ASSUME NEW z \in Servers, NEW i \in DOMAIN toServer'[z]
             PROVE  \E j \in DOMAIN toServer[z] : toServer'[z][i] = toServer[z][j]
  BY Zenon DEF MessagesKept
<1>1. CASE z = s
  BY <1>1, Zenon
<1>2. CASE z # s
  <2>1. toServer'[z] = toServer[z]
    BY <1>2, Zenon
  <2> QED
    BY <2>1, Zenon
<1> QED
  BY <1>1, <1>2, Zenon

\* Leases of the table have the fields of Lease.
LEMMA LeaseFields ==
  ASSUME Typed, NEW c \in Chunks, NEW l \in leases[c]
  PROVE  /\ l \in Lease /\ l.left \in Int /\ l.left <= LeaseInterval
         /\ l.serial \in Nat
<1>1. l \in Lease
  BY DEF Typed, TypeOK
<1> QED
  BY <1>1, LeaseConstants DEF Lease

\* What a new write lease does to the table and to the connections.
LEMMA GrantSafe ==
  ASSUME Typed, Safe, NEW c \in Chunks, NEW S \in SUBSET Servers, NEW master \in S,
         NEW vers \in Nat, NEW counts \in [Servers -> Nat],
         Grant(c, S, master, vers, counts), UNCHANGED <<recLeft, clerk>>
  PROVE  Backed /\ OneWriteLease' /\ SerialsBounded' /\ ClaimsKept /\ MessagesKept
<1> USE LeaseConstants
<1> DEFINE w == NewLease("WRITE_LEASE")
<1>t. /\ leases \in [Chunks -> SUBSET Lease] /\ serial \in Nat
      /\ toServer \in [Servers -> Seq(Message)] /\ mapped \subseteq Chunks
  BY DEF Typed, TypeOK
<1>1. /\ leases' = [leases EXCEPT ![c] = {w}] /\ mapped' = mapped \cup {c}
      /\ serial' = serial + 1
  BY DEF Grant
<1>2. w.left = LeaseInterval /\ w.serial = serial + 1
  BY DEF NewLease
<1> HIDE DEF w
<1>3. Backed
  <2>1. Full(recLeft', leases'[c])
    BY <1>1, <1>2, <1>t DEF Full
  <2>2. ASSUME NEW d \in mapped', d # c
        PROVE  d \in mapped /\ leases'[d] = leases[d]
    BY <2>2, <1>1, <1>t
  <2> QED
    BY <2>1, <2>2, LeaseFields, <1>t DEF Backed
<1>4. OneWriteLease'
  BY <1>1, <1>t DEF OneWriteLease, Safe
<1>5. SerialsBounded'
  <2>1. ASSUME NEW d \in Chunks, NEW l \in leases'[d]
        PROVE  l.serial <= serial'
    <3>1. CASE d = c
      BY <3>1, <1>1, <1>2, <1>t
    <3>2. CASE d # c
      <4>1. l \in leases[d]
        BY <3>2, <1>1, <1>t
      <4> QED
        BY <4>1, <1>1, <1>t, LeaseFields DEF SerialsBounded, Safe
    <3> QED
      BY <3>1, <3>2
  <2> QED
    BY <2>1 DEF SerialsBounded
<1>6. ClaimsKept
  BY DEF ClaimsKept
<1>7. MessagesKept
  <2> DEFINE m == [kind |-> "grant", chunk |-> c, id |-> mLeaseId,
                   serial |-> serial + 1, age |-> 0]
  <2>1. toServer' = [toServer EXCEPT ![master] = Append(@, m)]
    BY DEF Grant
  <2>2. m.chunk = c
    OBVIOUS
  <2> HIDE DEF m
  <2>3. ASSUME NEW s \in Servers, NEW i \in DOMAIN toServer'[s]
        PROVE  \/ \E j \in DOMAIN toServer[s] : toServer'[s][i] = toServer[s][j]
               \/ toServer'[s][i] = m
    BY <2>1, <1>t
  <2>4. Full(recLeft', leases'[c])
    BY <1>1, <1>2, <1>t DEF Full
  <2> QED
    BY <2>2, <2>3, <2>4 DEF MessagesKept
<1> QED
  BY <1>3, <1>4, <1>5, <1>6, <1>7

\* What a lease renewal does to the table.
LEMMA LeaseRenewSafe ==
  ASSUME Typed, Safe, NEW c \in Chunks, NEW id \in Nat,
         NEW type \in {READ_LEASE, WRITE_LEASE}, NEW ok \in BOOLEAN,
         LeaseRenew(c, id, type, ok), UNCHANGED <<recLeft, serial>>
  PROVE  Backed /\ OneWriteLease' /\ SerialsBounded'
         /\ (ok => Full(recLeft', leases'[c]))
<1> USE LeaseConstants
<1>t. /\ leases \in [Chunks -> SUBSET Lease] /\ serial \in Nat
      /\ mapped \subseteq Chunks
  BY DEF Typed, TypeOK
<1>k. ASSUME NEW l, l.left = LeaseInterval, leases' = [leases EXCEPT ![c] = {l}],
             mapped' = mapped \cup {c}, l.serial = 0
      PROVE  Backed /\ OneWriteLease' /\ SerialsBounded'
             /\ Full(recLeft', leases'[c])
  <2>1. Full(recLeft', leases'[c])
    BY <1>k, <1>t DEF Full
  <2>2. Backed
    <3>1. ASSUME NEW d \in mapped', d # c
          PROVE  d \in mapped /\ leases'[d] = leases[d]
      BY <3>1, <1>k, <1>t
    <3> QED
      BY <2>1, <3>1, LeaseFields, <1>t DEF Backed
  <2>3. OneWriteLease'
    BY <1>k, <1>t DEF OneWriteLease, Safe
  <2>4. SerialsBounded'
    BY <1>k, <1>t DEF SerialsBounded, Safe
  <2> QED
    BY <2>1, <2>2, <2>3, <2>4
<1>1. CASE /\ mapped' = mapped \cup {c}
           /\ leases' = [leases EXCEPT ![c] =
                           {[serial |-> 0, id |-> id, type |-> type,
                             left |-> LeaseInterval]}]
  <2> DEFINE l == [serial |-> 0, id |-> id, type |-> type, left |-> LeaseInterval]
  <2>1. l.left = LeaseInterval /\ l.serial = 0 /\ leases' = [leases EXCEPT ![c] = {l}]
    BY <1>1
  <2> HIDE DEF l
  <2> QED
    BY <1>1, <1>k, <2>1, Zenon
<1>2. CASE /\ \E l \in leases[c] : leases' = [leases EXCEPT ![c] = Renewed(@, l)]
           /\ UNCHANGED mapped
  <2>1. PICK l \in leases[c] : leases' = [leases EXCEPT ![c] = Renewed(@, l)]
    BY <1>2, Zenon
  <2>2. l \in Lease
    BY LeaseFields
  <2>3. PICK r : r = [l EXCEPT !.left = LeaseInterval]
    BY Zenon
  <2>4. r.left = LeaseInterval /\ r.serial = l.serial /\ r.type = l.type
    BY <2>2, <2>3 DEF Lease
  <2>5. /\ leases'[c] = (leases[c] \ {l}) \cup {r}
        /\ \A d \in Chunks : d # c => leases'[d] = leases[d]
    BY <2>1, <2>3, <1>t DEF Renewed
  <2>6. Full(recLeft', leases'[c])
    BY <2>4, <2>5 DEF Full
  <2>7. Backed
    <3>1. ASSUME NEW d \in mapped', d # c
          PROVE  d \in mapped /\ leases'[d] = leases[d]
      BY <3>1, <1>2, <2>5, <1>t
    <3> QED
      BY <2>6, <3>1, LeaseFields, <1>t DEF Backed
  <2>8. OneWriteLease'
    <3>1. ASSUME NEW x \in leases'[c], NEW y \in leases'[c],
                 x.type = WRITE_LEASE, y.type = WRITE_LEASE
          PROVE  x = y
      BY <3>1, <2>4, <2>5 DEF OneWriteLease, Safe
    <3>2. ASSUME NEW d \in Chunks, d # c, NEW x \in leases'[d], NEW y \in leases'[d],
                 x.type = WRITE_LEASE, y.type = WRITE_LEASE
          PROVE  x = y
      BY <3>2, <2>5 DEF OneWriteLease, Safe
    <3> QED
      BY <3>1, <3>2 DEF OneWriteLease
  <2>9. SerialsBounded'
    BY <2>4, <2>5 DEF SerialsBounded, Safe
  <2> QED
    BY <2>6, <2>7, <2>8, <2>9
<1>3. CASE UNCHANGED <<mapped, leases>> /\ ~ok
  BY <1>3, SameTable
<1> QED
  BY <1>1, <1>2, <1>3, Zenon DEF LeaseRenew

\* Allocation keeps the invariant: the new chunk starts fully backed.
LEMMA AllocateChunkSafe ==
  ASSUME Typed, Typed', Safe, NEW c \in Chunks, NEW S \in SUBSET Servers, AllocateChunk(c, S)
  PROVE  Safe'
<1> USE LeaseConstants
<1>a. numWrites \in [Servers -> Nat]
  BY DEF Typed, TypeOK
<1>b. PICK master \in S : Grant(c, S, master, 1, numWrites)
  BY DEF AllocateChunk
<1>g. Backed /\ OneWriteLease' /\ SerialsBounded' /\ ClaimsKept /\ MessagesKept
  BY <1>a, <1>b, GrantSafe DEF AllocateChunk
<1>1. Backed /\ OneWriteLease' /\ SerialsBounded'
  BY <1>g, Zenon
<1>2. ClaimsKept /\ MessagesKept
  BY <1>g, Zenon
<1>3. ChunksUsed'
  BY <1>b DEF Grant, AllocateChunk, ChunksUsed, Safe
<1> QED
  BY <1>1, <1>2, <1>3, CoverStep, Zenon DEF Safe

\* A new write lease keeps the invariant.
LEMMA GetChunkWriteLeaseSafe ==
  ASSUME Typed, Typed', Safe, NEW c \in Chunks, GetChunkWriteLease(c)
  PROVE  Safe'
<1> USE LeaseConstants
<1> DEFINE n == Cardinality(WriteLeases(leases[c]))
           counts == Decremented(hosts[c], n)
<1>a. n \in Nat
  BY FiniteFacts DEF WriteLeases, Typed, FiniteLeases
<1>b. counts \in [Servers -> Nat] /\ hosts[c] \in SUBSET Servers /\ version[c] + 1 \in Nat
  BY <1>a, DecrementedType, SMTT(30) DEF Typed, TypeOK
<1>c. PICK master \in hosts[c] : Grant(c, hosts[c], master, version[c] + 1, counts)
  BY Zenon DEF GetChunkWriteLease
<1> HIDE DEF n, counts
<1>g. Backed /\ OneWriteLease' /\ SerialsBounded' /\ ClaimsKept /\ MessagesKept
  BY <1>b, <1>c, GrantSafe, Zenon DEF GetChunkWriteLease
<1>1. Backed /\ OneWriteLease' /\ SerialsBounded'
  BY <1>g, Zenon
<1>2. ClaimsKept /\ MessagesKept
  BY <1>g, Zenon
<1>3. ChunksUsed'
  BY <1>c DEF Grant, GetChunkWriteLease, NeedsNewLease, tree, ChunksUsed, Safe
<1> QED
  BY <1>1, <1>2, <1>3, CoverStep, Zenon DEF Safe

\* A refused write lease keeps the invariant.
LEMMA GetChunkWriteLeaseNoSpaceSafe ==
  ASSUME Typed, Typed', Safe, NEW c \in Chunks, GetChunkWriteLeaseNoSpace(c)
  PROVE  Safe'
<1> USE LeaseConstants
<1>1. Backed /\ OneWriteLease' /\ SerialsBounded'
  BY SameTable, ZenonT(30) DEF GetChunkWriteLeaseNoSpace, layout, conns
<1>2. ClaimsKept /\ MessagesKept
  BY QuietStep, ZenonT(30) DEF GetChunkWriteLeaseNoSpace, layout, conns
<1>3. ChunksUsed'
  BY Zenon DEF GetChunkWriteLeaseNoSpace, tree, layout, ChunksUsed, Safe
<1> QED
  BY <1>1, <1>2, <1>3, CoverStep, Zenon DEF Safe

\* AddNewServer keeps the invariant.
LEMMA AddNewServerSafe ==
  ASSUME Typed, Typed', Safe, NEW s \in Servers, NEW keep \in SUBSET Chunks, AddNewServer(s, keep)
  PROVE  Safe'
<1> USE LeaseConstants
<1>1. Backed /\ OneWriteLease' /\ SerialsBounded'
  BY SameTable, ZenonT(30) DEF AddNewServer, layout, conns
<1>2. ClaimsKept /\ MessagesKept
  BY QuietStep, ZenonT(30) DEF AddNewServer, layout, conns
<1>3. ChunksUsed'
  BY Zenon DEF AddNewServer, tree, layout, ChunksUsed, Safe
<1> QED
  BY <1>1, <1>2, <1>3, CoverStep, Zenon DEF Safe

\* A corrupt replica keeps the invariant.
LEMMA ChunkCorruptSafe ==
  ASSUME Typed, Typed', Safe, NEW s \in Servers, NEW c \in Chunks, ChunkCorrupt(s, c)
  PROVE  Safe'
<1> USE LeaseConstants
<1>1. Backed /\ OneWriteLease' /\ SerialsBounded'
  BY SameTable DEF ChunkCorrupt, layout, conns
<1>2. ClaimsKept /\ MessagesKept
  BY QuietStep DEF ChunkCorrupt, layout, conns
<1>3. ChunksUsed'
  BY SMTT(30) DEF ChunkCorrupt, tree, layout, ChunksUsed, Safe
<1> QED
  BY <1>1, <1>2, <1>3, CoverStep, Zenon DEF Safe

\* A read lease keeps the invariant.
LEMMA GetChunkReadLeaseSafe ==
  ASSUME Typed, Typed', Safe, NEW c \in Chunks, GetChunkReadLease(c)
  PROVE  Safe'
<1> USE LeaseConstants
<1>t. /\ leases \in [Chunks -> SUBSET Lease] /\ serial \in Nat
      /\ mapped \subseteq Chunks
  BY DEF Typed, TypeOK
<1>a. PICK r : r = NewLease(READ_LEASE)
  OBVIOUS
<1>b. r.serial = serial + 1 /\ r.type = READ_LEASE
  BY <1>a DEF NewLease
<1>c. /\ leases' = [leases EXCEPT ![c] = @ \cup {r}] /\ serial' = serial + 1
      /\ UNCHANGED <<mapped, recLeft>>
  BY <1>a DEF GetChunkReadLease
<1>d. Backed
  <2>1. \A d \in Chunks : leases[d] \subseteq leases'[d]
    BY <1>c, <1>t
  <2> QED
    BY <1>c, <2>1, <1>t, LeaseFields DEF Backed
<1>e. OneWriteLease'
  BY <1>b, <1>c, <1>t DEF OneWriteLease, Safe
<1>f. SerialsBounded'
  <2>1. ASSUME NEW d \in Chunks, NEW l \in leases'[d]
        PROVE  l.serial <= serial'
    <3>1. l \in leases[d] \/ l = r
      BY <1>c, <1>t
    <3> QED
      BY <3>1, <1>b, <1>c, <1>t, LeaseFields DEF SerialsBounded, Safe
  <2> QED
    BY <2>1 DEF SerialsBounded
<1>1. Backed /\ OneWriteLease' /\ SerialsBounded'
  BY <1>d, <1>e, <1>f
<1>2. ClaimsKept /\ MessagesKept
  BY QuietStep DEF GetChunkReadLease, layout, conns
<1>3. ChunksUsed'
  BY DEF GetChunkReadLease, tree, layout, ChunksUsed, Safe
<1> QED
  BY <1>1, <1>2, <1>3, CoverStep, Zenon DEF Safe

\* The end of an allocation keeps the invariant.
LEMMA LayoutDoneSafe ==
  ASSUME Typed, Typed', Safe, NEW l \in layouts, NEW ok \in BOOLEAN, LayoutDone(l, ok)
  PROVE  Safe'
<1> USE LeaseConstants
<1>1. Backed /\ OneWriteLease' /\ SerialsBounded'
  <2>1. \A c \in Chunks : leases'[c] \subseteq leases[c]
    BY Zenon DEF LayoutDone, Typed, TypeOK
  <2>2. \A c \in mapped' : \A m \in leases[c] : m.left > 0 => m \in leases'[c]
    BY Zenon DEF LayoutDone, Typed, TypeOK
  <2>3. UNCHANGED <<recLeft, serial>> /\ mapped' \subseteq mapped
    BY DEF LayoutDone
  <2> QED
    BY <2>1, <2>2, <2>3, SmallerTable, Zenon
<1>2. ClaimsKept /\ MessagesKept
  BY QuietStep DEF LayoutDone, layout, conns
<1>3. ChunksUsed'
  BY DEF LayoutDone, tree, layout, ChunksUsed, Safe
<1> QED
  BY <1>1, <1>2, <1>3, CoverStep, Zenon DEF Safe

\* Tree::remove keeps the invariant.
LEMMA RemoveFileSafe ==
  ASSUME Typed, Typed', Safe, RemoveFile
  PROVE  Safe'
<1> USE LeaseConstants
<1>1. Backed /\ OneWriteLease' /\ SerialsBounded'
  <2>1. \A c \in Chunks : leases'[c] \subseteq leases[c]
    BY Zenon DEF RemoveFile, DeleteChunks, Typed, TypeOK
  <2>2. \A c \in mapped' : \A l \in leases[c] : l.left > 0 => l \in leases'[c]
    BY DEF RemoveFile, DeleteChunks, Typed, TypeOK
  <2>3. UNCHANGED <<recLeft, serial>> /\ mapped' \subseteq mapped
    BY DEF RemoveFile, DeleteChunks
  <2> QED
    BY <2>1, <2>2, <2>3, SmallerTable, Zenon
<1>2. ClaimsKept /\ MessagesKept
  BY QuietStep DEF RemoveFile, layout, conns
<1>3. ChunksUsed'
  BY DEF RemoveFile, DeleteChunks, tree, layout, ChunksUsed, Safe
<1> QED
  BY <1>1, <1>2, <1>3, CoverStep, Zenon DEF Safe

\* Tree::truncate keeps the invariant.
LEMMA TruncateSafe ==
  ASSUME Typed, Typed', Safe, NEW k \in Chunks, Truncate(k)
  PROVE  Safe'
<1> USE LeaseConstants
<1>1. Backed /\ OneWriteLease' /\ SerialsBounded'
  <2>1. \A c \in Chunks : leases'[c] \subseteq leases[c]
    BY DEF Truncate, DeleteChunks, Typed, TypeOK
  <2>2. \A c \in mapped' : \A l \in leases[c] : l.left > 0 => l \in leases'[c]
    BY SMTT(30) DEF Truncate, DeleteChunks, Typed, TypeOK
  <2>3. UNCHANGED <<recLeft, serial>> /\ mapped' \subseteq mapped
    BY Zenon DEF Truncate, DeleteChunks
  <2> QED
    BY <2>1, <2>2, <2>3, SmallerTable, Zenon
<1>2. ClaimsKept /\ MessagesKept
  BY QuietStep DEF Truncate, layout, conns
<1>3. ChunksUsed'
  BY SMTT(30) DEF Truncate, DeleteChunks, tree, layout, ChunksUsed, Safe
<1> QED
  BY <1>1, <1>2, <1>3, CoverStep, Zenon DEF Safe

\* The periodic cleanup keeps the invariant: it drops leases without time left.
LEMMA LeaseCleanupSafe ==
  ASSUME Typed, Typed', Safe, LeaseCleanup
  PROVE  Safe'
<1> USE LeaseConstants
<1>1. Backed /\ OneWriteLease' /\ SerialsBounded'
  <2>1. \A c \in Chunks : leases'[c] \subseteq leases[c]
    BY SMTT(30) DEF LeaseCleanup, CleanupDumpster, DeleteChunks, Survivors,
       LeaseExpired, Typed, TypeOK
  <2>2. \A c \in mapped' : \A l \in leases[c] : l.left > 0 => l \in leases'[c]
    <3>1. mapped' \subseteq mapped /\ mapped \subseteq Chunks
      BY Zenon DEF LeaseCleanup, CleanupDumpster, DeleteChunks, Typed, TypeOK
    <3>2. \A c \in mapped' : leases'[c] = Survivors(c)
      BY <3>1, Zenon DEF LeaseCleanup
    <3> QED
      BY <3>1, <3>2, LeaseFields, SMTT(30) DEF Survivors, LeaseExpired
  <2>3. UNCHANGED <<recLeft, serial>> /\ mapped' \subseteq mapped
    BY Zenon DEF LeaseCleanup, CleanupDumpster, DeleteChunks, Survivors, LeaseExpired
  <2> QED
    BY <2>1, <2>2, <2>3, SmallerTable, Zenon
<1>2. ClaimsKept /\ MessagesKept
  BY QuietStep DEF LeaseCleanup, layout, conns
<1>3. ChunksUsed'
  BY Zenon DEF LeaseCleanup, CleanupDumpster, DeleteChunks, Survivors,
     LeaseExpired, tree, layout, ChunksUsed, Safe
<1> QED
  BY <1>1, <1>2, <1>3, CoverStep, Zenon DEF Safe

\* A metaserver restart keeps the invariant: recovery backs every claim.
LEMMA MetaRestartSafe ==
  ASSUME Typed, Typed', Safe, MetaRestart
  PROVE  Safe'
<1> USE LeaseConstants
<1>a. Backed
  BY DEF Backed, Full, MetaRestart
<1>b. OneWriteLease' /\ SerialsBounded'
  BY DEF MetaRestart, OneWriteLease, SerialsBounded
<1>1. Backed /\ OneWriteLease' /\ SerialsBounded'
  BY <1>a, <1>b
<1>2. ClaimsKept /\ MessagesKept
  BY QuietStep DEF MetaRestart, layout, conns
<1>3. ChunksUsed'
  BY DEF MetaRestart, tree, layout, ChunksUsed, Safe
<1> QED
  BY <1>1, <1>2, <1>3, CoverStep, Zenon DEF Safe

=============================================================================
