------------------------- MODULE LeasesSafetyProofs -------------------------
(***************************************************************************)
(* The safety of Leases: the steps of messages, of the chunkservers and of *)
(* time keep the inductive invariant of LeasesTableProofs, and what        *)
(* follows from it.                                                        *)
(***************************************************************************)
EXTENDS LeasesTableProofs

USE DEF READ_LEASE, WRITE_LEASE

\* A renewed read lease keeps the invariant.
LEMMA RenewReadLeaseSafe ==
  ASSUME Typed, Typed', Safe, NEW r \in readers, RenewReadLease(r)
  PROVE  Safe'
<1> USE LeaseConstants
<1>n. r.chunk \in Chunks /\ r.id \in Nat
  BY SMTT(30) DEF Renewal, Typed, TypeOK
<1>1. Backed /\ OneWriteLease' /\ SerialsBounded'
  BY <1>n, LeaseRenewSafe, Zenon DEF RenewReadLease
<1>2. ClaimsKept /\ MessagesKept
  BY QuietStep DEF RenewReadLease, layout, conns
<1>3. ChunksUsed'
  BY DEF RenewReadLease, tree, layout, ChunksUsed, Safe
<1> QED
  BY <1>1, <1>2, <1>3, CoverStep, Zenon DEF Safe

\* A renewed write lease keeps the invariant: a granted renewal is backed.
LEMMA RenewWriteLeaseSafe ==
  ASSUME Typed, Typed', Safe, NEW s \in Servers, RenewWriteLease(s)
  PROVE  Safe'
<1> USE LeaseConstants
<1>t. toServer \in [Servers -> Seq(Message)] /\ toMeta[s] \in Seq(Renewal)
  BY DEF Typed, TypeOK
<1>o. PICK op : op = Head(toMeta[s])
  OBVIOUS
<1>n. op.chunk \in Chunks /\ op.id \in Nat
  <2>1. toMeta[s] # <<>>
    BY DEF RenewWriteLease
  <2>2. op \in Renewal
    BY <1>o, <1>t, <2>1, EndsType, SMTT(30)
  <2> QED
    BY <2>2 DEF Renewal
<1>k. PICK ok \in BOOLEAN :
        /\ LeaseRenew(op.chunk, op.id, WRITE_LEASE, ok)
        /\ toServer' = [toServer EXCEPT ![s] =
                          Append(@, [kind |-> "reply", chunk |-> op.chunk,
                                     id |-> op.id, ok |-> ok, age |-> 0])]
  BY <1>o, Zenon DEF RenewWriteLease
<1>r. Backed /\ OneWriteLease' /\ SerialsBounded'
      /\ (ok => Full(recLeft', leases'[op.chunk]))
  BY <1>k, <1>n, LeaseRenewSafe DEF RenewWriteLease
<1>1. Backed /\ OneWriteLease' /\ SerialsBounded'
  BY <1>r
<1>2. ClaimsKept /\ MessagesKept
  <2>1. ClaimsKept
    BY DEF RenewWriteLease, ClaimsKept
  <2>2. PICK m : m = [kind |-> "reply", chunk |-> op.chunk, id |-> op.id,
                      ok |-> ok, age |-> 0]
    BY Zenon
  <2>3. m.chunk = op.chunk /\ (Promises(m) => ok)
    BY <2>2, Zenon DEF Promises
  <2>4. ASSUME NEW z \in Servers, NEW i \in DOMAIN toServer'[z]
        PROVE  \/ \E j \in DOMAIN toServer[z] : toServer'[z][i] = toServer[z][j]
               \/ toServer'[z][i] = m
    BY <1>k, <1>t, <2>2
  <2>5. Promises(m) => Full(recLeft', leases'[m.chunk])
    BY <1>r, <2>3, SMTT(30)
  <2>6. MessagesKept
    BY <2>4, <2>5, SMTT(30) DEF MessagesKept
  <2> QED
    BY <2>1, <2>6, SMTT(30)
<1>3. ChunksUsed'
  BY DEF RenewWriteLease, tree, layout, ChunksUsed, Safe
<1> QED
  BY <1>1, <1>2, <1>3, CoverStep, Zenon DEF Safe

\* A lost connection keeps the invariant.
LEMMA ServerDownSafe ==
  ASSUME Typed, Typed', Safe, NEW s \in Servers, NEW died \in BOOLEAN, ServerDown(s, died)
  PROVE  Safe'
<1> USE LeaseConstants
<1>1. Backed /\ OneWriteLease' /\ SerialsBounded'
  BY SameTable DEF ServerDown, layout, conns
<1>2. ClaimsKept /\ MessagesKept
  <2>1. /\ clerk' = clerk \/ clerk' = [clerk EXCEPT ![s] = [c \in Chunks |-> NoLease]]
        /\ toServer' = toServer \/ toServer' = [toServer EXCEPT ![s] = <<>>]
    BY Zenon DEF ServerDown
  <2>2. clerk \in [Servers -> [Chunks -> ClerkLease \cup {NoLease}]]
    BY DEF Typed, TypeOK
  <2>3. toServer \in [Servers -> Seq(Message)]
    BY SMTT(30) DEF Typed, TypeOK
  <2>4. ClaimsKept
    BY <2>1, <2>2, SMTT(30) DEF ClaimsKept
  <2>5. MessagesKept
    BY <2>1, <2>3, SMTT(30) DEF MessagesKept
  <2> QED
    BY <2>4, <2>5
<1>3. ChunksUsed'
  BY DEF ServerDown, tree, layout, ChunksUsed, Safe
<1> QED
  BY <1>1, <1>2, <1>3, CoverStep, Zenon DEF Safe

\* The death of a chunkserver keeps the invariant.
LEMMA ServerDiesSafe ==
  ASSUME Typed, Typed', Safe, NEW s \in Servers, ServerDies(s)
  PROVE  Safe'
<1> USE LeaseConstants
<1>1. Backed /\ OneWriteLease' /\ SerialsBounded'
  BY SameTable DEF ServerDies, layout, conns
<1>2. ClaimsKept /\ MessagesKept
  <2>1. /\ clerk' = clerk \/ clerk' = [clerk EXCEPT ![s] = [c \in Chunks |-> NoLease]]
        /\ toServer' = toServer \/ toServer' = [toServer EXCEPT ![s] = <<>>]
    BY Zenon DEF ServerDies
  <2>2. clerk \in [Servers -> [Chunks -> ClerkLease \cup {NoLease}]]
    BY DEF Typed, TypeOK
  <2>3. toServer \in [Servers -> Seq(Message)]
    BY SMTT(30) DEF Typed, TypeOK
  <2>4. ClaimsKept
    BY <2>1, <2>2, SMTT(30) DEF ClaimsKept
  <2>5. MessagesKept
    BY <2>1, <2>3, SMTT(30) DEF MessagesKept
  <2> QED
    BY <2>4, <2>5
<1>3. ChunksUsed'
  BY DEF ServerDies, tree, layout, ChunksUsed, Safe
<1> QED
  BY <1>1, <1>2, <1>3, CoverStep, Zenon DEF Safe

\* A lost message keeps the invariant.
LEMMA LoseSafe ==
  ASSUME Typed, Typed', Safe, NEW s \in Servers, Lose(s)
  PROVE  Safe'
<1> USE LeaseConstants
<1>1. Backed /\ OneWriteLease' /\ SerialsBounded'
  BY SameTable, SMTT(30) DEF Lose, layout, conns
<1>2. ClaimsKept /\ MessagesKept
  <2>1. ClaimsKept
    BY SMTT(30) DEF Lose, ClaimsKept
  <2>2. /\ toServer' = [toServer EXCEPT ![s] = SubSeq(@, 1, Len(@) - 1)]
        /\ toServer \in [Servers -> Seq(Message)]
    BY ZenonT(30) DEF Lose, Typed, TypeOK
  <2>3. toServer[s] \in Seq(Message) /\ toServer[s] # <<>>
    BY <2>2 DEF Lose
  <2>4. /\ toServer'[s] = SubSeq(toServer[s], 1, Len(toServer[s]) - 1)
        /\ \A z \in Servers \ {s} : toServer'[z] = toServer[z]
    BY <2>2, Zenon
  <2>5. \A i \in DOMAIN toServer'[s] :
          \E j \in DOMAIN toServer[s] : toServer'[s][i] = toServer[s][j]
    <3>1. \A i \in DOMAIN SubSeq(toServer[s], 1, Len(toServer[s]) - 1) :
            \E j \in DOMAIN toServer[s] :
              SubSeq(toServer[s], 1, Len(toServer[s]) - 1)[i] = toServer[s][j]
      BY <2>3, EndsElements
    <3> QED
      BY <2>4, <3>1, Zenon
  <2>6. MessagesKept
    BY <2>4, <2>5, ShorterQueue, Zenon
  <2> QED
    BY <2>1, <2>6
<1>3. ChunksUsed'
  BY DEF Lose, tree, layout, ChunksUsed, Safe
<1> QED
  BY <1>1, <1>2, <1>3, CoverStep, Zenon DEF Safe

\* Use of a lease keeps the invariant.
LEMMA DoingWriteSafe ==
  ASSUME Typed, Typed', Safe, NEW s \in Servers, NEW c \in Chunks, DoingWrite(s, c)
  PROVE  Safe'
<1> USE LeaseConstants
<1>1. Backed /\ OneWriteLease' /\ SerialsBounded'
  BY SameTable DEF DoingWrite, layout, conns
<1>2. ClaimsKept /\ MessagesKept
  <2>1. clerk[s][c] \in ClerkLease
    BY DEF DoingWrite, IsLeaseValid, Held, Typed, TypeOK
  <2>2. PICK k : k = [clerk[s][c] EXCEPT !.idle = 0]
    BY Zenon
  <2>3. k.left = clerk[s][c].left
    BY <2>1, <2>2 DEF ClerkLease
  <2>4. clerk' = [clerk EXCEPT ![s][c] = k]
    BY <2>2 DEF DoingWrite, Typed, TypeOK
  <2>5. clerk \in [Servers -> [Chunks -> ClerkLease \cup {NoLease}]]
    BY DEF Typed, TypeOK
  <2>6. clerk[s][c] # NoLease
    BY DEF DoingWrite, IsLeaseValid, Held
  <2>7. ClaimsKept
    BY <2>3, <2>4, <2>5, <2>6 DEF ClaimsKept
  <2>8. MessagesKept
    BY DEF DoingWrite, conns, MessagesKept
  <2> QED
    BY <2>7, <2>8
<1>3. ChunksUsed'
  BY SMTT(30) DEF DoingWrite, tree, layout, ChunksUsed, Safe
<1> QED
  BY <1>1, <1>2, <1>3, CoverStep, Zenon DEF Safe

\* The clerk's timer keeps the invariant.
LEMMA ClerkTimeoutSafe ==
  ASSUME Typed, Typed', Safe, NEW s \in Servers, NEW pending \in SUBSET Chunks, ClerkTimeout(s, pending)
  PROVE  Safe'
<1> USE LeaseConstants
<1>1. Backed /\ OneWriteLease' /\ SerialsBounded'
  BY SameTable, Zenon DEF ClerkTimeout, layout, conns
<1>2. ClaimsKept /\ MessagesKept
  <2> DEFINE kept == {c \in Held(s) : clerk[s][c].left >= -LeaseInterval}
             renew == {c \in kept : /\ clerk[s][c].left <= ExpireWindow
                                    /\ ~clerk[s][c].renewSent
                                    /\ \/ c \in pending
                                       \/ clerk[s][c].idle <= LeaseInterval}
  <2>1. clerk' = [clerk EXCEPT ![s] = [c \in Chunks |->
                    IF c \in renew THEN [@[c] EXCEPT !.renewSent = TRUE]
                    ELSE IF c \in kept THEN @[c] ELSE NoLease]]
    BY Zenon DEF ClerkTimeout
  <2>2. /\ \A c \in kept : clerk[s][c] \in ClerkLease /\ clerk[s][c] # NoLease
        /\ renew \subseteq kept
    BY DEF Held, Typed, TypeOK
  <2> HIDE DEF kept, renew
  <2>3. clerk \in [Servers -> [Chunks -> ClerkLease \cup {NoLease}]]
    BY DEF Typed, TypeOK
  <2>4. \A k \in ClerkLease : [k EXCEPT !.renewSent = TRUE].left = k.left
    BY SMTT(30) DEF ClerkLease
  <2>5. ASSUME NEW z \in Servers, NEW c \in Chunks
        PROVE  \/ clerk'[z][c] = NoLease
               \/ clerk[z][c] # NoLease /\ clerk'[z][c].left = clerk[z][c].left
    <3>1. CASE z = s
      <4>1. clerk'[s][c] = IF c \in renew THEN [clerk[s][c] EXCEPT !.renewSent = TRUE]
                           ELSE IF c \in kept THEN clerk[s][c] ELSE NoLease
        BY <2>1, <2>3
      <4> QED
        BY <3>1, <4>1, <2>2, <2>4
    <3>2. CASE z # s
      BY <3>2, <2>1, <2>3, SMTT(30)
    <3> QED
      BY <3>1, <3>2
  <2>6. ClaimsKept
    BY <2>5, Zenon DEF ClaimsKept
  <2>7. MessagesKept
    BY ZenonT(30) DEF ClerkTimeout, MessagesKept
  <2> QED
    BY <2>6, <2>7, SMTT(30)
<1>3. ChunksUsed'
  BY Zenon DEF ClerkTimeout, tree, layout, ChunksUsed, Safe
<1> QED
  BY <1>1, <1>2, <1>3, CoverStep, Zenon DEF Safe

\* A message that arrives keeps the invariant: the claim was promised.
LEMMA ReceiveSafe ==
  ASSUME Typed, Typed', Safe, NEW s \in Servers, Receive(s)
  PROVE  Safe'
<1> USE LeaseConstants
<1>t. /\ toServer \in [Servers -> Seq(Message)]
      /\ clerk \in [Servers -> [Chunks -> ClerkLease \cup {NoLease}]]
      /\ toServer[s] # <<>>
  BY ZenonT(30) DEF Receive, Typed, TypeOK
<1>m. PICK m : m = toServer[s][1]
  OBVIOUS
<1>h. m = Head(toServer[s]) /\ m \in Message /\ 1 \in DOMAIN toServer[s]
  BY <1>t, <1>m
<1>c. m.chunk \in Chunks
  BY <1>h DEF Message
<1>1. Backed /\ OneWriteLease' /\ SerialsBounded'
  BY SameTable, Zenon DEF Receive
<1>4. ClaimsKept
  <2>1. ASSUME NEW z \in Servers, NEW c \in Chunks, z # s \/ c # m.chunk
        PROVE  clerk'[z][c] = clerk[z][c]
    <3>1. \/ clerk' = clerk
          \/ \E k : clerk' = [clerk EXCEPT ![s][m.chunk] = k]
      <4>1. CASE m.kind = "grant"
        BY <4>1, <1>h, Zenon DEF Receive
      <4>2. CASE m.kind # "grant"
        <5>1. PICK k : k = [clerk[s][m.chunk] EXCEPT !.left = LeaseInterval,
                                                     !.renewSent = FALSE]
          OBVIOUS
        <5>2. clerk' = IF clerk[s][m.chunk] = NoLease THEN clerk
                       ELSE IF m.ok THEN [clerk EXCEPT ![s][m.chunk] = k]
                       ELSE [clerk EXCEPT ![s][m.chunk] = NoLease]
          <6>1. clerk' = IF clerk[s][m.chunk] = NoLease THEN clerk
                         ELSE IF m.ok
                         THEN [clerk EXCEPT ![s][m.chunk].left = LeaseInterval,
                                            ![s][m.chunk].renewSent = FALSE]
                         ELSE [clerk EXCEPT ![s][m.chunk] = NoLease]
            BY <4>2, <1>h, Zenon DEF Receive
          <6>2. [clerk EXCEPT ![s][m.chunk].left = LeaseInterval,
                              ![s][m.chunk].renewSent = FALSE]
                  = [clerk EXCEPT ![s][m.chunk] = k]
            BY <5>1, <1>c, <1>t, ZenonT(30)
          <6> QED
            BY <6>1, <6>2, Zenon
        <5> QED
          BY <5>2, Zenon
      <4> QED
        BY <4>1, <4>2
    <3> QED
      BY <2>1, <3>1, <1>t, <1>c
  <2>2. \/ clerk'[s][m.chunk] = NoLease
        \/ clerk[s][m.chunk] # NoLease /\ clerk'[s][m.chunk].left = clerk[s][m.chunk].left
        \/ Promises(m)
    <3>1. CASE m.kind = "grant"
      BY <3>1, SMTT(30) DEF Promises
    <3>2. CASE m.kind # "grant"
      <4>1. m.kind = "reply"
        BY <3>2, <1>h DEF Message
      <4>2. \/ clerk' = clerk
            \/ m.ok
            \/ clerk' = [clerk EXCEPT ![s][m.chunk] = NoLease]
        BY <3>2, <1>h, Zenon DEF Receive
      <4>3. CASE m.ok
        BY <4>1, <4>3, Zenon DEF Promises
      <4>4. CASE clerk' = clerk
        BY <4>4
      <4>5. CASE clerk' = [clerk EXCEPT ![s][m.chunk] = NoLease]
        BY <4>5, <1>t, <1>c
      <4> QED
        BY <4>2, <4>3, <4>4, <4>5, SMTT(30)
    <3> QED
      BY <3>1, <3>2
  <2>3. ASSUME NEW z \in Servers, NEW c \in Chunks
        PROVE  \/ clerk'[z][c] = NoLease
               \/ clerk[z][c] # NoLease /\ clerk'[z][c].left = clerk[z][c].left
               \/ \E i \in DOMAIN toServer[z] :
                    toServer[z][i].chunk = c /\ Promises(toServer[z][i])
    <3>1. CASE z # s \/ c # m.chunk
      <4>1. clerk'[z][c] = clerk[z][c]
        BY <2>1, <3>1, Zenon
      <4> QED
        BY <4>1, Zenon
    <3>2. CASE z = s /\ c = m.chunk
      BY <2>2, <3>2, <1>h, <1>m, Zenon
    <3> QED
      BY <3>1, <3>2, Zenon
  <2> QED
    BY <2>3, Zenon DEF ClaimsKept
<1>5. MessagesKept
  <2>1. toServer' = [toServer EXCEPT ![s] = Tail(@)]
    BY Zenon DEF Receive
  <2>2. toServer[s] \in Seq(Message) /\ toServer[s] # <<>>
    BY <1>t
  <2>3. /\ toServer'[s] = Tail(toServer[s])
        /\ \A z \in Servers \ {s} : toServer'[z] = toServer[z]
    BY <2>1, <1>t, Zenon
  <2>4. \A i \in DOMAIN toServer'[s] :
          \E j \in DOMAIN toServer[s] : toServer'[s][i] = toServer[s][j]
    <3>1. \A i \in DOMAIN Tail(toServer[s]) :
            \E j \in DOMAIN toServer[s] : Tail(toServer[s])[i] = toServer[s][j]
      BY <2>2, EndsElements, SMTT(30)
    <3> QED
      BY <2>3, <3>1, Zenon
  <2> QED
    BY <2>3, <2>4, ShorterQueue, Zenon
<1>3. ChunksUsed'
  <2>1. layouts' = layouts \/ layouts' = {[l EXCEPT !.acked = @ \/ (s \in up /\ l.serial = m.serial)]
                                            : l \in layouts}
    BY <1>h, Zenon DEF Receive
  <2>2. \A l \in layouts : l \in Layout
    BY DEF Typed, TypeOK
  <2>3. \A l \in layouts : \A b : [l EXCEPT !.acked = b].chunk = l.chunk
    BY <2>2 DEF Layout
  <2>4. \A k \in layouts' : k.chunk \in used
    <3> TAKE k \in layouts'
    <3>1. CASE k \in layouts
      BY <3>1 DEF ChunksUsed, Safe
    <3>2. CASE k \notin layouts
      <4>1. PICK l \in layouts :
              k = [l EXCEPT !.acked = @ \/ (s \in up /\ l.serial = m.serial)]
        BY <2>1, <3>2, Zenon
      <4>2. k.chunk = l.chunk
        BY <2>3, <4>1, Zenon
      <4> QED
        BY <4>2 DEF ChunksUsed, Safe
    <3> QED
      BY <3>1, <3>2
  <2> QED
    BY <2>4, Zenon DEF Receive, tree, ChunksUsed, Safe
<1> QED
  BY <1>1, <1>3, <1>4, <1>5, CoverStep, Zenon DEF Safe

\* When a second passes, claims and what backs them lose it together.
LEMMA TickSafe ==
  ASSUME Typed, Safe, Tick
  PROVE  Safe'
<1> USE LeaseConstants
<1>b. Bounds
  BY ClaimBounds
<1>t. /\ leases \in [Chunks -> SUBSET Lease]
      /\ toServer \in [Servers -> Seq(Message)]
      /\ clerk \in [Servers -> [Chunks -> ClerkLease \cup {NoLease}]]
  BY SMTT(30) DEF Typed, TypeOK
<1>l. \A c \in Chunks :
        leases'[c] = {[l EXCEPT !.left = Down(@, -1)] : l \in leases[c]}
  BY Zenon DEF Tick
<1>f. \A l \in Lease : /\ [l EXCEPT !.left = Down(@, -1)].left = Down(l.left, -1)
                       /\ [l EXCEPT !.left = Down(@, -1)].type = l.type
                       /\ [l EXCEPT !.left = Down(@, -1)].serial = l.serial
  BY SMTT(30) DEF Lease
<1>u. UNCHANGED <<mapped, serial, inFile, used, layouts>> /\ recLeft' = Down(recLeft, -1)
  BY Zenon DEF Tick, tree
<1>k. ASSUME NEW c \in Chunks, NEW k \in leases'[c]
      PROVE  \E l \in leases[c] : /\ k = [l EXCEPT !.left = Down(@, -1)]
                                  /\ k.type = l.type /\ k.serial = l.serial
  <2>1. PICK l \in leases[c] : k = [l EXCEPT !.left = Down(@, -1)]
    BY <1>l
  <2>2. l \in Lease
    BY <1>t
  <2> QED
    BY <2>1, <2>2, <1>f, SMTT(30)
<1>1. OneWriteLease'
  <2> SUFFICES ASSUME NEW c \in Chunks, NEW x \in leases'[c], NEW y \in leases'[c],
                      x.type = WRITE_LEASE, y.type = WRITE_LEASE
               PROVE  x = y
    BY DEF OneWriteLease
  <2>1. PICK l \in leases[c] : x = [l EXCEPT !.left = Down(@, -1)] /\ x.type = l.type
    BY <1>k
  <2>2. PICK m \in leases[c] : y = [m EXCEPT !.left = Down(@, -1)] /\ y.type = m.type
    BY <1>k
  <2>3. l = m
    BY <2>1, <2>2 DEF OneWriteLease, Safe
  <2> QED
    BY <2>1, <2>2, <2>3, Zenon
<1>2. SerialsBounded'
  <2>1. ASSUME NEW c \in Chunks, NEW k \in leases'[c]
        PROVE  \E l \in leases[c] : k.serial = l.serial
    BY <1>k
  <2> QED
    BY <2>1, <1>u DEF SerialsBounded, Safe
<1>3. ChunksUsed'
  BY <1>u DEF ChunksUsed, Safe
<1>4. ASSUME NEW c \in Chunks, NEW t \in Int, Cover(recLeft, leases[c], t)
      PROVE  Cover(recLeft', leases'[c], t - 1)
  <2>r. recLeft \in Int
    BY <1>b DEF Bounds
  <2>1. CASE t <= 0
    BY <2>1 DEF Cover
  <2>2. CASE t > 0 /\ t <= recLeft
    BY <2>2, <2>r, <1>u DEF Cover, Down
  <2>3. CASE t > 0 /\ \E l \in leases[c] : t <= l.left
    <3>1. PICK l \in leases[c] : t <= l.left
      BY <2>3, SMTT(30)
    <3>2. l \in Lease /\ l.left \in Int
      BY <1>t, <1>b DEF Bounds
    <3>3. PICK k \in leases'[c] : k.left = Down(l.left, -1)
      BY <1>l, <1>f, <3>2, Zenon
    <3>4. t - 1 <= k.left
      BY <2>3, <3>1, <3>2, <3>3 DEF Down
    <3> QED
      BY <3>4 DEF Cover
  <2> QED
    BY <1>4, <2>1, <2>2, <2>3, SMTT(30) DEF Cover
<1>5. ASSUME NEW s \in Servers, NEW c \in mapped', clerk'[s][c] # NoLease
      PROVE  Cover(recLeft', leases'[c], clerk'[s][c].left - MaxDelay)
  <2>1. c \in mapped /\ c \in Chunks
    BY <1>u, <1>b, SMTT(30) DEF Bounds
  <2>2. clerk'[s][c] = IF clerk[s][c] = NoLease THEN NoLease
                       ELSE [clerk[s][c] EXCEPT
                               !.left = Down(@, -LeaseInterval - 1),
                               !.idle = IF @ <= LeaseInterval THEN @ + 1 ELSE @]
    BY <2>1, Zenon DEF Tick
  <2>3. clerk[s][c] # NoLease /\ clerk[s][c] \in ClerkLease
    BY <1>5, <2>1, <2>2, <1>t
  <2>4. clerk'[s][c].left = Down(clerk[s][c].left, -LeaseInterval - 1)
    BY <2>2, <2>3, SMTT(30) DEF ClerkLease
  <2>5. PICK n \in Int : n = clerk[s][c].left
    BY <2>3 DEF ClerkLease
  <2>6. Cover(recLeft, leases[c], n - MaxDelay)
    BY <2>1, <2>3, <2>5, SMTT(30) DEF ClerkCovered, Safe
  <2>7. CASE n > -LeaseInterval - 1
    <3>1. n - MaxDelay \in Int /\ clerk'[s][c].left - MaxDelay = (n - MaxDelay) - 1
      BY <2>4, <2>5, <2>7, SMTT(30) DEF Down
    <3> QED
      BY <3>1, <2>1, <2>6, <1>4, SMTT(30)
  <2>8. CASE n <= -LeaseInterval - 1
    BY <2>8, <2>4, <2>5, SMTT(30) DEF Down, Cover
  <2> QED
    BY <2>7, <2>8
<1>6. ASSUME NEW s \in Servers, NEW i \in DOMAIN toServer'[s],
             toServer'[s][i].chunk \in mapped', Promises(toServer'[s][i])
      PROVE  Cover(recLeft', leases'[toServer'[s][i].chunk],
                   LeaseInterval - toServer'[s][i].age)
  <2>1. toServer'[s] = [j \in DOMAIN toServer[s] |->
                          [toServer[s][j] EXCEPT !.age = @ + 1]]
    BY Zenon DEF Tick
  <2>2. PICK m : m = toServer[s][i]
    OBVIOUS
  <2>3. i \in DOMAIN toServer[s] /\ m \in Message
        /\ toServer'[s][i] = [m EXCEPT !.age = @ + 1]
    BY <2>1, <2>2, <1>6, <1>t
  <2>4. PICK k : k = toServer'[s][i]
    OBVIOUS
  <2>5. k.chunk = m.chunk /\ k.age = m.age + 1 /\ (Promises(k) => Promises(m))
    BY <2>3, <2>4 DEF Message, Promises
  <2>6. m.age \in Nat /\ m.chunk \in Chunks
    BY <2>3 DEF Message
  <2>7. Cover(recLeft, leases[m.chunk], LeaseInterval - m.age)
    BY <1>6, <1>u, <2>2, <2>3, <2>4, <2>5, SMTT(30) DEF MessageCovered, Safe
  <2>8. PICK t \in Int : t = LeaseInterval - m.age
    BY <2>6
  <2>9. LeaseInterval - k.age = t - 1
    BY <2>5, <2>6, <2>8, SMTT(30)
  <2> QED
    BY <1>4, <2>4, <2>5, <2>6, <2>7, <2>8, <2>9, SMTT(30)
<1>7. ClerkCovered'
  BY <1>5 DEF ClerkCovered
<1>8. MessageCovered'
  BY <1>6 DEF MessageCovered
<1> QED
  BY <1>1, <1>2, <1>3, <1>7, <1>8 DEF Safe

\* Every step of the lease protocol keeps the inductive invariant.
LEMMA SafeStep == Typed /\ Typed' /\ Safe /\ [Next]_vars => Safe'
<1> SUFFICES ASSUME Typed, Typed', Safe, [Next]_vars PROVE Safe'
  BY SMTT(30)
<1>1. CASE MetaStep
  BY <1>1, AllocateChunkSafe, GetChunkWriteLeaseSafe, GetChunkWriteLeaseNoSpaceSafe,
     GetChunkReadLeaseSafe, TruncateSafe, ChunkCorruptSafe, LayoutDoneSafe,
     RenewReadLeaseSafe, RenewWriteLeaseSafe, ServerDownSafe, AddNewServerSafe,
     RemoveFileSafe, LeaseCleanupSafe, MetaRestartSafe, SMTT(30) DEF MetaStep
<1>2. CASE ServerStep
  BY <1>2, ReceiveSafe, LoseSafe, ServerDiesSafe, DoingWriteSafe, ClerkTimeoutSafe
     DEF ServerStep
<1>3. CASE Tick
  BY <1>3, TickSafe, SMTT(30)
<1>4. CASE UNCHANGED vars
  BY <1>4, SMTT(30) DEF vars, tree, layout, conns, Safe, OneWriteLease, SerialsBounded,
              ChunksUsed, ClerkCovered, MessageCovered
<1> QED
  BY <1>1, <1>2, <1>3, <1>4 DEF Next

\* The initial state satisfies the inductive invariant.
LEMMA SafeInit == Init => Safe
BY Zenon DEF Init, Safe, OneWriteLease, SerialsBounded, ChunksUsed, ClerkCovered, MessageCovered

\* Typed and Safe hold in every state of every behaviour.
LEMMA AlwaysSafe == Spec => [](Typed /\ Safe)
BY TypedInit, TypedStep, SafeInit, SafeStep, PTL DEF Spec

\* At no time does the lease table hold two valid write leases on one chunk,
\* for any number of chunks, chunkservers, leases and restarts.
THEOREM LeasesExclusive == Spec => []WriteLeaseExclusive
<1>1. Safe => WriteLeaseExclusive
  BY Zenon DEF Safe, OneWriteLease, WriteLeaseExclusive, IsValidWriteLease
<1> QED
  BY <1>1, AlwaysSafe, PTL

\* What a chunkserver's clerk believes to have left of a lease is covered by
\* the metaserver's table or by the recovery period, but for the message delay.
THEOREM LeasesCovered == Spec => []HolderIsCovered
<1>1. Typed /\ Safe => HolderIsCovered
  <2> SUFFICES ASSUME Typed, Safe, NEW s \in Servers, NEW c \in inFile \cap mapped,
                      IsLeaseValid(s, c)
               PROVE  \/ clerk[s][c].left <= MaxDelay
                      \/ clerk[s][c].left <= recLeft + MaxDelay
                      \/ \E l \in leases[c] : clerk[s][c].left <= l.left + MaxDelay
    BY DEF HolderIsCovered
  <2>1. clerk[s][c] # NoLease
    BY DEF IsLeaseValid, Held
  <2>2. Cover(recLeft, leases[c], clerk[s][c].left - MaxDelay)
    BY <2>1, SMTT(30) DEF Safe, ClerkCovered
  <2>3. /\ clerk[s][c].left \in Int /\ recLeft \in Int
        /\ \A l \in leases[c] : l.left \in Int
    BY <2>1, ClaimBounds DEF Bounds
  <2> QED
    BY <2>2, <2>3, LeaseConstants, SMTT(30) DEF Cover
<1> QED
  BY <1>1, AlwaysSafe, PTL

\* The lease that a step adds to the table carries the new serial number.
LEMMA OldSerials ==
  ASSUME Typed, Safe, NEW c \in Chunks, NEW l \in leases[c], serial' > serial
  PROVE  l.serial # serial'
<1>1. l.serial <= serial /\ l.serial \in Nat
  BY LeaseFields DEF Safe, SerialsBounded
<1>2. serial \in Nat
  BY DEF Typed, TypeOK, LeaseConstants
<1> QED
  BY <1>1, <1>2

\* GetChunkWriteLease never issues a write lease on an existing chunk while
\* some chunkserver still believes in an earlier one for more than the message
\* delay, whether or not the metaserver was restarted in between.
THEOREM LeasesLapseFirst == Spec => GrantAfterHoldersLapse
<1> DEFINE Lapsed(c) == \A s \in Servers : IsLeaseValid(s, c) => clerk[s][c].left <= MaxDelay
           New(c) == \E l \in leases'[c] : l.serial = serial' /\ l.type = WRITE_LEASE
<1>1. Typed /\ Safe /\ [Next]_vars
        => [\A c \in inFile : serial' > serial /\ New(c) => Lapsed(c)]_vars
  <2> USE LeaseConstants
  <2> SUFFICES ASSUME Typed, Safe, [Next]_vars,
                      NEW c \in inFile, serial' > serial, New(c)
               PROVE  Lapsed(c)
    BY SMTT(30)
  <2>t. /\ serial \in Nat /\ c \in Chunks
        /\ leases \in [Chunks -> SUBSET Lease]
    BY DEF Typed, TypeOK
  <2>o. leases'[c] # leases[c]
    BY OldSerials, <2>t, SMTT(30)
  <2>1. \/ \E d \in Chunks, S \in SUBSET Servers : AllocateChunk(d, S)
        \/ \E d \in Chunks : GetChunkWriteLease(d)
        \/ \E d \in Chunks : GetChunkReadLease(d)
    <3>1. serial' # serial
      BY <2>t, SMTT(30)
    <3>2. CASE MetaStep
      BY <3>1, <3>2, ZenonT(30) DEF MetaStep, GetChunkWriteLeaseNoSpace, Truncate, ChunkCorrupt,
         LayoutDone, RenewReadLease, RenewWriteLease, ServerDown, AddNewServer,
         RemoveFile, LeaseCleanup, MetaRestart
    <3>3. CASE ServerStep \/ Tick \/ UNCHANGED vars
      BY <3>1, <3>3, ZenonT(30) DEF ServerStep, Receive, Lose, ServerDies, DoingWrite,
         ClerkTimeout, Tick, vars, layout
    <3> QED
      BY <3>2, <3>3 DEF Next
  <2>2. ASSUME NEW d \in Chunks, NEW S \in SUBSET Servers, AllocateChunk(d, S)
        PROVE  Lapsed(c)
    <3>1. d # c
      BY <2>2, ZenonT(30) DEF AllocateChunk, Safe, ChunksUsed
    <3>2. leases'[c] = leases[c]
      BY <2>2, <3>1, <2>t, SMTT(30) DEF AllocateChunk, Grant
    <3> QED
      BY <3>2, <2>o, SMTT(30)
  <2>3. ASSUME NEW d \in Chunks, GetChunkReadLease(d)
        PROVE  Lapsed(c)
    <3>1. leases' = [leases EXCEPT ![d] = @ \cup {NewLease(READ_LEASE)}]
      BY <2>3, SMTT(30) DEF GetChunkReadLease
    <3>2. PICK l \in leases'[c] : l.serial = serial' /\ l.type = WRITE_LEASE
      BY Zenon
    <3>3. l \in leases[c]
      BY <3>1, <3>2, <2>t, SMTT(30) DEF NewLease
    <3> QED
      BY <3>2, <3>3, <2>t, OldSerials, SMTT(30)
  <2>4. ASSUME NEW d \in Chunks, GetChunkWriteLease(d)
        PROVE  Lapsed(c)
    <3>1. c = d
      BY <2>4, <2>o, <2>t, SMTT(30) DEF GetChunkWriteLease, Grant
    <3>2. /\ c \in mapped /\ ~(recLeft >= 0)
          /\ \A l \in leases[c] : ~(l.left >= 0)
      BY <2>4, <3>1, SMTT(30) DEF GetChunkWriteLease, NeedsNewLease, InRecovery, IsValidLease
    <3> SUFFICES ASSUME NEW s \in Servers, IsLeaseValid(s, c)
                 PROVE  clerk[s][c].left <= MaxDelay
      OBVIOUS
    <3>3. clerk[s][c] # NoLease
      BY SMTT(30) DEF IsLeaseValid, Held
    <3>4. Cover(recLeft, leases[c], clerk[s][c].left - MaxDelay)
      BY <3>2, <3>3, SMTT(30) DEF Safe, ClerkCovered
    <3>5. /\ clerk[s][c].left \in Int /\ recLeft \in Int
          /\ \A l \in leases[c] : l.left \in Int
      BY <2>t, <3>3, ClaimBounds, SMTT(30) DEF Bounds
    <3> QED
      BY <3>2, <3>4, <3>5, SMTT(30) DEF Cover
  <2> QED
    BY <2>1, <2>2, <2>3, <2>4, Zenon
<1>2. Typed /\ Safe /\ [Next]_vars
        => [\A c \in inFile :
              (serial' > serial /\ \E l \in leases'[c] : l.serial = serial' /\ l.type = WRITE_LEASE)
                => \A s \in Servers : IsLeaseValid(s, c) => clerk[s][c].left <= MaxDelay]_vars
  BY <1>1
<1> QED
  BY <1>2, AlwaysSafe, PTL DEF Spec, GrantAfterHoldersLapse

=============================================================================
