---------------------------- MODULE LeasesProofs ----------------------------
(***************************************************************************)
(* Proofs about Leases for any number of chunks, chunkservers, seconds and *)
(* restarts.                                                               *)
(***************************************************************************)
EXTENDS Leases, TLAPS, FiniteSetTheorems

USE DEF READ_LEASE, WRITE_LEASE

\* There are finitely many chunks: offsets are numbered.
LEMMA ChunksFinite == IsFiniteSet(Chunks)
BY FS_Interval, LeaseConstants DEF Chunks

\* Facts about finite sets in the form the action proofs use them.
LEMMA FiniteFacts ==
  /\ IsFiniteSet({})
  /\ \A x : IsFiniteSet({x})
  /\ \A S : IsFiniteSet(S) => Cardinality(S) \in Nat
  /\ \A S, T : IsFiniteSet(T) /\ S \subseteq T => IsFiniteSet(S)
  /\ \A S, x : IsFiniteSet(S) => IsFiniteSet(S \cup {x})
BY FS_EmptySet, FS_Singleton, FS_CardinalityType, FS_Subset, FS_AddElement

\* The lease list of every chunk is finite.
FiniteLeases == \A c \in Chunks : IsFiniteSet(leases[c])

Typed == TypeOK /\ FiniteLeases

\* What DecChunkWriteCount leaves in the write counts is again a count.
LEMMA DecrementedType ==
  ASSUME numWrites \in [Servers -> Nat], NEW S, NEW n \in Nat
  PROVE  Decremented(S, n) \in [Servers -> Nat]
BY DEF Decremented

\* The leases of a list stay finitely many when a second passes.
LEMMA ImageFinite ==
  ASSUME NEW L, IsFiniteSet(L)
  PROVE  IsFiniteSet({[l EXCEPT !.left = Down(@, -1)] : l \in L})
<1> DEFINE f == [l \in L |-> [l EXCEPT !.left = Down(@, -1)]]
           I == {[l EXCEPT !.left = Down(@, -1)] : l \in L}
<1>1. f \in Surjection(L, I)
  BY DEF Surjection
<1> HIDE DEF f, I
<1>2. IsFiniteSet(I)
  BY <1>1, FS_Surjection
<1> QED
  BY <1>2 DEF I

\* The queues of a connection lose their first or their last element.
LEMMA EndsType ==
  ASSUME NEW S, NEW q \in Seq(S), q # <<>>
  PROVE  /\ Head(q) \in S /\ q[Len(q)] \in S
         /\ Tail(q) \in Seq(S) /\ SubSeq(q, 1, Len(q) - 1) \in Seq(S)
OBVIOUS

\* Granting a write lease keeps the variables it writes in their types.
LEMMA GrantType ==
  ASSUME Typed, NEW c \in Chunks, NEW S \in SUBSET Servers, NEW master \in S,
         NEW vers \in Nat, NEW counts \in [Servers -> Nat],
         Grant(c, S, master, vers, counts)
  PROVE  /\ serial' \in 0..MaxLeases
         /\ mLeaseId' \in Nat
         /\ leases' \in [Chunks -> SUBSET Lease]
         /\ FiniteLeases'
         /\ hosts' \in [Chunks -> SUBSET Servers]
         /\ mapped' \subseteq Chunks
         /\ numWrites' \in [Servers -> Nat]
         /\ layouts' \subseteq Layout
         /\ toServer' \in [Servers -> Seq(Message)]
<1> USE LeaseConstants DEF Grant
<1>2. serial + 1 \in 1..MaxLeases
  BY DEF Typed, TypeOK
<1>3. NewLease("WRITE_LEASE") \in Lease
  BY <1>2 DEF NewLease, Lease, Typed, TypeOK
<1>4. [kind |-> "grant", chunk |-> c, id |-> mLeaseId, serial |-> serial + 1,
       age |-> 0] \in Message
  BY <1>2 DEF Message, Typed, TypeOK
<1>5. toServer' \in [Servers -> Seq(Message)]
  BY <1>4 DEF Typed, TypeOK
<1>6. FiniteLeases'
  BY FiniteFacts, Zenon DEF FiniteLeases, Typed, TypeOK
<1>7. leases' \in [Chunks -> SUBSET Lease]
  BY <1>3 DEF Typed, TypeOK
<1>8. layouts' \subseteq Layout
  <2>1. [chunk |-> c, serial |-> serial + 1, version |-> vers, acked |-> FALSE]
          \in Layout
    BY <1>2, Zenon DEF Layout
  <2> QED
    BY <2>1, Zenon DEF Typed, TypeOK
<1>9. numWrites' \in [Servers -> Nat]
  OBVIOUS
<1> QED
  BY <1>2, <1>5, <1>6, <1>7, <1>8, <1>9 DEF Typed, TypeOK

\* AllocateChunk keeps the types: the new chunk gets the first lease.
\* AllocateChunk keeps the types: the new chunk gets the first lease.
\* AllocateChunk keeps the types: the new chunk gets the first lease.
\* AllocateChunk keeps the types: the new chunk gets the first lease.
\* AllocateChunk keeps the types: the new chunk gets the first lease.
\* AllocateChunk keeps the types: the new chunk gets the first lease.
\* AllocateChunk keeps the types: the new chunk gets the first lease.
LEMMA AllocateChunkType ==
  ASSUME Typed, NEW c \in Chunks, NEW S \in SUBSET Servers, AllocateChunk(c, S)
  PROVE  Typed'
<1> USE LeaseConstants
<1>g. /\ serial' \in 0..MaxLeases /\ mLeaseId' \in Nat
      /\ leases' \in [Chunks -> SUBSET Lease] /\ FiniteLeases'
      /\ hosts' \in [Chunks -> SUBSET Servers] /\ mapped' \subseteq Chunks
      /\ numWrites' \in [Servers -> Nat] /\ layouts' \subseteq Layout
      /\ toServer' \in [Servers -> Seq(Message)]
  <2>1. numWrites \in [Servers -> Nat]
    BY DEF Typed, TypeOK
  <2> QED
    BY <2>1, GrantType, Zenon DEF AllocateChunk
<1>u. UNCHANGED <<file, inFile, version, recLeft, up, readers, toMeta,
                  clerk, crashes>>
  BY DEF AllocateChunk, tree, layout, conns
<1>1. used' \subseteq Chunks
  BY DEF AllocateChunk, Typed, TypeOK
<1>2. mapped' \subseteq Chunks
  BY <1>g DEF AllocateChunk, Typed, TypeOK
<1>3. hosts' \in [Chunks -> SUBSET Servers]
  BY <1>g DEF AllocateChunk, Typed, TypeOK
<1>4. leases' \in [Chunks -> SUBSET Lease]
  BY <1>g DEF AllocateChunk, Typed, TypeOK
<1>5. FiniteLeases'
  BY <1>g DEF AllocateChunk, Typed, TypeOK
<1>6. mLeaseId' \in Nat
  BY <1>g DEF AllocateChunk, Typed, TypeOK
<1>7. serial' \in 0..MaxLeases
  BY <1>g DEF AllocateChunk, Typed, TypeOK
<1>8. numWrites' \in [Servers -> Nat]
  BY <1>g DEF AllocateChunk, Typed, TypeOK
<1>9. layouts' \subseteq Layout
  BY <1>g DEF AllocateChunk, Typed, TypeOK
<1>10. toServer' \in [Servers -> Seq(Message)]
  BY <1>g DEF AllocateChunk, Typed, TypeOK
<1> QED
  BY <1>u, <1>1, <1>2, <1>3, <1>4, <1>5, <1>6, <1>7, <1>8, <1>9, <1>10 DEF Typed, TypeOK, FiniteLeases

\* GetChunkWriteLease keeps the types: the expired leases make room for one.
LEMMA GetChunkWriteLeaseType ==
  ASSUME Typed, NEW c \in Chunks, GetChunkWriteLease(c)
  PROVE  Typed'
<1> USE LeaseConstants
<1>g. /\ serial' \in 0..MaxLeases /\ mLeaseId' \in Nat
      /\ leases' \in [Chunks -> SUBSET Lease] /\ FiniteLeases'
      /\ hosts' \in [Chunks -> SUBSET Servers] /\ mapped' \subseteq Chunks
      /\ numWrites' \in [Servers -> Nat] /\ layouts' \subseteq Layout
      /\ toServer' \in [Servers -> Seq(Message)]
  <2> DEFINE n == Cardinality(WriteLeases(leases[c]))
  <2>1. n \in Nat
    BY FiniteFacts DEF WriteLeases, Typed, FiniteLeases
  <2>2. Decremented(hosts[c], n) \in [Servers -> Nat]
    BY <2>1, DecrementedType DEF Typed, TypeOK
  <2>3. hosts[c] \in SUBSET Servers /\ version[c] + 1 \in Nat
    BY DEF Typed, TypeOK
  <2> HIDE DEF n
  <2> QED
    BY <2>2, <2>3, GrantType, Zenon DEF GetChunkWriteLease, n
<1>u. UNCHANGED <<file, used, inFile, version, recLeft, up, readers, toMeta,
                  clerk, crashes>>
  BY DEF GetChunkWriteLease, tree, layout, conns
<1>1. mapped' \subseteq Chunks
  BY <1>g DEF GetChunkWriteLease, Typed, TypeOK
<1>2. hosts' \in [Chunks -> SUBSET Servers]
  BY <1>g DEF GetChunkWriteLease, Typed, TypeOK
<1>3. leases' \in [Chunks -> SUBSET Lease]
  BY <1>g DEF GetChunkWriteLease, Typed, TypeOK
<1>4. FiniteLeases'
  BY <1>g DEF GetChunkWriteLease, Typed, TypeOK
<1>5. mLeaseId' \in Nat
  BY <1>g DEF GetChunkWriteLease, Typed, TypeOK
<1>6. serial' \in 0..MaxLeases
  BY <1>g DEF GetChunkWriteLease, Typed, TypeOK
<1>7. numWrites' \in [Servers -> Nat]
  BY <1>g DEF GetChunkWriteLease, Typed, TypeOK
<1>8. layouts' \subseteq Layout
  BY <1>g DEF GetChunkWriteLease, Typed, TypeOK
<1>9. toServer' \in [Servers -> Seq(Message)]
  BY <1>g DEF GetChunkWriteLease, Typed, TypeOK
<1> QED
  BY <1>u, <1>1, <1>2, <1>3, <1>4, <1>5, <1>6, <1>7, <1>8, <1>9 DEF Typed, TypeOK, FiniteLeases

\* A grant refused for lack of space keeps the types.
LEMMA GetChunkWriteLeaseNoSpaceType ==
  ASSUME Typed, NEW c \in Chunks, GetChunkWriteLeaseNoSpace(c)
  PROVE  Typed'
<1> USE LeaseConstants
<1>n. Cardinality(WriteLeases(leases[c])) \in Nat
  BY FiniteFacts DEF WriteLeases, Typed, FiniteLeases
<1>u. UNCHANGED <<file, used, inFile, version, mapped, hosts, leases,
                  mLeaseId, serial, recLeft, up, layouts, readers, toServer,
                  toMeta, clerk, crashes>>
  BY DEF GetChunkWriteLeaseNoSpace, tree, layout, conns
<1>1. numWrites' \in [Servers -> Nat]
  BY <1>n, DecrementedType DEF GetChunkWriteLeaseNoSpace, Typed, TypeOK
<1> QED
  BY <1>u, <1>1 DEF Typed, TypeOK, FiniteLeases

\* GetChunkReadLease keeps the types.
LEMMA GetChunkReadLeaseType ==
  ASSUME Typed, NEW c \in Chunks, GetChunkReadLease(c)
  PROVE  Typed'
<1> USE LeaseConstants
<1>n. NewLease("READ_LEASE") \in Lease
  BY DEF GetChunkReadLease, NewLease, Lease, Typed, TypeOK
<1>u. UNCHANGED <<file, used, inFile, version, mapped, hosts, recLeft, up,
                  numWrites, layouts, toServer, toMeta, clerk, crashes>>
  BY DEF GetChunkReadLease, tree, layout, conns
<1>1. leases' \in [Chunks -> SUBSET Lease]
  BY <1>n DEF GetChunkReadLease, Typed, TypeOK
<1>2. FiniteLeases'
  BY FiniteFacts, ZenonT(30) DEF GetChunkReadLease, FiniteLeases, Typed, TypeOK
<1>3. mLeaseId' \in Nat
  BY DEF GetChunkReadLease, Typed, TypeOK
<1>4. serial' \in 0..MaxLeases
  BY DEF GetChunkReadLease, Typed, TypeOK
<1>5. readers' \subseteq Renewal
  BY DEF GetChunkReadLease, Renewal, Typed, TypeOK
<1> QED
  BY <1>u, <1>1, <1>2, <1>3, <1>4, <1>5 DEF Typed, TypeOK, FiniteLeases

\* The second pass of handle_allocate keeps the types.
LEMMA LayoutDoneType ==
  ASSUME Typed, NEW l \in layouts, NEW ok \in BOOLEAN, LayoutDone(l, ok)
  PROVE  Typed'
<1> USE LeaseConstants
<1>n. l.chunk \in Chunks /\ l.version \in Nat
  BY DEF Layout, Typed, TypeOK
<1>u. UNCHANGED <<file, used, mLeaseId, serial, recLeft, up, numWrites,
                  readers, toServer, toMeta, clerk, crashes>>
  BY DEF LayoutDone, tree, layout, conns
<1>1. inFile' \subseteq Chunks
  BY <1>n DEF LayoutDone, Typed, TypeOK
<1>2. version' \in [Chunks -> Nat]
  BY <1>n DEF LayoutDone, Typed, TypeOK
<1>3. mapped' \subseteq Chunks
  BY <1>n DEF LayoutDone, Typed, TypeOK
<1>4. hosts' \in [Chunks -> SUBSET Servers]
  BY <1>n DEF LayoutDone, Typed, TypeOK
<1>5. leases' \in [Chunks -> SUBSET Lease]
  BY <1>n, Zenon DEF LayoutDone, Typed, TypeOK
<1>6. FiniteLeases'
  <2> SUFFICES ASSUME NEW d \in Chunks PROVE IsFiniteSet(leases'[d])
    BY DEF FiniteLeases
  <2>1. leases'[d] \in {leases[d], {}}
    BY <1>n DEF LayoutDone, Typed, TypeOK
  <2> QED
    BY <2>1, FiniteFacts DEF Typed, FiniteLeases
<1>7. layouts' \subseteq Layout
  BY DEF LayoutDone, Typed, TypeOK
<1> QED
  BY <1>u, <1>1, <1>2, <1>3, <1>4, <1>5, <1>6, <1>7 DEF Typed, TypeOK, FiniteLeases

\* Tree::remove keeps the types.
LEMMA RemoveFileType ==
  ASSUME Typed, RemoveFile
  PROVE  Typed'
<1> USE LeaseConstants
<1>u. UNCHANGED <<used, version, mLeaseId, serial, recLeft, up, numWrites,
                  layouts, readers, toServer, toMeta, clerk, crashes>>
  BY DEF RemoveFile, tree, layout, conns
<1>1. file' \in {"linked", "dumpster", "removed"}
  BY DEF RemoveFile, Typed, TypeOK
<1>2. inFile' \subseteq Chunks
  BY DEF RemoveFile, DeleteChunks, Typed, TypeOK
<1>3. mapped' \subseteq Chunks
  BY DEF RemoveFile, DeleteChunks, Typed, TypeOK
<1>4. hosts' \in [Chunks -> SUBSET Servers]
  BY Zenon DEF RemoveFile, DeleteChunks, Typed, TypeOK
<1>5. leases' \in [Chunks -> SUBSET Lease]
  BY Zenon DEF RemoveFile, Typed, TypeOK
<1>6. FiniteLeases'
  <2> SUFFICES ASSUME NEW d \in Chunks PROVE IsFiniteSet(leases'[d])
    BY DEF FiniteLeases
  <2>1. leases'[d] \subseteq leases[d]
    BY Zenon DEF RemoveFile, Typed, TypeOK
  <2> QED
    BY <2>1, FiniteFacts DEF Typed, FiniteLeases
<1> QED
  BY <1>u, <1>1, <1>2, <1>3, <1>4, <1>5, <1>6 DEF Typed, TypeOK, FiniteLeases

\* Tree::truncate keeps the types.
LEMMA TruncateType ==
  ASSUME Typed, NEW k \in Chunks, Truncate(k)
  PROVE  Typed'
<1> USE LeaseConstants
<1>u. UNCHANGED <<file, used, version, mLeaseId, serial, recLeft, up,
                  numWrites, layouts, readers, toServer, toMeta, clerk,
                  crashes>>
  BY DEF Truncate, tree, layout, conns
<1>1. inFile' \subseteq Chunks
  BY DEF Truncate, DeleteChunks, Typed, TypeOK
<1>2. mapped' \subseteq Chunks
  BY DEF Truncate, DeleteChunks, Typed, TypeOK
<1>3. hosts' \in [Chunks -> SUBSET Servers]
  BY DEF Truncate, DeleteChunks, Typed, TypeOK
<1>4. leases' \in [Chunks -> SUBSET Lease]
  BY DEF Truncate, Typed, TypeOK
<1>5. FiniteLeases'
  <2> SUFFICES ASSUME NEW d \in Chunks PROVE IsFiniteSet(leases'[d])
    BY DEF FiniteLeases
  <2>1. leases'[d] \subseteq leases[d]
    BY DEF Truncate, Typed, TypeOK
  <2> QED
    BY <2>1, FiniteFacts DEF Typed, FiniteLeases
<1> QED
  BY <1>u, <1>1, <1>2, <1>3, <1>4, <1>5 DEF Typed, TypeOK, FiniteLeases

\* The periodic lease cleanup keeps the types.
LEMMA LeaseCleanupType ==
  ASSUME Typed, LeaseCleanup
  PROVE  Typed'
<1> USE LeaseConstants
<1>u. UNCHANGED <<used, version, mLeaseId, serial, recLeft, up, layouts,
                  readers, toServer, toMeta, clerk, crashes>>
  BY DEF LeaseCleanup, tree, layout, conns
<1>1. file' \in {"linked", "dumpster", "removed"}
  BY DEF LeaseCleanup, CleanupDumpster, DeleteChunks, Typed, TypeOK
<1>2. inFile' \subseteq Chunks
  BY Zenon DEF LeaseCleanup, CleanupDumpster, DeleteChunks, Typed, TypeOK
<1>3. mapped' \subseteq Chunks
  BY Zenon DEF LeaseCleanup, CleanupDumpster, DeleteChunks, Typed, TypeOK
<1>4. hosts' \in [Chunks -> SUBSET Servers]
  BY Zenon DEF LeaseCleanup, CleanupDumpster, DeleteChunks, Typed, TypeOK
<1>5. leases' \in [Chunks -> SUBSET Lease]
  BY DEF LeaseCleanup, Survivors, Typed, TypeOK
<1>6. FiniteLeases'
  <2> SUFFICES ASSUME NEW d \in Chunks PROVE IsFiniteSet(leases'[d])
    BY DEF FiniteLeases
  <2>1. leases'[d] \subseteq leases[d]
    BY DEF LeaseCleanup, Survivors, Typed, TypeOK
  <2> QED
    BY <2>1, FiniteFacts DEF Typed, FiniteLeases
<1>7. numWrites' \in [Servers -> Nat]
  <2>1. \A s \in Servers :
          Cardinality({c \in mapped : s \in hosts[c]
                                     /\ WriteLeases(Trimmed(c)) # {}}) \in Nat
    BY ChunksFinite, FiniteFacts DEF Typed, TypeOK
  <2> DEFINE n(s) == Cardinality({c \in mapped : s \in hosts[c]
                                     /\ WriteLeases(Trimmed(c)) # {}})
  <2>2. numWrites' = [s \in Servers |-> IF numWrites[s] > n(s)
                                       THEN numWrites[s] - n(s) ELSE 0]
    BY DEF LeaseCleanup
  <2> HIDE DEF n
  <2>3. \A s \in Servers : n(s) \in Nat
    BY <2>1 DEF n
  <2> QED
    BY <2>2, <2>3 DEF Typed, TypeOK
<1> QED
  BY <1>u, <1>1, <1>2, <1>3, <1>4, <1>5, <1>6, <1>7 DEF Typed, TypeOK, FiniteLeases

\* Losing a chunkserver keeps the types.
LEMMA ServerDownType ==
  ASSUME Typed, NEW s \in Servers, NEW died \in BOOLEAN, ServerDown(s, died)
  PROVE  Typed'
<1> USE LeaseConstants
<1>u. UNCHANGED <<file, used, inFile, version, mapped, leases, mLeaseId,
                  serial, recLeft, layouts, readers, crashes>>
  BY DEF ServerDown, tree, layout, conns
<1>1. hosts' \in [Chunks -> SUBSET Servers]
  BY DEF ServerDown, Typed, TypeOK
<1>2. up' \subseteq Servers
  BY DEF ServerDown, Typed, TypeOK
<1>3. numWrites' \in [Servers -> Nat]
  BY DEF ServerDown, Typed, TypeOK
<1>4. toServer' \in [Servers -> Seq(Message)]
  <2>1. toServer' = toServer \/ toServer' = [toServer EXCEPT ![s] = <<>>]
    BY Zenon DEF ServerDown
  <2>2. CASE toServer' = toServer
    BY <2>2 DEF Typed, TypeOK
  <2>3. CASE toServer' = [toServer EXCEPT ![s] = <<>>]
    BY <2>3 DEF Typed, TypeOK
  <2> QED
    BY <2>1, <2>2, <2>3
<1>5. toMeta' \in [Servers -> Seq(Renewal)]
  <2>1. toMeta' = toMeta \/ toMeta' = [toMeta EXCEPT ![s] = <<>>]
    BY Zenon DEF ServerDown
  <2>2. CASE toMeta' = toMeta
    BY <2>2 DEF Typed, TypeOK
  <2>3. CASE toMeta' = [toMeta EXCEPT ![s] = <<>>]
    BY <2>3 DEF Typed, TypeOK
  <2> QED
    BY <2>1, <2>2, <2>3
<1>6. clerk' \in [Servers -> [Chunks -> ClerkLease \cup {NoLease}]]
  <2>1. clerk' = clerk \/ clerk' = [clerk EXCEPT ![s] = [c \in Chunks |-> NoLease]]
    BY Zenon DEF ServerDown
  <2>2. CASE clerk' = clerk
    BY <2>2 DEF Typed, TypeOK
  <2>3. CASE clerk' = [clerk EXCEPT ![s] = [c \in Chunks |-> NoLease]]
    BY <2>3 DEF Typed, TypeOK
  <2> QED
    BY <2>1, <2>2, <2>3
<1> QED
  BY <1>u, <1>1, <1>2, <1>3, <1>4, <1>5, <1>6 DEF Typed, TypeOK, FiniteLeases

\* The death of a disconnected chunkserver keeps the types.
LEMMA ServerDiesType ==
  ASSUME Typed, NEW s \in Servers, ServerDies(s)
  PROVE  Typed'
<1> USE LeaseConstants
<1>u. UNCHANGED <<file, used, inFile, version, mapped, hosts, leases,
                  mLeaseId, serial, recLeft, up, numWrites, layouts,
                  readers, crashes>>
  BY DEF ServerDies, tree, layout, conns
<1>1. toServer' \in [Servers -> Seq(Message)]
  BY DEF ServerDies, Typed, TypeOK
<1>2. toMeta' \in [Servers -> Seq(Renewal)]
  BY DEF ServerDies, Typed, TypeOK
<1>3. clerk' \in [Servers -> [Chunks -> ClerkLease \cup {NoLease}]]
  BY DEF ServerDies, Typed, TypeOK
<1> QED
  BY <1>u, <1>1, <1>2, <1>3 DEF Typed, TypeOK, FiniteLeases

\* A lost message keeps the types.
LEMMA LoseType ==
  ASSUME Typed, NEW s \in Servers, Lose(s)
  PROVE  Typed'
<1> USE LeaseConstants
<1>q. /\ toServer[s] \in Seq(Message) /\ toServer[s] # <<>>
      /\ toMeta[s] \in Seq(Renewal)
  BY DEF Lose, Typed, TypeOK
<1>m. toServer[s][Len(toServer[s])] \in Message /\ SubSeq(toServer[s], 1, Len(toServer[s]) - 1) \in Seq(Message)
  BY <1>q, EndsType, SMTT(30)
<1>u. UNCHANGED <<file, used, inFile, version, mapped, hosts, leases,
                  mLeaseId, serial, recLeft, up, numWrites, layouts,
                  readers, clerk, crashes>>
  BY DEF Lose, tree, layout, conns
<1>1. toServer' \in [Servers -> Seq(Message)]
  BY <1>m DEF Lose, Typed, TypeOK
<1>2. toMeta' \in [Servers -> Seq(Renewal)]
  <2> DEFINE m == toServer[s][Len(toServer[s])]
  <2>1. CASE m.kind = "reply"
    <3>1. [chunk |-> m.chunk, id |-> m.id] \in Renewal
      BY <1>m DEF Message, Renewal
    <3> HIDE DEF m
    <3>2. <<[chunk |-> m.chunk, id |-> m.id]>> \o toMeta[s] \in Seq(Renewal)
      BY <3>1, <1>q
    <3> QED
      BY <2>1, <3>2 DEF Lose, m, Typed, TypeOK
  <2>2. CASE m.kind # "reply"
    BY <2>2 DEF Lose, Typed, TypeOK
  <2> QED
    BY <2>1, <2>2
<1> QED
  BY <1>u, <1>1, <1>2 DEF Typed, TypeOK, FiniteLeases

\* AddNewServer keeps the types.
LEMMA AddNewServerType ==
  ASSUME Typed, NEW s \in Servers, NEW keep \in SUBSET Chunks, AddNewServer(s, keep)
  PROVE  Typed'
<1> USE LeaseConstants
<1>u. UNCHANGED <<file, used, inFile, version, mapped, leases, mLeaseId,
                  serial, recLeft, numWrites, layouts, readers, toServer,
                  toMeta, clerk, crashes>>
  BY DEF AddNewServer, tree, layout, conns
<1>1. hosts' \in [Chunks -> SUBSET Servers]
  BY DEF AddNewServer, Typed, TypeOK
<1>2. up' \subseteq Servers
  BY DEF AddNewServer, Typed, TypeOK
<1> QED
  BY <1>u, <1>1, <1>2 DEF Typed, TypeOK, FiniteLeases

\* A corrupt replica keeps the types.
LEMMA ChunkCorruptType ==
  ASSUME Typed, NEW s \in Servers, NEW c \in Chunks, ChunkCorrupt(s, c)
  PROVE  Typed'
<1> USE LeaseConstants
<1>u. UNCHANGED <<file, used, inFile, version, mapped, leases, mLeaseId,
                  serial, recLeft, up, numWrites, layouts, readers,
                  toServer, toMeta, clerk, crashes>>
  BY DEF ChunkCorrupt, tree, layout, conns
<1>1. hosts' \in [Chunks -> SUBSET Servers]
  BY DEF ChunkCorrupt, Typed, TypeOK
<1> QED
  BY <1>u, <1>1 DEF Typed, TypeOK, FiniteLeases

\* A restart of the metaserver keeps the types.
LEMMA MetaRestartType ==
  ASSUME Typed, MetaRestart
  PROVE  Typed'
<1> USE LeaseConstants
<1>u. UNCHANGED <<used, version, serial, readers, toServer, toMeta, clerk>>
  BY DEF MetaRestart, tree, layout, conns
<1>1. file' \in {"linked", "dumpster", "removed"}
  BY DEF MetaRestart, Typed, TypeOK
<1>2. inFile' \subseteq Chunks
  BY DEF MetaRestart, Typed, TypeOK
<1>3. mapped' \subseteq Chunks
  BY DEF MetaRestart, Typed, TypeOK
<1>4. hosts' \in [Chunks -> SUBSET Servers]
  BY DEF MetaRestart, Typed, TypeOK
<1>5. leases' \in [Chunks -> SUBSET Lease]
  BY DEF MetaRestart, Typed, TypeOK
<1>6. FiniteLeases'
  BY FiniteFacts DEF MetaRestart, FiniteLeases, Typed, TypeOK
<1>7. mLeaseId' \in Nat
  BY DEF MetaRestart, Typed, TypeOK
<1>8. recLeft' \in -1..LeaseInterval
  BY DEF MetaRestart, Typed, TypeOK
<1>9. up' \subseteq Servers
  BY DEF MetaRestart, Typed, TypeOK
<1>10. numWrites' \in [Servers -> Nat]
  BY DEF MetaRestart, Typed, TypeOK
<1>11. layouts' \subseteq Layout
  BY DEF MetaRestart, Typed, TypeOK
<1>12. crashes' \in 0..MaxCrashes
  BY DEF MetaRestart, Typed, TypeOK
<1> QED
  BY <1>u, <1>1, <1>2, <1>3, <1>4, <1>5, <1>6, <1>7, <1>8, <1>9, <1>10, <1>11, <1>12, SMTT(30)
     DEF Typed, TypeOK, FiniteLeases

\* DoingWrite keeps the types.
LEMMA DoingWriteType ==
  ASSUME Typed, NEW s \in Servers, NEW c \in Chunks, DoingWrite(s, c)
  PROVE  Typed'
<1> USE LeaseConstants
<1>u. UNCHANGED <<file, used, inFile, version, mapped, hosts, leases,
                  mLeaseId, serial, recLeft, up, numWrites, layouts,
                  readers, toServer, toMeta, crashes>>
  BY DEF DoingWrite, tree, layout, conns
<1>1. clerk' \in [Servers -> [Chunks -> ClerkLease \cup {NoLease}]]
  <2>1. clerk[s][c] \in ClerkLease
    BY DEF DoingWrite, IsLeaseValid, Held, Typed, TypeOK
  <2>2. [clerk[s][c] EXCEPT !.idle = 0] \in ClerkLease
    BY <2>1 DEF ClerkLease
  <2> QED
    BY <2>2, SMTT(30) DEF DoingWrite, Typed, TypeOK
<1> QED
  BY <1>u, <1>1 DEF Typed, TypeOK, FiniteLeases

\* The arrival of a message keeps the types.
LEMMA ReceiveType ==
  ASSUME Typed, NEW s \in Servers, Receive(s)
  PROVE  Typed'
<1> USE LeaseConstants
<1>q. /\ toServer[s] \in Seq(Message) /\ toServer[s] # <<>>
  BY DEF Receive, Typed, TypeOK
<1> DEFINE m == Head(toServer[s])
           mine == clerk[s][m.chunk]
<1>m. m \in Message /\ Tail(toServer[s]) \in Seq(Message)
  BY <1>q, EndsType
<1>c. m.chunk \in Chunks
  BY <1>m, SMTT(30) DEF Message
<1>u. UNCHANGED <<file, used, inFile, version, mapped, hosts, leases,
                  mLeaseId, serial, recLeft, up, numWrites, readers, toMeta,
                  crashes>>
  BY Zenon DEF Receive, tree, layout, conns
<1>1. layouts' \subseteq Layout
  <2>2. \A l \in layouts : l \in Layout
    BY DEF Typed, TypeOK
  <2>3. \A l \in layouts :
          [l EXCEPT !.acked = @ \/ (s \in up /\ l.serial = m.serial)] \in Layout
    BY <2>2, Zenon DEF Layout
  <2>4. CASE m.kind = "grant"
    <3>1. layouts' = {[l EXCEPT !.acked = @ \/ (s \in up /\ l.serial = m.serial)]
                        : l \in layouts}
      BY <2>4, SMTT(30) DEF Receive
    <3> QED
      BY <2>3, <3>1, Zenon
  <2>5. CASE m.kind # "grant"
    BY <2>5, SMTT(30) DEF Receive, Typed, TypeOK
  <2> QED
    BY <2>4, <2>5
<1>2. toServer' \in [Servers -> Seq(Message)]
  BY <1>m DEF Receive, Typed, TypeOK
<1>3. clerk' \in [Servers -> [Chunks -> ClerkLease \cup {NoLease}]]
  <2>1. [id |-> m.id, left |-> LeaseInterval, idle |-> 0, renewSent |-> FALSE]
          \in ClerkLease
    <3>1. m.id \in Nat /\ LeaseInterval \in (-LeaseInterval - 1)..LeaseInterval
          /\ 0 \in 0..(LeaseInterval + 1)
      BY <1>m DEF Message
    <3> QED
      BY <3>1, Zenon DEF ClerkLease
  <2>2. ASSUME mine # NoLease
        PROVE  [mine EXCEPT !.left = LeaseInterval, !.renewSent = FALSE] \in ClerkLease
    <3>1. mine \in ClerkLease /\ LeaseInterval \in (-LeaseInterval - 1)..LeaseInterval
      BY <2>2, <1>c DEF Typed, TypeOK
    <3> HIDE DEF mine
    <3> QED
      BY <3>1, Zenon DEF ClerkLease
  <2>3. CASE m.kind = "grant"
    <3>1. clerk' = [clerk EXCEPT ![s][m.chunk] =
                     [id |-> m.id, left |-> LeaseInterval, idle |-> 0, renewSent |-> FALSE]]
      BY <2>3 DEF Receive
    <3> HIDE DEF m, mine
    <3> QED
      BY <3>1, <2>1, <1>c DEF Typed, TypeOK
  <2>4. CASE m.kind # "grant"
    <3>1. clerk' = IF mine = NoLease THEN clerk
                   ELSE IF m.ok
                   THEN [clerk EXCEPT ![s][m.chunk] =
                           [mine EXCEPT !.left = LeaseInterval, !.renewSent = FALSE]]
                   ELSE [clerk EXCEPT ![s][m.chunk] = NoLease]
      BY <2>4, <1>c, Zenon DEF Receive, Typed, TypeOK
    <3>2. clerk[s] \in [Chunks -> ClerkLease \cup {NoLease}]
      BY DEF Typed, TypeOK
    <3> HIDE DEF m, mine
    <3> QED
      BY <3>1, <2>2, <1>c, <3>2, Zenon DEF Typed, TypeOK
  <2> QED
    BY <2>3, <2>4
<1> QED
  BY <1>u, <1>1, <1>2, <1>3 DEF Typed, TypeOK, FiniteLeases

\* LeaseClerk::Timeout keeps the types.
LEMMA ClerkTimeoutType ==
  ASSUME Typed, NEW s \in Servers, NEW pending \in SUBSET Chunks, ClerkTimeout(s, pending)
  PROVE  Typed'
<1> USE LeaseConstants
<1> DEFINE kept == {c \in Held(s) : clerk[s][c].left >= -LeaseInterval}
           renew == {c \in kept : /\ clerk[s][c].left <= ExpireWindow
                                  /\ ~clerk[s][c].renewSent
                                  /\ \/ c \in pending
                                     \/ clerk[s][c].idle <= LeaseInterval}
<1>h. kept \subseteq Chunks /\ renew \subseteq kept
      /\ \A c \in kept : clerk[s][c] \in ClerkLease
  BY DEF Held, Typed, TypeOK
<1>r. \A c \in kept : [clerk[s][c] EXCEPT !.renewSent = TRUE] \in ClerkLease
  BY <1>h, ZenonT(30) DEF ClerkLease
<1>k. /\ clerk' = [clerk EXCEPT ![s] = [c \in Chunks |->
                     IF c \in renew THEN [@[c] EXCEPT !.renewSent = TRUE]
                     ELSE IF c \in kept THEN @[c] ELSE NoLease]]
      /\ \E ops \in [1..Cardinality(renew) -> renew] :
           toMeta' = [toMeta EXCEPT ![s] = @ \o
                        [i \in DOMAIN ops |->
                           [chunk |-> ops[i], id |-> clerk[s][ops[i]].id]]]
  BY Zenon DEF ClerkTimeout
<1> HIDE DEF kept, renew
<1>u. UNCHANGED <<file, used, inFile, version, mapped, hosts, leases,
                  mLeaseId, serial, recLeft, up, numWrites, layouts,
                  readers, toServer, crashes>>
  BY Zenon DEF ClerkTimeout, tree, layout, conns
<1>1. toMeta' \in [Servers -> Seq(Renewal)]
  <2>1. PICK ops \in [1..Cardinality(renew) -> renew] :
          toMeta' = [toMeta EXCEPT ![s] = @ \o
                       [i \in DOMAIN ops |->
                          [chunk |-> ops[i], id |-> clerk[s][ops[i]].id]]]
    BY <1>k, Zenon
  <2>2. \A c \in renew : [chunk |-> c, id |-> clerk[s][c].id] \in Renewal
    BY <1>h DEF Renewal, ClerkLease
  <2>3. Cardinality(renew) \in Nat
    BY <1>h, ChunksFinite, FiniteFacts
  <2> DEFINE sent == [i \in DOMAIN ops |->
                        [chunk |-> ops[i], id |-> clerk[s][ops[i]].id]]
  <2>4. sent \in Seq(Renewal)
    BY <2>2, <2>3
  <2> HIDE DEF sent
  <2> QED
    <3>1. toMeta' = [toMeta EXCEPT ![s] = @ \o sent]
      BY <2>1 DEF sent
    <3>2. toMeta \in [Servers -> Seq(Renewal)]
      BY SMTT(30) DEF Typed, TypeOK
    <3> QED
      BY <3>1, <3>2, <2>4
<1>2. clerk' \in [Servers -> [Chunks -> ClerkLease \cup {NoLease}]]
  <2>1. clerk \in [Servers -> [Chunks -> ClerkLease \cup {NoLease}]]
    BY DEF Typed, TypeOK
  <2> DEFINE row == [c \in Chunks |->
                       IF c \in renew THEN [clerk[s][c] EXCEPT !.renewSent = TRUE]
                       ELSE IF c \in kept THEN clerk[s][c] ELSE NoLease]
  <2>2. row \in [Chunks -> ClerkLease \cup {NoLease}]
    BY <1>h, <1>r
  <2>3. clerk' = [clerk EXCEPT ![s] = row]
    BY <1>k, <2>1
  <2> HIDE DEF row
  <2> QED
    BY <2>1, <2>2, <2>3
<1> QED
  BY <1>u, <1>1, <1>2 DEF Typed, TypeOK, FiniteLeases

\* A second that passes keeps the types.
LEMMA TickType ==
  ASSUME Typed, Tick
  PROVE  Typed'
<1> USE LeaseConstants
<1>u. UNCHANGED <<file, used, inFile, version, mapped, hosts, mLeaseId,
                  serial, up, numWrites, layouts, readers, toMeta, crashes>>
  BY Zenon DEF Tick, tree, layout, conns
<1>1. leases' \in [Chunks -> SUBSET Lease]
  <2>1. \A l \in Lease : [l EXCEPT !.left = Down(@, -1)] \in Lease
    BY SMTT(30) DEF Lease, Down
  <2>2. leases' = [c \in Chunks |-> {[l EXCEPT !.left = Down(@, -1)] : l \in leases[c]}]
    BY Zenon DEF Tick
  <2>3. \A c \in Chunks : leases[c] \subseteq Lease
    BY SMTT(30) DEF Typed, TypeOK
  <2> QED
    BY <2>1, <2>2, <2>3
<1>2. FiniteLeases'
  <2> SUFFICES ASSUME NEW c \in Chunks PROVE IsFiniteSet(leases'[c])
    BY DEF FiniteLeases
  <2>1. IsFiniteSet({[l EXCEPT !.left = Down(@, -1)] : l \in leases[c]})
    BY ImageFinite DEF Typed, FiniteLeases
  <2> QED
    BY <2>1, Zenon DEF Tick
<1>3. recLeft' \in -1..LeaseInterval
  <2>1. recLeft' = Down(recLeft, -1)
    BY ZenonT(30) DEF Tick
  <2> QED
    BY <2>1, SMTT(30) DEF Down, Typed, TypeOK
<1>4. toServer' \in [Servers -> Seq(Message)]
  <2>1. \A m \in Message : m.age < MaxDelay => [m EXCEPT !.age = @ + 1] \in Message
    BY DEF Message
  <2>2. ASSUME NEW s \in Servers
        PROVE  [i \in DOMAIN toServer[s] |-> [toServer[s][i] EXCEPT !.age = @ + 1]]
                 \in Seq(Message)
    <3>1. toServer[s] \in Seq(Message)
      BY DEF Typed, TypeOK
    <3>2. \A i \in DOMAIN toServer[s] : toServer[s][i].age < MaxDelay
      BY Zenon DEF Tick
    <3>3. \A i \in DOMAIN toServer[s] : toServer[s][i] \in Message
      BY <3>1, SMTT(30)
    <3> QED
      BY <2>1, <3>1, <3>2, <3>3, SMTT(30)
  <2> QED
    BY <2>2, Zenon DEF Tick, Typed, TypeOK
<1>5. clerk' \in [Servers -> [Chunks -> ClerkLease \cup {NoLease}]]
  <2>1. \A k \in ClerkLease :
          [k EXCEPT !.left = Down(@, -LeaseInterval - 1),
                    !.idle = IF @ <= LeaseInterval THEN @ + 1 ELSE @] \in ClerkLease
    <3> TAKE k \in ClerkLease
    <3>1. Down(k.left, -LeaseInterval - 1) \in (-LeaseInterval - 1)..LeaseInterval
      BY DEF ClerkLease, Down
    <3>2. (IF k.idle <= LeaseInterval THEN k.idle + 1 ELSE k.idle)
            \in 0..(LeaseInterval + 1)
      BY SMTT(30) DEF ClerkLease
    <3> QED
      BY <3>1, <3>2, Zenon DEF ClerkLease
  <2>2. clerk' = [s \in Servers |-> [c \in Chunks |->
                   IF clerk[s][c] = NoLease THEN NoLease
                   ELSE [clerk[s][c] EXCEPT
                           !.left = Down(@, -LeaseInterval - 1),
                           !.idle = IF @ <= LeaseInterval THEN @ + 1 ELSE @]]]
    BY Zenon DEF Tick
  <2>3. clerk \in [Servers -> [Chunks -> ClerkLease \cup {NoLease}]]
    BY DEF Typed, TypeOK
  <2> QED
    BY <2>1, <2>2, <2>3, Zenon
<1> QED
  BY <1>u, <1>1, <1>2, <1>3, <1>4, <1>5, SMTT(30) DEF Typed, TypeOK, FiniteLeases

\* LayoutManager::LeaseRenew keeps the types of what it writes.
LEMMA LeaseRenewType ==
  ASSUME Typed, NEW c \in Chunks, NEW id \in Nat,
         NEW type \in {READ_LEASE, WRITE_LEASE}, NEW ok \in BOOLEAN,
         LeaseRenew(c, id, type, ok)
  PROVE  /\ mapped' \subseteq Chunks
         /\ leases' \in [Chunks -> SUBSET Lease]
         /\ FiniteLeases'
         /\ mLeaseId' \in Nat
<1> USE LeaseConstants
<1>t. leases \in [Chunks -> SUBSET Lease] /\ mapped \subseteq Chunks
      /\ mLeaseId \in Nat /\ FiniteLeases
  BY DEF Typed, TypeOK
<1>1. CASE /\ mapped' = mapped \cup {c}
           /\ leases' = [leases EXCEPT ![c] =
                           {[serial |-> 0, id |-> id, type |-> type,
                             left |-> LeaseInterval]}]
           /\ mLeaseId' = IF id > mLeaseId THEN id + 1 ELSE mLeaseId
  <2> DEFINE l == [serial |-> 0, id |-> id, type |-> type, left |-> LeaseInterval]
  <2>1. l \in Lease
    BY DEF Lease
  <2>2. leases' = [leases EXCEPT ![c] = {l}]
    BY <1>1
  <2> HIDE DEF l
  <2>3. leases' \in [Chunks -> SUBSET Lease]
    BY <1>t, <2>1, <2>2
  <2>4. FiniteLeases'
    BY <1>t, <2>2, FiniteFacts DEF FiniteLeases
  <2> QED
    BY <1>1, <1>t, <2>3, <2>4
<1>2. CASE /\ \E l \in leases[c] : leases' = [leases EXCEPT ![c] = Renewed(@, l)]
           /\ UNCHANGED <<mapped, mLeaseId>>
  <2>1. PICK l \in leases[c] : leases' = [leases EXCEPT ![c] = Renewed(@, l)]
    BY <1>2, Zenon
  <2>2. [l EXCEPT !.left = LeaseInterval] \in Lease
    BY <1>t DEF Lease
  <2>3. Renewed(leases[c], l) \subseteq Lease /\ IsFiniteSet(Renewed(leases[c], l))
    <3>1. IsFiniteSet(leases[c]) /\ leases[c] \subseteq Lease
      BY <1>t DEF FiniteLeases
    <3>2. IsFiniteSet(leases[c] \ {l})
      BY <3>1, FiniteFacts
    <3> QED
      BY <3>1, <3>2, <2>2, FiniteFacts, Zenon DEF Renewed
  <2> QED
    BY <1>2, <1>t, <2>1, <2>3 DEF FiniteLeases
<1>3. CASE UNCHANGED <<mapped, leases, mLeaseId>>
  BY <1>3, <1>t DEF FiniteLeases
<1> QED
  BY <1>1, <1>2, <1>3, Zenon DEF LeaseRenew

\* The renewal of a read lease keeps the types.
LEMMA RenewReadLeaseType ==
  ASSUME Typed, NEW r \in readers, RenewReadLease(r)
  PROVE  Typed'
<1> USE LeaseConstants
<1>n. r.chunk \in Chunks /\ r.id \in Nat
  BY DEF Renewal, Typed, TypeOK
<1>g. /\ mapped' \subseteq Chunks /\ leases' \in [Chunks -> SUBSET Lease]
      /\ FiniteLeases' /\ mLeaseId' \in Nat
  BY <1>n, LeaseRenewType DEF RenewReadLease
<1>u. UNCHANGED <<file, used, inFile, version, hosts, serial, recLeft, up,
                  numWrites, layouts, readers, toServer, toMeta, clerk,
                  crashes>>
  BY DEF RenewReadLease, tree, layout, conns
<1>1. mapped' \subseteq Chunks
  BY <1>g DEF RenewReadLease, Typed, TypeOK
<1>2. leases' \in [Chunks -> SUBSET Lease]
  BY <1>g DEF RenewReadLease, Typed, TypeOK
<1>3. FiniteLeases'
  BY <1>g DEF RenewReadLease, Typed, TypeOK
<1>4. mLeaseId' \in Nat
  BY <1>g DEF RenewReadLease, Typed, TypeOK
<1> QED
  BY <1>u, <1>1, <1>2, <1>3, <1>4 DEF Typed, TypeOK, FiniteLeases

\* The renewal of a write lease keeps the types.
LEMMA RenewWriteLeaseType ==
  ASSUME Typed, NEW s \in Servers, RenewWriteLease(s)
  PROVE  Typed'
<1> USE LeaseConstants
<1> DEFINE op == Head(toMeta[s])
<1>q. /\ toMeta[s] \in Seq(Renewal) /\ toMeta[s] # <<>>
  BY DEF RenewWriteLease, Typed, TypeOK
<1>m. op \in Renewal /\ Tail(toMeta[s]) \in Seq(Renewal)
  BY <1>q, EndsType
<1>n. op.chunk \in Chunks /\ op.id \in Nat
  BY <1>m, SMTT(30) DEF Renewal
<1>k. PICK ok \in BOOLEAN :
        /\ LeaseRenew(op.chunk, op.id, WRITE_LEASE, ok)
        /\ toServer' = [toServer EXCEPT ![s] =
                          Append(@, [kind |-> "reply", chunk |-> op.chunk,
                                     id |-> op.id, ok |-> ok, age |-> 0])]
  BY Zenon DEF RenewWriteLease
<1> HIDE DEF op
<1>g. /\ mapped' \subseteq Chunks /\ leases' \in [Chunks -> SUBSET Lease]
      /\ FiniteLeases' /\ mLeaseId' \in Nat
  BY <1>k, <1>n, LeaseRenewType
<1>u. UNCHANGED <<file, used, inFile, version, hosts, serial, recLeft, up,
                  numWrites, layouts, readers, clerk, crashes>>
  BY DEF RenewWriteLease, tree, layout, conns
<1>1. mapped' \subseteq Chunks
  BY <1>g DEF RenewWriteLease, Typed, TypeOK
<1>2. leases' \in [Chunks -> SUBSET Lease]
  BY <1>g DEF RenewWriteLease, Typed, TypeOK
<1>3. FiniteLeases'
  BY <1>g DEF RenewWriteLease, Typed, TypeOK
<1>4. mLeaseId' \in Nat
  BY <1>g DEF RenewWriteLease, Typed, TypeOK
<1>5. toServer' \in [Servers -> Seq(Message)]
  <2>1. [kind |-> "reply", chunk |-> op.chunk, id |-> op.id, ok |-> ok, age |-> 0]
          \in Message
    <3>1. 0 \in 0..MaxDelay
      OBVIOUS
    <3> QED
      BY <1>n, <3>1, Zenon DEF Message
  <2>2. toServer \in [Servers -> Seq(Message)]
    BY DEF Typed, TypeOK
  <2> QED
    BY <1>k, <2>1, <2>2
<1>6. toMeta' \in [Servers -> Seq(Renewal)]
  BY <1>m DEF RenewWriteLease, Typed, TypeOK
<1> QED
  BY <1>u, <1>1, <1>2, <1>3, <1>4, <1>5, <1>6, SMTT(30) DEF Typed, TypeOK, FiniteLeases

\* Every step of the lease protocol keeps the types.
LEMMA TypedStep == Typed /\ [Next]_vars => Typed'
<1> SUFFICES ASSUME Typed, [Next]_vars PROVE Typed'
  OBVIOUS
<1>1. CASE MetaStep
  BY <1>1, AllocateChunkType, GetChunkWriteLeaseType, GetChunkWriteLeaseNoSpaceType,
     GetChunkReadLeaseType, TruncateType, ChunkCorruptType, LayoutDoneType,
     RenewReadLeaseType, RenewWriteLeaseType, ServerDownType, AddNewServerType,
     RemoveFileType, LeaseCleanupType, MetaRestartType, SMTT(30) DEF MetaStep
<1>2. CASE ServerStep
  BY <1>2, ReceiveType, LoseType, ServerDiesType, DoingWriteType, ClerkTimeoutType
     DEF ServerStep
<1>3. CASE Tick
  BY <1>3, TickType
<1>4. CASE UNCHANGED vars
  BY <1>4 DEF vars, tree, layout, conns, Typed, TypeOK, FiniteLeases
<1> QED
  BY <1>1, <1>2, <1>3, <1>4 DEF Next

\* The initial state is typed.
LEMMA TypedInit == Init => Typed
BY LeaseConstants, FiniteFacts DEF Init, Typed, TypeOK, FiniteLeases

\* Every variable of the lease protocol keeps its type: what the metaserver, the
\* chunkservers and the clock do never takes a field out of its range.
THEOREM LeasesTypeOK == Spec => []TypeOK
<1>1. Typed => TypeOK
  BY DEF Typed
<1> QED
  BY <1>1, TypedInit, TypedStep, PTL DEF Spec

=============================================================================
