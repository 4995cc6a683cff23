---------------------------- MODULE MetaLogProofs ----------------------------
(***************************************************************************)
(* What replay finds, for any number of mutations, logs and crashes: the   *)
(* tree is rebuilt from the checkpoint and the logs linked after it, and a *)
(* complete log never changes.  The proofs need what FlattenSeq yields     *)
(* when a log grows, ends or is split off, and an invariant that says      *)
(* where the records of each mutation are.                                 *)
(***************************************************************************)
EXTENDS MetaLog, SequenceTheorems, WellFoundedInduction, TLAPS

-----------------------------------------------------------------------------
(* FlattenSeq.  What a recursive function computes is shown by a least     *)
(* counterexample, since the provers cannot use the induction theorems.    *)

LEMMA LeastNumber ==
    ASSUME NEW S \in SUBSET Nat, S # {}
    PROVE  \E n \in S : \A m \in S : ~(m < n)
<1>1. PICK n \in S : \A m \in S : <<m, n>> \notin OpToRel(<, Nat)
  BY WFMin, NatLessThanWellFounded, Zenon
<1>2. \A m \in S : m < n => <<m, n>> \in OpToRel(<, Nat)
  BY DEF OpToRel
<1>3. QED
  BY <1>1, <1>2, Zenon

\* f holds what the first n of the sequences s flatten to, for each n.
Flattens(f, s, n) == f = [i \in 1..n |-> IF i = 1 THEN s[i] ELSE f[i - 1] \o s[i]]

LEMMA FlattenExists ==
    ASSUME NEW s, NEW n \in Nat
    PROVE  \E f : Flattens(f, s, n)
<1> DEFINE B == {k \in Nat : ~\E f : Flattens(f, s, k)}
<1>1. ASSUME B # {} PROVE FALSE
  <2>1. PICK k \in B : \A m \in B : ~(m < k)
    BY <1>1, LeastNumber, Zenon
  <2>2. k \in Nat /\ ~\E f : Flattens(f, s, k)
    OBVIOUS
  <2>3. CASE k = 0
    <3>1. Flattens([i \in 1..0 |-> s[i]], s, 0)
      BY DEF Flattens
    <3>2. QED
      BY <2>2, <2>3, <3>1
  <2>4. CASE k # 0
    <3>1. k - 1 \in Nat /\ k - 1 < k
      BY <2>2, <2>4
    <3>2. PICK f : Flattens(f, s, k - 1)
      BY <2>1, <3>1
    <3> DEFINE g == [i \in 1..k |-> IF i = 1 THEN s[i] ELSE f[i - 1] \o s[i]]
    <3>3. \A i \in 1..k - 1 : f[i] = IF i = 1 THEN s[i] ELSE f[i - 1] \o s[i]
      BY <3>2, Zenon DEF Flattens
    <3>4. \A i \in 1..k - 1 : g[i] = f[i]
      <4>1. ASSUME NEW i \in 1..k - 1 PROVE g[i] = f[i]
        <5>1. i \in 1..k
          BY <2>2
        <5>2. g[i] = IF i = 1 THEN s[i] ELSE f[i - 1] \o s[i]
          BY <5>1
        <5> HIDE DEF g
        <5>3. QED
          BY <3>3, <5>2
      <4>2. QED
        BY <4>1, Zenon
    <3>5. \A i \in 1..k : i # 1 => f[i - 1] = g[i - 1]
      <4> HIDE DEF g
      <4>1. \A i \in 1..k : i # 1 => i - 1 \in 1..k - 1
        BY <2>2
      <4>2. QED
        BY <3>4, <4>1
    <3>6. \A i \in 1..k : g[i] = IF i = 1 THEN s[i] ELSE g[i - 1] \o s[i]
      BY <3>5, Zenon
    <3>7. g = [i \in 1..k |-> g[i]]
      OBVIOUS
    <3> HIDE DEF g
    <3>8. Flattens(g, s, k)
      BY <3>6, <3>7, Zenon DEF Flattens
    <3>9. QED
      BY <2>2, <3>8
  <2>5. QED
    BY <2>3, <2>4
<1>2. QED
  BY <1>1

Agree(s, t, n) == \A i \in 1..n : s[i] = t[i]

\* Later sequences do not matter for the first n.
LEMMA FlattenAgree ==
    ASSUME NEW s, NEW t, NEW n \in Nat, Agree(s, t, n),
           NEW k \in Nat, n <= k, NEW f, Flattens(f, s, k), NEW g, Flattens(g, t, n)
    PROVE  Agree(f, g, n)
<1> DEFINE B == {i \in 1..n : f[i] # g[i]}
<1>1. ASSUME B # {} PROVE FALSE
  <2>1. B \in SUBSET Nat
    OBVIOUS
  <2>2. PICK i \in B : \A m \in B : ~(m < i)
    BY <1>1, <2>1, LeastNumber, Zenon
  <2>3. i \in 1..n /\ f[i] # g[i]
    OBVIOUS
  <2> HIDE DEF B
  <2>4. i \in 1..k /\ s[i] = t[i]
    BY <2>3 DEF Agree
  <2>5. /\ f[i] = IF i = 1 THEN s[i] ELSE f[i - 1] \o s[i]
        /\ g[i] = IF i = 1 THEN t[i] ELSE g[i - 1] \o t[i]
    BY <2>3, <2>4, Zenon DEF Flattens
  <2>6. i # 1 => i - 1 \in 1..n /\ i - 1 < i
    BY <2>3
  <2>7. i # 1 => f[i - 1] = g[i - 1]
    BY <2>2, <2>6 DEF B
  <2>8. QED
    BY <2>3, <2>4, <2>5, <2>7
<1>2. QED
  BY <1>1 DEF Agree

LEMMA FlattenIs ==
    ASSUME NEW T, NEW s \in Seq(T), s # <<>>
    PROVE  \E f : Flattens(f, s, Len(s)) /\ FlattenSeq(s) = f[Len(s)]
<1> DEFINE F == CHOOSE f : Flattens(f, s, Len(s))
<1>1. Len(s) \in Nat /\ Len(s) # 0
  OBVIOUS
<1>2. Flattens(F, s, Len(s))
  <2>1. \E f : Flattens(f, s, Len(s))
    BY <1>1, FlattenExists
  <2>2. QED
    BY <2>1
<1>3. FlattenSeq(s) = F[Len(s)]
  BY <1>1, Zenon DEF FlattenSeq, Flattens
<1>4. QED
  BY <1>2, <1>3, Zenon

LEMMA FlattenEmpty == FlattenSeq(<<>>) = <<>>
BY DEF FlattenSeq

\* Sequences of T, under a name the provers do not look through.
Words(T) == Seq(T)

LEMMA FlattenAppend ==
    ASSUME NEW Q, NEW s \in Seq(Q), NEW e \in Q
    PROVE  FlattenSeq(Append(s, e)) = IF s = <<>> THEN e ELSE FlattenSeq(s) \o e
<1>1. PICK u : u = Append(s, e)
  BY Zenon
<1>2. PICK n : n = Len(s)
  OBVIOUS
<1>3. PICK k : k = n + 1
  OBVIOUS
<1>4. /\ u \in Seq(Q) /\ u # <<>> /\ Len(u) = k /\ n \in Nat /\ u[k] = e
      /\ \A i \in 1..n : u[i] = s[i]
  BY <1>1, <1>2, <1>3
<1>5. PICK f : Flattens(f, u, k) /\ FlattenSeq(u) = f[k]
  BY <1>4, FlattenIs
<1>6. k \in 1..k /\ (k = 1 <=> s = <<>>) /\ k - 1 = n /\ (k # 1 => n \in 1..n)
  BY <1>2, <1>3, <1>4
<1>7. f[k] = IF k = 1 THEN u[k] ELSE f[k - 1] \o u[k]
  BY <1>5, <1>6, Zenon DEF Flattens
<1>8. CASE s = <<>>
  BY <1>1, <1>4, <1>5, <1>6, <1>7, <1>8
<1>9. CASE s # <<>>
  <2>1. PICK g : Flattens(g, s, n) /\ FlattenSeq(s) = g[n]
    BY <1>2, <1>9, FlattenIs
  <2>2. Agree(f, g, n)
    <3>1. k \in Nat /\ n \in Nat /\ n <= k
      BY <1>3, <1>4
    <3>2. Agree(u, s, n)
      BY <1>4 DEF Agree
    <3>3. QED
      BY <1>5, <2>1, <3>1, <3>2, FlattenAgree, Zenon
  <2>3. QED
    BY <1>1, <1>4, <1>5, <1>6, <1>7, <1>9, <2>1, <2>2, Zenon DEF Agree
<1>10. QED
  BY <1>8, <1>9

LEMMA FlattenType ==
    ASSUME NEW T, NEW s \in Seq(Words(T))
    PROVE  FlattenSeq(s) \in Words(T)
<1> DEFINE B == {n \in Nat : \E u \in Seq(Words(T)) : Len(u) = n /\ FlattenSeq(u) \notin Words(T)}
<1>1. ASSUME B # {} PROVE FALSE
  <2>1. PICK n \in B : \A m \in B : ~(m < n)
    BY <1>1, LeastNumber, Zenon
  <2>2. PICK u \in Seq(Words(T)) : Len(u) = n /\ FlattenSeq(u) \notin Words(T)
    OBVIOUS
  <2>3. u # <<>>
    BY <2>2, FlattenEmpty DEF Words
  <2>4. PICK t \in Seq(Words(T)), e \in Words(T) : u = Append(t, e)
    BY <2>3, SequenceEmptyOrAppend
  <2>5. Len(t) \in Nat /\ Len(t) < n
    BY <2>2, <2>4, AppendProperties, LenProperties
  <2>6. FlattenSeq(t) \in Words(T)
    BY <2>1, <2>5
  <2>7. FlattenSeq(u) = IF t = <<>> THEN e ELSE FlattenSeq(t) \o e
    BY <2>4, FlattenAppend
  <2>8. \A a, b \in Words(T) : a \o b \in Words(T)
    BY DEF Words
  <2>9. QED
    BY <2>2, <2>6, <2>7, <2>8
<1>2. QED
  BY <1>1

LEMMA Associative ==
    ASSUME NEW T, NEW a \in Words(T), NEW b \in Words(T), NEW c \in Words(T)
    PROVE  (a \o b) \o c = a \o (b \o c) /\ a \o b \in Words(T) /\ a \o <<>> = a /\ <<>> \o a = a
BY ConcatAssociative DEF Words

Cat(a, b) == a \o b

LEMMA Reassociate ==
    ASSUME NEW T
    PROVE  \A a, b, c \in Words(T) : Cat(Cat(a, b), c) = Cat(a, Cat(b, c))
BY ConcatAssociative DEF Words, Cat

LEMMA FlattenSnoc ==
    ASSUME NEW T, NEW s \in Seq(Words(T)), NEW e \in Words(T)
    PROVE  FlattenSeq(Append(s, e)) = FlattenSeq(s) \o e
<1>1. CASE s = <<>>
  <2>1. FlattenSeq(Append(s, e)) = e /\ FlattenSeq(s) = <<>>
    BY <1>1, FlattenAppend, FlattenEmpty, Zenon
  <2>2. <<>> \o e = e
    BY Associative
  <2>3. QED
    BY <2>1, <2>2
<1>2. CASE s # <<>>
  BY <1>2, FlattenAppend
<1>3. QED
  BY <1>1, <1>2

LEMMA ConcatAppend ==
    ASSUME NEW Q, NEW s \in Seq(Q), NEW v \in Seq(Q), NEW e \in Q
    PROVE  s \o Append(v, e) = Append(s \o v, e) /\ s \o v \in Seq(Q)
<1>1. s \o v \in Seq(Q) /\ <<e>> \in Seq(Q)
  OBVIOUS
<1>2. Append(v, e) = v \o <<e>> /\ Append(s \o v, e) = (s \o v) \o <<e>>
  BY <1>1, AppendIsConcat
<1>3. (s \o v) \o <<e>> = s \o (v \o <<e>>)
  BY <1>1, ConcatAssociative
<1>4. QED
  BY <1>1, <1>2, <1>3

LEMMA FlattenConcat ==
    ASSUME NEW T, NEW s \in Seq(Words(T)), NEW t \in Seq(Words(T))
    PROVE  FlattenSeq(s \o t) = Cat(FlattenSeq(s), FlattenSeq(t))
<1> DEFINE Bad(w) == FlattenSeq(s \o w) # Cat(FlattenSeq(s), FlattenSeq(w))
           B == {m \in Nat : \E w \in Seq(Words(T)) : Len(w) = m /\ Bad(w)}
<1>1. ASSUME B # {} PROVE FALSE
  <2>1. PICK n \in B : \A m \in B : ~(m < n)
    BY <1>1, LeastNumber, Zenon
  <2>2. PICK u \in Seq(Words(T)) : Len(u) = n /\ Bad(u)
    OBVIOUS
  <2>3. FlattenSeq(s) \in Words(T)
    BY FlattenType
  <2>4. u # <<>>
    <3>1. s \o <<>> = s /\ Cat(FlattenSeq(s), <<>>) = FlattenSeq(s)
      BY <2>3, Associative DEF Cat
    <3>2. QED
      BY <2>2, <3>1, FlattenEmpty, Zenon
  <2>5. PICK v \in Seq(Words(T)), e \in Words(T) : u = Append(v, e)
    BY <2>4, SequenceEmptyOrAppend
  <2>6. Len(v) \in Nat /\ Len(v) < n
    BY <2>2, <2>5, AppendProperties, LenProperties
  <2>7. FlattenSeq(s \o v) = Cat(FlattenSeq(s), FlattenSeq(v))
    BY <2>1, <2>6
  <2>8. s \o u = Append(s \o v, e) /\ s \o v \in Seq(Words(T))
    BY <2>5, ConcatAppend
  <2>9. FlattenSeq(s \o u) = Cat(FlattenSeq(s \o v), e) /\ FlattenSeq(u) = Cat(FlattenSeq(v), e)
    BY <2>5, <2>8, FlattenSnoc, Zenon DEF Cat
  <2>10. FlattenSeq(v) \in Words(T)
    BY FlattenType
  <2>11. Cat(Cat(FlattenSeq(s), FlattenSeq(v)), e) = Cat(FlattenSeq(s), Cat(FlattenSeq(v), e))
    <3> HIDE DEF B, Bad
    <3>1. PICK x \in Words(T) : x = FlattenSeq(s)
      BY <2>3
    <3>2. PICK y \in Words(T) : y = FlattenSeq(v)
      BY <2>10
    <3>3. Cat(Cat(x, y), e) = Cat(x, Cat(y, e))
      BY Reassociate
    <3>4. QED
      BY <3>1, <3>2, <3>3
  <2>12. FlattenSeq(s \o u) # Cat(FlattenSeq(s), FlattenSeq(u))
    BY <2>2
  <2> HIDE DEF B, Bad
  <2>13. QED
    BY <2>7, <2>9, <2>11, <2>12, Zenon
<1>2. ~Bad(t)
  <2>1. Len(t) \in Nat
    OBVIOUS
  <2>2. QED
    BY <1>1, <2>1
<1>3. QED
  BY <1>2

-----------------------------------------------------------------------------
(* The inductive invariant. *)

\* What the log files hold from log i on.
Rest(i) == FlattenSeq(SubSeq(logs, i, Len(logs)))

\* The mutations that are safe on disk: in the checkpoint and the logs it
\* names, or, while LASTCP is unlinked, in the one the compactor is about to link.
OnDisk == IF latest # NoCP THEN Cat(latest.tree, Rest(latest.log))
          ELSE Cat(compactor.tree, Rest(compactor.log))

\* n numbers a log file, or the one that finishLog is about to create.
LogOrNext(n) == n \in Nat /\ n # 0 /\ (n <= Len(logs) \/ (n = Len(logs) + 1 /\ logger = "linked"))

\* The results in a queue are of mutations that exist.
Proper(q) == q \in Seq(Results) /\ \A i \in DOMAIN q : q[i].op = "mutate" => q[i].id # 0

\* The shapes of the values in memory and on disk.
Types ==
    /\ up \in BOOLEAN /\ submitted \in Nat /\ submitted <= MaxOps
    /\ requestList \in Seq(Requests) /\ Proper(pending) /\ Proper(logged)
    /\ \A i \in DOMAIN requestList : requestList[i].op = "mutate" => requestList[i].id # 0
    /\ tree \in Words(Ids)
    /\ logger \in {"main", "unlinked", "linked"}
    /\ logs \in Seq(Words(Ids)) /\ Len(logs) # 0 /\ lognum = Len(logs)
    /\ latest.tree \in Words(Ids)
    /\ compactor \in [pc : {"idle", "restored", "searching", "replaying", "replayed", "unlinked"},
                      tree : Words(Ids), log : Nat, last : Nat]

\* LASTLOG, LASTCP and the compactor name logs that exist, and a log that is
\* still written to only while finishLog is between its link and its new file.
LinksOK ==
    /\ last \in Nat /\ LogOrNext(last + 1) /\ LogOrNext(compactor.last + 1)
    /\ latest # NoCP => latest.log \in 1..Len(logs)
    /\ latest = NoCP => compactor.pc = "unlinked"
    /\ compactor.pc # "idle" => LogOrNext(compactor.log)
    /\ compactor.pc = "replaying" => compactor.log <= compactor.last
    /\ logger # "main" => up /\ pending # <<>> /\ Head(pending).op = "rollover"
    /\ ~up => pending = <<>> /\ logged = <<>> /\ requestList = <<>>

\* The checkpoint the compactor works on stands for the same mutations as the
\* one that LASTCP names.
CompactorOK == compactor.pc # "idle" => Cat(compactor.tree, Rest(compactor.log)) = OnDisk

\* The tree is what is on disk and what the logger has yet to write; while the
\* server is down, what is on disk is a prefix of the tree it had.
TreeOK ==
    /\ up => tree = Cat(OnDisk, Unwritten(pending))
    /\ ~up => \E n \in 0..Len(tree) : OnDisk = SubSeq(tree, 1, n)

ReplayInv == Types /\ LinksOK /\ CompactorOK /\ TreeOK

-----------------------------------------------------------------------------
(* What the logs hold, after each way of changing them. *)

LEMMA CatType ==
    ASSUME NEW T, NEW a \in Words(T), NEW b \in Words(T)
    PROVE  Cat(a, b) \in Words(T) /\ Cat(a, <<>>) = a /\ Cat(<<>>, a) = a
BY Associative DEF Cat

LEMMA SnocCat ==
    ASSUME NEW T, NEW s \in Seq(Words(T)), NEW e \in Words(T)
    PROVE  FlattenSeq(Append(s, e)) = Cat(FlattenSeq(s), e)
BY FlattenSnoc DEF Cat

\* The logger appends w to the current log.
Extended(M, L, n, w) == n = Len(L) /\ M = [L EXCEPT ![n] = Cat(@, w)]

LEMMA RestExtend ==
    ASSUME NEW T, NEW L \in Seq(Words(T)), NEW n, NEW i \in 1..n, NEW w \in Words(T),
           NEW M, Extended(M, L, n, w)
    PROVE  /\ M \in Seq(Words(T)) /\ Len(M) = n
           /\ FlattenSeq(SubSeq(M, i, n)) = Cat(FlattenSeq(SubSeq(L, i, n)), w)
<1>1. n = Len(L) /\ n \in Nat /\ n \in 1..n /\ L[n] \in Words(T)
  BY ElementOfSeq DEF Extended
<1>2. PICK x \in Words(T) : x = Cat(L[n], w)
  BY <1>1, CatType
<1>3. M \in Seq(Words(T)) /\ Len(M) = n /\ M[n] = x /\ \A j \in 1..n - 1 : M[j] = L[j]
  BY <1>1, <1>2, ExceptSeq DEF Extended
<1>4. PICK p : p = SubSeq(L, i, n - 1)
  BY Zenon
<1>5. p \in Seq(Words(T)) /\ p = SubSeq(M, i, n - 1)
  <2>1. p \in Seq(Words(T)) /\ Len(p) = n - i /\ \A j \in 1..n - i : p[j] = L[i + j - 1]
    BY <1>1, <1>4
  <2>2. PICK r : r = SubSeq(M, i, n - 1)
    BY Zenon
  <2>3. r \in Seq(Words(T)) /\ Len(r) = n - i /\ \A j \in 1..n - i : r[j] = M[i + j - 1]
    BY <1>1, <1>3, <2>2
  <2>4. \A j \in 1..n - i : i + j - 1 \in 1..n - 1
    BY <1>1
  <2>5. \A j \in 1..n - i : r[j] = p[j]
    BY <1>3, <2>1, <2>3, <2>4
  <2>6. QED
    BY <2>1, <2>2, <2>3, <2>5, SeqEqual
<1>6. SubSeq(L, i, n) = Append(p, L[n]) /\ SubSeq(M, i, n) = Append(p, x)
  <2>1. i \in 1..Len(L) /\ n \in i..Len(L) /\ i \in 1..Len(M) /\ n \in i..Len(M)
    BY <1>1, <1>3
  <2>2. SubSeq(L, i, n) = SubSeq(L, i, n - 1) \o <<L[n]>>
    BY <2>1, SubSeqRecursiveSecond
  <2>3. SubSeq(M, i, n) = SubSeq(M, i, n - 1) \o <<M[n]>>
    BY <1>3, <2>1, SubSeqRecursiveSecond, Zenon
  <2>4. Append(p, L[n]) = p \o <<L[n]>>
    BY <1>1, <1>5, AppendIsConcat
  <2>5. Append(p, x) = p \o <<x>>
    BY <1>5, AppendIsConcat, Zenon
  <2>6. QED
    BY <1>3, <1>4, <1>5, <2>2, <2>3, <2>4, <2>5, Zenon
<1>7. FlattenSeq(SubSeq(L, i, n)) = Cat(FlattenSeq(p), L[n])
      /\ FlattenSeq(SubSeq(M, i, n)) = Cat(FlattenSeq(p), x)
  <2>1. \A e \in Words(T) : FlattenSeq(Append(p, e)) = Cat(FlattenSeq(p), e)
    BY <1>5, SnocCat, Zenon
  <2>2. QED
    BY <1>1, <1>6, <2>1
<1>8. PICK f \in Words(T) : f = FlattenSeq(p)
  BY <1>5, FlattenType, Zenon
<1>9. Cat(Cat(f, L[n]), w) = Cat(f, Cat(L[n], w))
  BY <1>1, Reassociate
<1>10. QED
  BY <1>2, <1>3, <1>7, <1>8, <1>9

\* finishLog creates the next log.
Created(M, L) == M = Append(L, <<>>)

LEMMA RestNew ==
    ASSUME NEW T, NEW L \in Seq(Words(T)), NEW M, Created(M, L), NEW i \in 1..Len(M)
    PROVE  FlattenSeq(SubSeq(M, i, Len(M))) = FlattenSeq(SubSeq(L, i, Len(L)))
<1>0. PICK n : n = Len(L)
  OBVIOUS
<1>1. n \in Nat /\ <<>> \in Words(T)
  BY <1>0 DEF Words
<1>2. /\ M \in Seq(Words(T)) /\ Len(M) = n + 1 /\ M[n + 1] = <<>> /\ \A j \in 1..n : M[j] = L[j]
      /\ i \in 1..n + 1
  BY <1>0, <1>1, AppendProperties DEF Created
<1>3. PICK p : p = SubSeq(L, i, n)
  BY Zenon
<1>4. p \in Seq(Words(T)) /\ p = SubSeq(M, i, n)
  <2>1. p \in Seq(Words(T)) /\ Len(p) = n + 1 - i /\ \A j \in 1..n + 1 - i : p[j] = L[i + j - 1]
    BY <1>0, <1>1, <1>2, <1>3
  <2>2. PICK r : r = SubSeq(M, i, n)
    BY Zenon
  <2>3. r \in Seq(Words(T)) /\ Len(r) = n + 1 - i /\ \A j \in 1..n + 1 - i : r[j] = M[i + j - 1]
    BY <1>1, <1>2, <2>2
  <2>4. \A j \in 1..n + 1 - i : i + j - 1 \in 1..n
    BY <1>1, <1>2
  <2>5. \A j \in 1..n + 1 - i : r[j] = p[j]
    BY <1>2, <2>1, <2>3, <2>4
  <2>6. QED
    BY <2>1, <2>2, <2>3, <2>5, SeqEqual
<1>5. SubSeq(M, i, n + 1) = Append(p, <<>>)
  <2>1. PICK m : m = n + 1
    OBVIOUS
  <2>2. i \in 1..Len(M) /\ m \in i..Len(M) /\ m - 1 = n
    BY <1>1, <1>2, <2>1
  <2>3. SubSeq(M, i, m) = SubSeq(M, i, m - 1) \o <<M[m]>>
    BY <1>2, <2>2, SubSeqRecursiveSecond
  <2>4. SubSeq(M, i, m) = p \o <<(<<>>)>>
    BY <1>2, <1>4, <2>1, <2>2, <2>3, Zenon
  <2>5. QED
    BY <1>1, <1>4, <2>1, <2>4, AppendIsConcat
<1>6. FlattenSeq(Append(p, <<>>)) = Cat(FlattenSeq(p), <<>>)
  BY <1>1, <1>4, SnocCat, Zenon
<1>7. FlattenSeq(p) \in Words(T)
  BY <1>4, FlattenType, Zenon
<1>8. QED
  BY <1>0, <1>2, <1>3, <1>5, <1>6, <1>7, CatType, Zenon

\* Logs i..k, and the ones after them.
LEMMA RestSplit ==
    ASSUME NEW T, NEW L \in Seq(Words(T)), NEW n, n = Len(L), NEW i \in 1..n + 1,
           NEW k \in i - 1..n, NEW m, m = k + 1
    PROVE  FlattenSeq(SubSeq(L, i, n))
             = Cat(FlattenSeq(SubSeq(L, i, k)), FlattenSeq(SubSeq(L, m, n)))
<1>1. SubSeq(L, i, k) \o SubSeq(L, m, n) = SubSeq(L, i, n)
  <2>1. i \in 1..Len(L) + 1 /\ k \in i - 1..Len(L) /\ n \in k..Len(L)
    BY LenProperties
  <2>2. SubSeq(L, i, k) \o SubSeq(L, k + 1, n) = SubSeq(L, i, n)
    BY <2>1, ConcatAdjacentSubSeq, Zenon
  <2>3. QED
    BY <2>2, Zenon
<1>2. SubSeq(L, i, k) \in Seq(Words(T)) /\ SubSeq(L, m, n) \in Seq(Words(T))
  OBVIOUS
<1>3. QED
  <2>1. PICK a : a = SubSeq(L, i, k)
    BY Zenon
  <2>2. PICK b : b = SubSeq(L, m, n)
    BY Zenon
  <2>3. a \in Seq(Words(T)) /\ b \in Seq(Words(T))
    BY <1>2, <2>1, <2>2
  <2>4. FlattenSeq(a \o b) = Cat(FlattenSeq(a), FlattenSeq(b))
    BY <2>3, FlattenConcat
  <2>5. QED
    BY <1>1, <2>1, <2>2, <2>4

LEMMA RestType ==
    ASSUME NEW T, NEW L \in Seq(Words(T)), NEW i \in Nat, i # 0, NEW k \in 0..Len(L)
    PROVE  FlattenSeq(SubSeq(L, i, k)) \in Words(T)
<1>1. SubSeq(L, i, k) \in Seq(Words(T))
  OBVIOUS
<1>2. QED
  BY <1>1, FlattenType, Zenon

-----------------------------------------------------------------------------
(* The queue of results that the logger has yet to write. *)

WrittenAll(q) == [i \in DOMAIN q |-> Written(q[i])]

LEMMA WrittenType ==
    ASSUME NEW r \in Results, r.op = "mutate" => r.id # 0
    PROVE  Written(r) \in Words(Ids)
<1>1. r.op = "mutate" => r.id \in Ids
  <2>1. r.id \in 0..MaxOps
    BY DEF Results
  <2>2. QED
    BY <2>1, BoundsAssumption DEF Ids
<1>2. \A x \in Ids : <<x>> \in Words(Ids)
  BY DEF Words
<1>3. <<>> \in Words(Ids)
  BY DEF Words
<1>4. QED
  BY <1>1, <1>2, <1>3 DEF Written

LEMMA WrittenAllType ==
    ASSUME NEW q, Proper(q)
    PROVE  /\ WrittenAll(q) \in Seq(Words(Ids)) /\ Len(WrittenAll(q)) = Len(q)
           /\ \A i \in 1..Len(q) : WrittenAll(q)[i] = Written(q[i])
<1>1. q \in Seq(Results) /\ DOMAIN q = 1..Len(q) /\ Len(q) \in Nat
  BY DEF Proper
<1>2. \A i \in 1..Len(q) : Written(q[i]) \in Words(Ids)
  BY <1>1, WrittenType DEF Proper
<1>3. WrittenAll(q) = [i \in 1..Len(q) |-> Written(q[i])]
  BY <1>1 DEF WrittenAll
<1>4. QED
  BY <1>1, <1>2, <1>3

LEMMA UnwrittenType ==
    ASSUME NEW q, Proper(q)
    PROVE  Unwritten(q) \in Words(Ids)
BY WrittenAllType, FlattenType DEF Unwritten, WrittenAll

LEMMA UnwrittenEmpty == Unwritten(<<>>) = <<>>
<1>1. WrittenAll(<<>>) = <<>>
  BY DEF WrittenAll
<1>2. QED
  BY <1>1, FlattenEmpty DEF Unwritten, WrittenAll

\* A result joins the queue.
LEMMA UnwrittenAppend ==
    ASSUME NEW q, Proper(q), NEW r \in Results, r.op = "mutate" => r.id # 0
    PROVE  Proper(Append(q, r)) /\ Unwritten(Append(q, r)) = Cat(Unwritten(q), Written(r))
<1>1. q \in Seq(Results) /\ DOMAIN q = 1..Len(q) /\ Len(q) \in Nat
  BY DEF Proper
<1>2. PICK p : p = Append(q, r)
  BY Zenon
<1>3. /\ p \in Seq(Results) /\ Len(p) = Len(q) + 1 /\ p[Len(q) + 1] = r
      /\ \A i \in 1..Len(q) : p[i] = q[i]
  BY <1>1, <1>2
<1>4. Proper(p)
  BY <1>1, <1>3 DEF Proper
<1>5. PICK w : w = WrittenAll(q)
  OBVIOUS
<1>6. w \in Seq(Words(Ids)) /\ Len(w) = Len(q) /\ \A i \in 1..Len(q) : w[i] = Written(q[i])
  BY <1>5, WrittenAllType
<1>7. PICK v : v = WrittenAll(p)
  OBVIOUS
<1>8. v \in Seq(Words(Ids)) /\ Len(v) = Len(q) + 1 /\ \A i \in 1..Len(q) + 1 : v[i] = Written(p[i])
  BY <1>3, <1>4, <1>7, WrittenAllType
<1>9. PICK e \in Words(Ids) : e = Written(r)
  BY WrittenType
<1>10. v = Append(w, e)
  <2>1. PICK u : u = Append(w, e)
    BY Zenon
  <2>2. /\ u \in Seq(Words(Ids)) /\ Len(u) = Len(q) + 1 /\ u[Len(q) + 1] = e
        /\ \A i \in 1..Len(q) : u[i] = w[i]
    BY <1>6, <2>1, AppendProperties
  <2>3. v[Len(q) + 1] = e
    BY <1>1, <1>3, <1>8, <1>9
  <2>4. \A i \in 1..Len(q) : v[i] = w[i]
    BY <1>1, <1>3, <1>6, <1>8
  <2>5. \A i \in 1..Len(q) + 1 : u[i] = v[i]
    BY <1>1, <2>2, <2>3, <2>4
  <2>6. u = v
    BY <1>8, <2>2, <2>5, SeqEqual
  <2>7. QED
    BY <2>1, <2>6
<1>11. FlattenSeq(v) = Cat(FlattenSeq(w), e)
  BY <1>6, <1>10, SnocCat
<1>12. QED
  BY <1>2, <1>4, <1>5, <1>7, <1>9, <1>11, Zenon DEF Unwritten, WrittenAll

\* The logger takes the first result from the queue.
LEMMA UnwrittenTail ==
    ASSUME NEW q, Proper(q), q # <<>>
    PROVE  Proper(Tail(q)) /\ Unwritten(q) = Cat(Written(Head(q)), Unwritten(Tail(q)))
<1>1. q \in Seq(Results) /\ DOMAIN q = 1..Len(q) /\ Len(q) \in Nat /\ Len(q) # 0 /\ Head(q) = q[1]
  BY DEF Proper
<1>2. PICK p : p = Tail(q)
  BY Zenon
<1>3. p \in Seq(Results) /\ Len(p) = Len(q) - 1 /\ \A i \in 1..Len(q) - 1 : p[i] = q[i + 1]
  BY <1>1, <1>2
<1>4. Proper(p)
  BY <1>1, <1>3 DEF Proper
<1>5. PICK w : w = WrittenAll(q)
  OBVIOUS
<1>6. w \in Seq(Words(Ids)) /\ Len(w) = Len(q) /\ \A i \in 1..Len(q) : w[i] = Written(q[i])
  BY <1>5, WrittenAllType
<1>7. PICK v : v = WrittenAll(p)
  OBVIOUS
<1>8. v \in Seq(Words(Ids)) /\ Len(v) = Len(q) - 1 /\ \A i \in 1..Len(q) - 1 : v[i] = Written(p[i])
  BY <1>3, <1>4, <1>7, WrittenAllType
<1>9. PICK e \in Words(Ids) : e = Written(q[1])
  BY <1>1, <1>6
<1>10. w = <<e>> \o v
  <2>1. PICK u : u = <<e>> \o v
    BY Zenon
  <2>2. /\ u \in Seq(Words(Ids)) /\ Len(u) = Len(q) /\ u[1] = e
        /\ \A i \in 2..Len(q) : u[i] = v[i - 1]
    <3>0. <<e>> \in Seq(Words(Ids)) /\ Len(<<e>>) = 1 /\ <<e>>[1] = e
      OBVIOUS
    <3>1. PICK a \in Seq(Words(Ids)) : a = <<e>> /\ Len(a) = 1 /\ a[1] = e
      BY <3>0, Zenon
    <3>2. /\ u \in Seq(Words(Ids)) /\ Len(u) = Len(a) + Len(v)
          /\ \A i \in 1..Len(a) + Len(v) : u[i] = IF i <= Len(a) THEN a[i] ELSE v[i - Len(a)]
      BY <1>8, <2>1, <3>1, ConcatProperties
    <3>3. QED
      BY <1>1, <1>8, <3>1, <3>2
  <2>3. w[1] = e
    BY <1>1, <1>6, <1>9
  <2>4. \A i \in 2..Len(q) : i - 1 \in 1..Len(q) - 1 /\ i \in 1..Len(q) /\ (i - 1) + 1 = i
    BY <1>1
  <2>5. \A i \in 2..Len(q) : v[i - 1] = w[i]
    BY <1>3, <1>6, <1>8, <2>4
  <2>6. \A i \in 1..Len(q) : u[i] = w[i]
    BY <1>1, <2>2, <2>3, <2>5
  <2>7. u = w
    BY <1>6, <2>2, <2>6, SeqEqual
  <2>8. QED
    BY <2>1, <2>7
<1>11. <<e>> \in Seq(Words(Ids)) /\ FlattenSeq(<<e>>) = e
  <2>1. PICK z \in Seq(Words(Ids)) : z = <<>>
    BY EmptySeq, Zenon
  <2>2. FlattenSeq(Append(z, e)) = e
    BY <2>1, FlattenAppend, Zenon
  <2>3. QED
    BY <2>1, <2>2
<1>12. FlattenSeq(w) = Cat(e, FlattenSeq(v))
  BY <1>8, <1>10, <1>11, FlattenConcat, Zenon
<1>13. QED
  BY <1>1, <1>2, <1>4, <1>5, <1>7, <1>9, <1>12, Zenon DEF Unwritten, WrittenAll

-----------------------------------------------------------------------------
(* Every action preserves the invariant. *)

\* The theorems are about the server that logs every mutation and whose crashes
\* fall outside the two windows of finishLog and link_latest.
Windows == Unlogged = {} /\ RolloverWindow = FALSE /\ LinkWindow = FALSE

LEMMA DiskTypes ==
    ASSUME Types, LinksOK
    PROVE  /\ OnDisk \in Words(Ids)
           /\ compactor.pc # "idle" => Rest(compactor.log) \in Words(Ids)
           /\ latest # NoCP => Rest(latest.log) \in Words(Ids)
           /\ compactor.tree \in Words(Ids)
<1>1. logs \in Seq(Words(Ids)) /\ Len(logs) \in 0..Len(logs) /\ Len(logs) \in Nat
  BY DEF Types
<1>2. \A i \in Nat : i # 0 => Rest(i) \in Words(Ids)
  BY <1>1, RestType DEF Rest
<1>3. compactor.pc # "idle" => Rest(compactor.log) \in Words(Ids)
  BY <1>2 DEF LinksOK, LogOrNext
<1>4. latest # NoCP => Rest(latest.log) \in Words(Ids)
  <2>1. latest # NoCP => latest.log \in Nat /\ latest.log # 0
    BY <1>1 DEF LinksOK
  <2>2. QED
    BY <1>2, <2>1
<1>5. compactor.tree \in Words(Ids) /\ latest.tree \in Words(Ids)
  BY DEF Types
<1>6. OnDisk \in Words(Ids)
  BY <1>3, <1>4, <1>5, CatType DEF OnDisk, LinksOK
<1>7. QED
  BY <1>3, <1>4, <1>5, <1>6

LEMMA DiskSame ==
    ASSUME UNCHANGED <<logs, latest, compactor>>
    PROVE  OnDisk' = OnDisk /\ (CompactorOK => CompactorOK')
BY DEF OnDisk, Rest, CompactorOK

LEMMA ReplayInit ==
    ASSUME Init
    PROVE  ReplayInv
<1>1. <<>> \in Words(Ids) /\ <<>> \in Seq(Results) /\ <<>> \in Seq(Requests)
  BY DEF Words
<1>2. <<(<<>>)>> \in Seq(Words(Ids)) /\ Len(<<(<<>>)>>) = 1
  BY <1>1
<1>3. compactor = Idle /\ NoCP.log = 0
  BY DEF Init, NoCP
<1>4. latest = [tree |-> <<>>, log |-> 1] /\ latest # NoCP
  BY <1>3 DEF Init
<1>5. Types
  BY <1>1, <1>2, <1>3, <1>4, BoundsAssumption DEF Init, Types, Proper, Idle
<1>6. LinksOK
  BY <1>2, <1>3, <1>4 DEF Init, LinksOK, LogOrNext, Idle
<1>7. CompactorOK
  BY <1>3 DEF CompactorOK, Idle
<1>8. Rest(1) = <<>>
  <2>1. SubSeq(logs, 1, Len(logs)) = <<(<<>>)>>
    BY <1>2, SubSeqFull, Zenon DEF Init
  <2>2. PICK e \in Words(Ids) : e = <<>>
    BY <1>1
  <2>3. PICK z \in Seq(Words(Ids)) : z = <<>>
    BY EmptySeq, Zenon
  <2>4. FlattenSeq(Append(z, e)) = e
    BY <2>3, FlattenAppend, Zenon
  <2>5. Append(z, e) = <<(<<>>)>>
    BY <2>2, <2>3
  <2>6. QED
    BY <2>1, <2>2, <2>4, <2>5, Zenon DEF Rest
<1>9. OnDisk = <<>>
  BY <1>1, <1>4, <1>8, CatType DEF OnDisk
<1>10. TreeOK
  BY <1>1, <1>9, UnwrittenEmpty, CatType DEF TreeOK, Init
<1>11. QED
  BY <1>5, <1>6, <1>7, <1>10 DEF ReplayInv

\* A request is queued: by a client, or by the timer thread.
LEMMA StepSubmit ==
    ASSUME ReplayInv, NEW r \in Requests, r.op = "mutate" => r.id # 0,
           up, submit_request(r), submitted' \in Nat, submitted' <= MaxOps,
           UNCHANGED <<up, tree, logs, last, latest, pending, logged, logger, lognum, compactor>>
    PROVE  ReplayInv' /\ OnDisk' = OnDisk
<1>1. Types'
  <2>1. requestList' = Append(requestList, r) /\ requestList \in Seq(Requests)
    BY DEF submit_request, ReplayInv, Types
  <2>2. requestList' \in Seq(Requests)
    BY <2>1
  <2>3. \A i \in DOMAIN requestList' : requestList'[i].op = "mutate" => requestList'[i].id # 0
    <3>1. \A i \in DOMAIN requestList : requestList[i].op = "mutate" => requestList[i].id # 0
      BY DEF ReplayInv, Types
    <3>2. QED
      BY <2>1, <3>1
  <2>4. QED
    BY <2>2, <2>3 DEF ReplayInv, Types
<1>2. LinksOK' /\ TreeOK'
  BY DiskSame DEF ReplayInv, LinksOK, LogOrNext, TreeOK, Unwritten
<1>3. QED
  BY <1>1, <1>2, DiskSame DEF ReplayInv

LEMMA StepProcess ==
    ASSUME ReplayInv, Windows, process_request
    PROVE  ReplayInv' /\ OnDisk' = OnDisk
<1> DEFINE r == Head(requestList)
<1>1. /\ requestList \in Seq(Requests) /\ requestList # <<>> /\ Proper(pending) /\ tree \in Words(Ids)
      /\ \A i \in DOMAIN requestList : requestList[i].op = "mutate" => requestList[i].id # 0
  BY DEF ReplayInv, Types, process_request
<1>2. r \in Requests /\ (r.op = "mutate" => r.id \in Ids)
  <2>1. r \in Requests /\ r = requestList[1] /\ 1 \in DOMAIN requestList
    BY <1>1
  <2>2. r.id \in 0..MaxOps /\ (r.op = "mutate" => r.id # 0)
    BY <1>1, <2>1 DEF Requests
  <2>3. QED
    BY <2>1, <2>2, BoundsAssumption DEF Ids
<1> HIDE DEF r
<1>3. PICK ok \in BOOLEAN :
          /\ tree' = Applied(r, ok)
          /\ pending' = Append(pending, Result(r, ok, IF r.op = "read" THEN Seen(tree) ELSE {}))
  BY Zenon DEF process_request, r
<1>4. PICK p : p = Result(r, ok, IF r.op = "read" THEN Seen(tree) ELSE {})
  OBVIOUS
<1>5. p.op = r.op /\ p.id = r.id /\ p.ok = ok /\ p \in Results
  <2>1. Seen(tree) \in SUBSET Ids
    BY <1>1 DEF Seen, Words
  <2>2. QED
    BY <1>2, <1>4, <2>1 DEF Result, Requests, Results
<1>6. p.op = "mutate" => p.id \in Ids /\ p.id # 0
  BY <1>2, <1>5, BoundsAssumption DEF Ids
<1>7. /\ Proper(Append(pending, p))
      /\ Unwritten(Append(pending, p)) = Cat(Unwritten(pending), Written(p))
  BY <1>1, <1>5, <1>6, UnwrittenAppend
<1>8. pending' = Append(pending, p)
  BY <1>3, <1>4
<1>9. tree' = Cat(tree, Written(p)) /\ tree' \in Words(Ids)
  <2>1. CASE r.op = "mutate" /\ ok
    <3>1. Written(p) = <<r.id>> /\ tree' = Append(tree, r.id)
      BY <1>3, <1>5, <2>1 DEF Written, Applied, Windows
    <3>2. QED
      BY <1>1, <1>2, <2>1, <3>1 DEF Cat, Words
  <2>2. CASE ~(r.op = "mutate" /\ ok)
    <3>1. Written(p) = <<>> /\ tree' = tree
      BY <1>3, <1>5, <2>2 DEF Written, Applied
    <3>2. QED
      BY <1>1, <3>1, CatType, Zenon
  <2>3. QED
    BY <2>1, <2>2
<1>10. UNCHANGED <<up, logs, last, latest, logged, logger, lognum, compactor, submitted>> /\ up
  BY DEF process_request, disk, threads
<1>11. Types'
  <2>1. requestList' = Tail(requestList)
    BY DEF process_request
  <2>2. requestList' \in Seq(Requests)
    BY <1>1, <2>1
  <2>3. \A i \in DOMAIN requestList' : requestList'[i].op = "mutate" => requestList'[i].id # 0
    BY <1>1, <2>1
  <2>4. QED
    BY <1>7, <1>8, <1>9, <1>10, <2>2, <2>3 DEF ReplayInv, Types
<1>12. LinksOK'
  <2>1. pending # <<>> => pending' # <<>> /\ Head(pending') = Head(pending)
    BY <1>1, <1>5, <1>8 DEF Proper
  <2>2. QED
    BY <1>10, <2>1 DEF ReplayInv, LinksOK, LogOrNext
<1>13. TreeOK'
  <2>1. OnDisk' = OnDisk /\ tree = Cat(OnDisk, Unwritten(pending))
    BY <1>10, DiskSame DEF ReplayInv, TreeOK
  <2>2. OnDisk \in Words(Ids) /\ Unwritten(pending) \in Words(Ids) /\ Written(p) \in Words(Ids)
    BY <1>1, <1>5, <1>6, DiskTypes, UnwrittenType, WrittenType DEF ReplayInv
  <2>3. PICK d \in Words(Ids) : d = OnDisk
    BY <2>2
  <2>4. PICK u \in Words(Ids) : u = Unwritten(pending)
    BY <2>2
  <2>5. PICK w \in Words(Ids) : w = Written(p)
    BY <2>2
  <2>6. Cat(Cat(d, u), w) = Cat(d, Cat(u, w))
    BY Reassociate
  <2>7. tree' = Cat(OnDisk', Unwritten(pending'))
    BY <1>7, <1>8, <1>9, <2>1, <2>3, <2>4, <2>5, <2>6
  <2>8. QED
    BY <1>10, <2>7 DEF TreeOK
<1>14. QED
  BY <1>10, <1>11, <1>12, <1>13, DiskSame DEF ReplayInv

\* The logger appends to a log that no checkpoint and no link has closed.
LEMMA LogExtended ==
    ASSUME ReplayInv, up, logger = "main", NEW w \in Words(Ids), UNCHANGED <<latest, compactor>>,
           logs' = [logs EXCEPT ![lognum] = @ \o w]
    PROVE  /\ logs' \in Seq(Words(Ids)) /\ Len(logs') = Len(logs)
           /\ OnDisk' = Cat(OnDisk, w) /\ CompactorOK'
<1>1. logs \in Seq(Words(Ids)) /\ Len(logs) \in Nat /\ Len(logs) # 0
      /\ logs' = [logs EXCEPT ![Len(logs)] = Cat(@, w)]
  BY DEF ReplayInv, Types, Cat
<1>2. PICK n : n = Len(logs)
  OBVIOUS
<1>3. PICK M : M = logs'
  OBVIOUS
<1>4. /\ M \in Seq(Words(Ids)) /\ Len(M) = n
      /\ \A i \in 1..n : FlattenSeq(SubSeq(M, i, n)) = Cat(FlattenSeq(SubSeq(logs, i, n)), w)
  <2>1. 1 \in 1..n
    BY <1>1, <1>2
  <2>2. QED
    <3>1. \A i \in 1..n : /\ M \in Seq(Words(Ids)) /\ Len(M) = n
                          /\ FlattenSeq(SubSeq(M, i, n)) = Cat(FlattenSeq(SubSeq(logs, i, n)), w)
      <4>1. Extended(M, logs, n, w)
        BY <1>1, <1>2, <1>3 DEF Extended
      <4>2. TAKE i \in 1..n
      <4>3. QED
        BY <1>1, <1>2, <4>1, RestExtend
    <3>2. QED
      BY <2>1, <3>1
<1>5. \A i \in 1..Len(logs) : FlattenSeq(SubSeq(logs', i, Len(logs'))) = Cat(Rest(i), w)
  BY <1>2, <1>3, <1>4, Zenon DEF Rest
<1>6. latest # NoCP => latest.log \in 1..Len(logs)
  BY DEF ReplayInv, LinksOK
<1>7. compactor.pc # "idle" => compactor.log \in 1..Len(logs)
  BY <1>1 DEF ReplayInv, LinksOK, LogOrNext
<1>8. \A a, b \in Words(Ids) : Cat(a, Cat(b, w)) = Cat(Cat(a, b), w)
  BY Reassociate
<1>9. latest # NoCP => Cat(latest.tree, Rest(latest.log))' = Cat(Cat(latest.tree, Rest(latest.log)), w)
  <2>1. ASSUME latest # NoCP PROVE Rest(latest.log)' = Cat(Rest(latest.log), w)
    BY <1>5, <1>6, <2>1, Zenon DEF Rest
  <2>2. latest # NoCP => latest.tree \in Words(Ids) /\ Rest(latest.log) \in Words(Ids)
    BY DiskTypes DEF ReplayInv, Types
  <2>3. QED
    BY <1>8, <2>1, <2>2
<1>10. compactor.pc # "idle" =>
          Cat(compactor.tree, Rest(compactor.log))' = Cat(Cat(compactor.tree, Rest(compactor.log)), w)
  <2>1. ASSUME compactor.pc # "idle" PROVE Rest(compactor.log)' = Cat(Rest(compactor.log), w)
    BY <1>5, <1>7, <2>1, Zenon DEF Rest
  <2>2. compactor.pc # "idle" => compactor.tree \in Words(Ids) /\ Rest(compactor.log) \in Words(Ids)
    BY DiskTypes DEF ReplayInv
  <2>3. QED
    BY <1>8, <2>1, <2>2
<1>11. latest = NoCP => compactor.pc # "idle"
  BY DEF ReplayInv, LinksOK
<1>12. OnDisk' = Cat(OnDisk, w)
  BY <1>9, <1>10, <1>11 DEF OnDisk
<1>13. CompactorOK'
  BY <1>10, <1>12 DEF CompactorOK, ReplayInv
<1>14. QED
  BY <1>2, <1>3, <1>4, <1>12, <1>13

LEMMA StepLogger ==
    ASSUME ReplayInv, Windows, logger_main
    PROVE  ReplayInv'
<1> DEFINE r == Head(pending)
<1>1. Proper(pending) /\ pending # <<>> /\ Proper(logged) /\ up /\ logger = "main"
  BY DEF ReplayInv, Types, logger_main
<1>2. r \in Results /\ (r.op = "mutate" => r.id # 0)
  BY <1>1 DEF Proper
<1> HIDE DEF r
<1>3. Written(r) \in Words(Ids)
  BY <1>2, WrittenType
<1>4. /\ logs' = [logs EXCEPT ![lognum] = @ \o Written(r)]
      /\ pending' = Tail(pending) /\ logged' = Append(logged, r)
      /\ UNCHANGED <<up, tree, last, latest, requestList, logger, lognum, compactor, submitted>>
  BY DEF logger_main, r
<1>5. /\ logs' \in Seq(Words(Ids)) /\ Len(logs') = Len(logs)
      /\ OnDisk' = Cat(OnDisk, Written(r)) /\ CompactorOK'
  BY <1>1, <1>3, <1>4, LogExtended, Zenon
<1>6. Proper(Tail(pending)) /\ Unwritten(pending) = Cat(Written(r), Unwritten(Tail(pending)))
  BY <1>1, UnwrittenTail DEF r
<1>7. Types'
  <2>1. Proper(logged')
    BY <1>1, <1>2, <1>4, UnwrittenAppend
  <2>2. QED
    BY <1>4, <1>5, <1>6, <2>1 DEF ReplayInv, Types
<1>8. LinksOK'
  BY <1>1, <1>4, <1>5 DEF ReplayInv, LinksOK, LogOrNext
<1>9. TreeOK'
  <2>1. tree = Cat(OnDisk, Unwritten(pending)) /\ OnDisk \in Words(Ids)
    BY <1>1, DiskTypes DEF ReplayInv, TreeOK
  <2>2. PICK d \in Words(Ids) : d = OnDisk
    BY <2>1
  <2>3. PICK u \in Words(Ids) : u = Unwritten(Tail(pending))
    BY <1>6, UnwrittenType
  <2>4. PICK w \in Words(Ids) : w = Written(r)
    BY <1>3
  <2>5. Cat(Cat(d, w), u) = Cat(d, Cat(w, u))
    BY Reassociate
  <2>6. tree' = Cat(OnDisk', Unwritten(pending'))
    BY <1>4, <1>5, <1>6, <2>1, <2>2, <2>3, <2>4, <2>5
  <2>7. QED
    BY <1>1, <1>4, <2>6 DEF TreeOK
<1>10. QED
  BY <1>5, <1>7, <1>8, <1>9 DEF ReplayInv

LEMMA StepFinishLink ==
    ASSUME ReplayInv, finishLogUnlink \/ finishLogLink
    PROVE  ReplayInv' /\ OnDisk' = OnDisk
<1>1. UNCHANGED <<up, tree, logs, latest, pending, requestList, logged, lognum, compactor, submitted>>
  BY DEF finishLogUnlink, finishLogLink, queues
<1>2. Types'
  BY <1>1 DEF ReplayInv, Types, finishLogUnlink, finishLogLink
<1>3. Len(logs) \in Nat /\ lognum = Len(logs) /\ Len(logs) # 0 /\ compactor.log \in Nat /\ compactor.last \in Nat
  BY DEF ReplayInv, Types
<1>4. LinksOK'
  <2>1. CASE finishLogUnlink
    BY <1>1, <1>3, <2>1 DEF ReplayInv, LinksOK, LogOrNext, finishLogUnlink
  <2>2. CASE finishLogLink
    BY <1>1, <1>3, <2>2 DEF ReplayInv, LinksOK, LogOrNext, finishLogLink
  <2>3. QED
    BY <2>1, <2>2
<1>5. TreeOK'
  BY <1>1, DiskSame DEF ReplayInv, TreeOK, Unwritten
<1>6. QED
  BY <1>1, <1>2, <1>4, <1>5, DiskSame DEF ReplayInv

LEMMA StepFinishStart ==
    ASSUME ReplayInv, finishLogStart
    PROVE  ReplayInv' /\ OnDisk' = OnDisk
<1>1. /\ logs \in Seq(Words(Ids)) /\ Len(logs) \in Nat /\ Len(logs) # 0 /\ lognum = Len(logs)
      /\ Proper(pending) /\ up /\ logger = "linked"
      /\ compactor.log \in Nat /\ compactor.last \in Nat
  BY DEF ReplayInv, Types, finishLogStart
<1>2. pending # <<>> /\ Head(pending).op = "rollover"
  BY <1>1 DEF ReplayInv, LinksOK
<1>3. logs' = Append(logs, <<>>)
  <2>1. Len(logs) + 1 \notin DOMAIN logs
    BY <1>1
  <2>2. QED
    BY <1>1, <2>1 DEF finishLogStart, startLog
<1>4. /\ UNCHANGED <<up, tree, last, latest, requestList, logged, compactor, submitted>>
      /\ pending' = Tail(pending) /\ lognum' = lognum + 1 /\ logger' = "main"
  BY DEF finishLogStart
<1>5. PICK M : M = logs'
  OBVIOUS
<1>6. M \in Seq(Words(Ids)) /\ Len(M) = Len(logs) + 1
  <2>1. <<>> \in Words(Ids)
    BY DEF Words
  <2>2. QED
    BY <1>1, <1>3, <1>5, <2>1, AppendProperties
<1>7. \A i \in 1..Len(M) : FlattenSeq(SubSeq(M, i, Len(M))) = Rest(i)
  <2>1. Created(M, logs)
    BY <1>3, <1>5 DEF Created
  <2>2. TAKE i \in 1..Len(M)
  <2>3. QED
    BY <1>1, <2>1, RestNew DEF Rest
<1>8. latest # NoCP => latest.log \in 1..Len(M)
  BY <1>1, <1>6 DEF ReplayInv, LinksOK
<1>9. compactor.pc # "idle" => compactor.log \in 1..Len(M)
  BY <1>1, <1>6 DEF ReplayInv, LinksOK, LogOrNext
<1>10. latest # NoCP => Rest(latest.log)' = Rest(latest.log)
  <2>1. ASSUME latest # NoCP PROVE FlattenSeq(SubSeq(M, latest.log, Len(M))) = Rest(latest.log)
    BY <1>7, <1>8, <2>1
  <2>2. QED
    BY <1>4, <1>5, <2>1 DEF Rest
<1>11. compactor.pc # "idle" => Rest(compactor.log)' = Rest(compactor.log)
  <2>1. ASSUME compactor.pc # "idle"
        PROVE  FlattenSeq(SubSeq(M, compactor.log, Len(M))) = Rest(compactor.log)
    BY <1>7, <1>9, <2>1
  <2>2. QED
    BY <1>4, <1>5, <2>1 DEF Rest
<1>12. latest = NoCP => compactor.pc # "idle"
  BY DEF ReplayInv, LinksOK
<1>13. OnDisk' = OnDisk
  BY <1>4, <1>10, <1>11, <1>12 DEF OnDisk
<1>14. CompactorOK'
  BY <1>4, <1>11, <1>13 DEF CompactorOK, ReplayInv
<1>15. Proper(Tail(pending)) /\ Unwritten(pending) = Unwritten(Tail(pending))
  <2>1. Written(Head(pending)) = <<>>
    BY <1>2 DEF Written
  <2>2. QED
    BY <1>1, <1>2, <2>1, UnwrittenTail, UnwrittenType, CatType, Zenon
<1>16. Types'
  BY <1>1, <1>4, <1>5, <1>6, <1>15 DEF ReplayInv, Types
<1>17. LinksOK'
  BY <1>1, <1>4, <1>5, <1>6 DEF ReplayInv, LinksOK, LogOrNext
<1>18. TreeOK'
  BY <1>1, <1>4, <1>13, <1>15 DEF ReplayInv, TreeOK
<1>19. QED
  BY <1>13, <1>14, <1>16, <1>17, <1>18 DEF ReplayInv

LEMMA StepDispatch ==
    ASSUME ReplayInv, Dispatch
    PROVE  ReplayInv' /\ OnDisk' = OnDisk
<1>1. UNCHANGED <<up, tree, logs, last, latest, requestList, pending, logger, lognum, compactor, submitted>>
      /\ logged # <<>> /\ logged' = Tail(logged) /\ up
  BY DEF Dispatch, disk, threads
<1>2. Types'
  <2>1. Proper(Tail(logged))
    BY <1>1, UnwrittenTail DEF ReplayInv, Types
  <2>2. QED
    BY <1>1, <2>1 DEF ReplayInv, Types
<1>3. LinksOK' /\ TreeOK'
  BY <1>1, DiskSame DEF ReplayInv, LinksOK, LogOrNext, TreeOK, Unwritten
<1>4. QED
  BY <1>1, <1>2, <1>3, DiskSame DEF ReplayInv

LEMMA CatPrefix ==
    ASSUME NEW T, NEW a \in Words(T), NEW b \in Words(T)
    PROVE  /\ Len(a) \in 0..Len(Cat(a, b)) /\ a = SubSeq(Cat(a, b), 1, Len(a))
           /\ Len(a) \in 0..Len(a) /\ a = SubSeq(a, 1, Len(a))
<1>1. a \in Seq(T) /\ b \in Seq(T) /\ Len(a) \in Nat /\ Len(b) \in Nat
  BY DEF Words
<1>2. PICK c : c = Cat(a, b)
  OBVIOUS
<1>3. c \in Seq(T) /\ Len(c) = Len(a) + Len(b) /\ \A i \in 1..Len(a) : c[i] = a[i]
  BY <1>1, <1>2, ConcatProperties DEF Cat
<1>4. PICK d : d = SubSeq(c, 1, Len(a))
  BY Zenon
<1>5. d \in Seq(T) /\ Len(d) = Len(a) /\ \A i \in 1..Len(a) : d[i] = c[i]
  BY <1>1, <1>3, <1>4
<1>6. d = a
  BY <1>1, <1>3, <1>5, SeqEqual
<1>7. a = SubSeq(a, 1, Len(a))
  BY <1>1, SubSeqFull
<1>8. QED
  BY <1>1, <1>2, <1>3, <1>4, <1>6, <1>7

LEMMA StepCrash ==
    ASSUME ReplayInv, Windows, Crash
    PROVE  ReplayInv' /\ OnDisk' = OnDisk
<1>1. /\ UNCHANGED <<tree, logs, last, latest, lognum, compactor, submitted>>
      /\ up /\ up' = FALSE /\ logger # "linked" /\ logger' = "main"
      /\ requestList' = <<>> /\ pending' = <<>> /\ logged' = <<>>
  BY DEF Crash, disk, Windows
<1>2. Types'
  <2>1. <<>> \in Seq(Requests) /\ Proper(<<>>)
    BY DEF Proper
  <2>2. requestList' \in Seq(Requests) /\ \A i \in DOMAIN requestList' : FALSE
    BY <1>1, <2>1
  <2>3. Proper(pending') /\ Proper(logged')
    BY <1>1, <2>1
  <2>4. up' \in BOOLEAN /\ logger' \in {"main", "unlinked", "linked"}
    BY <1>1, Zenon
  <2>5. QED
    BY <1>1, <2>2, <2>3, <2>4 DEF ReplayInv, Types
<1>3. LinksOK'
  BY <1>1 DEF ReplayInv, LinksOK, LogOrNext
<1>4. TreeOK'
  <2>1. OnDisk \in Words(Ids) /\ Unwritten(pending) \in Words(Ids) /\ tree = Cat(OnDisk, Unwritten(pending))
    BY <1>1, DiskTypes, UnwrittenType DEF ReplayInv, Types, TreeOK
  <2>2. PICK d \in Words(Ids) : d = OnDisk
    BY <2>1
  <2>3. PICK u \in Words(Ids) : u = Unwritten(pending)
    BY <2>1
  <2>4. Len(d) \in 0..Len(Cat(d, u)) /\ d = SubSeq(Cat(d, u), 1, Len(d))
    BY CatPrefix
  <2>5. \E n \in 0..Len(tree) : OnDisk = SubSeq(tree, 1, n)
    <3>1. PICK t : t = tree
      OBVIOUS
    <3>2. t = Cat(d, u)
      BY <2>1, <2>2, <2>3, <3>1
    <3>3. Len(d) \in 0..Len(t) /\ d = SubSeq(t, 1, Len(d))
      BY <2>4, <3>2
    <3>4. QED
      BY <2>2, <3>1, <3>3, Zenon
  <2>6. QED
    BY <1>1, <2>5, DiskSame DEF TreeOK
<1>5. QED
  BY <1>1, <1>2, <1>3, <1>4, DiskSame DEF ReplayInv

\* While LASTCP is in place, a restart finds exactly what is on disk.
LEMMA RecoveredIsOnDisk ==
    ASSUME LinksOK, Types, latest # NoCP
    PROVE  Recovered = OnDisk
<1>1. latest.log \in DOMAIN logs
  BY DEF LinksOK, Types
<1>2. openlog(latest.log) = latest.log
  BY <1>1 DEF openlog
<1>3. QED
  BY <1>2, Zenon DEF Recovered, Replayed, OnDisk, Rest, Cat

LEMMA StepStartup ==
    ASSUME ReplayInv, Windows, kfs_startup
    PROVE  ReplayInv' /\ OnDisk' = OnDisk
<1>1. compactor.pc # "unlinked" /\ ~up
  BY DEF kfs_startup, Windows
<1>2. latest # NoCP
  BY <1>1 DEF ReplayInv, LinksOK
<1>3. /\ UNCHANGED <<logs, last, latest, pending, requestList, logged, logger, compactor, submitted>>
      /\ tree' = Recovered /\ lognum' = Len(logs) /\ up' = TRUE
  BY <1>2 DEF kfs_startup, queues
<1>4. Recovered = OnDisk /\ OnDisk \in Words(Ids)
  BY <1>2, RecoveredIsOnDisk, DiskTypes DEF ReplayInv
<1>5. Types'
  BY <1>3, <1>4 DEF ReplayInv, Types
<1>6. LinksOK'
  BY <1>1, <1>3 DEF ReplayInv, LinksOK, LogOrNext
<1>7. TreeOK'
  <2>1. pending' = <<>>
    BY <1>1, <1>3 DEF ReplayInv, LinksOK
  <2>2. Cat(OnDisk, Unwritten(pending')) = OnDisk
    BY <1>4, <2>1, UnwrittenEmpty, CatType
  <2>3. QED
    BY <1>3, <1>4, <2>2, DiskSame DEF TreeOK
<1>8. QED
  BY <1>3, <1>5, <1>6, <1>7, DiskSame DEF ReplayInv

-----------------------------------------------------------------------------
(* The steps of the compactor leave what is on disk as it is. *)

ServerSame == UNCHANGED <<up, tree, logs, last, pending, requestList, logged, logger, lognum, submitted>>

LEMMA StepCompactor ==
    ASSUME ReplayInv, ServerSame, Types', LinksOK', CompactorOK', OnDisk' = OnDisk
    PROVE  ReplayInv'
<1>1. TreeOK'
  BY DEF ServerSame, ReplayInv, TreeOK, Unwritten
<1>2. QED
  BY <1>1 DEF ReplayInv

LEMMA StepRestore ==
    ASSUME ReplayInv, restoreCheckpoint
    PROVE  ReplayInv' /\ OnDisk' = OnDisk
<1>1. /\ latest # NoCP /\ UNCHANGED latest /\ ServerSame
      /\ compactor' = [pc |-> "restored", tree |-> latest.tree, log |-> openlog(latest.log), last |-> 0]
  BY DEF restoreCheckpoint, disk, queues, threads, ServerSame
<1>2. latest.log \in DOMAIN logs /\ latest.log \in Nat /\ latest.log # 0
      /\ Len(logs) \in Nat /\ Len(logs) # 0 /\ latest.log \in 1..Len(logs)
  BY <1>1 DEF ReplayInv, LinksOK, Types
<1>3. compactor' = [pc |-> "restored", tree |-> latest.tree, log |-> latest.log, last |-> 0]
  BY <1>1, <1>2 DEF openlog
<1>4. Types'
  BY <1>1, <1>2, <1>3 DEF ReplayInv, Types, ServerSame
<1>5. LinksOK'
  BY <1>1, <1>2, <1>3 DEF ReplayInv, LinksOK, LogOrNext, ServerSame
<1>6. OnDisk' = OnDisk /\ CompactorOK'
  <2>1. compactor'.tree = latest.tree /\ compactor'.log = latest.log
    BY <1>3
  <2>2. UNCHANGED <<logs, latest>>
    BY <1>1 DEF ServerSame
  <2>3. OnDisk' = OnDisk
    BY <1>1, <2>2 DEF OnDisk, Rest
  <2>4. Cat(compactor.tree, Rest(compactor.log))' = OnDisk
    BY <1>1, <2>1, <2>2 DEF OnDisk, Rest
  <2>5. QED
    BY <2>3, <2>4 DEF CompactorOK
<1>7. QED
  BY <1>1, <1>4, <1>5, <1>6, StepCompactor

\* The compactor stops, or moves on with the tree it has.
LEMMA StepCompactorMove ==
    ASSUME ReplayInv, ServerSame, UNCHANGED latest, latest # NoCP,
           \/ compactor' = Idle
           \/ /\ compactor.pc # "idle"
              /\ \/ compactor.pc = "restored" /\ last # 0
                    /\ compactor' = [compactor EXCEPT !.pc = "searching", !.last = last]
                 \/ compactor.pc = "searching" /\ compactor.last > compactor.log
                    /\ compactor' = [compactor EXCEPT !.pc = "replaying"]
    PROVE  ReplayInv' /\ OnDisk' = OnDisk
<1>1. /\ compactor \in [pc : {"idle", "restored", "searching", "replaying", "replayed", "unlinked"},
                        tree : Words(Ids), log : Nat, last : Nat]
      /\ last \in Nat /\ Len(logs) \in Nat /\ Len(logs) # 0 /\ <<>> \in Words(Ids)
  BY DEF ReplayInv, Types, LinksOK, Words
<1>2. /\ compactor' \in [pc : {"idle", "restored", "searching", "replaying", "replayed", "unlinked"},
                          tree : Words(Ids), log : Nat, last : Nat]
      /\ compactor'.pc # "idle" => /\ compactor.pc # "idle" /\ compactor'.log = compactor.log
                                  /\ compactor'.tree = compactor.tree
      /\ compactor'.pc = "replaying" => compactor.log <= compactor.last /\ compactor'.last = compactor.last
      /\ compactor'.last \in {0, last, compactor.last}
  <2>1. CASE compactor' = Idle
    BY <1>1, <2>1 DEF Idle
  <2>2. CASE compactor' = [compactor EXCEPT !.pc = "searching", !.last = last] /\ compactor.pc = "restored"
    BY <1>1, <2>2, Zenon
  <2>3. CASE /\ compactor' = [compactor EXCEPT !.pc = "replaying"]
             /\ compactor.pc = "searching" /\ compactor.last > compactor.log
    BY <1>1, <2>3
  <2>4. QED
    BY <2>1, <2>2, <2>3
<1>3. Types' /\ LinksOK'
  <2>1. Types'
    BY <1>2 DEF ReplayInv, Types, ServerSame
  <2>2. LogOrNext(1) /\ LogOrNext(last + 1) /\ LogOrNext(compactor.last + 1)
    BY <1>1 DEF ReplayInv, LinksOK, LogOrNext
  <2>3. LogOrNext(compactor'.last + 1)
    BY <1>1, <1>2, <2>2
  <2>4. LinksOK'
    BY <1>1, <1>2, <2>3 DEF ReplayInv, LinksOK, LogOrNext, ServerSame
  <2>5. QED
    BY <2>1, <2>4
<1>4. OnDisk' = OnDisk
  BY DEF OnDisk, Rest, ServerSame
<1>5. CompactorOK'
  BY <1>2, <1>4 DEF CompactorOK, ReplayInv, Rest, ServerSame
<1>6. QED
  BY <1>3, <1>4, <1>5, StepCompactor

LEMMA StepReplay ==
    ASSUME ReplayInv, replayLogs
    PROVE  ReplayInv' /\ OnDisk' = OnDisk
<1>1. /\ compactor.pc = "replaying" /\ UNCHANGED latest /\ ServerSame
      /\ compactor' = [compactor EXCEPT !.pc = "replayed",
                                        !.tree = @ \o Replayed(compactor.log, compactor.last),
                                        !.log = compactor.last + 1]
  BY DEF replayLogs, disk, queues, threads, ServerSame
<1>2. /\ logs \in Seq(Words(Ids)) /\ Len(logs) \in Nat
      /\ compactor \in [pc : {"idle", "restored", "searching", "replaying", "replayed", "unlinked"},
                        tree : Words(Ids), log : Nat, last : Nat]
  BY DEF ReplayInv, Types
<1>3. PICK i \in Nat : i = compactor.log
  BY <1>2
<1>4. PICK k \in Nat : k = compactor.last
  BY <1>2
<1>5. /\ LogOrNext(i) /\ LogOrNext(k + 1) /\ i <= k /\ latest # NoCP
  BY <1>1, <1>3, <1>4 DEF ReplayInv, LinksOK
<1>6. i \in 1..Len(logs) + 1 /\ k \in i - 1..Len(logs) /\ i # 0 /\ k \in 0..Len(logs)
  BY <1>2, <1>5 DEF LogOrNext
<1>7. PICK a \in Words(Ids) : a = Replayed(i, k)
  BY <1>2, <1>6, RestType DEF Replayed
<1>8. PICK m : m = k + 1
  OBVIOUS
<1>9. PICK b \in Words(Ids) : b = Rest(m)
  <2>1. m \in Nat /\ m # 0 /\ Len(logs) \in 0..Len(logs)
    BY <1>2, <1>8
  <2>2. QED
    BY <1>2, <2>1, RestType DEF Rest
<1>10. PICK t \in Words(Ids) : t = compactor.tree
  BY <1>2
<1>11. Rest(i) = Cat(a, b)
  BY <1>2, <1>6, <1>7, <1>8, <1>9, RestSplit DEF Rest, Replayed
<1>12. Cat(Cat(t, a), b) = Cat(t, Cat(a, b))
  BY Reassociate
<1>13. /\ compactor' \in [pc : {"idle", "restored", "searching", "replaying", "replayed", "unlinked"},
                          tree : Words(Ids), log : Nat, last : Nat]
       /\ compactor'.pc = "replayed" /\ compactor'.log = m /\ compactor'.last = k
       /\ compactor'.tree = Cat(t, a)
  <2>1. compactor' = [compactor EXCEPT !.pc = "replayed", !.tree = Cat(t, a), !.log = m]
    BY <1>1, <1>2, <1>3, <1>4, <1>7, <1>8, <1>10 DEF Cat
  <2>2. Cat(t, a) \in Words(Ids) /\ m \in Nat
    BY <1>8, CatType
  <2>3. QED
    BY <1>2, <1>4, <2>1, <2>2, Zenon
<1>14. Types'
  BY <1>1, <1>13 DEF ReplayInv, Types, ServerSame
<1>15. LinksOK'
  BY <1>1, <1>5, <1>8, <1>13 DEF ReplayInv, LinksOK, LogOrNext, ServerSame
<1>16. OnDisk' = OnDisk
  BY <1>1, <1>5 DEF OnDisk, Rest, ServerSame
<1>17. CompactorOK'
  <2>1. OnDisk = Cat(t, Rest(i))
    BY <1>1, <1>3, <1>10 DEF ReplayInv, CompactorOK
  <2>2. Rest(compactor.log)' = b
    BY <1>1, <1>9, <1>13 DEF Rest, ServerSame
  <2>3. QED
    BY <1>11, <1>12, <1>13, <1>16, <2>1, <2>2 DEF CompactorOK
<1>18. QED
  BY <1>1, <1>14, <1>15, <1>16, <1>17, StepCompactor

LEMMA StepUnlink ==
    ASSUME ReplayInv, do_CPUnlink
    PROVE  ReplayInv' /\ OnDisk' = OnDisk
<1>1. /\ compactor.pc = "replayed" /\ latest' = NoCP /\ ServerSame
      /\ compactor' = [compactor EXCEPT !.pc = "unlinked"]
  BY DEF do_CPUnlink, queues, threads, ServerSame
<1>2. /\ compactor \in [pc : {"idle", "restored", "searching", "replaying", "replayed", "unlinked"},
                        tree : Words(Ids), log : Nat, last : Nat]
      /\ latest # NoCP /\ <<>> \in Words(Ids)
  BY <1>1 DEF ReplayInv, Types, LinksOK, Words
<1>3. /\ compactor' \in [pc : {"idle", "restored", "searching", "replaying", "replayed", "unlinked"},
                         tree : Words(Ids), log : Nat, last : Nat]
      /\ compactor'.pc = "unlinked" /\ compactor'.tree = compactor.tree
      /\ compactor'.log = compactor.log /\ compactor'.last = compactor.last
  BY <1>1, <1>2
<1>4. Types'
  <2>1. latest'.tree = <<>>
    BY <1>1 DEF NoCP
  <2>2. QED
    BY <1>1, <1>2, <1>3, <2>1 DEF ReplayInv, Types, ServerSame
<1>5. LinksOK'
  BY <1>1, <1>3 DEF ReplayInv, LinksOK, LogOrNext, ServerSame
<1>6. OnDisk' = OnDisk /\ CompactorOK'
  <2>1. Cat(compactor.tree, Rest(compactor.log))' = Cat(compactor.tree, Rest(compactor.log))
    BY <1>1, <1>3 DEF Rest, ServerSame
  <2>2. QED
    BY <1>1, <2>1 DEF OnDisk, CompactorOK, ReplayInv
<1>7. QED
  BY <1>1, <1>4, <1>5, <1>6, StepCompactor

LEMMA StepLink ==
    ASSUME ReplayInv, Windows, do_CPLink
    PROVE  ReplayInv' /\ OnDisk' = OnDisk
<1>1. /\ compactor.pc = "unlinked" /\ logger # "linked" /\ ServerSame
      /\ latest' = IF latest = NoCP THEN [tree |-> compactor.tree, log |-> compactor.log] ELSE latest
      /\ compactor' = Idle
  BY DEF do_CPLink, queues, threads, ServerSame, Windows
<1>2. /\ compactor \in [pc : {"idle", "restored", "searching", "replaying", "replayed", "unlinked"},
                        tree : Words(Ids), log : Nat, last : Nat]
      /\ <<>> \in Words(Ids) /\ Len(logs) \in Nat /\ Len(logs) # 0
  BY <1>1 DEF ReplayInv, Types, LinksOK, Words
<1>3. compactor.log \in 1..Len(logs)
  BY <1>1, <1>2 DEF ReplayInv, LinksOK, LogOrNext
<1>4. latest' # NoCP
  BY <1>1, <1>2, <1>3 DEF NoCP
<1>5. Types'
  BY <1>1, <1>2 DEF ReplayInv, Types, ServerSame, Idle
<1>6. LinksOK'
  <2>1. latest'.log \in 1..Len(logs)
    BY <1>1, <1>3 DEF ReplayInv, LinksOK
  <2>2. compactor'.pc = "idle" /\ compactor'.last = 0
    BY <1>1 DEF Idle
  <2>3. QED
    BY <1>1, <1>2, <1>4, <2>1, <2>2 DEF ReplayInv, LinksOK, LogOrNext, ServerSame
<1>7. OnDisk' = OnDisk
  BY <1>1, <1>4 DEF OnDisk, Rest, ServerSame
<1>8. CompactorOK'
  BY <1>1 DEF CompactorOK, Idle
<1>9. QED
  BY <1>1, <1>5, <1>6, <1>7, <1>8, StepCompactor

LEMMA ReplayNext ==
    ASSUME ReplayInv, Windows, [Next]_vars
    PROVE  ReplayInv' /\ (logger_main \/ OnDisk' = OnDisk)
<1>1. CASE UNCHANGED vars
  <2>1. UNCHANGED <<up, tree, logs, last, latest, requestList, pending, logged, logger, lognum,
                    compactor, submitted>>
    BY <1>1 DEF vars, disk, queues, threads
  <2>2. Types' /\ LinksOK' /\ TreeOK' /\ CompactorOK'
    BY <2>1, DiskSame, Zenon DEF ReplayInv, Types, LinksOK, LogOrNext, TreeOK, Unwritten
  <2>3. QED
    BY <2>1, <2>2, DiskSame DEF ReplayInv
<1>2. CASE SubmitMutation
  <2>1. Mutation(submitted + 1) \in Requests /\ Mutation(submitted + 1).id # 0
        /\ submitted' \in Nat /\ submitted' <= MaxOps
    <3>1. submitted \in Nat /\ submitted < MaxOps /\ submitted' = submitted + 1
      BY <1>2 DEF SubmitMutation, ReplayInv, Types
    <3>2. submitted + 1 \in 0..MaxOps /\ submitted + 1 # 0 /\ submitted + 1 <= MaxOps
      BY <3>1, BoundsAssumption
    <3>3. QED
      BY <3>1, <3>2 DEF Mutation, Requests
  <2>2. QED
    BY <1>2, <2>1, StepSubmit DEF SubmitMutation, disk, threads
<1>3. CASE SubmitRead
  <2>1. Read \in Requests /\ Read.op # "mutate" /\ submitted \in Nat /\ submitted <= MaxOps
    BY BoundsAssumption DEF Read, Requests, ReplayInv, Types
  <2>2. QED
    BY <1>3, <2>1, StepSubmit DEF SubmitRead, disk, threads
<1>4. CASE logtimer
  <2>1. Rollover \in Requests /\ Rollover.op # "mutate" /\ submitted \in Nat /\ submitted <= MaxOps
    BY BoundsAssumption DEF Rollover, Requests, ReplayInv, Types
  <2>2. QED
    BY <1>4, <2>1, StepSubmit DEF logtimer, disk, threads
<1>5. CASE statLast
  <2>1. compactor.pc = "restored" /\ latest # NoCP /\ UNCHANGED latest /\ ServerSame
    BY <1>5 DEF statLast, disk, queues, threads, ServerSame, ReplayInv, LinksOK
  <2>2. QED
    BY <1>5, <2>1, StepCompactorMove DEF statLast
<1>6. CASE findLast
  <2>1. compactor.pc = "searching" /\ latest # NoCP /\ UNCHANGED latest /\ ServerSame
    BY <1>6 DEF findLast, disk, queues, threads, ServerSame, ReplayInv, LinksOK
  <2>2. compactor.last \in Nat /\ compactor.log \in Nat
    BY DEF ReplayInv, Types
  <2>3. \/ compactor' = Idle
        \/ compactor.last > compactor.log /\ compactor' = [compactor EXCEPT !.pc = "replaying"]
    BY <1>6, <2>2 DEF findLast
  <2>4. QED
    BY <2>1, <2>3, StepCompactorMove
<1>7. CASE CompactorCrash
  <2>1. compactor.pc # "unlinked" /\ compactor' = Idle /\ UNCHANGED latest /\ ServerSame
    BY <1>7 DEF CompactorCrash, disk, queues, threads, ServerSame, Windows
  <2>2. latest # NoCP
    BY <2>1 DEF ReplayInv, LinksOK
  <2>3. QED
    BY <2>1, <2>2, StepCompactorMove
<1>8. QED
  BY <1>1, <1>2, <1>3, <1>4, <1>5, <1>6, <1>7, StepProcess, StepLogger, StepFinishLink,
     StepFinishStart, StepDispatch, StepCrash, StepStartup, StepRestore, StepReplay, StepUnlink,
     StepLink DEF Next, ServerThreads

\* At every moment a restart would rebuild the tree in memory, up to the
\* mutations still queued for the logger: the logs and checkpoints of any number
\* of rollovers, compactions and restarts lose, repeat and reorder nothing.
THEOREM ReplayRebuilds ==
    ASSUME Windows
    PROVE  Spec => []ReplayRebuildsTree
<1>1. Init => ReplayInv
  BY ReplayInit
<1>2. ReplayInv /\ [Next]_vars => ReplayInv'
  BY ReplayNext
<1>3. ReplayInv => ReplayRebuildsTree
  <2>1. SUFFICES ASSUME ReplayInv, up, latest # NoCP
                 PROVE  tree = Recovered \o Unwritten(pending)
    BY DEF ReplayRebuildsTree
  <2>2. Recovered = OnDisk
    BY <2>1, RecoveredIsOnDisk DEF ReplayInv
  <2>3. tree = Cat(OnDisk, Unwritten(pending))
    BY <2>1 DEF ReplayInv, TreeOK
  <2>4. QED
    BY <2>2, <2>3 DEF Cat
<1>4. QED
  BY <1>1, <1>2, <1>3, PTL DEF Spec

\* No step writes to a log that LASTLOG has closed, or removes one: what the
\* compactor replays is complete and final.
THEOREM LogsFrozen ==
    ASSUME Windows
    PROVE  Spec => CompleteLogsFrozen
<1> DEFINE Frozen == last # 0 => \A i \in 1..last : i \in DOMAIN logs' /\ logs'[i] = logs[i]
<1>1. Init => ReplayInv
  BY ReplayInit
<1>2. ReplayInv /\ [Next]_vars => ReplayInv'
  BY ReplayNext
<1>3. ReplayInv /\ [Next]_vars => [Frozen]_vars
  <2>1. SUFFICES ASSUME ReplayInv, Next PROVE Frozen
    OBVIOUS
  <2>2. /\ last \in Nat /\ Len(logs) \in Nat /\ DOMAIN logs = 1..Len(logs) /\ last <= Len(logs)
        /\ logger # "linked" => last < Len(logs)
        /\ logs \in Seq(Words(Ids)) /\ lognum = Len(logs)
    <3>1. last \in Nat /\ logs \in Seq(Words(Ids)) /\ lognum = Len(logs)
      BY <2>1 DEF ReplayInv, Types, LinksOK
    <3>2. last + 1 <= Len(logs) \/ (last + 1 = Len(logs) + 1 /\ logger = "linked")
      BY <2>1 DEF ReplayInv, LinksOK, LogOrNext
    <3>3. Len(logs) \in Nat /\ DOMAIN logs = 1..Len(logs)
      BY <3>1
    <3>4. QED
      BY <3>1, <3>2, <3>3
  <2>3. CASE UNCHANGED logs
    BY <2>2, <2>3
  <2>4. CASE logger_main
    <3>1. PICK x : logs' = [logs EXCEPT ![Len(logs)] = x]
      <4>1. logs' = [logs EXCEPT ![lognum] = logs[lognum] \o Written(Head(pending))]
        BY <2>4 DEF logger_main
      <4>2. QED
        BY <2>2, <4>1, Zenon
    <3>2. last < Len(logs)
      BY <2>2, <2>4 DEF logger_main
    <3>3. \A i \in 1..last : i \in DOMAIN logs /\ i # Len(logs)
      <4>1. \A n \in Nat, l \in Nat : l < n => \A i \in 1..l : i \in 1..n /\ i # n
        OBVIOUS
      <4>2. QED
        BY <2>2, <3>2, <4>1, Zenon
    <3>4. DOMAIN logs' = DOMAIN logs /\ \A i \in DOMAIN logs : i # Len(logs) => logs'[i] = logs[i]
      BY <3>1
    <3>5. QED
      BY <3>3, <3>4
  <2>5. CASE finishLogStart
    <3>1. logs' = logs \/ logs' = Append(logs, <<>>)
      BY <2>5 DEF finishLogStart, startLog
    <3>2. <<>> \in Words(Ids)
      BY DEF Words
    <3>3. CASE logs' = Append(logs, <<>>)
      <4>1. /\ Append(logs, <<>>) \in Seq(Words(Ids)) /\ Len(Append(logs, <<>>)) = Len(logs) + 1
            /\ \A i \in 1..Len(logs) : Append(logs, <<>>)[i] = logs[i]
        BY <2>2, <3>2, AppendProperties
      <4>2. QED
        BY <2>2, <3>3, <4>1
    <3>4. QED
      BY <2>3, <3>1, <3>3
  <2>6. QED
    BY <2>1, <2>3, <2>4, <2>5, Zenon DEF Next, ServerThreads, SubmitMutation, SubmitRead, process_request,
       logtimer, Dispatch, finishLogUnlink, finishLogLink, Crash, kfs_startup, restoreCheckpoint,
       statLast, findLast, replayLogs, do_CPUnlink, do_CPLink, CompactorCrash, disk
<1>4. QED
  BY <1>1, <1>2, <1>3, PTL DEF Spec, CompleteLogsFrozen
=============================================================================
