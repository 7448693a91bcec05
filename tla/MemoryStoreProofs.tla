-------------------------- MODULE MemoryStoreProofs --------------------------
(***************************************************************************)
(* Proofs about MemoryStore: what every writer of the memories table keeps *)
(* true of its rows, and what a step may do to them, for any writers,      *)
(* bodies, fingerprints, requests and bounds.                              *)
(***************************************************************************)
EXTENDS MemoryStore, FiniteSetTheorems, TLAPS

-----------------------------------------------------------------------------
(* Strict orders on finite sets, and the first n elements of one.            *)

Above(S, Lt, x) == {y \in S : <<y, x>> \in Lt}
First(S, Lt, n) == {x \in S : Cardinality(Above(S, Lt, x)) < n}
Strict(S, Lt) ==
  /\ \A x \in S : <<x, x>> \notin Lt
  /\ \A x, y, z \in S : <<x, y>> \in Lt /\ <<y, z>> \in Lt => <<x, z>> \in Lt
Total(S, Lt) == \A x, y \in S : x = y \/ <<x, y>> \in Lt \/ <<y, x>> \in Lt

\* A part of a finite set has an element nothing else in it is above.
LEMMA Highest ==
  ASSUME NEW S, IsFiniteSet(S), NEW Lt, Strict(S, Lt), NEW T \in SUBSET S, T # {}
  PROVE  \E x \in T : \A y \in T : <<y, x>> \notin Lt
<1> DEFINE D == {Above(S, Lt, x) : x \in T}
<1>1. D # {} /\ D \subseteq FiniteSubsetsOf(S)
  <2>1. D \subseteq SUBSET S
    BY DEF Above
  <2>2. FiniteSubsetsOf(S) = SUBSET S
    BY FS_FiniteSubsetsOfFinite
  <2> QED
    BY <2>1, <2>2
<1>2. IsWellFoundedOn(StrictSubsetOrdering(S), FiniteSubsetsOf(S))
  BY FS_StrictSubsetOrderingWellFounded
<1>3. \E X \in D : \A Y \in D : <<Y, X>> \notin StrictSubsetOrdering(S)
  <2> HIDE DEF D
  <2> QED
    BY <1>1, <1>2, WFMin
<1>4. PICK x \in T : \A y \in T : <<Above(S, Lt, y), Above(S, Lt, x)>> \notin StrictSubsetOrdering(S)
  BY <1>3
<1>5. ASSUME NEW y \in T, <<y, x>> \in Lt
      PROVE  FALSE
  <2>1. Above(S, Lt, y) \subseteq Above(S, Lt, x)
    BY <1>5 DEF Strict, Above
  <2>2. y \in Above(S, Lt, x) /\ y \notin Above(S, Lt, y)
    BY <1>5 DEF Strict, Above
  <2>3. <<Above(S, Lt, y), Above(S, Lt, x)>> \in (SUBSET S) \X (SUBSET S)
    BY DEF Above
  <2>4. <<Above(S, Lt, y), Above(S, Lt, x)>> \in StrictSubsetOrdering(S)
    BY <2>1, <2>2, <2>3 DEF StrictSubsetOrdering
  <2> QED
    BY <1>4, <2>4
<1> QED
  BY <1>5

LEMMA AboveIsFinite ==
  ASSUME NEW S, IsFiniteSet(S), NEW Lt, NEW x
  PROVE  Above(S, Lt, x) \subseteq S /\ IsFiniteSet(Above(S, Lt, x)) /\ Cardinality(Above(S, Lt, x)) \in Nat
BY FS_Subset, FS_CardinalityType DEF Above

\* Whoever is above one of the first n is one of them, and all of them are above
\* the others.
LEMMA FirstAreAbove ==
  ASSUME NEW S, IsFiniteSet(S), NEW Lt, Strict(S, Lt), Total(S, Lt), NEW n \in Nat,
         NEW x \in First(S, Lt, n), NEW y \in S, y \notin First(S, Lt, n)
  PROVE  <<x, y>> \in Lt
<1>1. x \in S /\ Cardinality(Above(S, Lt, x)) < n /\ ~(Cardinality(Above(S, Lt, y)) < n)
  BY DEF First
<1>2. ASSUME <<y, x>> \in Lt
      PROVE  FALSE
  <2>1. Above(S, Lt, y) \subseteq Above(S, Lt, x)
    BY <1>1, <1>2 DEF Strict, Above
  <2>2. Cardinality(Above(S, Lt, y)) <= Cardinality(Above(S, Lt, x))
    BY <2>1, FS_Subset, AboveIsFinite
  <2> QED
    BY <1>1, <2>2, AboveIsFinite
<1> QED
  BY <1>1, <1>2 DEF Total

\* There are at most n of them.
LEMMA FirstAtMost ==
  ASSUME NEW S, IsFiniteSet(S), NEW Lt, Strict(S, Lt), Total(S, Lt), NEW n \in Nat
  PROVE  /\ First(S, Lt, n) \subseteq S /\ IsFiniteSet(First(S, Lt, n))
         /\ Cardinality(First(S, Lt, n)) \in Nat /\ Cardinality(First(S, Lt, n)) <= n
<1> DEFINE F == First(S, Lt, n)
<1>1. F \subseteq S /\ IsFiniteSet(F) /\ Cardinality(F) \in Nat
  BY FS_Subset, FS_CardinalityType DEF First
<1>2. CASE F = {}
  BY <1>1, <1>2, FS_EmptySet
<1>3. CASE F # {}
  <2> DEFINE Gt == {p \in S \X S : <<p[2], p[1]>> \in Lt}
  <2>1. Strict(S, Gt)
    BY DEF Strict
  <2>2. \E x \in F : \A y \in F : <<y, x>> \notin Gt
    <3> HIDE DEF F, Gt
    <3> QED
      BY <1>1, <1>3, <2>1, Highest
  <2>3. PICK x \in F : \A y \in F : <<y, x>> \notin Gt
    BY <2>2
  <2>4. \A y \in F : y = x \/ <<y, x>> \in Lt
    BY <1>1, <2>3 DEF Total
  <2>5. F \ {x} \subseteq Above(S, Lt, x)
    BY <1>1, <2>4 DEF Above
  <2>6. Cardinality(F \ {x}) <= Cardinality(Above(S, Lt, x))
    BY <2>5, FS_Subset, AboveIsFinite
  <2>7. Cardinality(F \ {x}) = Cardinality(F) - 1
    BY <1>1, <2>3, FS_RemoveElement
  <2>8. Cardinality(Above(S, Lt, x)) < n
    BY <2>3 DEF First
  <2> QED
    BY <1>1, <2>6, <2>7, <2>8, AboveIsFinite
<1> QED
  BY <1>2, <1>3

\* And n of them are above whoever is not one of them.
LEMMA FirstAtLeast ==
  ASSUME NEW S, IsFiniteSet(S), NEW Lt, Strict(S, Lt), Total(S, Lt), NEW n \in Nat,
         NEW r \in S, r \notin First(S, Lt, n)
  PROVE  Cardinality({y \in First(S, Lt, n) : <<y, r>> \in Lt}) >= n
<1> DEFINE F == First(S, Lt, n)
<1>1. {y \in F : <<y, r>> \in Lt} = F
  BY FirstAreAbove
<1>2. F \subseteq S /\ IsFiniteSet(F) /\ Cardinality(F) \in Nat
  BY FirstAtMost
<1>3. S \ F \in SUBSET S /\ S \ F # {}
  OBVIOUS
<1>4. PICK x \in S \ F : \A y \in S \ F : <<y, x>> \notin Lt
  <2> HIDE DEF F
  <2> QED
    BY <1>3, Highest
<1>5. Above(S, Lt, x) \subseteq F
  BY <1>4 DEF Above
<1>6. Cardinality(Above(S, Lt, x)) <= Cardinality(F)
  BY <1>2, <1>5, FS_Subset
<1>7. ~(Cardinality(Above(S, Lt, x)) < n)
  BY <1>4 DEF First
<1>8. Cardinality(Above(S, Lt, x)) \in Nat
  BY AboveIsFinite
<1>9. Cardinality(F) >= n
  <2> HIDE DEF F
  <2> QED
    BY <1>2, <1>6, <1>7, <1>8
<1> QED
  BY <1>1, <1>9

-----------------------------------------------------------------------------
(* The table.                                                                *)

\* What every transaction keeps true of the rows R, where n is the next id.
Sound(R, n) ==
  /\ R \subseteq Rows
  /\ Distinct(R)
  /\ \A r \in R : Dated(r) /\ r.id < n
  /\ Cardinality(AutoSummaries(R)) <= MaxAuto

LEMMA Bounds ==
  /\ MaxSummaries \in Nat /\ MaxAuto \in Nat /\ Grace \in Nat /\ MaxIds \in Nat
  /\ MaxTime \in Nat /\ MaxTime > 0 /\ Summary \in Kinds
  /\ \A t \in Texts : Scrub[t] \in Texts /\ Scrub[Scrub[t]] = Scrub[t]
  /\ \A q \in Requests : q \in RequestType
  /\ \A s \in Scenes : s.requests \subseteq Requests /\ s.ids \in 0..MaxIds
BY StoreAssumption

\* Ids keep a table of distinct rows finite.
LEMMA RowsAreFinite ==
  ASSUME NEW R, R \subseteq Rows, Distinct(R)
  PROVE  IsFiniteSet(R)
<1> DEFINE f == [r \in R |-> r.id]
<1>1. IsFiniteSet(Ids)
  BY Bounds, FS_Interval DEF Ids
<1>2. f \in [R -> Ids]
  BY DEF Rows
<1>3. \A r, s \in R : f[r] = f[s] => r = s
  BY DEF Distinct
<1>4. f \in Injection(R, Ids)
  BY <1>2, <1>3 DEF Injection, IsInjective
<1> QED
  BY <1>1, <1>4, FS_Injection

LEMMA SoundIsFinite ==
  ASSUME NEW R, NEW n, Sound(R, n)
  PROVE  /\ IsFiniteSet(R)
         /\ IsFiniteSet(AutoSummaries(R)) /\ Cardinality(AutoSummaries(R)) \in Nat
         /\ AutoSummaries(R) \subseteq R
<1>1. IsFiniteSet(R)
  BY RowsAreFinite DEF Sound
<1>2. AutoSummaries(R) \in SUBSET R
  BY DEF AutoSummaries
<1> QED
  BY <1>1, <1>2, FS_Subset, FS_CardinalityType

\* Deleting rows keeps a table sound.
LEMMA FewerAreSound ==
  ASSUME NEW R, NEW n, Sound(R, n), NEW Q \in SUBSET R
  PROVE  Sound(Q, n)
<1>1. AutoSummaries(Q) \in SUBSET AutoSummaries(R)
  BY DEF AutoSummaries
<1>2. Cardinality(AutoSummaries(Q)) <= Cardinality(AutoSummaries(R)) /\ Cardinality(AutoSummaries(Q)) \in Nat
  BY <1>1, SoundIsFinite, FS_Subset, FS_CardinalityType
<1>3. Cardinality(AutoSummaries(Q)) <= MaxAuto
  <2>1. Cardinality(AutoSummaries(R)) <= MaxAuto /\ Cardinality(AutoSummaries(R)) \in Nat
    BY SoundIsFinite DEF Sound
  <2> QED
    BY <1>2, <2>1, Bounds
<1>4. Q \subseteq Rows /\ Distinct(Q) /\ \A r \in Q : Dated(r) /\ r.id < n
  BY DEF Sound, Distinct
<1> QED
  BY <1>3, <1>4 DEF Sound

\* Changing one row, as long as nobody else has its new fingerprint.
LEMMA ChangedIsSound ==
  ASSUME NEW R, NEW n, Sound(R, n), NEW r \in R, NEW c \in Rows,
         c.id = r.id, c.kind = r.kind, c.origin = r.origin, Dated(c),
         \A s \in R \ {r} : s.print # c.print
  PROVE  Sound((R \ {r}) \cup {c}, n)
<1> DEFINE Q == (R \ {r}) \cup {c}
<1>1. Q \subseteq Rows
  BY DEF Sound
<1>2. Distinct(Q)
  BY DEF Sound, Distinct
<1>3. \A s \in Q : Dated(s) /\ s.id < n
  BY DEF Sound
<1>4. Cardinality(AutoSummaries(Q)) <= MaxAuto
  <2> DEFINE A == AutoSummaries(R)
  <2>1. IsFiniteSet(A) /\ Cardinality(A) \in Nat /\ Cardinality(A) <= MaxAuto
    BY SoundIsFinite DEF Sound
  <2>2. CASE r \in A
    <3>1. AutoSummaries(Q) = (A \ {r}) \cup {c}
      BY <2>2 DEF AutoSummaries
    <3>2. IsFiniteSet(A \ {r}) /\ Cardinality(A \ {r}) = Cardinality(A) - 1
      BY <2>1, <2>2, FS_RemoveElement
    <3>3. Cardinality((A \ {r}) \cup {c}) <= Cardinality(A \ {r}) + 1
      <4> HIDE DEF A
      <4> DEFINE B == A \ {r}
      <4>1. Cardinality(B) \in Nat /\ IsFiniteSet(B)
        BY <3>2, FS_CardinalityType
      <4>2. Cardinality(B \cup {c}) = IF c \in B THEN Cardinality(B) ELSE Cardinality(B) + 1
        BY <4>1, FS_AddElement
      <4> HIDE DEF B
      <4>3. Cardinality(B \cup {c}) <= Cardinality(B) + 1
        BY <4>1, <4>2
      <4> QED
        BY <4>3 DEF B
    <3>4. Cardinality((A \ {r}) \cup {c}) \in Nat
      BY <3>2, FS_AddElement, FS_CardinalityType
    <3> HIDE DEF A, Q
    <3> QED
      BY <2>1, <3>1, <3>2, <3>3, <3>4, Bounds
  <2>3. CASE r \notin A
    <3>1. AutoSummaries(Q) = A
      BY <2>3 DEF AutoSummaries
    <3> QED
      BY <2>1, <3>1
  <2> QED
    BY <2>2, <2>3
<1> QED
  BY <1>1, <1>2, <1>3, <1>4 DEF Sound

\* Retention only deletes.
LEMMA RetainOnlyDeletes ==
  ASSUME NEW R, NEW q
  PROVE  Retain(R, q) \subseteq R
BY DEF Retain, pruneAutoSummaries, pruneSessionSummaries

-----------------------------------------------------------------------------
(* The two orders of retention.                                              *)

ByAge(S) == {p \in S \X S : Newer(p[1], p[2])}
ByRank(A) == {p \in A \X A : Outranks(AutoRank(A, p[1]), AutoRank(A, p[2]))}

LEMMA AgeOrders ==
  ASSUME NEW S, S \subseteq Rows, Distinct(S)
  PROVE  Strict(S, ByAge(S)) /\ Total(S, ByAge(S))
<1>1. \A r \in S : r.created \in Int /\ r.id \in Int
  BY Bounds DEF Rows, Times, Ids
<1>2. \A r, t \in S : r.id = t.id => r = t
  BY DEF Distinct
<1>3. \A r, t \in S : <<r, t>> \in ByAge(S) <=> Newer(r, t)
  BY DEF ByAge
<1>4. Strict(S, ByAge(S))
  BY <1>1, <1>3 DEF Strict, Newer
<1>5. \A r, t \in S : r.id = t.id \/ Newer(r, t) \/ Newer(t, r)
  BY <1>1 DEF Newer
<1>6. Total(S, ByAge(S))
  BY <1>2, <1>3, <1>5 DEF Total
<1> QED
  BY <1>4, <1>6

LEMMA NewestAreFirst ==
  ASSUME NEW S, NEW n
  PROVE  Newest(S, n) = First(S, ByAge(S), n)
<1>1. \A r \in S : {t \in S : Newer(t, r)} = Above(S, ByAge(S), r)
  BY DEF Above, ByAge
<1> QED
  BY <1>1 DEF Newest, First

\* Outranks, component by component.
LEMMA Lexically ==
  ASSUME NEW a, NEW b
  PROVE  Outranks(a, b) <=>
           \/ a[1] > b[1]
           \/ a[1] = b[1] /\ a[2] > b[2]
           \/ a[1] = b[1] /\ a[2] = b[2] /\ a[3] > b[3]
           \/ a[1] = b[1] /\ a[2] = b[2] /\ a[3] = b[3] /\ a[4] > b[4]
           \/ a[1] = b[1] /\ a[2] = b[2] /\ a[3] = b[3] /\ a[4] = b[4] /\ a[5] > b[5]
<1> DEFINE P(i) == a[i] > b[i] /\ \A k \in 1..(i - 1) : a[k] = b[k]
<1>1. Outranks(a, b) <=> P(1) \/ P(2) \/ P(3) \/ P(4) \/ P(5)
  BY DEF Outranks
<1>2. 1..(1 - 1) = {} /\ 1..(2 - 1) = {1} /\ 1..(3 - 1) = {1, 2} /\ 1..(4 - 1) = {1, 2, 3}
      /\ 1..(5 - 1) = {1, 2, 3, 4}
  OBVIOUS
<1> QED
  BY <1>1, <1>2

LEMMA RankOrders ==
  ASSUME NEW A, A \subseteq Rows, Distinct(A)
  PROVE  Strict(A, ByRank(A)) /\ Total(A, ByRank(A))
<1> DEFINE rk(r) == AutoRank(A, r)
<1>1. \A r \in A : /\ rk(r)[1] \in Int /\ rk(r)[2] \in Int /\ rk(r)[3] \in Int
                   /\ rk(r)[4] \in Int /\ rk(r)[5] \in Int /\ rk(r)[5] = r.id
  BY Bounds DEF AutoRank, Rows, Times, Ids
<1>2. \A r, t \in A : r.id = t.id => r = t
  BY DEF Distinct
<1>3. \A r, t \in A : <<r, t>> \in ByRank(A) <=> Outranks(rk(r), rk(t))
  BY DEF ByRank
<1> HIDE DEF rk
<1>4. \A r \in A : ~Outranks(rk(r), rk(r))
  BY <1>1, Lexically
<1>5. \A r, s, t \in A : Outranks(rk(r), rk(s)) /\ Outranks(rk(s), rk(t)) => Outranks(rk(r), rk(t))
  <2> TAKE r, s, t \in A
  <2> DEFINE a == rk(r)  b == rk(s)  c == rk(t)
  <2>1. /\ a[1] \in Int /\ a[2] \in Int /\ a[3] \in Int /\ a[4] \in Int /\ a[5] \in Int
        /\ b[1] \in Int /\ b[2] \in Int /\ b[3] \in Int /\ b[4] \in Int /\ b[5] \in Int
        /\ c[1] \in Int /\ c[2] \in Int /\ c[3] \in Int /\ c[4] \in Int /\ c[5] \in Int
    BY <1>1
  <2> HIDE DEF a, b, c
  <2>2. Outranks(a, b) /\ Outranks(b, c) => Outranks(a, c)
    BY <2>1, Lexically
  <2> QED
    BY <2>2 DEF a, b, c
<1>6. \A r, t \in A : r = t \/ Outranks(rk(r), rk(t)) \/ Outranks(rk(t), rk(r))
  <2> TAKE r, t \in A
  <2> DEFINE a == rk(r)  b == rk(t)
  <2>1. /\ a[1] \in Int /\ a[2] \in Int /\ a[3] \in Int /\ a[4] \in Int /\ a[5] \in Int
        /\ b[1] \in Int /\ b[2] \in Int /\ b[3] \in Int /\ b[4] \in Int /\ b[5] \in Int
        /\ a[5] = r.id /\ b[5] = t.id
    BY <1>1
  <2> HIDE DEF a, b
  <2>2. a[5] = b[5] \/ Outranks(a, b) \/ Outranks(b, a)
    BY <2>1, Lexically
  <2> QED
    BY <1>2, <2>1, <2>2 DEF a, b
<1> QED
  BY <1>3, <1>4, <1>5, <1>6 DEF Strict, Total

\* What the auto budget deletes, as a first part.
LEMMA KeptAreFirst ==
  ASSUME NEW R, R \subseteq Rows, Distinct(R)
  PROVE  LET A == AutoSummaries(R)
         IN  /\ IsFiniteSet(A) /\ A \subseteq Rows /\ Distinct(A)
             /\ pruneAutoSummaries(R) = R \ (A \ First(A, ByRank(A), MaxAuto))
             /\ AutoSummaries(pruneAutoSummaries(R)) = First(A, ByRank(A), MaxAuto)
<1> DEFINE A == AutoSummaries(R)
<1>1. A \subseteq R /\ IsFiniteSet(A) /\ A \subseteq Rows /\ Distinct(A)
  <2>1. A \in SUBSET R
    BY DEF AutoSummaries
  <2> QED
    BY <2>1, RowsAreFinite, FS_Subset DEF Distinct
<1>2. \A r \in A : {t \in A : Outranks(AutoRank(A, t), AutoRank(A, r))} = Above(A, ByRank(A), r)
  BY DEF Above, ByRank
<1>3. \A r \in A : Cardinality(Above(A, ByRank(A), r)) \in Nat
  BY <1>1, AboveIsFinite
<1>4. pruneAutoSummaries(R) = R \ {r \in A : Cardinality(Above(A, ByRank(A), r)) >= MaxAuto}
  BY <1>2 DEF pruneAutoSummaries
<1>5. {r \in A : Cardinality(Above(A, ByRank(A), r)) >= MaxAuto} = A \ First(A, ByRank(A), MaxAuto)
  BY <1>3, Bounds DEF First
<1>6. pruneAutoSummaries(R) = R \ (A \ First(A, ByRank(A), MaxAuto))
  BY <1>4, <1>5
<1>7. AutoSummaries(pruneAutoSummaries(R)) = First(A, ByRank(A), MaxAuto)
  BY <1>6 DEF AutoSummaries, First
<1> QED
  BY <1>1, <1>6, <1>7

-----------------------------------------------------------------------------
(* The inductive invariant.                                                  *)

\* Imports name no row to supersede, and what waits has not ended.
Queued ==
  \A w \in Writers : Waits(w) =>
    pend[w].out = "new" /\ (pend[w].q.imported => pend[w].target = NoId)
Main == TypeOK /\ scene \in Scenes /\ Sound(rows, nextId) /\ Queued

\* A save that waits, and what it would write.
LEMMA Asked ==
  ASSUME Main, NEW w \in Writers, Waits(w)
  PROVE  /\ pend[w].q \in Requests /\ pend[w].q \in RequestType
         /\ pend[w].now \in Times /\ pend[w].target \in Ids \cup {NoId}
         /\ Body(pend[w].q) \in Texts /\ Scrub[Body(pend[w].q)] = Body(pend[w].q)
         /\ PrintOf(pend[w].q) \in Prints /\ ScopeOf(pend[w].q) \in Scopes
<1>1. pend[w] \in Pending
  BY DEF Main, TypeOK
<1>2. pend[w].q \in Requests /\ pend[w].now \in Times /\ pend[w].target \in Ids \cup {NoId}
  BY <1>1 DEF Pending, Waits
<1>3. pend[w].q \in RequestType
  BY <1>2, Bounds
<1>4. Body(pend[w].q) \in Texts /\ Scrub[Body(pend[w].q)] = Body(pend[w].q)
  BY <1>3, Bounds DEF Body, RequestType
<1>5. <<pend[w].q.task, pend[w].q.kind, Body(pend[w].q)>> \in Tasks \X Kinds \X Texts
  BY <1>3, <1>4 DEF RequestType
<1>6. PrintOf(pend[w].q) \in Prints
  BY <1>5, StoreAssumption DEF PrintOf
<1>7. ScopeOf(pend[w].q) \in Scopes
  BY <1>3 DEF ScopeOf, RequestType, Scopes, defaultScope
<1> QED
  BY <1>2, <1>3, <1>4, <1>6, <1>7

LEMMA NewRowIsDated ==
  ASSUME Main, NEW w \in Writers, Waits(w), nextId <= scene.ids
  PROVE  LET r == NewRow(pend[w].q, pend[w].now)
         IN  r \in Rows /\ Dated(r) /\ r.id = nextId
<1> DEFINE q == pend[w].q  now == pend[w].now
<1>1. nextId \in Ids
  BY Bounds DEF Main, TypeOK, Ids
<1>2. resolveAuthoredAt(q.authored, now) \in Times /\ resolveAuthoredAt(q.authored, now) <= now
  <2>1. q.authored \in Nat /\ now \in Times
    BY Asked DEF RequestType
  <2> HIDE DEF q, now
  <2> QED
    BY <2>1, Bounds DEF resolveAuthoredAt, Times
<1>3. 0 \in Times
  BY Bounds DEF Times
<1>4. now \in Times /\ now <= now
  BY Asked, Bounds DEF Times
<1>5. NewRow(q, now) \in Rows
  <2>1. q.task \in Tasks /\ q.kind \in Kinds /\ q.origin \in Origins /\ q.tags \in TagLists
    BY Asked DEF RequestType
  <2> QED
    BY <1>1, <1>2, <1>3, <1>4, <2>1, Asked DEF NewRow, Rows
<1> QED
  BY <1>2, <1>4, <1>5 DEF NewRow, Dated

\* An insert leaves a sound table: no row holds its fingerprint, and retention
\* brings the auto summaries back within their budget.
LEMMA InsertedIsSound ==
  ASSUME Main, NEW w \in Writers, Waits(w), nextId <= scene.ids,
         Twins(pend[w].q) = {},
         NEW S \in SUBSET (rows \cup {NewRow(pend[w].q, pend[w].now)})
  PROVE  Sound(Retain(S, pend[w].q), nextId + 1)
<1> DEFINE q == pend[w].q  new == NewRow(q, pend[w].now)
<1>1. new \in Rows /\ Dated(new) /\ new.id = nextId /\ new.print = PrintOf(q)
      /\ new.kind = q.kind /\ new.origin = q.origin
  BY NewRowIsDated DEF NewRow
<1>2. \A r \in rows : r \in Rows /\ Dated(r) /\ r.id < nextId /\ r.id \in Int /\ r.print # new.print
  <2>1. \A r \in rows : r.print # PrintOf(q)
    BY DEF Twins
  <2>2. \A r \in rows : r \in Rows /\ Dated(r) /\ r.id < nextId
    BY DEF Main, Sound
  <2>3. \A r \in Rows : r.id \in Int
    BY DEF Rows, Ids
  <2> QED
    BY <1>1, <2>1, <2>2, <2>3
<1>3. nextId \in Nat
  BY DEF Main, TypeOK
<1>4. Distinct(rows)
  BY DEF Main, Sound
<1> HIDE DEF new
<1>5. \A r \in rows : r.id # new.id
  BY <1>1, <1>2, <1>3
<1>6. S \subseteq Rows /\ \A r \in S : Dated(r) /\ r.id < nextId + 1
  BY <1>1, <1>2, <1>3 DEF new
<1>7. Distinct(S)
  BY <1>2, <1>4, <1>5 DEF Distinct, new
<1> DEFINE K == Retain(S, q)
<1>8. K \subseteq S
  BY RetainOnlyDeletes
<1>9. K \subseteq Rows /\ Distinct(K) /\ \A r \in K : Dated(r) /\ r.id < nextId + 1
  BY <1>6, <1>7, <1>8 DEF Distinct
<1>10. Cardinality(AutoSummaries(K)) <= MaxAuto
  <2>1. CASE q.kind = Summary /\ q.origin = "auto"
    <3>1. K = pruneAutoSummaries(S)
      BY <2>1 DEF Retain
    <3> DEFINE A == AutoSummaries(S)
    <3>2. IsFiniteSet(A) /\ A \subseteq Rows /\ Distinct(A) /\ AutoSummaries(K) = First(A, ByRank(A), MaxAuto)
      BY <1>6, <1>7, <3>1, KeptAreFirst
    <3> HIDE DEF A
    <3> QED
      BY <3>2, FirstAtMost, RankOrders, Bounds
  <2>2. CASE ~(q.kind = Summary /\ q.origin = "auto")
    <3>1. AutoSummaries(K) \in SUBSET AutoSummaries(rows)
      BY <1>1, <1>8, <2>2 DEF AutoSummaries, new
    <3>2. IsFiniteSet(AutoSummaries(rows)) /\ Cardinality(AutoSummaries(rows)) \in Nat
          /\ Cardinality(AutoSummaries(rows)) <= MaxAuto
      BY SoundIsFinite DEF Main, Sound
    <3>3. Cardinality(AutoSummaries(K)) <= Cardinality(AutoSummaries(rows)) /\ Cardinality(AutoSummaries(K)) \in Nat
      BY <3>1, <3>2, FS_Subset, FS_CardinalityType
    <3> QED
      BY <3>2, <3>3, Bounds
  <2> QED
    BY <2>1, <2>2
<1> QED
  BY <1>9, <1>10 DEF Sound

\* No fingerprint of the others is that of a request, when the row it is matched
\* with holds it or nobody does.
LEMMA MatchIsAlone ==
  ASSUME Main, NEW w \in Writers, NEW r \in Matches(pend[w].q, pend[w].target)
  PROVE  r \in rows /\ \A s \in rows \ {r} : s.print # PrintOf(pend[w].q)
<1>1. r \in rows
  BY DEF Matches, Twins, NearPeers, Peers
<1>2. CASE Twins(pend[w].q) # {}
  <2>1. r.print = PrintOf(pend[w].q)
    BY <1>2 DEF Matches, Twins
  <2> QED
    BY <1>1, <2>1 DEF Main, Sound, Distinct
<1>3. CASE Twins(pend[w].q) = {}
  BY <1>1, <1>3 DEF Twins
<1> QED
  BY <1>2, <1>3

LEMMA CorrectedIsDated ==
  ASSUME Main, NEW w \in Writers, Waits(w), pend[w].q.force, NEW r \in rows, pend[w].now >= r.created
  PROVE  LET c == Corrected(r, pend[w].q, pend[w].now)
         IN  /\ c \in Rows /\ Dated(c) /\ c.print = PrintOf(pend[w].q)
             /\ c.id = r.id /\ c.kind = r.kind /\ c.task = r.task /\ c.origin = r.origin
             /\ c.scope = ScopeOf(pend[w].q) /\ c.text = Body(pend[w].q)
<1> DEFINE q == pend[w].q  now == pend[w].now
<1>1. r \in Rows /\ r.authored <= r.created
  BY DEF Main, Sound, Dated
<1>2. q.authored = 0
  BY Asked, StoreAssumption
<1>3. Corrected(r, q, now)
        = [r EXCEPT !.text = Body(q), !.tags = q.tags, !.print = PrintOf(q), !.updated = now,
                    !.scope = ScopeOf(q), !.authored = r.authored]
  BY <1>2 DEF Corrected
<1>4. Body(q) \in Texts /\ PrintOf(q) \in Prints /\ ScopeOf(q) \in Scopes /\ now \in Times /\ q.tags \in TagLists
  BY Asked DEF RequestType
<1> HIDE DEF q, now
<1> DEFINE c == [r EXCEPT !.text = Body(q), !.tags = q.tags, !.print = PrintOf(q), !.updated = now,
                    !.scope = ScopeOf(q), !.authored = r.authored]
<1>5. c \in Rows
  BY <1>1, <1>4 DEF Rows
<1>6. /\ c.print = PrintOf(q) /\ c.id = r.id /\ c.kind = r.kind /\ c.task = r.task /\ c.origin = r.origin
      /\ c.scope = ScopeOf(q) /\ c.text = Body(q)
      /\ c.authored = r.authored /\ c.created = r.created /\ c.updated = now
  BY <1>1 DEF Rows
<1>7. now >= r.created => Dated(c)
  BY <1>1, <1>4, <1>6 DEF Dated, Rows, Times
<1> HIDE DEF c
<1> QED
  BY <1>3, <1>5, <1>6, <1>7 DEF q, now, c

-----------------------------------------------------------------------------
(* What each action does.                                                    *)

\* The parts of Main a step that only ends or queues a save disturbs.
LEMMA QueueKeepsMain ==
  ASSUME Main, NEW w \in Writers, Request(w) \/ ImportLine(w), scene' = scene
  PROVE  Main'
<1>1. /\ rows' = rows /\ clock' = clock /\ nextId' = nextId /\ baseline' = baseline
      /\ \E q \in scene.requests, target \in {NoId} \cup {r.id : r \in rows} :
           Queue(w, q, target) /\ (q.imported => target = NoId)
  BY DEF Request, ImportLine
<1>2. PICK q \in scene.requests, target \in {NoId} \cup {r.id : r \in rows} :
        Queue(w, q, target) /\ (q.imported => target = NoId)
  BY <1>1
<1>3. q \in Requests /\ target \in Ids \cup {NoId} /\ clock \in Times
  <2>1. q \in Requests
    BY Bounds DEF Main
  <2>2. \A r \in rows : r.id \in Ids
    BY DEF Main, Sound, Rows
  <2> QED
    BY <2>1, <2>2 DEF Main, TypeOK
<1> DEFINE p == [q |-> q, now |-> clock, target |-> target, out |-> "new"]
<1>4. pend' = [pend EXCEPT ![w] = p]
  BY <1>2 DEF Queue
<1>5. p \in Pending /\ p.q = q /\ p.target = target /\ p.out = "new"
  BY <1>3 DEF Pending, Outcomes
<1> HIDE DEF p
<1>6. pend' \in [Writers -> Pending]
  BY <1>4, <1>5 DEF Main, TypeOK
<1>7. Queued'
  BY <1>2, <1>4, <1>5 DEF Main, TypeOK, Queued, Waits
<1> QED
  BY <1>1, <1>6, <1>7 DEF Main, TypeOK

LEMMA EndKeepsPend ==
  ASSUME Main, NEW w \in Writers, NEW out \in Outcomes, End(w, out)
  PROVE  pend' \in [Writers -> Pending] /\ Queued'
         /\ pend'[w].out = out /\ \A v \in Writers \ {w} : pend'[v] = pend[v]
<1>1. Ended(out) \in Pending /\ Ended(out).q = NoRequest /\ Ended(out).out = out
  BY Bounds DEF Ended, Pending, Times
<1>2. pend' = [pend EXCEPT ![w] = Ended(out)]
  BY DEF End
<1>3. pend \in [Writers -> Pending]
  BY DEF Main, TypeOK
<1>4. pend' \in [Writers -> Pending] /\ pend'[w] = Ended(out) /\ \A v \in Writers \ {w} : pend'[v] = pend[v]
  BY <1>1, <1>2, <1>3
<1>5. Queued'
  BY <1>1, <1>4 DEF Main, Queued, Waits
<1> QED
  BY <1>1, <1>4, <1>5

\* What a step of one save writes.
ForcedBy(w, r) ==
  /\ r \in rows /\ pend[w].q.force /\ ~pend[w].q.dry /\ pend[w].now >= r.created
  /\ \A s \in rows \ {r} : s.print # PrintOf(pend[w].q)
  /\ rows' = (rows \ {r}) \cup {Corrected(r, pend[w].q, pend[w].now)}
InsertedBy(w) ==
  LET q == pend[w].q IN
  /\ nextId <= scene.ids /\ Twins(q) = {} /\ (NearPeers(q, pend[w].target) = {} \/ MayMiss(q, pend[w].target))
  /\ rows' = Retain((rows \cup {NewRow(q, pend[w].now)}) \ Superseded(rows \cup {NewRow(q, pend[w].now)}, q, pend[w].target), q)
  /\ nextId' = nextId + 1
SavedBy(w) ==
  /\ Waits(w) /\ clock' = clock /\ baseline' = baseline
  /\ \/ rows' = rows /\ nextId' = nextId /\ \E out \in Outcomes : End(w, out)
     \/ nextId' = nextId /\ End(w, "updated") /\ \E r \in rows : ForcedBy(w, r)
     \/ End(w, "saved") /\ InsertedBy(w)

LEMMA SavesAreSo ==
  ASSUME Main, NEW w \in Writers, GiveUp(w) \/ Skip(w) \/ ForceUpdate(w) \/ Insert(w)
  PROVE  SavedBy(w)
<1>1. CASE GiveUp(w) \/ Skip(w)
  BY <1>1 DEF GiveUp, Skip, SavedBy, Outcomes
<1>2. CASE ForceUpdate(w)
  <2>1. PICK r \in Matches(pend[w].q, pend[w].target) :
          IF pend[w].now >= r.created
          THEN Write(pend[w].q, (rows \ {r}) \cup {Corrected(r, pend[w].q, pend[w].now)}) /\ End(w, "updated")
          ELSE UNCHANGED rows /\ End(w, "rejected")
    BY <1>2 DEF ForceUpdate
  <2>2. Waits(w) /\ clock' = clock /\ baseline' = baseline /\ nextId' = nextId /\ pend[w].q.force
    BY <1>2 DEF ForceUpdate
  <2>3. r \in rows /\ \A s \in rows \ {r} : s.print # PrintOf(pend[w].q)
    BY MatchIsAlone
  <2>4. CASE ~(pend[w].now >= r.created) \/ pend[w].q.dry
    BY <2>1, <2>2, <2>4 DEF SavedBy, Write, Outcomes
  <2>5. CASE pend[w].now >= r.created /\ ~pend[w].q.dry
    BY <2>1, <2>2, <2>3, <2>5 DEF SavedBy, Write, ForcedBy
  <2> QED
    BY <2>4, <2>5
<1>3. CASE Insert(w)
  <2>1. CASE pend[w].q.dry
    BY <1>3, <2>1 DEF Insert, SavedBy, Write, Outcomes
  <2>2. CASE ~pend[w].q.dry
    BY <1>3, <2>2 DEF Insert, SavedBy, InsertedBy, Write
  <2> QED
    BY <2>1, <2>2
<1> QED
  BY <1>1, <1>2, <1>3

LEMMA SaveKeepsMain ==
  ASSUME Main, NEW w \in Writers, SavedBy(w), scene' = scene
  PROVE  Main'
<1>1. clock' \in Times /\ baseline' \in {"none", "skipped", "done"} /\ scene' \in Scenes
  BY DEF Main, TypeOK, SavedBy
<1>2. pend' \in [Writers -> Pending] /\ Queued'
  BY EndKeepsPend DEF SavedBy, Outcomes
<1>3. nextId' \in 1..(MaxIds + 1) /\ Sound(rows', nextId')
  <2>1. CASE rows' = rows /\ nextId' = nextId
    BY <2>1 DEF Main, TypeOK
  <2>2. ASSUME NEW r \in rows, nextId' = nextId, ForcedBy(w, r)
        PROVE  nextId' \in 1..(MaxIds + 1) /\ Sound(rows', nextId')
    <3> DEFINE c == Corrected(r, pend[w].q, pend[w].now)
    <3>1. Waits(w) /\ pend[w].q.force /\ pend[w].now >= r.created
      BY <2>2 DEF SavedBy, ForcedBy
    <3>2. c \in Rows /\ Dated(c) /\ c.print = PrintOf(pend[w].q) /\ c.id = r.id
          /\ c.kind = r.kind /\ c.origin = r.origin
      BY <3>1, CorrectedIsDated
    <3>3. rows' = (rows \ {r}) \cup {c} /\ \A s \in rows \ {r} : s.print # c.print
      BY <2>2, <3>2 DEF ForcedBy
    <3>4. Sound(rows, nextId)
      BY DEF Main
    <3> HIDE DEF c
    <3>5. Sound((rows \ {r}) \cup {c}, nextId)
      BY <3>2, <3>3, <3>4, ChangedIsSound
    <3> QED
      BY <2>2, <3>3, <3>5 DEF Main, TypeOK
  <2>3. CASE InsertedBy(w)
    <3> DEFINE S == (rows \cup {NewRow(pend[w].q, pend[w].now)})
                      \ Superseded(rows \cup {NewRow(pend[w].q, pend[w].now)}, pend[w].q, pend[w].target)
    <3>1. rows' = Retain(S, pend[w].q) /\ nextId' = nextId + 1 /\ nextId <= scene.ids /\ Twins(pend[w].q) = {}
      BY <2>3 DEF InsertedBy
    <3>2. Waits(w) /\ S \in SUBSET (rows \cup {NewRow(pend[w].q, pend[w].now)})
      BY DEF SavedBy
    <3> HIDE DEF S
    <3>3. Sound(Retain(S, pend[w].q), nextId + 1)
      BY <3>1, <3>2, InsertedIsSound
    <3>4. nextId + 1 \in 1..(MaxIds + 1)
      BY <3>1, Bounds DEF Main, TypeOK
    <3> QED
      BY <3>1, <3>3, <3>4
  <2> QED
    BY <2>1, <2>2, <2>3 DEF SavedBy
<1> QED
  BY <1>1, <1>2, <1>3 DEF Main, TypeOK, Sound

\* A flipped or expanded row is the row, but for its scope and its signal.
Touched(r, c) ==
  /\ c \in Rows /\ Dated(c) /\ c.id = r.id /\ c.task = r.task /\ c.kind = r.kind /\ c.origin = r.origin
  /\ c.print = r.print /\ c.text = r.text

LEMMA FlipsTouch ==
  ASSUME Main, SetScope
  PROVE  /\ nextId' = nextId /\ pend' = pend /\ clock' = clock /\ baseline' = baseline
         /\ \E r \in rows, c \in Rows : Touched(r, c) /\ rows' = (rows \ {r}) \cup {c}
<1>1. PICK r \in rows, sc \in Scopes : rows' = (rows \ {r}) \cup {[r EXCEPT !.scope = sc]}
  BY DEF SetScope
<1>2. r \in Rows /\ Dated(r)
  BY DEF Main, Sound
<1> DEFINE c == [r EXCEPT !.scope = sc]
<1>3. c \in Rows
  BY <1>2 DEF Rows
<1>4. Touched(r, c)
  BY <1>2, <1>3 DEF Touched, Rows, Dated
<1> QED
  BY <1>1, <1>3, <1>4 DEF SetScope

LEMMA ExpandsTouch ==
  ASSUME Main, recordExpansion
  PROVE  /\ nextId' = nextId /\ pend' = pend /\ clock' = clock /\ baseline' = baseline
         /\ \E r \in rows, c \in Rows : Touched(r, c) /\ c.scope = r.scope /\ rows' = (rows \ {r}) \cup {c}
<1>1. PICK r \in rows : rows' = (rows \ {r}) \cup {[r EXCEPT !.expanded = clock]}
  BY DEF recordExpansion
<1>2. r \in Rows /\ Dated(r) /\ clock \in Times
  BY DEF Main, Sound, TypeOK
<1> DEFINE c == [r EXCEPT !.expanded = clock]
<1>3. c \in Rows
  BY <1>2 DEF Rows
<1>4. Touched(r, c) /\ c.scope = r.scope
  BY <1>2, <1>3 DEF Touched, Rows, Dated
<1> QED
  BY <1>1, <1>3, <1>4 DEF recordExpansion

LEMMA TouchKeepsSound ==
  ASSUME Main, NEW r \in rows, NEW c \in Rows, Touched(r, c)
  PROVE  Sound((rows \ {r}) \cup {c}, nextId)
<1>1. \A s \in rows \ {r} : s.print # c.print
  BY DEF Touched, Main, Sound, Distinct
<1> QED
  BY <1>1, ChangedIsSound DEF Touched, Main

LEMMA PruneDeletes ==
  ASSUME Prune
  PROVE  /\ rows' \in SUBSET rows /\ "prune" \in scene.commands
         /\ nextId' = nextId /\ pend' = pend /\ clock' = clock /\ baseline' = baseline
BY DEF Prune

\* A rescrub that runs through rewrites every row under its id.
LEMMA RewrittenRows ==
  ASSUME Main, NEW r \in rows
  PROVE  /\ Rewritten(r) \in Rows /\ Rewritten(r).id = r.id /\ Rewritten(r).kind = r.kind
         /\ Rewritten(r).task = r.task /\ Rewritten(r).scope = r.scope /\ Rewritten(r).origin = r.origin
         /\ (Dated(r) => Dated(Rewritten(r))) /\ Rewritten(r).text = Scrub[r.text]
         /\ Scrub[Rewritten(r).text] = Rewritten(r).text
<1>1. r \in Rows
  BY DEF Main, Sound
<1>2. Scrub[r.text] \in Texts /\ Scrub[Scrub[r.text]] = Scrub[r.text]
  BY <1>1, Bounds DEF Rows
<1>3. <<r.task, r.kind, Scrub[r.text]>> \in Tasks \X Kinds \X Texts
  BY <1>1, <1>2 DEF Rows
<1>4. Fingerprint[<<r.task, r.kind, Scrub[r.text]>>] \in Prints
  BY <1>3, StoreAssumption
<1>5. Rewritten(r) \in Rows
  BY <1>1, <1>2, <1>4 DEF Rewritten, Rows
<1> QED
  BY <1>1, <1>2, <1>5 DEF Rewritten, Rows, Dated

LEMMA RescrubKeepsSound ==
  ASSUME Main, Rescrub
  PROVE  Sound(rows', nextId)
<1>1. rows' = {Rewritten(r) : r \in rows} /\ ~Collides
  BY DEF Rescrub
<1>2. rows' \subseteq Rows
  BY <1>1, RewrittenRows
<1>3. Distinct(rows')
  <2>1. ASSUME NEW r \in rows, NEW s \in rows,
               Rewritten(r).print = Rewritten(s).print \/ Rewritten(r).id = Rewritten(s).id
        PROVE  r = s
    <3>1. CASE Rewritten(r).print = Rewritten(s).print
      BY <1>1, <3>1 DEF Collides
    <3>2. CASE Rewritten(r).id = Rewritten(s).id
      BY <3>2, RewrittenRows DEF Main, Sound, Distinct
    <3> QED
      BY <2>1, <3>1, <3>2
  <2> QED
    BY <1>1, <2>1 DEF Distinct
<1>4. \A r \in rows' : Dated(r) /\ r.id < nextId
  BY <1>1, RewrittenRows DEF Main, Sound
<1>5. Cardinality(AutoSummaries(rows')) <= MaxAuto
  <2> DEFINE A == AutoSummaries(rows)  B == AutoSummaries(rows')
             f == [r \in A |-> Rewritten(r)]
  <2>1. A \subseteq rows /\ IsFiniteSet(A) /\ Cardinality(A) \in Nat /\ Cardinality(A) <= MaxAuto
    BY SoundIsFinite DEF Main, Sound
  <2>2. B = {Rewritten(r) : r \in A}
    BY <1>1, RewrittenRows DEF AutoSummaries
  <2> HIDE DEF A, B
  <2>3. f \in [A -> B] /\ \A b \in B : \E a \in A : f[a] = b
    BY <2>2
  <2>4. f \in Surjection(A, B)
    BY <2>3 DEF Surjection
  <2> HIDE DEF f
  <2>5. IsFiniteSet(B) /\ Cardinality(B) <= Cardinality(A)
    BY <2>1, <2>4, FS_Surjection
  <2>6. Cardinality(B) \in Nat
    BY <2>5, FS_CardinalityType
  <2>7. Cardinality(B) <= MaxAuto
    BY <2>1, <2>5, <2>6, Bounds
  <2> QED
    BY <2>7 DEF B
<1> QED
  BY <1>2, <1>3, <1>4, <1>5 DEF Sound

LEMMA OthersKeepMain ==
  ASSUME Main, scene' = scene, SetScope \/ recordExpansion \/ Prune \/ Rescrub \/ NoRescrub \/ Tick
  PROVE  Main'
<1>1. pend' = pend /\ nextId' = nextId /\ baseline' \in {"none", "skipped", "done"}
  BY FlipsTouch, ExpandsTouch, PruneDeletes DEF Rescrub, NoRescrub, Tick, Main, TypeOK
<1>2. clock' \in Times
  BY FlipsTouch, ExpandsTouch, PruneDeletes, Bounds DEF Rescrub, NoRescrub, Tick, Main, TypeOK, Times
<1>3. Sound(rows', nextId)
  <2>1. CASE SetScope \/ recordExpansion
    BY <2>1, FlipsTouch, ExpandsTouch, TouchKeepsSound
  <2>2. CASE Prune
    BY <2>2, PruneDeletes, FewerAreSound DEF Main
  <2>3. CASE Rescrub
    BY <2>3, RescrubKeepsSound
  <2>4. CASE NoRescrub \/ Tick
    BY <2>4 DEF NoRescrub, Tick, Main
  <2> QED
    BY <2>1, <2>2, <2>3, <2>4
<1>4. Queued'
  BY <1>1 DEF Main, Queued, Waits
<1> QED
  BY <1>1, <1>2, <1>3, <1>4 DEF Main, TypeOK, Sound

LEMMA MainInit ==
  ASSUME Init
  PROVE  Main
<1>1. scene \in Scenes /\ rows \in {{}} \cup scene.corpora
  BY DEF Init
<1>2. Sound(rows, nextId) /\ nextId \in 1..(MaxIds + 1)
  <2>1. CASE rows = {}
    <3>1. AutoSummaries(rows) = {} /\ Cardinality({}) = 0 /\ nextId = 1
      BY <2>1, FS_EmptySet DEF Init, AutoSummaries
    <3>2. Cardinality(AutoSummaries(rows)) <= MaxAuto /\ 1 \in 1..(MaxIds + 1)
      BY <3>1, Bounds
    <3> QED
      BY <2>1, <3>1, <3>2 DEF Sound, Distinct
  <2>2. CASE rows \in scene.corpora
    <3>1. /\ IsFiniteSet(rows) /\ {r.id : r \in rows} = 1..Cardinality(rows)
          /\ Distinct(rows) /\ (\A r \in rows : Dated(r)) /\ Cardinality(AutoSummaries(rows)) <= MaxAuto
      BY <1>1, <2>2, CorporaAssumption
    <3>2. rows \subseteq Rows
      BY <1>1, <2>2, StoreAssumption
    <3>3. Cardinality(rows) \in Nat /\ nextId = Cardinality(rows) + 1
      BY <3>1, FS_CardinalityType DEF Init
    <3>4. Cardinality(rows) <= MaxIds
      <4>1. \A n \in 1..Cardinality(rows) : n \in Ids
        BY <3>1, <3>2 DEF Rows
      <4> DEFINE k == Cardinality(rows)
      <4>2. k \in 1..k \/ k = 0
        BY <3>3
      <4> HIDE DEF k
      <4>3. k \in Ids \/ k = 0
        BY <4>1, <4>2 DEF k
      <4>4. k <= MaxIds
        BY <4>3, Bounds DEF Ids
      <4> QED
        BY <4>4 DEF k
    <3>5. \A r \in rows : r.id < nextId
      <4>1. \A r \in rows : r.id \in 1..Cardinality(rows)
        BY <3>1
      <4> QED
        BY <3>3, <4>1
    <3> QED
      BY <3>1, <3>2, <3>3, <3>4, <3>5, Bounds DEF Sound
  <2> QED
    BY <1>1, <2>1, <2>2
<1>3. clock \in Times /\ baseline \in {"none", "skipped", "done"}
  BY Bounds DEF Init, Times
<1>4. Ended("new") \in Pending /\ Ended("new").q = NoRequest
  BY Bounds DEF Ended, Pending, Times, Outcomes
<1>5. pend \in [Writers -> Pending] /\ Queued
  BY <1>4 DEF Init, Queued, Waits
<1> QED
  BY <1>1, <1>2, <1>3, <1>5 DEF Main, TypeOK, Sound

LEMMA MainStep ==
  ASSUME Main, [Next /\ UNCHANGED scene]_vars
  PROVE  Main'
<1>1. CASE Next /\ UNCHANGED scene
  <2>1. CASE \E w \in Writers : Request(w) \/ ImportLine(w)
    BY <1>1, <2>1, QueueKeepsMain
  <2>2. CASE \E w \in Writers : GiveUp(w) \/ Skip(w) \/ ForceUpdate(w) \/ Insert(w)
    BY <1>1, <2>2, SavesAreSo, SaveKeepsMain
  <2>3. CASE SetScope \/ recordExpansion \/ Prune \/ Rescrub \/ NoRescrub \/ Tick
    BY <1>1, <2>3, OthersKeepMain
  <2> QED
    BY <1>1, <2>1, <2>2, <2>3 DEF Next
<1>2. CASE UNCHANGED vars
  BY <1>2 DEF vars, rest, Main, TypeOK, Sound, Queued, Waits
<1> QED
  BY <1>1, <1>2

\* However saves, corrections, imports, flips, prunes and rescrubs interleave, no
\* two rows share a fingerprint or an id and no row is dated after it entered.
\* (save.go:270-275, schema.go:46)
THEOREM RowsStayDistinct == Spec => []UniquePrints
<1>1. Main => UniquePrints
  BY DEF Main, Sound, UniquePrints
<1> QED
  BY <1>1, MainInit, MainStep, PTL DEF Spec

\* The auto budget holds at every moment, not only after a save enforced it.
\* (save.go:509-520)
THEOREM BudgetHolds == Spec => []WithinBudget
<1>1. Main => WithinBudget
  BY DEF Main, Sound, WithinBudget
<1> QED
  BY <1>1, MainInit, MainStep, PTL DEF Spec

-----------------------------------------------------------------------------
(* The baseline.                                                             *)

LEMMA ScrubbedStep ==
  ASSUME Main, BaselineMeansScrubbed, [Next /\ UNCHANGED scene]_vars
  PROVE  BaselineMeansScrubbed'
<1>1. CASE rows' \subseteq rows /\ baseline' \in {baseline, "skipped"}
  BY <1>1 DEF BaselineMeansScrubbed
<1>2. ASSUME NEW r \in rows, NEW c, rows' = (rows \ {r}) \cup {c}, baseline' = baseline,
             c.text = r.text \/ Scrub[c.text] = c.text
      PROVE  BaselineMeansScrubbed'
  BY <1>2 DEF BaselineMeansScrubbed
<1>3. CASE \E w \in Writers : Request(w) \/ ImportLine(w)
  BY <1>1, <1>3 DEF Request, ImportLine
<1>4. ASSUME NEW w \in Writers, GiveUp(w) \/ Skip(w) \/ ForceUpdate(w) \/ Insert(w)
      PROVE  BaselineMeansScrubbed'
  <2>1. SavedBy(w) /\ Waits(w) /\ baseline' = baseline
    BY <1>4, SavesAreSo DEF SavedBy
  <2>2. CASE rows' = rows
    BY <1>1, <2>1, <2>2
  <2>3. ASSUME NEW r \in rows, ForcedBy(w, r)
        PROVE  BaselineMeansScrubbed'
    <3> DEFINE c == Corrected(r, pend[w].q, pend[w].now)
    <3>1. rows' = (rows \ {r}) \cup {c} /\ pend[w].q.force /\ pend[w].now >= r.created
      BY <2>3 DEF ForcedBy
    <3>2. c.text = Body(pend[w].q)
      BY <2>1, <3>1, CorrectedIsDated
    <3>3. Scrub[c.text] = c.text
      BY <2>1, <3>2, Asked
    <3> HIDE DEF c
    <3> QED
      BY <1>2, <2>1, <3>1, <3>3
  <2>4. CASE InsertedBy(w)
    <3> DEFINE new == NewRow(pend[w].q, pend[w].now)
    <3>1. rows' \subseteq rows \cup {new}
      BY <2>4, RetainOnlyDeletes DEF InsertedBy
    <3>2. new.text = Body(pend[w].q)
      BY DEF NewRow
    <3>3. Scrub[new.text] = new.text
      BY <2>1, <3>2, Asked
    <3> HIDE DEF new
    <3> QED
      BY <2>1, <3>1, <3>3 DEF BaselineMeansScrubbed
  <2> QED
    BY <2>1, <2>2, <2>3, <2>4 DEF SavedBy
<1>5. CASE SetScope \/ recordExpansion
  BY <1>2, <1>5, FlipsTouch, ExpandsTouch DEF Touched
<1>6. CASE Prune
  BY <1>1, <1>6, PruneDeletes
<1>7. CASE Rescrub
  <2>1. \A r \in rows' : Scrub[r.text] = r.text
    BY <1>7, RewrittenRows DEF Rescrub
  <2> QED
    BY <2>1 DEF BaselineMeansScrubbed
<1>8. CASE NoRescrub \/ Tick
  BY <1>1, <1>8 DEF NoRescrub, Tick
<1>9. CASE UNCHANGED vars
  BY <1>1, <1>9 DEF vars, rest
<1> QED
  BY <1>3, <1>4, <1>5, <1>6, <1>7, <1>8, <1>9 DEF Next

\* Once a rescrub has established the baseline, no save, correction or import puts
\* an unredacted title, what or learned back, for any idempotent redaction; tags are
\* not spoken of. (migrate.go:90-134, save.go:766-773)
THEOREM BaselineHolds == Spec => []BaselineMeansScrubbed
<1>1. Init => BaselineMeansScrubbed
  BY DEF Init, BaselineMeansScrubbed
<1> QED
  BY <1>1, MainInit, MainStep, ScrubbedStep, PTL DEF Spec

-----------------------------------------------------------------------------
(* What a step may do.                                                       *)

\* Only an insert mints an id, and only the one it is the insert of.
LEMMA WhoInserts ==
  ASSUME Main, [Next /\ UNCHANGED scene]_vars, NEW w \in Writers, Inserts(w)
  PROVE  Waits(w) /\ InsertedBy(w) /\ pend'[w].out = "saved"
<1>1. nextId' # nextId /\ Waits(w) /\ pend'[w].out \in {"saved", "updated"}
  BY DEF Inserts, Commits
<1>2. PICK v \in Writers : SavedBy(v)
  <2>1. ~UNCHANGED vars
    BY <1>1 DEF vars, rest
  <2>2. ~(SetScope \/ recordExpansion \/ Prune \/ Rescrub \/ NoRescrub \/ Tick)
    BY <1>1, FlipsTouch, ExpandsTouch, PruneDeletes DEF Rescrub, NoRescrub, Tick
  <2>3. \A v \in Writers : ~(Request(v) \/ ImportLine(v))
    BY <1>1 DEF Request, ImportLine
  <2> QED
    BY <2>1, <2>2, <2>3, SavesAreSo DEF Next
<1>3. InsertedBy(v) /\ End(v, "saved")
  BY <1>1, <1>2 DEF SavedBy
<1>4. v = w
  <2>1. v # w => pend'[w] = pend[w]
    BY <1>3 DEF End, Main, TypeOK
  <2>2. pend[w].out = "new"
    BY <1>1 DEF Main, Queued
  <2> QED
    BY <1>1, <2>1, <2>2
<1>5. pend'[v].out = "saved"
  BY <1>3, EndKeepsPend DEF Outcomes
<1> QED
  BY <1>1, <1>3, <1>4, <1>5

\* Only the save that waited commits, by a correction or an insert.
LEMMA WhoCommits ==
  ASSUME Main, [Next /\ UNCHANGED scene]_vars, NEW w \in Writers, Commits(w)
  PROVE  Waits(w) /\ SavedBy(w)
<1>1. Waits(w) /\ pend'[w].out \in {"saved", "updated"} /\ pend[w].out = "new"
  BY DEF Commits, Main, Queued
<1>2. pend' # pend
  BY <1>1
<1>3. PICK v \in Writers : Request(v) \/ ImportLine(v) \/ SavedBy(v)
  <2>1. ~UNCHANGED vars
    BY <1>2 DEF vars, rest
  <2>2. ~(SetScope \/ recordExpansion \/ Prune \/ Rescrub \/ NoRescrub \/ Tick)
    BY <1>2, FlipsTouch, ExpandsTouch, PruneDeletes DEF Rescrub, NoRescrub, Tick
  <2> QED
    BY <2>1, <2>2, SavesAreSo DEF Next
<1>4. v = w
  <2>1. ASSUME v # w
        PROVE  pend'[w] = pend[w]
    <3>1. CASE Request(v) \/ ImportLine(v)
      BY <2>1, <3>1 DEF Request, ImportLine, Queue, Main, TypeOK
    <3>2. CASE SavedBy(v)
      BY <2>1, <3>2 DEF SavedBy, End, Main, TypeOK
    <3> QED
      BY <1>3, <3>1, <3>2
  <2> QED
    BY <1>1, <2>1
<1>5. ~Request(w) /\ ~ImportLine(w)
  BY <1>1 DEF Request, ImportLine
<1> QED
  BY <1>1, <1>3, <1>4, <1>5

\* The row an insert adds has an id of its own; the others were there.
LEMMA InsertAddsOne ==
  ASSUME Main, NEW w \in Writers, Waits(w), InsertedBy(w)
  PROVE  LET new == NewRow(pend[w].q, pend[w].now)
         IN  /\ new.id = nextId /\ rows' \subseteq rows \cup {new}
             /\ \A r \in rows : r.id # nextId
             /\ \A r \in rows' : r.id = nextId => r = new
<1> DEFINE new == NewRow(pend[w].q, pend[w].now)
<1>1. new.id = nextId
  BY DEF NewRow
<1>2. rows' \subseteq rows \cup {new}
  BY RetainOnlyDeletes DEF InsertedBy
<1>3. \A r \in rows : r.id # nextId
  BY DEF Main, TypeOK, Sound, Rows, Ids
<1> HIDE DEF new
<1> QED
  BY <1>1, <1>2, <1>3 DEF new

\* Nobody is lost when one row changes under its id, or all do.
LEMMA ChangesLoseNobody ==
  ASSUME NEW x \in rows, NEW c, c.id = x.id, rows' = (rows \ {x}) \cup {c}, NEW r \in rows
  PROVE  ~Lost(r)
BY DEF Lost

LEMMA RescrubLosesNobody ==
  ASSUME Main, Rescrub, NEW r \in rows
  PROVE  ~Lost(r)
<1>1. Rewritten(r) \in rows' /\ Rewritten(r).id = r.id
  BY RewrittenRows DEF Rescrub
<1> QED
  BY <1>1 DEF Lost

\* Who loses a row: somebody prunes, or a save inserts.
LEMMA WhoLoses ==
  ASSUME Main, [Next /\ UNCHANGED scene]_vars, NEW r \in rows, Lost(r), "prune" \notin scene.commands
  PROVE  \E w \in Writers : Inserts(w) /\ InsertedBy(w)
<1>1. ~UNCHANGED rows
  BY DEF Lost
<1>2. ~UNCHANGED vars /\ ~NoRescrub /\ ~Tick /\ \A v \in Writers : ~Request(v) /\ ~ImportLine(v)
  BY <1>1 DEF vars, rest, NoRescrub, Tick, Request, ImportLine
<1>3. ~SetScope /\ ~recordExpansion
  BY FlipsTouch, ExpandsTouch, ChangesLoseNobody DEF Touched
<1>4. ~Prune /\ ~Rescrub
  BY PruneDeletes, RescrubLosesNobody
<1>5. PICK w \in Writers : SavedBy(w)
  BY <1>2, <1>3, <1>4, SavesAreSo DEF Next
<1>6. ASSUME NEW x \in rows, ForcedBy(w, x)
      PROVE  FALSE
  <2> DEFINE c == Corrected(x, pend[w].q, pend[w].now)
  <2>1. rows' = (rows \ {x}) \cup {c} /\ Waits(w) /\ pend[w].q.force /\ pend[w].now >= x.created
    BY <1>5, <1>6 DEF ForcedBy, SavedBy
  <2>2. c.id = x.id
    BY <2>1, CorrectedIsDated
  <2> HIDE DEF c
  <2> QED
    BY <2>1, <2>2, ChangesLoseNobody
<1>7. InsertedBy(w) /\ End(w, "saved") /\ Waits(w)
  BY <1>1, <1>5, <1>6 DEF SavedBy
<1>8. nextId' = nextId + 1 /\ nextId \in Nat
  BY <1>7 DEF InsertedBy, Main, TypeOK
<1>9. pend'[w].out = "saved"
  BY <1>7, EndKeepsPend DEF Outcomes
<1> QED
  BY <1>7, <1>8, <1>9 DEF Inserts, Commits

\* What an insert deletes: the row it supersedes, or a summary beyond its cap.
LEMMA WhatAnInsertDeletes ==
  ASSUME Main, NEW w \in Writers, Waits(w), InsertedBy(w),
         NEW r \in rows \cup {NewRow(pend[w].q, pend[w].now)}, r \notin rows'
  PROVE  LET q == pend[w].q  R == rows \cup {NewRow(q, pend[w].now)}
             S == R \ Superseded(R, q, pend[w].target)
         IN  \/ r.id = pend[w].target /\ r.kind = q.kind /\ r.task = q.task /\ r.scope = ScopeOf(q)
             \/ r \in S /\ q.kind = Summary /\ r.kind = Summary /\ r.origin = q.origin
                /\ rows' = IF q.origin = "auto" THEN pruneAutoSummaries(S) ELSE pruneSessionSummaries(S, q.task)
<1> DEFINE q == pend[w].q  R == rows \cup {NewRow(q, pend[w].now)}
           S == R \ Superseded(R, q, pend[w].target)
<1>1. rows' = Retain(S, q)
  BY DEF InsertedBy
<1>2. CASE r \in Superseded(R, q, pend[w].target)
  BY <1>2 DEF Superseded
<1>3. CASE r \in S
  <2> HIDE DEF S
  <2>1. q.kind = Summary
    BY <1>1, <1>3 DEF Retain
  <2>2. rows' = IF q.origin = "auto" THEN pruneAutoSummaries(S) ELSE pruneSessionSummaries(S, q.task)
    BY <1>1, <2>1 DEF Retain
  <2>3. r.kind = Summary /\ r.origin = IF q.origin = "auto" THEN "auto" ELSE "manual"
    BY <1>3, <2>2 DEF pruneAutoSummaries, pruneSessionSummaries, AutoSummaries, ManualSummaries
  <2>4. q.origin \in Origins
    BY Asked DEF RequestType
  <2> QED
    BY <1>3, <2>1, <2>2, <2>3, <2>4 DEF Origins, S
<1> QED
  BY <1>2, <1>3

LEMMA KnowledgeStep ==
  ASSUME Main, [Next /\ UNCHANGED scene]_vars
  PROVE  KnowledgeKept
<1> SUFFICES ASSUME NEW r \in rows, r.kind # Summary, Lost(r), "prune" \notin scene.commands
             PROVE  \E w \in Writers : /\ Inserts(w) /\ pend[w].target = r.id
                                       /\ ScopeOf(pend[w].q) = r.scope
                                       /\ pend[w].q.task = r.task /\ pend[w].q.kind = r.kind
  BY DEF KnowledgeKept
<1>1. PICK w \in Writers : Inserts(w) /\ InsertedBy(w)
  BY WhoLoses
<1>2. Waits(w) /\ r \notin rows' /\ r \in rows \cup {NewRow(pend[w].q, pend[w].now)}
  BY <1>1 DEF Inserts, Commits, Lost
<1>3. r.id = pend[w].target /\ r.kind = pend[w].q.kind /\ r.task = pend[w].q.task /\ r.scope = ScopeOf(pend[w].q)
  BY <1>1, <1>2, WhatAnInsertDeletes
<1> QED
  BY <1>1, <1>3

\* Where nobody prunes, a lesson leaves the store only for a save that names it,
\* of its own task, kind and scope. (prune.go:11-13, save.go:309-326)
THEOREM KnowledgeStays == Spec => KnowledgeOnlyLeavesOnRequest
BY KnowledgeStep, MainInit, MainStep, PTL DEF Spec, KnowledgeOnlyLeavesOnRequest

-----------------------------------------------------------------------------
(* The pool.                                                                 *)

LEMMA SharedStep ==
  ASSUME Main, [Next /\ UNCHANGED scene]_vars
  PROVE  SharedOnRequest
<1> SUFFICES ASSUME NEW r \in rows, NEW s \in rows', r.id = s.id, r.scope = "personal", s.scope = "shared",
                    ~SetScope
             PROVE  \E w \in Writers : Commits(w) /\ pend[w].q.force /\ pend[w].q.scope = "shared"
  BY DEF SharedOnRequest
<1>1. s \notin rows
  BY DEF Main, Sound, Distinct
<1>2. ~UNCHANGED vars /\ ~NoRescrub /\ ~Tick /\ ~Prune /\ \A v \in Writers : ~Request(v) /\ ~ImportLine(v)
  BY <1>1, PruneDeletes DEF vars, rest, NoRescrub, Tick, Request, ImportLine
<1>3. ASSUME NEW x \in rows, NEW c, c.id = x.id, rows' = (rows \ {x}) \cup {c}
      PROVE  x = r /\ c = s
  BY <1>1, <1>3 DEF Main, Sound, Distinct
<1>4. ~recordExpansion
  BY <1>3, ExpandsTouch DEF Touched
<1>5. ~Rescrub
  <2>1. ASSUME Rescrub
        PROVE  FALSE
    <3>1. PICK x \in rows : s = Rewritten(x)
      BY <2>1 DEF Rescrub
    <3>2. s.id = x.id /\ s.scope = x.scope
      BY <3>1, RewrittenRows
    <3> QED
      BY <3>2 DEF Main, Sound, Distinct
  <2> QED
    BY <2>1
<1>6. PICK w \in Writers : SavedBy(w)
  BY <1>2, <1>4, <1>5, SavesAreSo DEF Next
<1>7. ~InsertedBy(w)
  <2>1. ASSUME InsertedBy(w)
        PROVE  FALSE
    <3>1. Waits(w)
      BY <1>6 DEF SavedBy
    <3>2. s = NewRow(pend[w].q, pend[w].now) /\ s.id = nextId /\ r.id # nextId
      BY <1>1, <2>1, <3>1, InsertAddsOne
    <3> QED
      BY <3>2
  <2> QED
    BY <2>1
<1>8. PICK x \in rows : ForcedBy(w, x) /\ End(w, "updated") /\ Waits(w)
  BY <1>1, <1>6, <1>7 DEF SavedBy
<1>9. s.scope = ScopeOf(pend[w].q) /\ pend[w].q.force
  <2> DEFINE c == Corrected(x, pend[w].q, pend[w].now)
  <2>1. rows' = (rows \ {x}) \cup {c} /\ pend[w].q.force /\ pend[w].now >= x.created
    BY <1>8 DEF ForcedBy
  <2>2. c.id = x.id /\ c.scope = ScopeOf(pend[w].q)
    BY <1>8, <2>1, CorrectedIsDated
  <2> HIDE DEF c
  <2> QED
    BY <1>3, <2>1, <2>2
<1>10. pend[w].q.scope = "shared"
  BY <1>9 DEF ScopeOf, defaultScope
<1>11. pend'[w].out = "updated"
  BY <1>8, EndKeepsPend DEF Outcomes
<1> QED
  BY <1>8, <1>9, <1>10, <1>11 DEF Commits

LEMMA ImportStep ==
  ASSUME Main, [Next /\ UNCHANGED scene]_vars
  PROVE  ImportsOnlyAdd
<1> SUFFICES ASSUME NEW w \in Writers, Commits(w), pend[w].q.imported, NEW r \in rows, r \notin rows'
             PROVE  LET m == ManualSummaries(rows, r.task) IN r \in m \ Newest(m, MaxSummaries)
  BY DEF ImportsOnlyAdd
<1> DEFINE q == pend[w].q  new == NewRow(q, pend[w].now)  R == rows \cup {new}
           S == R \ Superseded(R, q, pend[w].target)
<1>1. Waits(w) /\ SavedBy(w)
  BY WhoCommits
<1>2. ~q.force /\ q.scope = "shared" /\ q.origin = "manual" /\ pend[w].target = NoId
  BY <1>1, Asked, StoreAssumption DEF Main, Queued
<1>3. InsertedBy(w)
  BY <1>1, <1>2 DEF SavedBy, ForcedBy
<1>4. \A x \in R : x.id # NoId
  <2>1. \A x \in rows : x.id # NoId
    BY DEF Main, Sound, Rows, Ids, NoId
  <2>2. new.id # NoId
    BY <1>1, <1>3, InsertAddsOne DEF Main, TypeOK, NoId
  <2> QED
    BY <2>1, <2>2
<1>5. S = R
  BY <1>2, <1>4 DEF Superseded
<1>6. /\ r.id # pend[w].target
      /\ r.kind = Summary /\ rows' = pruneSessionSummaries(S, q.task)
  BY <1>1, <1>2, <1>3, <1>4, WhatAnInsertDeletes
<1>7. ManualSummaries(R, q.task) = ManualSummaries(rows, q.task)
  <2>1. new.scope = "shared"
    BY <1>2 DEF NewRow, ScopeOf
  <2> HIDE DEF new
  <2> QED
    BY <2>1 DEF ManualSummaries
<1> DEFINE m == ManualSummaries(rows, q.task)
<1>8. rows' = R \ (m \ Newest(m, MaxSummaries))
  BY <1>5, <1>6, <1>7 DEF pruneSessionSummaries
<1>9. r \in m \ Newest(m, MaxSummaries)
  BY <1>8
<1>10. r.task = q.task
  BY <1>9 DEF ManualSummaries
<1> QED
  BY <1>9, <1>10

\* A personal row is shared only on request, and what the pool brings only adds to
\* the local store. (save.go:43-44, share.go:133-150)
THEOREM PoolAndStoreApart == Spec => PoolAndStoreStayApart
<1>1. ASSUME Main, [Next /\ UNCHANGED scene]_vars
      PROVE  SharedOnRequest /\ ImportsOnlyAdd
  BY <1>1, SharedStep, ImportStep
<1> QED
  BY <1>1, MainInit, MainStep, PTL DEF Spec, PoolAndStoreStayApart

-----------------------------------------------------------------------------
(* Retention.                                                                *)

LEMMA SavedOverIsSound ==
  ASSUME Main, NEW w \in Writers, Waits(w), InsertedBy(w)
  PROVE  LET R == rows \cup {NewRow(pend[w].q, pend[w].now)}
         IN  R \subseteq Rows /\ Distinct(R)
<1> DEFINE new == NewRow(pend[w].q, pend[w].now)
<1>1. new \in Rows /\ new.id = nextId /\ new.print = PrintOf(pend[w].q)
  BY NewRowIsDated DEF InsertedBy, NewRow
<1>2. \A r \in rows : r.id # nextId /\ r.print # PrintOf(pend[w].q)
  <2>1. \A r \in rows : r.id # nextId
    BY InsertAddsOne
  <2>2. \A r \in rows : r.print # PrintOf(pend[w].q)
    BY DEF InsertedBy, Twins
  <2> QED
    BY <2>1, <2>2
<1>3. rows \subseteq Rows /\ Distinct(rows)
  BY DEF Main, Sound
<1> HIDE DEF new
<1>4. Distinct(rows \cup {new})
  BY <1>1, <1>2, <1>3 DEF Distinct
<1> QED
  BY <1>1, <1>3, <1>4 DEF new

LEMMA NewestStep ==
  ASSUME Main, [Next /\ UNCHANGED scene]_vars
  PROVE  NewestKept
<1> SUFFICES ASSUME NEW w \in Writers, Inserts(w),
                    NEW r \in ManualSummaries(rows \cup {NewRow(pend[w].q, pend[w].now)}, pend[w].q.task),
                    Lost(r), r.id # pend[w].target
             PROVE  Cardinality({s \in ManualSummaries(rows', r.task) : Newer(s, r)}) >= MaxSummaries
  BY DEF NewestKept
<1> DEFINE q == pend[w].q  R == rows \cup {NewRow(q, pend[w].now)}
           S == R \ Superseded(R, q, pend[w].target)
           m == ManualSummaries(S, q.task)
           F == First(m, ByAge(m), MaxSummaries)
<1>1. Waits(w) /\ InsertedBy(w)
  BY WhoInserts
<1>2. r \in R /\ r.kind = Summary /\ r.origin = "manual" /\ r.task = q.task /\ r.scope = "personal" /\ r \notin rows'
  BY DEF ManualSummaries, Lost
<1>3. r \in S /\ rows' = pruneSessionSummaries(S, q.task)
  BY <1>1, <1>2, WhatAnInsertDeletes
<1>4. R \subseteq Rows /\ Distinct(R)
  BY <1>1, SavedOverIsSound
<1>5. m \subseteq S /\ m \subseteq Rows /\ Distinct(m)
  BY <1>4 DEF ManualSummaries, Distinct
<1>6. IsFiniteSet(m) /\ Strict(m, ByAge(m)) /\ Total(m, ByAge(m))
  BY <1>5, RowsAreFinite, AgeOrders
<1>7. rows' = S \ (m \ F)
  BY <1>3, NewestAreFirst DEF pruneSessionSummaries
<1>8. r \in m /\ r \notin F
  BY <1>2, <1>3, <1>7
<1>9. ManualSummaries(rows', r.task) = F
  <2>1. F \subseteq m
    BY DEF First
  <2>2. ManualSummaries(S \ (m \ F), q.task) = m \cap (S \ (m \ F))
    BY DEF ManualSummaries
  <2> QED
    BY <1>2, <1>5, <1>7, <2>1, <2>2
<1>10. {s \in F : Newer(s, r)} = {s \in F : <<s, r>> \in ByAge(m)}
  BY <1>8 DEF ByAge, First
<1> HIDE DEF m
<1>11. Cardinality({s \in F : <<s, r>> \in ByAge(m)}) >= MaxSummaries
  BY <1>6, <1>8, FirstAtLeast, Bounds
<1> QED
  BY <1>9, <1>10, <1>11

LEMMA ExpandedStep ==
  ASSUME Main, [Next /\ UNCHANGED scene]_vars
  PROVE  ExpandedKept
<1> SUFFICES ASSUME NEW w \in Writers, Inserts(w), NEW r \in AutoSummaries(rows), NEW s \in AutoSummaries(rows'),
                    Lost(r), r.id # pend[w].target, r.expanded > 0, s.expanded = 0
             PROVE  s \in Newest(AutoSummaries(rows'), Grace)
  BY DEF ExpandedKept
<1> DEFINE q == pend[w].q  R == rows \cup {NewRow(q, pend[w].now)}
           S == R \ Superseded(R, q, pend[w].target)
           A == AutoSummaries(S)
           F == First(A, ByRank(A), MaxAuto)
<1>1. Waits(w) /\ InsertedBy(w)
  BY WhoInserts
<1>2. r \in rows /\ r \notin rows' /\ r.kind = Summary /\ r.origin = "auto"
  BY DEF AutoSummaries, Lost
<1>3. r \in S /\ rows' = pruneAutoSummaries(S)
  BY <1>1, <1>2, WhatAnInsertDeletes
<1>4. R \subseteq Rows /\ Distinct(R)
  BY <1>1, SavedOverIsSound
<1>5. S \subseteq Rows /\ Distinct(S)
  BY <1>4 DEF Distinct
<1>6. IsFiniteSet(A) /\ A \subseteq Rows /\ Distinct(A) /\ rows' = S \ (A \ F) /\ AutoSummaries(rows') = F
  <2> HIDE DEF S
  <2> QED
    BY <1>3, <1>5, KeptAreFirst
<1>7. r \in A /\ r \notin F /\ s \in F /\ s \in A
  <2>1. r \in A
    BY <1>2, <1>3 DEF AutoSummaries
  <2>2. r \notin F
    BY <1>2, <1>3, <1>6
  <2>3. s \in F
    BY <1>6
  <2> QED
    BY <2>1, <2>2, <2>3 DEF First
<1> HIDE DEF A
<1>8. Strict(A, ByRank(A)) /\ Total(A, ByRank(A))
  BY <1>6, RankOrders
<1>9. Outranks(AutoRank(A, s), AutoRank(A, r))
  <2>1. <<s, r>> \in ByRank(A)
    BY <1>6, <1>7, <1>8, FirstAreAbove, Bounds
  <2> QED
    BY <2>1 DEF ByRank
<1>10. s \in Newest(A, Grace)
  <2>1. AutoRank(A, s)[2] = 0 /\ AutoRank(A, r)[2] = 1
    BY DEF AutoRank
  <2>2. AutoRank(A, s)[1] > AutoRank(A, r)[1]
    BY <1>9, <2>1, Lexically
  <2> QED
    BY <2>2 DEF AutoRank
<1>11. {t \in F : Newer(t, s)} \in SUBSET {t \in A : Newer(t, s)}
  BY DEF First
<1>12. IsFiniteSet({t \in A : Newer(t, s)})
  BY <1>6, FS_Subset
<1>13. Cardinality({t \in F : Newer(t, s)}) <= Cardinality({t \in A : Newer(t, s)})
       /\ Cardinality({t \in F : Newer(t, s)}) \in Nat /\ Cardinality({t \in A : Newer(t, s)}) \in Nat
  BY <1>11, <1>12, FS_Subset, FS_CardinalityType
<1>14. Cardinality({t \in A : Newer(t, s)}) < Grace
  BY <1>10 DEF Newest
<1>15. Cardinality({t \in F : Newer(t, s)}) < Grace
  BY <1>13, <1>14, Bounds
<1>16. s \in Newest(F, Grace)
  BY <1>7, <1>15 DEF Newest
<1> QED
  BY <1>6, <1>16

\* Retention loses the old before the new, keeps the auto budget at every step, and
\* gives up no summary somebody expanded for one nobody did, the newest few apart.
\* (save.go:482-543)
THEOREM RetentionHolds == Spec => RetentionKeepsTheBest
<1>1. ASSUME Main, Main', [Next /\ UNCHANGED scene]_vars
      PROVE  NewestKept /\ WithinBudget' /\ ExpandedKept
  BY <1>1, NewestStep, ExpandedStep DEF Main, Sound, WithinBudget
<1> QED
  BY <1>1, MainInit, MainStep, PTL DEF Spec, RetentionKeepsTheBest

=============================================================================
