------------------------- MODULE GraphHandlesProofs -------------------------
(***************************************************************************)
(* Proofs about GraphHandles: its handle protocol is safe for any finite   *)
(* set of queries, any number of processes, files and handles.             *)
(*                                                                         *)
(* The inductive invariant IInv adds to the safety properties what         *)
(* makes them survive each step: handles belong to one process, so one     *)
(* process's exit or rebuild cannot touch another's, and a closed handle   *)
(* is a retired one, so a cached handle is open.                           *)
(***************************************************************************)
EXTENDS GraphHandles, FiniteSetTheorems, TLAPS

-----------------------------------------------------------------------------
(* The number of holders of a handle.                                        *)

\* A set of queries is finite, so it can be counted.
LEMMA HoldersFinite ==
  ASSUME NEW h
  PROVE  /\ IsFiniteSet(Holders(h))
         /\ Cardinality(Holders(h)) \in Nat
         /\ Cardinality(Holders(h)) = 0 <=> Holders(h) = {}
<1>1. Holders(h) \subseteq Users
  BY DEF Holders
<1>2. IsFiniteSet(Holders(h))
  BY <1>1, HandlesAssumption, FS_Subset
<1>3. QED
  BY <1>2, FS_CardinalityType, FS_EmptySet

\* A query that takes a handle adds one holder to it and to no other handle.
LEMMA GainHolder ==
  ASSUME TypeOK, NEW u \in Users, NEW h \in Handles,
         held[u] = NoHandle, held' = [held EXCEPT ![u] = h]
  PROVE  /\ Cardinality(Holders(h)') = Cardinality(Holders(h)) + 1
         /\ \A k \in Handles \ {h} : Holders(k)' = Holders(k)
<1>1. Holders(h)' = Holders(h) \cup {u} /\ u \notin Holders(h)
  BY HandlesAssumption DEF TypeOK, Holders
<1>2. Cardinality(Holders(h)') = Cardinality(Holders(h)) + 1
  BY <1>1, HoldersFinite, FS_AddElement
<1>3. \A k \in Handles \ {h} : Holders(k)' = Holders(k)
  BY HandlesAssumption DEF TypeOK, Holders
<1>4. QED
  BY <1>2, <1>3

\* A query that lets a handle go takes one holder from it and from no other.
LEMMA LoseHolder ==
  ASSUME TypeOK, NEW u \in Users, NEW h \in Handles,
         held[u] = h, held' = [held EXCEPT ![u] = NoHandle]
  PROVE  /\ Cardinality(Holders(h)) >= 1
         /\ Cardinality(Holders(h)') = Cardinality(Holders(h)) - 1
         /\ \A k \in Handles \ {h} : Holders(k)' = Holders(k)
<1>1. Holders(h)' = Holders(h) \ {u} /\ u \in Holders(h)
  BY HandlesAssumption DEF TypeOK, Holders
<1>2. Cardinality(Holders(h)') = Cardinality(Holders(h)) - 1
  BY <1>1, HoldersFinite, FS_RemoveElement
<1>3. Cardinality(Holders(h)) >= 1
  BY <1>1, HoldersFinite
<1>4. \A k \in Handles \ {h} : Holders(k)' = Holders(k)
  BY HandlesAssumption DEF TypeOK, Holders
<1>5. QED
  BY <1>2, <1>3, <1>4

\* What maybeClose makes of an entry: it closes exactly the retired ones that
\* nobody holds, and touches nothing else but their pool.
LEMMA MaybeCloseEffect ==
  ASSUME NEW e \in Entries
  PROVE  /\ maybeClose(e) \in Entries
         /\ maybeClose(e).refs = e.refs
         /\ maybeClose(e).dead = e.dead
         /\ maybeClose(e).closed = (e.closed \/ (e.dead /\ e.refs = 0))
<1>1. CASE e.dead /\ e.refs = 0
  <2>1. maybeClose(e) = [e EXCEPT !.closed = TRUE, !.pool = {}]
    BY <1>1 DEF maybeClose
  <2>2. QED
    BY <1>1, <2>1 DEF Entries
<1>2. CASE ~(e.dead /\ e.refs = 0)
  <2>1. maybeClose(e) = e
    BY <1>2 DEF maybeClose, Entries
  <2>2. QED
    BY <1>2, <2>1 DEF Entries
<1>3. QED
  BY <1>1, <1>2

-----------------------------------------------------------------------------
(* IInv is inductive: one lemma per step.                                    *)

\* NewManager caches nothing, so IInv holds at the start.
LEMMA InitIInv == Init => IInv
<1> SUFFICES ASSUME Init PROVE IInv
  OBVIOUS
<1>1. TypeOK
  BY DEF Init, TypeOK, Garbage, Entries
<1>2. \A h \in Handles : Holders(h) = {}
  BY HandlesAssumption DEF Init, Holders
<1>3. RefsCountHolders
  BY <1>2, HoldersFinite DEF Init, RefsCountHolders, Garbage
<1>4. NeverClosedWhileHeld /\ RetiredIsClosedByLastHolder /\ HandlesArePrivate
  BY DEF Init, NeverClosedWhileHeld, RetiredIsClosedByLastHolder, HandlesArePrivate, Garbage
<1>5. QED
  BY <1>1, <1>3, <1>4 DEF IInv, Init, Garbage

\* Replacing the file, or doing nothing, leaves the handles alone.
LEMMA QuietIInv == IInv /\ (disk' \in Files \cup {Absent}) /\ UNCHANGED handleVars => IInv'
BY DEF IInv, TypeOK, RefsCountHolders, NeverClosedWhileHeld,
       RetiredIsClosedByLastHolder, HandlesArePrivate, Holders, handleVars

\* open shares the cached entry.
LEMMA AcquireCachedIInv ==
  ASSUME IInv, NEW u \in Users, held[u] = NoHandle, UNCHANGED <<disk, conns>>,
         conns[Home[u]] # NoHandle,
         entry' = [entry EXCEPT ![conns[Home[u]]].refs = @ + 1],
         held' = [held EXCEPT ![u] = conns[Home[u]]]
  PROVE  IInv'
<1> DEFINE h == conns[Home[u]]
<1>1. h \in Handles /\ Home[u] \in Procs /\ TypeOK
  BY HandlesAssumption DEF IInv, TypeOK
<1>2. /\ Cardinality(Holders(h)') = Cardinality(Holders(h)) + 1
      /\ \A k \in Handles \ {h} : Holders(k)' = Holders(k)
  BY <1>1, GainHolder
<1>3. /\ entry'[h] = [entry[h] EXCEPT !.refs = @ + 1]
      /\ \A k \in Handles \ {h} : entry'[k] = entry[k]
  BY <1>1 DEF TypeOK
<1>4. TypeOK'
  BY <1>1 DEF TypeOK, Entries
<1>5. RefsCountHolders'
  BY <1>1, <1>2, <1>3 DEF IInv, RefsCountHolders, TypeOK, Entries
<1>6. /\ entry'[h].dead = entry[h].dead /\ entry'[h].closed = entry[h].closed
      /\ ~entry[h].dead /\ ~entry[h].closed
  BY <1>1, <1>3 DEF IInv, RetiredIsClosedByLastHolder, TypeOK, Entries
<1>7. NeverClosedWhileHeld'
  BY <1>1, <1>3, <1>6 DEF IInv, NeverClosedWhileHeld, TypeOK
<1>8. RetiredIsClosedByLastHolder'
  BY <1>1, <1>2, <1>3, <1>6 DEF IInv, RetiredIsClosedByLastHolder, TypeOK
<1>9. HandlesArePrivate'
  BY <1>1 DEF IInv, HandlesArePrivate, TypeOK
<1>10. (\A k \in Handles : entry[k].closed => entry[k].dead)'
  BY <1>1, <1>3, <1>6 DEF IInv
<1>11. QED
  BY <1>4, <1>5, <1>7, <1>8, <1>9, <1>10 DEF IInv

\* open makes a new entry, one nobody can reach.
LEMMA AcquireNewIInv ==
  ASSUME IInv, NEW u \in Users, held[u] = NoHandle, UNCHANGED disk,
         conns[Home[u]] = NoHandle, NEW h \in Handles, Unreachable(h),
         entry' = [entry EXCEPT ![h] = [NewEntry EXCEPT !.refs = 1]],
         held' = [held EXCEPT ![u] = h],
         conns' = [conns EXCEPT ![Home[u]] = h]
  PROVE  IInv'
<1>1. Home[u] \in Procs /\ TypeOK /\ Holders(h) = {}
  BY HandlesAssumption DEF IInv, TypeOK, Unreachable, Holders
<1>2. /\ Cardinality(Holders(h)') = 1
      /\ \A k \in Handles \ {h} : Holders(k)' = Holders(k)
  <2>1. /\ Cardinality(Holders(h)') = Cardinality(Holders(h)) + 1
        /\ \A k \in Handles \ {h} : Holders(k)' = Holders(k)
    BY <1>1, GainHolder
  <2>2. Cardinality(Holders(h)) = 0
    BY <1>1, FS_EmptySet
  <2>3. QED
    BY <2>1, <2>2
<1>3. /\ entry'[h] = [refs |-> 1, dead |-> FALSE, closed |-> FALSE, pool |-> {}]
      /\ \A k \in Handles \ {h} : entry'[k] = entry[k]
  BY <1>1 DEF TypeOK, NewEntry
<1>4. TypeOK'
  BY <1>1, <1>3 DEF TypeOK, Entries, NewEntry
<1>5. RefsCountHolders'
  BY <1>2, <1>3 DEF IInv, RefsCountHolders
<1>6. NeverClosedWhileHeld'
  BY <1>1, <1>3 DEF IInv, NeverClosedWhileHeld, TypeOK
<1>7. RetiredIsClosedByLastHolder'
  BY <1>1, <1>2, <1>3 DEF IInv, RetiredIsClosedByLastHolder, TypeOK
<1>8. HandlesArePrivate'
  BY <1>1, HandlesAssumption DEF IInv, HandlesArePrivate, TypeOK, Unreachable
<1>9. (\A k \in Handles : entry[k].closed => entry[k].dead)'
  BY <1>3 DEF IInv
<1>10. QED
  BY <1>4, <1>5, <1>6, <1>7, <1>8, <1>9 DEF IInv

\* A query only adds a file to the pool of a handle it holds.
LEMMA QueryIInv ==
  ASSUME IInv, NEW u \in Users, Query(u)
  PROVE  IInv'
<1>1. PICK f \in Files : Read(u, f)
  BY DEF Query
<1> DEFINE h == held[u]
<1>2. h \in Handles /\ TypeOK /\ TypeOK'
  BY <1>1 DEF IInv, TypeOK, Read, Query, Entries
<1>3. \A k \in Handles : /\ entry'[k].refs = entry[k].refs
                         /\ entry'[k].dead = entry[k].dead
                         /\ entry'[k].closed = entry[k].closed
  BY <1>1, <1>2 DEF Read, TypeOK, Entries
<1>4. UNCHANGED <<conns, held>>
  BY <1>1 DEF Read
<1>5. \A k : Holders(k)' = Holders(k)
  BY <1>4 DEF Holders
<1>6. RefsCountHolders' /\ NeverClosedWhileHeld'
  BY <1>2, <1>3, <1>4, <1>5 DEF IInv, RefsCountHolders, NeverClosedWhileHeld, TypeOK
<1>7. RetiredIsClosedByLastHolder' /\ HandlesArePrivate'
  BY <1>2, <1>3, <1>4, <1>5
     DEF IInv, RetiredIsClosedByLastHolder, HandlesArePrivate, TypeOK
<1>8. QED
  BY <1>2, <1>3, <1>6, <1>7 DEF IInv

\* release drops one reference and closes a retired entry at zero.
LEMMA ReleaseIInv ==
  ASSUME IInv, NEW u \in Users, Release(u)
  PROVE  IInv'
<1>0. PICK h \in Handles : h = held[u]
  BY DEF Release, release, IInv, TypeOK
<1> DEFINE e == [entry[h] EXCEPT !.refs = @ - 1]
<1>1. /\ held[u] = h /\ TypeOK
      /\ held' = [held EXCEPT ![u] = NoHandle]
      /\ UNCHANGED <<conns, disk>>
      /\ entry' = [entry EXCEPT ![h] = maybeClose(e)]
  BY <1>0 DEF Release, release, Dropped, IInv
<1>2. /\ Cardinality(Holders(h)) >= 1
      /\ Cardinality(Holders(h)') = Cardinality(Holders(h)) - 1
      /\ \A k \in Handles \ {h} : Holders(k)' = Holders(k)
  BY <1>1, LoseHolder
<1>3. /\ entry[h].refs = Cardinality(Holders(h)) /\ entry[h] \in Entries
      /\ ~entry[h].closed
  BY <1>0, <1>1, HandlesAssumption DEF IInv, RefsCountHolders, NeverClosedWhileHeld, TypeOK
<1>4. /\ e \in Entries /\ e.refs = Cardinality(Holders(h)')
      /\ e.dead = entry[h].dead /\ ~e.closed
  BY <1>2, <1>3, HoldersFinite DEF Entries
<1>5. /\ entry'[h] \in Entries /\ entry'[h].refs = Cardinality(Holders(h)')
      /\ entry'[h].dead = entry[h].dead
      /\ entry'[h].closed = (entry[h].dead /\ Cardinality(Holders(h)') = 0)
      /\ \A k \in Handles \ {h} : entry'[k] = entry[k]
  <2>1. /\ maybeClose(e) \in Entries /\ maybeClose(e).refs = e.refs
        /\ maybeClose(e).dead = e.dead
        /\ maybeClose(e).closed = (e.closed \/ (e.dead /\ e.refs = 0))
    BY <1>4, MaybeCloseEffect
  <2>2. entry'[h] = maybeClose(e) /\ \A k \in Handles \ {h} : entry'[k] = entry[k]
    BY <1>1 DEF TypeOK
  <2> HIDE DEF e
  <2>3. QED
    BY <1>4, <2>1, <2>2
<1>6. Cardinality(Holders(h)') = 0 <=> Holders(h)' = {}
  <2>1. Holders(h)' = Holders(h) \ {u}
    BY <1>1, HandlesAssumption DEF TypeOK, Holders
  <2>2. IsFiniteSet(Holders(h)')
    BY <2>1, HoldersFinite, FS_RemoveElement
  <2>3. QED
    BY <2>2, FS_EmptySet
<1>7. TypeOK'
  BY <1>1, <1>5 DEF TypeOK
<1>8. RefsCountHolders'
  BY <1>2, <1>5 DEF IInv, RefsCountHolders
<1>9. NeverClosedWhileHeld'
  <2>1. ASSUME NEW v \in Users, held'[v] # NoHandle
        PROVE  ~entry'[held'[v]].closed
    <3>1. held'[v] = held[v] /\ held[v] \in Handles /\ ~entry[held[v]].closed
      BY <1>1, <2>1, HandlesAssumption DEF IInv, NeverClosedWhileHeld, TypeOK
    <3>2. CASE held[v] = h
      <4>1. v \in Holders(h)'
        BY <3>1, <3>2 DEF Holders
      <4> QED
        BY <1>5, <1>6, <3>1, <3>2, <4>1
    <3>3. CASE held[v] # h
      BY <1>5, <3>1, <3>3
    <3> QED
      BY <3>2, <3>3
  <2> QED
    BY <2>1 DEF NeverClosedWhileHeld
<1>10. RetiredIsClosedByLastHolder'
  <2>1. ASSUME NEW k \in Handles, entry'[k].dead, ~entry'[k].closed
        PROVE  Holders(k)' # {}
    <3>1. CASE k = h
      BY <1>5, <1>6, <2>1, <3>1
    <3>2. CASE k # h
      BY <1>2, <1>5, <2>1, <3>2 DEF IInv, RetiredIsClosedByLastHolder
    <3>3. QED
      BY <3>1, <3>2
  <2>2. ASSUME NEW q \in Procs, conns'[q] # NoHandle PROVE ~entry'[conns'[q]].dead
    <3>1. conns'[q] = conns[q] /\ conns[q] \in Handles /\ ~entry[conns[q]].dead
      BY <1>1, <2>2 DEF IInv, RetiredIsClosedByLastHolder, TypeOK
    <3>2. entry'[conns[q]].dead = entry[conns[q]].dead
      BY <1>5, <3>1
    <3>3. QED
      BY <3>1, <3>2
  <2>3. QED
    BY <2>1, <2>2 DEF RetiredIsClosedByLastHolder
<1>11. HandlesArePrivate'
  BY <1>1 DEF IInv, HandlesArePrivate, TypeOK
<1>12. (\A k \in Handles : entry[k].closed => entry[k].dead)'
  BY <1>5 DEF IInv
<1>13. QED
  BY <1>7, <1>8, <1>9, <1>10, <1>11, <1>12 DEF IInv

\* closeConn retires the cached entry and forgets it.
LEMMA CloseConnIInv ==
  ASSUME IInv, NEW p \in Procs, CloseConn(p)
  PROVE  IInv'
<1>1. TypeOK /\ UNCHANGED <<disk, held>> /\ conns' = [conns EXCEPT ![p] = NoHandle]
  BY DEF CloseConn, closeConn, IInv
<1>2. \A k : Holders(k)' = Holders(k)
  BY <1>1 DEF Holders
<1>3. CASE conns[p] = NoHandle
  BY <1>1, <1>2, <1>3
     DEF CloseConn, closeConn, IInv, TypeOK, RefsCountHolders, NeverClosedWhileHeld,
         RetiredIsClosedByLastHolder, HandlesArePrivate
<1>4. CASE conns[p] # NoHandle
  <2> DEFINE h == conns[p]
             e == [entry[h] EXCEPT !.dead = TRUE]
  <2>1. h \in Handles /\ entry[h] \in Entries /\ entry' = [entry EXCEPT ![h] = maybeClose(e)]
    BY <1>1, <1>4 DEF CloseConn, closeConn, retire, TypeOK
  <2>2. e \in Entries /\ e.refs = entry[h].refs /\ e.dead /\ e.closed = entry[h].closed
    BY <2>1 DEF Entries
  <2>3. entry[h].refs = Cardinality(Holders(h)) /\ ~entry[h].dead /\ ~entry[h].closed
    BY <1>4, <2>1 DEF IInv, RefsCountHolders, RetiredIsClosedByLastHolder
  <2>4. /\ entry'[h] \in Entries /\ entry'[h].refs = Cardinality(Holders(h))
        /\ entry'[h].dead
        /\ entry'[h].closed = (Holders(h) = {})
        /\ \A k \in Handles \ {h} : entry'[k] = entry[k]
    <3>1. /\ maybeClose(e) \in Entries /\ maybeClose(e).refs = e.refs
          /\ maybeClose(e).dead = e.dead
          /\ maybeClose(e).closed = (e.closed \/ (e.dead /\ e.refs = 0))
      BY <2>2, MaybeCloseEffect
    <3>2. entry'[h] = maybeClose(e) /\ \A k \in Handles \ {h} : entry'[k] = entry[k]
      BY <1>1, <2>1 DEF TypeOK
    <3>3. (Cardinality(Holders(h)) = 0) = (Holders(h) = {})
      BY HoldersFinite
    <3> HIDE DEF e, h
    <3>4. QED
      BY <2>2, <2>3, <3>1, <3>2, <3>3
  <2>5. TypeOK'
    BY <1>1, <2>1, <2>4 DEF TypeOK
  <2>6. RefsCountHolders'
    BY <1>2, <2>4 DEF IInv, RefsCountHolders
  <2>7. NeverClosedWhileHeld'
    BY <1>1, <2>4 DEF IInv, NeverClosedWhileHeld, TypeOK, Holders
  <2>8. RetiredIsClosedByLastHolder'
    <3>1. ASSUME NEW k \in Handles, entry'[k].dead, ~entry'[k].closed
          PROVE  Holders(k)' # {}
      <4>1. CASE k = h
        BY <1>2, <2>4, <3>1, <4>1
      <4>2. CASE k # h
        BY <1>2, <2>4, <3>1, <4>2 DEF IInv, RetiredIsClosedByLastHolder
      <4>3. QED
        BY <4>1, <4>2
    <3>2. ASSUME NEW q \in Procs, conns'[q] # NoHandle PROVE ~entry'[conns'[q]].dead
      <4>1. conns'[q] = conns[q] /\ conns[q] \in Handles \ {h} /\ ~entry[conns[q]].dead
        BY <1>1, <3>2 DEF IInv, RetiredIsClosedByLastHolder, HandlesArePrivate, TypeOK
      <4>2. QED
        BY <2>4, <4>1
    <3>3. QED
      BY <3>1, <3>2 DEF RetiredIsClosedByLastHolder
  <2>9. HandlesArePrivate'
    BY <1>1 DEF IInv, HandlesArePrivate, TypeOK
  <2>10. (\A k \in Handles : entry[k].closed => entry[k].dead)'
    BY <2>4 DEF IInv
  <2>11. QED
    BY <2>5, <2>6, <2>7, <2>8, <2>9, <2>10 DEF IInv
<1>5. QED
  BY <1>3, <1>4

\* The exit of a process takes its own handles and holders, and no other's.
LEMMA ExitIInv ==
  ASSUME IInv, NEW p \in Procs, Exit(p)
  PROVE  IInv'
<1>1. /\ TypeOK /\ UNCHANGED disk
      /\ entry' = [h \in Handles |-> IF h \in HandlesOf(p) THEN Garbage ELSE entry[h]]
      /\ conns' = [conns EXCEPT ![p] = NoHandle]
      /\ held' = [u \in Users |-> IF Home[u] = p THEN NoHandle ELSE held[u]]
  BY DEF Exit, exit, IInv
<1>2. \A h \in HandlesOf(p), u \in Users : held[u] = h => Home[u] = p
  BY <1>1, HandlesAssumption DEF HandlesOf, IInv, HandlesArePrivate, TypeOK
<1>3. \A h \in HandlesOf(p), q \in Procs : conns[q] = h => q = p
  BY <1>1, HandlesAssumption DEF HandlesOf, IInv, HandlesArePrivate, TypeOK
<1>4. \A h \in Handles : Holders(h)' = IF h \in HandlesOf(p) THEN {} ELSE Holders(h)
  BY <1>1, <1>2, HandlesAssumption DEF Holders, HandlesOf, TypeOK
<1>5. TypeOK'
  BY <1>1 DEF TypeOK, Garbage, Entries
<1>6. RefsCountHolders'
  <2> SUFFICES ASSUME NEW h \in Handles
               PROVE  entry'[h].refs = Cardinality(Holders(h)')
    BY DEF RefsCountHolders
  <2>1. CASE h \in HandlesOf(p)
    BY <1>1, <1>4, <2>1, FS_EmptySet DEF Garbage
  <2>2. CASE h \notin HandlesOf(p)
    BY <1>1, <1>4, <2>2 DEF IInv, RefsCountHolders
  <2>3. QED
    BY <2>1, <2>2
<1>7. NeverClosedWhileHeld'
  BY <1>1, <1>2 DEF IInv, NeverClosedWhileHeld, TypeOK
<1>8. RetiredIsClosedByLastHolder'
  BY <1>1, <1>3, <1>4 DEF IInv, RetiredIsClosedByLastHolder, TypeOK, Garbage
<1>9. HandlesArePrivate'
  BY <1>1 DEF IInv, HandlesArePrivate, TypeOK
<1>10. (\A k \in Handles : entry[k].closed => entry[k].dead)'
  BY <1>1 DEF IInv, Garbage
<1>11. QED
  BY <1>5, <1>6, <1>7, <1>8, <1>9, <1>10 DEF IInv

-----------------------------------------------------------------------------
\* Every step of Next preserves IInv.
LEMMA NextIInv == IInv /\ [Next]_vars => IInv'
<1> SUFFICES ASSUME IInv, [Next]_vars PROVE IInv'
  OBVIOUS
<1>1. CASE Replace
  BY <1>1, QuietIInv DEF Replace, IInv, TypeOK
<1>2. ASSUME NEW u \in Users, Open(u) PROVE IInv'
  <2>1. CASE conns[Home[u]] # NoHandle
    BY <1>2, <2>1, AcquireCachedIInv DEF Open, Acquire
  <2>2. CASE conns[Home[u]] = NoHandle
    BY <1>2, <2>2, AcquireNewIInv DEF Open, Acquire, Allocatable
  <2>3. QED
    BY <2>1, <2>2
<1>3. ASSUME NEW u \in Users, Query(u) PROVE IInv'
  BY <1>3, QueryIInv
<1>4. ASSUME NEW u \in Users, Release(u) PROVE IInv'
  BY <1>4, ReleaseIInv
<1>5. ASSUME NEW p \in Procs, CloseConn(p) PROVE IInv'
  BY <1>5, CloseConnIInv
<1>6. ASSUME NEW p \in Procs, Exit(p) PROVE IInv'
  BY <1>6, ExitIInv
<1>7. CASE UNCHANGED vars
  BY <1>7, QuietIInv DEF vars, handleVars, IInv, TypeOK
<1>8. QED
  BY <1>1, <1>2, <1>3, <1>4, <1>5, <1>6, <1>7 DEF Next

\* The inductive invariant holds in every reachable state.
THEOREM HandleInvariant == Spec => []IInv
<1>1. Init => IInv
  BY InitIInv
<1>2. IInv /\ [Next]_vars => IInv'
  BY NextIInv
<1>3. QED
  BY <1>1, <1>2, PTL DEF Spec

\* Type correctness.
THEOREM HandleTypes == Spec => []TypeOK
<1>1. IInv => TypeOK
  BY DEF IInv
<1>2. QED
  BY <1>1, HandleInvariant, PTL

\* No query ever loses its handle to a rebuild, a shutdown or another process
\* (graph.go:210-215).
THEOREM HandleNeverClosedWhileHeld == Spec => []NeverClosedWhileHeld
<1>1. IInv => NeverClosedWhileHeld
  BY DEF IInv
<1>2. QED
  BY <1>1, HandleInvariant, PTL

\* The refcount is exact (graph.go:230-235).
THEOREM HandleRefsExact == Spec => []RefsCountHolders
<1>1. IInv => RefsCountHolders
  BY DEF IInv
<1>2. QED
  BY <1>1, HandleInvariant, PTL

\* No retired handle leaks, and no cached handle is retired (graph.go:223-244).
THEOREM HandleNoLeak == Spec => []RetiredIsClosedByLastHolder
<1>1. IInv => RetiredIsClosedByLastHolder
  BY DEF IInv
<1>2. QED
  BY <1>1, HandleInvariant, PTL
=============================================================================
