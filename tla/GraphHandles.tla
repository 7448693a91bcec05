---------------------------- MODULE GraphHandles ----------------------------
(***************************************************************************)
(* The refcounted handles of internal/graph/graph.go: connEntry, open,     *)
(* closeConn, release and the handle half of Manager.Close.                *)
(*                                                                         *)
(* Every process that serves graph queries caches at most one handle on a  *)
(* repository's graph.db.  A rebuild replaces the file by rename and       *)
(* retires the cached handle; a query that already took it may still be    *)
(* running statements against it, so the handle is closed only by whoever  *)
(* is last to let go.  All of it happens under Manager.mu, hence one       *)
(* atomic step per operation here.                                         *)
(*                                                                         *)
(* sql.Open is lazy: a handle reads a file only when its first statement   *)
(* runs, and its pool may later add connections to whatever file the path  *)
(* then names.  pool[h] is the set of graph files handle h has open.       *)
(*                                                                         *)
(* The operators take their arguments explicitly and constrain conns,      *)
(* entry and held, so that GraphManager can use them as parts of its own   *)
(* steps; Next below is their most general client.                         *)
(***************************************************************************)
EXTENDS Integers, FiniteSets

CONSTANTS
  Procs,      \* processes, each with one Manager
  Users,      \* goroutines that hold handles
  Home,       \* the process each user runs in
  Handles,    \* identifiers of connEntry values, a set of naturals
  Files,      \* graph files that can stand at the path
  NoHandle,   \* "no handle": a nil *sql.DB, or no entry in Manager.conns
  Absent      \* "no file at the path"

ASSUME HandlesAssumption ==
  /\ IsFiniteSet(Users)
  /\ Home \in [Users -> Procs]
  /\ Handles \subseteq Nat
  /\ NoHandle \notin Handles
  /\ Absent \notin Files

VARIABLES
  disk,   \* the file at the graph path, or Absent
  conns,  \* Manager.conns[path] of each process
  entry,  \* the connEntry each identifier stands for
  held    \* the handle each user holds

handleVars == <<conns, entry, held>>
vars == <<disk, conns, entry, held>>

(***************************************************************************)
(* connEntry.  A closed entry nobody reaches is garbage, and its           *)
(* identifier may be reused.                                               *)
(***************************************************************************)
Entries == [refs : Nat, dead : BOOLEAN, closed : BOOLEAN, pool : SUBSET Files]

NewEntry == [refs |-> 0, dead |-> FALSE, closed |-> FALSE, pool |-> {}]
Garbage  == [refs |-> 0, dead |-> TRUE, closed |-> TRUE, pool |-> {}]

\* Mutated form of maybeClose: retiring closes at once, holders or not.
maybeCloseEagerly(e) ==
  IF e.dead THEN [e EXCEPT !.closed = TRUE, !.pool = {}] ELSE e

\* maybeClose: Close drops the pooled connections.
maybeClose(e) ==
  IF e.dead /\ e.refs <= 0 THEN [e EXCEPT !.closed = TRUE, !.pool = {}] ELSE e

retire(e) == maybeClose([e EXCEPT !.dead = TRUE])

Unreachable(h) ==
  /\ \A p \in Procs : conns[p] # h
  /\ \A u \in Users : held[u] # h
Allocatable(h) == Unreachable(h) /\ \A k \in Handles : Unreachable(k) => h <= k

(***************************************************************************)
(* open, up to the unlock of Manager.mu: the cached entry, or a new one,   *)
(* gains a reference.  The caller has already seen a file at the path.     *)
(***************************************************************************)
Acquire(u) ==
  LET p == Home[u] IN
  /\ held[u] = NoHandle
  /\ \/ /\ conns[p] # NoHandle
        /\ entry' = [entry EXCEPT ![conns[p]].refs = @ + 1]
        /\ held' = [held EXCEPT ![u] = conns[p]]
        /\ UNCHANGED conns
     \/ /\ conns[p] = NoHandle
        /\ \E h \in Handles :
             /\ Allocatable(h)
             /\ entry' = [entry EXCEPT ![h] = [NewEntry EXCEPT !.refs = 1]]
             /\ held' = [held EXCEPT ![u] = h]
             /\ conns' = [conns EXCEPT ![p] = h]

(***************************************************************************)
(* A statement on a held handle reads file f: one the pool already has     *)
(* open, or the file now at the path when the pool is empty or its         *)
(* connections are busy with another holder's statements.                  *)
(***************************************************************************)
Readable(h) ==
  entry[h].pool
    \cup (IF disk # Absent /\ (entry[h].pool = {} \/ entry[h].refs > 1)
          THEN {disk} ELSE {})

Read(u, f) ==
  /\ held[u] # NoHandle
  /\ f \in Readable(held[u])
  /\ entry' = [entry EXCEPT ![held[u]].pool = @ \cup {f}]
  /\ UNCHANGED <<conns, held>>

\* A mutated form of Dropped: the deferred close forgotten.
DroppedUnclosed(h) == [entry[h] EXCEPT !.refs = @ - 1]

\* Manager.release: drop one reference, close a retired entry at zero.
Dropped(h) == maybeClose([entry[h] EXCEPT !.refs = @ - 1])

release(u) ==
  /\ held[u] # NoHandle
  /\ entry' = [entry EXCEPT ![held[u]] = Dropped(held[u])]
  /\ held' = [held EXCEPT ![u] = NoHandle]
  /\ UNCHANGED conns

\* closeConn, and Close's loop over the one cached handle of this path.
closeConn(p) ==
  /\ IF conns[p] = NoHandle
     THEN UNCHANGED entry
     ELSE entry' = [entry EXCEPT ![conns[p]] = retire(@)]
  /\ conns' = [conns EXCEPT ![p] = NoHandle]
  /\ UNCHANGED held

\* The process ends: its handles go with it, whoever held them.
HandlesOf(p) == {h \in Handles : conns[p] = h \/ \E u \in Users : Home[u] = p /\ held[u] = h}

exit(p) ==
  /\ entry' = [h \in Handles |-> IF h \in HandlesOf(p) THEN Garbage ELSE entry[h]]
  /\ conns' = [conns EXCEPT ![p] = NoHandle]
  /\ held' = [u \in Users |-> IF Home[u] = p THEN NoHandle ELSE held[u]]

-----------------------------------------------------------------------------
Init ==
  /\ disk \in Files \cup {Absent}
  /\ conns = [p \in Procs |-> NoHandle]
  /\ entry = [h \in Handles |-> Garbage]
  /\ held = [u \in Users |-> NoHandle]

\* Some build, of any process, renames a new graph over the path.
Replace == \E f \in Files : disk' = f /\ UNCHANGED handleVars

Open(u)     == disk # Absent /\ Acquire(u) /\ UNCHANGED disk
Query(u)    == (\E f \in Files : Read(u, f)) /\ UNCHANGED disk
Release(u)  == release(u) /\ UNCHANGED disk
CloseConn(p) == closeConn(p) /\ UNCHANGED disk
Exit(p)     == exit(p) /\ UNCHANGED disk

Next ==
  \/ Replace
  \/ \E u \in Users : Open(u) \/ Query(u) \/ Release(u)
  \/ \E p \in Procs : CloseConn(p) \/ Exit(p)

Spec == Init /\ [][Next]_vars

-----------------------------------------------------------------------------
Holders(h) == {u \in Users : held[u] = h}

\* Shape of the state.
TypeOK ==
  /\ disk \in Files \cup {Absent}
  /\ conns \in [Procs -> Handles \cup {NoHandle}]
  /\ entry \in [Handles -> Entries]
  /\ held \in [Users -> Handles \cup {NoHandle}]

\* The count kept under Manager.mu is the number of queries that hold the
\* handle: no release is lost and none is run twice (graph.go:230-235).
RefsCountHolders == \A h \in Handles : entry[h].refs = Cardinality(Holders(h))

\* A rebuild never closes a handle out from under a query: "sql: database is
\* closed" mid-response is what the refcount exists to prevent (graph.go:210-215).
NeverClosedWhileHeld == \A u \in Users : held[u] # NoHandle => ~entry[held[u]].closed

\* A retired handle is closed by its last holder and never leaks, and a handle
\* still in the cache is neither retired nor closed (graph.go:223-244).
RetiredIsClosedByLastHolder ==
  /\ \A h \in Handles : entry[h].dead /\ ~entry[h].closed => Holders(h) # {}
  /\ \A p \in Procs : conns[p] # NoHandle => ~entry[conns[p]].dead

\* A process never reads through another process's handle.
HandlesArePrivate ==
  /\ \A p, q \in Procs : conns[p] # NoHandle /\ conns[p] = conns[q] => p = q
  /\ \A p \in Procs, u \in Users :
        conns[p] # NoHandle /\ held[u] = conns[p] => Home[u] = p
  /\ \A u, w \in Users : held[u] # NoHandle /\ held[u] = held[w] => Home[u] = Home[w]

\* The inductive strengthening the proofs carry.
IInv ==
  /\ TypeOK
  /\ RefsCountHolders
  /\ NeverClosedWhileHeld
  /\ RetiredIsClosedByLastHolder
  /\ HandlesArePrivate
  /\ \A h \in Handles : entry[h].closed => entry[h].dead
=============================================================================
