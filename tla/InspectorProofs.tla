--------------------------- MODULE InspectorProofs ---------------------------
(***************************************************************************)
(* Proofs about Inspector: what the message loop keeps true of the list,   *)
(* the detail pane and the delete dialog, for any rows, keys and order in  *)
(* which the results of its goroutines come back.                          *)
(***************************************************************************)
EXTENDS Inspector, FiniteSetTheorems, TLAPS

-----------------------------------------------------------------------------
(* What the store answers.                                                   *)

Size == Cardinality(Rows)
Shown == [id : Rows, shared : BOOLEAN]
Lists == UNION {[1 .. n -> Shown] : n \in 0 .. Size}

LEMMA RowFacts ==
  /\ Rows \subseteq Nat /\ None \notin Rows /\ IsFiniteSet(Rows) /\ Size \in Nat /\ Size >= 1
<1>1. Rows \subseteq Nat /\ None \notin Rows /\ IsFiniteSet(Rows) /\ Rows # {}
  BY RowsAssumption
<1>2. Size \in Nat /\ Size # 0
  BY <1>1, FS_CardinalityType, FS_EmptySet DEF Size
<1> QED
  BY <1>1, <1>2

LEMMA LengthOfList ==
  ASSUME NEW f \in Lists
  PROVE  /\ Len(f) \in 0 .. Size /\ DOMAIN f = 1 .. Len(f)
         /\ \A i \in DOMAIN f : f[i] \in Shown
         /\ f # <<>> => Len(f) >= 1
<1>1. PICK n \in 0 .. Size : f \in [1 .. n -> Shown]
  BY DEF Lists
<1>2. n \in Nat /\ n <= Size
  BY RowFacts
<1>3. f \in Seq(Shown) /\ Len(f) = n
  BY <1>1, <1>2
<1>4. f # <<>> => n # 0
  BY <1>3
<1> QED
  BY <1>1, <1>2, <1>3, <1>4

\* For each place in the order of a finite set of rows there is a row that has it.
LEMMA EveryPlaceIsTaken ==
  ASSUME NEW S \in SUBSET Rows, NEW i \in 1 .. Cardinality(S)
  PROVE  \E r \in S : Cardinality({x \in S : x > r}) = i - 1
<1> DEFINE n == Cardinality(S)
           up(r) == {x \in S : x > r}
           f == [r \in S |-> Cardinality(up(r)) + 1]
<1>1. IsFiniteSet(S) /\ n \in Nat /\ S \subseteq Nat
  BY RowFacts, FS_Subset, FS_CardinalityType
<1>2. \A r \in S : up(r) \subseteq S \ {r} /\ IsFiniteSet(up(r)) /\ Cardinality(up(r)) \in Nat
                   /\ Cardinality(up(r)) <= n - 1
  <2> TAKE r \in S
  <2>1. up(r) \subseteq S \ {r}
    BY <1>1
  <2>2. IsFiniteSet(S \ {r}) /\ Cardinality(S \ {r}) = n - 1
    BY <1>1, FS_RemoveElement
  <2> HIDE DEF up, n
  <2> QED
    BY <2>1, <2>2, FS_Subset, FS_CardinalityType
<1>3. f \in [S -> 1 .. n]
  <2> HIDE DEF up, n
  <2> QED
    BY <1>1, <1>2
<1>4. \A r, s \in S : r < s => Cardinality(up(s)) < Cardinality(up(r))
  <2> TAKE r, s \in S
  <2> HAVE r < s
  <2>1. up(s) \in SUBSET up(r) /\ s \in up(r) /\ s \notin up(s)
    <3>1. \A x \in S : x > s => x > r
      BY <1>1
    <3>2. s > r /\ ~(s > s)
      BY <1>1
    <3> QED
      BY <3>1, <3>2
  <2> HIDE DEF up, n
  <2>2. IsFiniteSet(up(r)) /\ Cardinality(up(r)) \in Nat /\ Cardinality(up(s)) \in Nat
    BY <1>2
  <2>3. Cardinality(up(s)) <= Cardinality(up(r)) /\ Cardinality(up(s)) # Cardinality(up(r))
    BY <2>1, <2>2, FS_Subset
  <2> QED
    BY <2>2, <2>3
<1>5. \A r, s \in S : f[r] = f[s] => r = s
  <2> TAKE r, s \in S
  <2>1. r \in Nat /\ s \in Nat /\ Cardinality(up(r)) \in Nat /\ Cardinality(up(s)) \in Nat
    BY <1>1, <1>2
  <2> HIDE DEF up, n
  <2> QED
    BY <1>4, <2>1
<1>6. f \in Injection(S, 1 .. n)
  BY <1>3, <1>5 DEF Injection, IsInjective
<1>7. IsFiniteSet(1 .. n) /\ Cardinality(1 .. n) = n
  BY <1>1, FS_Interval
<1>8. f \in Surjection(S, 1 .. n)
  <2> HIDE DEF f
  <2> QED
    BY <1>6, <1>7, FS_Injection
<1>9. PICK r \in S : f[r] = i
  BY <1>8 DEF Surjection
<1>10. Cardinality(up(r)) = i - 1
  <2>1. Cardinality(up(r)) \in Nat /\ Cardinality(up(r)) + 1 = i
    BY <1>2, <1>9
  <2> HIDE DEF up
  <2> QED
    BY <2>1
<1> QED
  BY <1>10

\* A listing shows present rows of those asked for.
LEMMA ListingShows ==
  ASSUME NEW some \in SUBSET Rows
  PROVE  LET L == Listing(some)
             n == Cardinality({r \in some : Present(r)})
         IN  /\ n \in 0 .. Size /\ DOMAIN L = 1 .. n
             /\ \A i \in 1 .. n : L[i] \in some /\ Present(L[i])
<1> DEFINE S == {r \in some : Present(r)}
<1>1. S \in SUBSET Rows
  OBVIOUS
<1>2. Cardinality(S) \in Nat /\ Cardinality(S) <= Size
  BY <1>1, RowFacts, FS_Subset, FS_CardinalityType DEF Size
<1>3. Listing(some) = [i \in 1 .. Cardinality(S) |-> CHOOSE r \in S : Cardinality({x \in S : x > r}) = i - 1]
  BY DEF Listing
<1> HIDE DEF S
<1>4. \A i \in 1 .. Cardinality(S) : Listing(some)[i] \in S
  <2> TAKE i \in 1 .. Cardinality(S)
  <2>1. \E r \in S : Cardinality({x \in S : x > r}) = i - 1
    BY <1>1, EveryPlaceIsTaken
  <2> QED
    BY <1>3, <2>1
<1>5. Cardinality(S) \in 0 .. Size
  BY <1>2, RowFacts
<1> QED
  BY <1>3, <1>4, <1>5 DEF S

LEMMA ResultShows ==
  ASSUME NEW q
  PROVE  /\ Result(q) \in Lists
         /\ \A i \in DOMAIN Result(q) : Present(Result(q)[i].id)
<1>1. ASSUME NEW some \in SUBSET Rows, NEW R, R = [i \in DOMAIN R |-> R[i]],
             DOMAIN R = DOMAIN Listing(some),
             \A i \in DOMAIN R : R[i] \in [id : {Listing(some)[i]}, shared : BOOLEAN]
      PROVE  R \in Lists /\ \A i \in DOMAIN R : Present(R[i].id)
  <2> DEFINE L == Listing(some)  n == Cardinality({r \in some : Present(r)})
  <2>1. n \in 0 .. Size /\ DOMAIN L = 1 .. n /\ \A i \in 1 .. n : L[i] \in Rows /\ Present(L[i])
    BY ListingShows
  <2> HIDE DEF L, n
  <2>2. DOMAIN R = 1 .. n /\ \A i \in 1 .. n : R[i] \in [id : {L[i]}, shared : BOOLEAN]
    BY <1>1, <2>1 DEF L
  <2>3. R \in [1 .. n -> Shown]
    BY <1>1, <2>1, <2>2 DEF Shown
  <2>4. \A i \in DOMAIN R : Present(R[i].id)
    BY <2>1, <2>2
  <2> QED
    BY <2>1, <2>3, <2>4 DEF Lists
<1>2. CASE Searching(q)
  <2> DEFINE some == {r \in Matching : q.kind \in {"", KindOf[r]}}
  <2>1. some \in SUBSET Rows
    BY KindAssumption
  <2>2. Result(q) = [i \in DOMAIN Listing(some) |-> [id |-> Listing(some)[i], shared |-> FALSE]]
    BY <1>2 DEF Result
  <2> HIDE DEF some
  <2> QED
    BY <1>1, <2>1, <2>2
<1>3. CASE ~Searching(q)
  <2> DEFINE some == {r \in Rows : q.kind \in {"", KindOf[r]} /\ q.scope \in {"", db[r]}}
  <2>1. some \in SUBSET Rows
    OBVIOUS
  <2>2. Result(q) = [i \in DOMAIN Listing(some) |-> [id |-> Listing(some)[i], shared |-> db[Listing(some)[i]] = "shared"]]
    BY <1>3 DEF Result
  <2> HIDE DEF some
  <2> QED
    BY <1>1, <2>1, <2>2
<1> QED
  BY <1>2, <1>3

-----------------------------------------------------------------------------
(* Commands.                                                                 *)

Reading == {"load", "tick", "detail", "counts"}
Writing == {"delete", "unshare", "pull", "share"}

\* A command has these fields.
Shaped(o) == DOMAIN o = {"t", "n", "gen", "q", "ids", "res", "st"}
Fresh(o, t, g) == Shaped(o) /\ o.t = t /\ o.gen = g /\ o.st = "run"

LEMMA NewCommands ==
  /\ \A t : Fresh(Op(t), t, 0)
  /\ \A t, S : Fresh([Op(t) EXCEPT !.ids = S], t, 0) /\ [Op(t) EXCEPT !.ids = S].ids = S
  /\ \A o \in Counts : Fresh(o, "counts", 0)
<1>1. \A t : Fresh(Op(t), t, 0)
  BY DEF Fresh, Shaped, Op
<1>2. \A t, S : Fresh([Op(t) EXCEPT !.ids = S], t, 0) /\ [Op(t) EXCEPT !.ids = S].ids = S
  BY DEF Fresh, Shaped, Op
<1>3. \A o \in Counts : Fresh(o, "counts", 0)
  <2>1. Fresh([Op("counts") EXCEPT !.q = <<>>], "counts", 0)
    BY DEF Fresh, Shaped, Op
  <2> QED
    BY <2>1 DEF Counts
<1> QED
  BY <1>1, <1>2, <1>3

LEMMA NewReads ==
  ASSUME NEW g
  PROVE  /\ \A q : Fresh(Load(g, q), "load", g) /\ Load(g, q).q = q
         /\ Shaped(Tick(g)) /\ Tick(g).t = "tick" /\ Tick(g).gen = g /\ Tick(g).st = "done"
         /\ \A id : Fresh(Detail(g, id), "detail", g) /\ Detail(g, id).ids = {id}
<1>1. \A q : Fresh(Load(g, q), "load", g) /\ Load(g, q).q = q
  BY DEF Fresh, Shaped, Op, Load
<1>2. Shaped(Tick(g)) /\ Tick(g).t = "tick" /\ Tick(g).gen = g /\ Tick(g).st = "done"
  BY DEF Shaped, Op, Tick
<1>3. \A id : Fresh(Detail(g, id), "detail", g) /\ Detail(g, id).ids = {id}
  BY DEF Fresh, Shaped, Op, Detail
<1> QED
  BY <1>1, <1>2, <1>3

\* What a goroutine leaves of its command.
Same(o, p) == Shaped(p) /\ p.t = o.t /\ p.gen = o.gen /\ p.q = o.q /\ p.ids = o.ids
LEMMA Continued ==
  ASSUME NEW o, Shaped(o)
  PROVE  /\ \A r : LET p == [o EXCEPT !.st = "done", !.res = r]
                   IN  Same(o, p) /\ p.st = "done" /\ p.res = r
         /\ \A st : LET p == [o EXCEPT !.st = st] IN Same(o, p) /\ p.st = st
BY DEF Same, Shaped

-----------------------------------------------------------------------------
(* The inductive invariant: types, and what is known of a command.           *)

Stored == {Absent, Deleted, "personal", "shared"}
Modes == {"normal", "confirm", "share"}
Known(list) == \A i \in DOMAIN list : db[list[i].id] # Absent
OpOK(o) ==
    /\ Shaped(o)
    /\ o.t \in Reading \cup Writing
    /\ o.st \in {"run", "push", "done", "error"}
    /\ o.st = "error" => o.t \in scene.faulty
    /\ o.gen \in Nat
    /\ o.t \in {"load", "tick"} => o.gen <= gen
    /\ o.t = "detail" => o.gen <= detailGen
    /\ o.t \notin {"load", "tick", "detail"} => o.gen = 0
    /\ o.t = "load" /\ o.st = "done" => o.res \in Lists /\ Known(o.res)

Sane ==
    /\ scene \in Scenes
    /\ db \in [Rows -> Stored]
    /\ mode \in Modes /\ selected \subseteq Rows /\ target \in Rows \cup {None}
    /\ items \in Lists /\ Known(items) /\ idx \in 1 .. Size
    /\ gen \in Nat /\ detailGen \in Nat /\ failed \in BOOLEAN
    /\ loaded = Cursor
    /\ \A o \in ops : OpOK(o)

LEMMA CursorIsARow ==
  ASSUME NEW list \in Lists, NEW i
  PROVE  /\ CursorId(list, i) \in Rows \cup {None}
         /\ CursorId(list, i) # None => i \in DOMAIN list /\ list[i].id = CursorId(list, i)
BY LengthOfList, RowFacts DEF CursorId, Shown

\* What every step does to the commands: it keeps some, and the others are in order.
LEMMA OpsStayOK ==
  ASSUME Sane, scene' = scene, gen' \in Nat, gen' >= gen, detailGen' \in Nat, detailGen' >= detailGen,
         \A r \in Rows : db[r] # Absent => db'[r] # Absent,
         \A o \in ops' : o \in ops \/ OpOK(o)'
  PROVE  (\A o \in ops : OpOK(o)') /\ \A o \in ops' : OpOK(o)'
<1>1. ASSUME NEW o \in ops
      PROVE  OpOK(o)'
  <2>1. OpOK(o) /\ gen \in Nat /\ detailGen \in Nat
    BY DEF Sane
  <2>2. o.res \in Lists /\ Known(o.res) => Known(o.res)'
    BY LengthOfList DEF Known, Shown
  <2> QED
    BY <2>1, <2>2 DEF OpOK
<1> QED
  BY <1>1

LEMMA FreshIsOK ==
  ASSUME Sane, NEW o, NEW t \in Reading \cup Writing, NEW g \in Nat, Fresh(o, t, g),
         t \in {"load", "tick"} => g <= gen', t = "detail" => g <= detailGen',
         t \notin {"load", "tick", "detail"} => g = 0
  PROVE  OpOK(o)'
BY DEF OpOK, Fresh

-----------------------------------------------------------------------------
(* What each step does.                                                      *)

ListStays == UNCHANGED <<scene, query, items, idx, gen, detailGen, loaded>>
UiStays == UNCHANGED <<mode, selected, target>>

\* Keys that leave the list alone start at most an edit of the store; a resize
\* empties the pane.
Edits ==
    /\ ListStays /\ db' = db
    /\ mode' \in Modes /\ selected' \subseteq Rows /\ target' \in Rows \cup {None}
    /\ ops \subseteq ops' /\ \A o \in ops' : o \in ops \/ \E t \in Writing : Fresh(o, t, 0)
    /\ failed' = failed \/ (failed' = FALSE /\ \E o \in ops' : o.t \in Writing)
    /\ pane' = pane \/ (pane'.id = None /\ (scene.laterSizes \/ loaded = None))

LEMMA EditKeys ==
  ASSUME Sane, \/ Toggle \/ OpenDelete \/ ConfirmDelete \/ Cancel \/ OpenShare
               \/ ConfirmShare \/ Unshare \/ Pull \/ Resize
  PROVE  Edits
<1> USE DEF KeepUi, ui, panes
<1>1. Cursor \in Rows \cup {None} /\ mode \in Modes /\ selected \subseteq Rows /\ target \in Rows \cup {None}
  BY CursorIsARow DEF Sane, Cursor
<1>2. CASE Toggle
  BY <1>1, <1>2 DEF Toggle, Edits, ListStays, Key
<1>3. CASE OpenDelete
  BY <1>1, <1>3 DEF OpenDelete, Edits, ListStays, Modes
<1>4. CASE Cancel
  BY <1>1, <1>4 DEF Cancel, Edits, ListStays, Modes
<1>5. CASE OpenShare
  BY <1>1, <1>5 DEF OpenShare, Edits, ListStays, Modes
<1>6. CASE Resize
  <2>1. pane'.id = None /\ (scene.laterSizes \/ loaded = None) /\ ops' = ops /\ ListStays /\ db' = db /\ UiStays
        /\ failed' = failed
    BY <1>6 DEF Resize, ListStays, UiStays, NoRow
  <2> QED
    BY <1>1, <2>1 DEF Edits, UiStays
<1>7. ASSUME NEW t \in Writing, NEW S, ops' = ops \cup {[Op(t) EXCEPT !.ids = S]}
      PROVE  ops \subseteq ops' /\ \A o \in ops' : o \in ops \/ \E u \in Writing : Fresh(o, u, 0)
  <2>1. Fresh([Op(t) EXCEPT !.ids = S], t, 0)
    BY NewCommands
  <2> QED
    BY <1>7, <2>1
<1>8. CASE ConfirmDelete
  <2>1. ops \subseteq ops' /\ \A o \in ops' : o \in ops \/ \E u \in Writing : Fresh(o, u, 0)
    BY <1>7, <1>8 DEF ConfirmDelete, Writing
  <2> QED
    BY <1>1, <1>8, <2>1 DEF ConfirmDelete, Edits, ListStays, Modes
<1>9. CASE ConfirmShare
  <2>1. ops \subseteq ops' /\ \A o \in ops' : o \in ops \/ \E u \in Writing : Fresh(o, u, 0)
    BY <1>7, <1>9 DEF ConfirmShare, Writing
  <2> QED
    BY <1>1, <1>9, <2>1 DEF ConfirmShare, Edits, ListStays, Modes
<1>10. CASE Unshare
  <2>1. ops \subseteq ops' /\ \A o \in ops' : o \in ops \/ \E u \in Writing : Fresh(o, u, 0)
    BY <1>7, <1>10 DEF Unshare, Writing
  <2> QED
    BY <1>1, <1>10, <2>1 DEF Unshare, Edits, ListStays
<1>11. CASE Pull
  <2>1. ops' = ops \cup {Op("pull")} /\ failed' = FALSE
    BY <1>11 DEF Pull
  <2>2. ops \subseteq ops' /\ \A o \in ops' : o \in ops \/ \E u \in Writing : Fresh(o, u, 0)
    BY <2>1, NewCommands DEF Writing
  <2>3. Op("pull") \in ops' /\ Op("pull").t \in Writing
    BY <2>1, NewCommands DEF Writing, Fresh
  <2> QED
    BY <1>1, <1>11, <2>1, <2>2, <2>3 DEF Pull, Edits, ListStays, Key
<1> QED
  BY <1>2, <1>3, <1>4, <1>5, <1>6, <1>8, <1>9, <1>10, <1>11

\* A key that changes the query starts a load of it, or the debounce of one.
Asks ==
    /\ UNCHANGED <<scene, db, items, idx, detailGen, loaded, pane, failed>> /\ UiStays
    /\ gen' = gen + 1
    /\ \E o : /\ ops' = ops \cup {o} /\ Shaped(o) /\ o.gen = gen + 1
              /\ \/ o.t = "tick" /\ o.st = "done"
                 \/ o.t = "load" /\ o.st = "run" /\ o.q = query'

LEMMA QueryKeys ==
  ASSUME Sane, \/ \E v \in Typed : Type(v)
               \/ \E k \in Kinds : ChooseKind(k)
               \/ Escape \/ CycleScope
  PROVE  Asks
<1> USE DEF KeepUi
<1>1. CASE \E v \in Typed : Type(v)
  <2>1. ops' = ops \cup {Tick(gen + 1)} /\ gen' = gen + 1
        /\ UNCHANGED <<scene, db, items, idx, detailGen, loaded, pane, failed>> /\ UiStays
    BY <1>1 DEF Type, UiStays
  <2> QED
    BY <2>1, NewReads DEF Asks
<1>2. ASSUME NEW q, Filter(q)
      PROVE  Asks
  <2>1. ops' = ops \cup {Load(gen + 1, q)} /\ gen' = gen + 1 /\ query' = q
        /\ UNCHANGED <<scene, db, items, idx, detailGen, loaded, pane, failed>> /\ UiStays
    BY <1>2 DEF Filter, Reload, UiStays
  <2>2. Fresh(Load(gen + 1, q), "load", gen + 1) /\ Load(gen + 1, q).q = q
    BY NewReads
  <2> QED
    BY <2>1, <2>2 DEF Asks, Fresh
<1>3. CASE Escape
  BY <1>2, <1>3 DEF Escape
<1>4. CASE CycleScope
  BY <1>2, <1>4 DEF CycleScope
<1>5. CASE \E k \in Kinds : ChooseKind(k)
  BY <1>2, <1>5 DEF ChooseKind
<1> QED
  BY <1>1, <1>3, <1>4, <1>5

\* The pane follows the cursor.
Follows(its, i, new) ==
    /\ loaded' = CursorId(its, i)
    /\ \/ loaded' = loaded /\ detailGen' = detailGen /\ ops' = new
       \/ detailGen' = detailGen + 1 /\ ops' = new \cup {Detail(detailGen + 1, loaded')}
LEMMA SyncFollows ==
  ASSUME NEW its, NEW i, NEW new, SyncDetail(its, i, new)
  PROVE  Follows(its, i, new)
BY DEF SyncDetail, Follows

\* A goroutine does its work: only an edit changes the store, and nothing absent
\* again or present after a deletion.
Works(o, p) ==
    /\ ListStays /\ UiStays /\ pane' = pane /\ failed' = failed
    /\ o \in ops /\ ops' = (ops \ {o}) \cup {p} /\ Same(o, p)
    /\ p.st \in {"push", "done", "error"} /\ (p.st = "error" => o.t \in scene.faulty)
    /\ o.st # "run" => o.t = "share"
    /\ db' \in [Rows -> Stored]
    /\ \A r \in Rows : (db[r] # Absent => db'[r] # Absent) /\ (db[r] = Deleted => db'[r] = Deleted)
    /\ o.t \notin Writing \/ (o.t # "share" /\ p.st = "error") => db' = db
    /\ o.t = "load" /\ p.st # "error" => p.st = "done" /\ p.res = Result(o.q)
    /\ o.t = "detail" /\ p.st # "error" =>
         p.st = "done" /\ \E id \in o.ids : p.res[1].id = IF id = None \/ ~Present(id) THEN None ELSE id

LEMMA FlipKeeps ==
  ASSUME Sane, NEW S, NEW scope \in {"personal", "shared", Deleted}, db' = Flip(S, scope)
  PROVE  /\ db' \in [Rows -> Stored]
         /\ \A r \in Rows : (db[r] # Absent => db'[r] # Absent) /\ (db[r] = Deleted => db'[r] = Deleted)
BY DEF Flip, Present, Sane, Stored, Absent, Deleted

LEMMA Goroutines ==
  ASSUME Sane, NEW o \in ops, Read(o) \/ Write(o) \/ ShareFlip(o) \/ SharePush(o)
  PROVE  \E p : Works(o, p)
<1> USE DEF Quietly, ui, panes
<1>1. Shaped(o) /\ db \in [Rows -> Stored] /\ o.t \in Reading \cup Writing
  BY DEF Sane, OpOK
<1>2. ListStays /\ UiStays /\ pane' = pane /\ failed' = failed
  BY DEF Read, Write, ShareFlip, SharePush, ListStays, UiStays
<1>2a. ASSUME Fails(o), db' = db, o.st = "run"
      PROVE  \E p : Works(o, p)
  <2> DEFINE p == [o EXCEPT !.st = "error"]
  <2>1. ops' = (ops \ {o}) \cup {p} /\ o.t \in scene.faulty
    BY <1>2a DEF Fails, Becomes
  <2>2. Same(o, p) /\ p.st = "error"
    BY <1>1, Continued
  <2> HIDE DEF p
  <2>3. Works(o, p)
    BY <1>1, <1>2, <1>2a, <2>1, <2>2 DEF Works
  <2> QED
    BY <2>3
<1>3. CASE Read(o)
  <2>1. db' = db /\ o.st = "run"
    BY <1>3 DEF Read
  <2>2. CASE Fails(o)
    BY <1>2a, <2>1, <2>2
  <2>3. CASE ~Fails(o)
    <3>1. PICK r : /\ Done(o, r)
                   /\ o.t = "load" => r = Result(o.q)
                   /\ o.t = "detail" => \E id \in o.ids : r[1].id = IF id = None \/ ~Present(id) THEN None ELSE id
      <4>1. CASE o.t = "load"
        BY <1>3, <2>3, <4>1 DEF Read
      <4>2. CASE o.t = "counts"
        BY <1>3, <2>3, <4>2 DEF Read
      <4>3. CASE o.t = "detail"
        <5>1. PICK id \in o.ids : Done(o, <<IF id = None \/ ~Present(id) THEN NoRow ELSE [id |-> id, scope |-> db[id]]>>)
          BY <1>3, <2>3, <4>3 DEF Read
        <5> DEFINE r == <<IF id = None \/ ~Present(id) THEN NoRow ELSE [id |-> id, scope |-> db[id]]>>
        <5>2. r[1].id = IF id = None \/ ~Present(id) THEN None ELSE id
          BY DEF NoRow
        <5> HIDE DEF r
        <5> QED
          BY <4>3, <5>1, <5>2 DEF r
      <4> QED
        BY <1>3, <2>3, <4>1, <4>2, <4>3 DEF Read
    <3> DEFINE p == [o EXCEPT !.st = "done", !.res = r]
    <3>2. ops' = (ops \ {o}) \cup {p}
      BY <3>1 DEF Done, Becomes
    <3>3. Same(o, p) /\ p.st = "done" /\ p.res = r
      BY <1>1, Continued
    <3> HIDE DEF p
    <3>4. Works(o, p)
      BY <1>1, <1>2, <2>1, <3>1, <3>2, <3>3 DEF Works
    <3> QED
      BY <3>4
  <2> QED
    BY <2>2, <2>3
<1>4. CASE Write(o)
  <2>1. o.t \in {"delete", "unshare", "pull"} /\ o.st = "run" /\ o.t \in Writing /\ o.t \notin Reading
    BY <1>4 DEF Write, Writing, Reading
  <2>2. CASE Fails(o) /\ db' = db
    BY <1>2a, <2>1, <2>2
  <2>3. CASE ~(Fails(o) /\ db' = db)
    <3>1. Done(o, <<>>)
      BY <1>4, <2>3 DEF Write
    <3>2. /\ db' \in [Rows -> Stored]
          /\ \A r \in Rows : (db[r] # Absent => db'[r] # Absent) /\ (db[r] = Deleted => db'[r] = Deleted)
      <4>1. CASE o.t = "delete"
        BY <1>4, <2>3, <4>1, FlipKeeps DEF Write
      <4>2. CASE o.t = "unshare"
        BY <1>4, <2>3, <4>2, FlipKeeps DEF Write
      <4>3. CASE o.t = "pull"
        BY <1>1, <1>4, <2>3, <4>3 DEF Write, Stored, Absent, Deleted
      <4> QED
        BY <2>1, <4>1, <4>2, <4>3
    <3> DEFINE p == [o EXCEPT !.st = "done", !.res = <<>>]
    <3>3. ops' = (ops \ {o}) \cup {p}
      BY <3>1 DEF Done, Becomes
    <3>4. Same(o, p) /\ p.st = "done"
      BY <1>1, Continued
    <3> HIDE DEF p
    <3>5. Works(o, p)
      BY <1>2, <2>1, <3>2, <3>3, <3>4 DEF Works, Reading
    <3> QED
      BY <3>5
  <2> QED
    BY <2>2, <2>3
<1>5. ASSUME o.t = "share", NEW p, Same(o, p), ops' = (ops \ {o}) \cup {p},
             p.st \in {"push", "done"} \/ (p.st = "error" /\ o.t \in scene.faulty),
             db' = db \/ \E scope \in {"personal", "shared"} : db' = Flip(o.ids, scope)
      PROVE  Works(o, p)
  <2>1. /\ db' \in [Rows -> Stored]
        /\ \A r \in Rows : (db[r] # Absent => db'[r] # Absent) /\ (db[r] = Deleted => db'[r] = Deleted)
    BY <1>1, <1>5, FlipKeeps
  <2> QED
    BY <1>2, <1>5, <2>1 DEF Works, Writing
<1>6. CASE ShareFlip(o)
  <2> DEFINE p == [o EXCEPT !.st = "push"]
  <2>1. o.t = "share" /\ ops' = (ops \ {o}) \cup {p} /\ db' = Flip(o.ids, "shared")
    BY <1>6 DEF ShareFlip, Becomes
  <2>2. Same(o, p) /\ p.st = "push"
    BY <1>1, Continued
  <2> HIDE DEF p
  <2> QED
    BY <1>5, <2>1, <2>2
<1>7. CASE SharePush(o)
  <2>1. CASE Done(o, <<>>) /\ UNCHANGED db
    <3> DEFINE p == [o EXCEPT !.st = "done", !.res = <<>>]
    <3>1. o.t = "share" /\ ops' = (ops \ {o}) \cup {p} /\ db' = db
      BY <1>7, <2>1 DEF SharePush, Done, Becomes
    <3>2. Same(o, p) /\ p.st = "done"
      BY <1>1, Continued
    <3> HIDE DEF p
    <3> QED
      BY <1>5, <3>1, <3>2
  <2>2. CASE Fails(o) /\ db' = Flip(o.ids, "personal")
    <3> DEFINE p == [o EXCEPT !.st = "error"]
    <3>1. o.t = "share" /\ ops' = (ops \ {o}) \cup {p} /\ o.t \in scene.faulty
      BY <1>7, <2>2 DEF SharePush, Fails, Becomes
    <3>2. Same(o, p) /\ p.st = "error"
      BY <1>1, Continued
    <3> HIDE DEF p
    <3> QED
      BY <1>5, <2>2, <3>1, <3>2
  <2> QED
    BY <1>7, <2>1, <2>2 DEF SharePush
<1> QED
  BY <1>3, <1>4, <1>6, <1>7

-----------------------------------------------------------------------------
(* What each message does.                                                   *)

\* It is dropped, or only its pane or its error is shown.
Drops(o) ==
    /\ ListStays /\ db' = db /\ selected' = selected /\ target' = target
    /\ mode' \in {mode, "normal"}
    /\ o \in ops /\ ops' = ops \ {o}
    /\ failed' \in BOOLEAN /\ (failed => failed')
    /\ o.t \in Writing => o.st = "error" /\ failed'
    /\ o.t \in {"load", "tick"} => o.gen # gen \/ failed'
    /\ pane' = IF o.t # "detail" \/ o.gen # detailGen THEN pane ELSE IF o.st = "error" THEN OpenFailed ELSE o.res[1]
    /\ o.t = "detail" => o.st \in {"done", "error"}

\* The list is loaded again: after the debounce, or after an edit.
Renews(o) ==
    /\ UNCHANGED <<scene, db, query, items, idx, detailGen, loaded, pane>> /\ target' = target
    /\ mode' \in {mode, "normal"} /\ selected' \in {selected, {}} /\ failed' \in BOOLEAN
    /\ o \in ops
    /\ \/ o.t = "tick" /\ o.gen = gen /\ gen' = gen
       \/ o.t \in Writing /\ gen' = gen + 1
    /\ Load(gen', query) \in ops' /\ ops \ {o} \subseteq ops'
    /\ \A x \in ops' : x \in ops \ {o} \/ x = Load(gen', query) \/ Fresh(x, "counts", 0)

\* A list is shown, and the pane follows the cursor.
Arrives(o) ==
    /\ UNCHANGED <<scene, db, query, gen, pane>> /\ UiStays /\ failed' = FALSE
    /\ o \in ops /\ o.t = "load" /\ o.gen = gen /\ o.st = "done"
    /\ items' = o.res
    /\ idx' = IF o.res # <<>> /\ idx > Len(o.res) THEN Len(o.res) ELSE idx
    /\ Follows(o.res, idx', ops \ {o})

LEMMA Messages ==
  ASSUME Sane, NEW o \in ops, ItemsMsg(o) \/ DetailMsg(o) \/ TickMsg(o) \/ CountsMsg(o) \/ OpMsg(o)
  PROVE  Drops(o) \/ Renews(o) \/ Arrives(o)
<1> USE DEF KeepAll, ui, panes
<1>1. /\ failed \in BOOLEAN
      /\ \A t \in {"load", "tick", "detail", "counts"} : t \notin Writing
  BY DEF Sane, Writing
<1>2. CASE ItemsMsg(o)
  <2>1. o.t = "load" /\ o.st \in {"done", "error"} /\ o \in ops /\ db' = db /\ scene' = scene /\ query' = query
        /\ gen' = gen /\ pane' = pane /\ UiStays
    BY <1>2 DEF ItemsMsg, Came, UiStays
  <2>2. CASE ~(o.gen = gen /\ o.st = "done")
    <3>1. ops' = ops \ {o} /\ UNCHANGED <<items, idx, detailGen, loaded>> /\ failed' = (failed \/ o.gen = gen)
      BY <1>2, <2>2 DEF ItemsMsg, Rest
    <3>2. failed' \in BOOLEAN /\ (failed => failed') /\ (o.gen # gen \/ failed')
      BY <1>1, <3>1
    <3> QED
      BY <1>1, <2>1, <3>1, <3>2 DEF Drops, ListStays, UiStays
  <2>3. CASE o.gen = gen /\ o.st = "done"
    <3>1. /\ items' = o.res /\ failed' = FALSE
          /\ idx' = IF o.res # <<>> /\ idx > Len(o.res) THEN Len(o.res) ELSE idx
          /\ SyncDetail(o.res, idx', ops \ {o})
      BY <1>2, <2>3 DEF ItemsMsg, Shows, Rest
    <3>2. Follows(o.res, idx', ops \ {o})
      BY <3>1 DEF SyncDetail, Follows
    <3> QED
      BY <1>1, <2>1, <2>3, <3>1, <3>2 DEF Arrives
  <2> QED
    BY <2>2, <2>3
<1>3. CASE DetailMsg(o)
  <2>1. o.t = "detail" /\ o \in ops /\ o.st \in {"done", "error"} /\ ops' = ops \ {o} /\ db' = db /\ ListStays /\ UiStays
        /\ failed' = failed
        /\ pane' = IF o.gen # detailGen THEN pane ELSE IF o.st = "error" THEN OpenFailed ELSE o.res[1]
    BY <1>3 DEF DetailMsg, Came, Rest, ListStays, UiStays
  <2> QED
    BY <1>1, <2>1 DEF Drops, UiStays
<1>4. CASE TickMsg(o)
  <2>1. o.t = "tick" /\ o \in ops /\ db' = db /\ ListStays /\ UiStays /\ pane' = pane /\ failed' = failed
        /\ ops' = IF o.gen = gen THEN (ops \ {o}) \cup {Load(gen, query)} ELSE ops \ {o}
    BY <1>4 DEF TickMsg, Came, Rest, ListStays, UiStays
  <2>2. CASE o.gen # gen
    BY <1>1, <2>1, <2>2 DEF Drops, UiStays
  <2>3. CASE o.gen = gen
    <3>1. gen' = gen /\ ops' = (ops \ {o}) \cup {Load(gen', query)}
      BY <2>1, <2>3 DEF ListStays
    <3>2. /\ Load(gen', query) \in ops' /\ ops \ {o} \subseteq ops'
          /\ \A x \in ops' : x \in ops \ {o} \/ x = Load(gen', query) \/ Fresh(x, "counts", 0)
      BY <3>1
    <3> QED
      BY <1>1, <2>1, <2>3, <3>1, <3>2 DEF Renews, ListStays, UiStays
  <2> QED
    BY <2>2, <2>3
<1>5. CASE CountsMsg(o)
  <2>1. o.t = "counts" /\ o \in ops /\ db' = db /\ ListStays /\ UiStays /\ pane' = pane /\ ops' = ops \ {o}
        /\ failed' = failed
    BY <1>5 DEF CountsMsg, Came, Rest, ListStays, UiStays
  <2> QED
    BY <1>1, <2>1 DEF Drops, UiStays
<1>6. CASE OpMsg(o)
  <2>1. /\ o.t \in Writing /\ o.t \notin {"load", "tick", "detail"} /\ o \in ops /\ mode' \in {mode, "normal"}
        /\ UNCHANGED <<scene, db, query, items, idx, target, detailGen, loaded, pane>>
        /\ failed' = (o.st = "error")
    BY <1>6 DEF OpMsg, Came, Writing
  <2>2. CASE o.st = "error" /\ o.t # "delete"
    <3>1. ops' = ops \ {o} /\ UNCHANGED <<selected, gen>>
      BY <1>6, <2>2 DEF OpMsg, Rest
    <3>2. failed' = TRUE
      BY <2>1, <2>2
    <3> QED
      BY <2>1, <2>2, <3>1, <3>2 DEF Drops, ListStays
  <2>3. CASE ~(o.st = "error" /\ o.t # "delete")
    <3>1. gen' = gen + 1 /\ ops' = (ops \ {o}) \cup {Load(gen + 1, query)} \cup Counts
          /\ selected' \in {selected, {}}
      BY <1>6, <2>3 DEF OpMsg, Reload, Rest
    <3>2. /\ Load(gen', query) \in ops' /\ ops \ {o} \subseteq ops'
          /\ \A x \in ops' : x \in ops \ {o} \/ x = Load(gen', query) \/ Fresh(x, "counts", 0)
      BY <3>1, NewCommands
    <3>3. failed' \in BOOLEAN
      BY <2>1
    <3> QED
      BY <2>1, <3>1, <3>2, <3>3 DEF Renews
  <2> QED
    BY <2>2, <2>3
<1> QED
  BY <1>2, <1>3, <1>4, <1>5, <1>6

\* An arrow key.
Moves == /\ UNCHANGED <<scene, db, query, items, gen, pane, failed>> /\ UiStays
         /\ idx' \in DOMAIN items /\ Follows(items, idx', ops)

LEMMA MoveKey ==
  ASSUME NEW i, Move(i)
  PROVE  Moves
<1>1. UNCHANGED <<scene, db, query, items, gen, pane, failed>> /\ UiStays /\ idx' = i /\ i \in DOMAIN items
      /\ SyncDetail(items, i, ops)
  BY DEF Move, KeepUi, UiStays
<1> QED
  BY <1>1, SyncFollows DEF Moves

\* A step is of one of seven kinds.
LEMMA StepKinds ==
  ASSUME Sane, Next
  PROVE  Edits \/ Asks \/ Moves \/ \E o \in ops : (\E p : Works(o, p)) \/ Drops(o) \/ Renews(o) \/ Arrives(o)
<1>1. CASE Keystroke
  <2>1. CASE \E i \in 1 .. Cardinality(Rows) : Move(i)
    BY <2>1, MoveKey
  <2>2. ASSUME \/ \E v \in Typed : Type(v)
               \/ \E k \in Kinds : ChooseKind(k)
               \/ Escape \/ CycleScope
        PROVE  Asks
    BY <2>2, QueryKeys
  <2>3. CASE Toggle \/ OpenDelete \/ ConfirmDelete \/ Cancel \/ OpenShare \/ ConfirmShare \/ Unshare \/ Pull \/ Resize
    BY <2>3, EditKeys
  <2> QED
    BY <1>1, <2>1, <2>2, <2>3 DEF Keystroke
<1>2. CASE Background
  <2>1. PICK o \in ops : \/ Read(o) \/ Write(o) \/ ShareFlip(o) \/ SharePush(o)
                         \/ ItemsMsg(o) \/ DetailMsg(o) \/ TickMsg(o) \/ CountsMsg(o) \/ OpMsg(o)
    BY <1>2 DEF Background
  <2>2. CASE Read(o) \/ Write(o) \/ ShareFlip(o) \/ SharePush(o)
    BY <2>2, Goroutines
  <2>3. CASE ItemsMsg(o) \/ DetailMsg(o) \/ TickMsg(o) \/ CountsMsg(o) \/ OpMsg(o)
    BY <2>3, Messages
  <2> QED
    BY <2>1, <2>2, <2>3
<1> QED
  BY <1>1, <1>2 DEF Next

-----------------------------------------------------------------------------
(* Types.                                                                    *)

LEMMA InitSane == Init => Sane
<1> SUFFICES ASSUME Init PROVE Sane
  OBVIOUS
<1>1. /\ scene \in Scenes /\ db = scene.db /\ mode = "normal" /\ items = <<>> /\ idx = 1 /\ selected = {} /\ target = None
      /\ gen = 0 /\ detailGen = 0 /\ loaded = None /\ ops = {Load(0, query)} \cup Counts /\ failed = FALSE
  BY DEF Init
<1>2. db \in [Rows -> Stored]
  BY <1>1, ScenesAssumption DEF Stored
<1>3. items \in [1 .. 0 -> Shown] /\ DOMAIN items = {}
  BY <1>1
<1>4. items \in Lists /\ Known(items) /\ Cursor = None /\ idx \in 1 .. Size
  <2>1. 0 \in 0 .. Size
    BY RowFacts
  <2> QED
    BY <1>1, <1>3, <2>1, RowFacts DEF Lists, Known, Cursor, CursorId
<1>5. ASSUME NEW o, NEW t \in {"load", "counts"}, Fresh(o, t, 0)
      PROVE  OpOK(o)
  BY <1>1, <1>5 DEF OpOK, Fresh, Reading
<1>6. \A o \in ops : OpOK(o)
  BY <1>1, <1>5, NewCommands, NewReads
<1> QED
  BY <1>1, <1>2, <1>4, <1>6 DEF Sane, Modes

\* The cursor when neither the list nor the place in it changes.
LEMMA CursorStays ==
  ASSUME ListStays
  PROVE  Cursor' = Cursor
BY DEF ListStays, Cursor

LEMMA EditsSane ==
  ASSUME Sane, Edits
  PROVE  Sane'
<1> USE DEF Sane, Edits, ListStays
<1>1. \A o \in ops' : o \in ops \/ OpOK(o)'
  BY FreshIsOK DEF Writing
<1>2. \A o \in ops' : OpOK(o)'
  BY <1>1, OpsStayOK
<1>3. Known(items)' /\ loaded' = Cursor'
  BY CursorStays DEF Known
<1> QED
  BY <1>2, <1>3

LEMMA AsksSane ==
  ASSUME Sane, Asks
  PROVE  Sane'
<1> USE DEF Asks, UiStays
<1>1. gen \in Nat /\ gen' = gen + 1 /\ gen' \in Nat /\ detailGen \in Nat /\ detailGen' = detailGen /\ scene' = scene /\ db' = db
  BY DEF Sane
<1>2. PICK o : /\ ops' = ops \cup {o} /\ Shaped(o) /\ o.gen = gen + 1
               /\ \/ o.t = "tick" /\ o.st = "done"
                  \/ o.t = "load" /\ o.st = "run" /\ o.q = query'
  OBVIOUS
<1>3. OpOK(o)'
  BY <1>1, <1>2 DEF OpOK, Reading
<1>4. \A x \in ops' : OpOK(x)'
  BY <1>1, <1>2, <1>3, OpsStayOK
<1>5. Known(items)' /\ loaded' = Cursor'
  BY DEF Known, Sane, Cursor
<1> QED
  BY <1>1, <1>4, <1>5 DEF Sane

\* The pane's load is in order, and the pane is asked for the cursor row.
LEMMA FollowsSane ==
  ASSUME Sane, NEW its \in Lists, NEW i, NEW new, Follows(its, i, new), new \subseteq ops,
         UNCHANGED <<scene, db, gen>>
  PROVE  /\ detailGen' \in Nat /\ \A o \in ops' : OpOK(o)'
         /\ loaded' = CursorId(its, i)
<1>1. gen \in Nat /\ detailGen \in Nat /\ detailGen' \in Nat /\ detailGen' >= detailGen /\ gen' \in Nat /\ gen' >= gen
  BY DEF Sane, Follows
<1>2. \A o \in ops' : o \in ops \/ OpOK(o)'
  <2>1. CASE ops' = new
    BY <2>1
  <2>2. CASE detailGen' = detailGen + 1 /\ ops' = new \cup {Detail(detailGen + 1, loaded')}
    <3>1. PICK n \in Nat : n = detailGen + 1
      BY <1>1
    <3>2. PICK row : row = loaded'
      OBVIOUS
    <3>3. PICK d : d = Detail(n, row)
      OBVIOUS
    <3>4. Fresh(d, "detail", n)
      BY <3>3, NewReads
    <3>5. OpOK(d)'
      BY <2>2, <3>1, <3>4, FreshIsOK DEF Reading
    <3> QED
      BY <2>2, <3>1, <3>2, <3>3, <3>5
  <2> QED
    BY <2>1, <2>2 DEF Follows
<1>3. \A o \in ops' : OpOK(o)'
  BY <1>1, <1>2, OpsStayOK
<1> QED
  BY <1>1, <1>3 DEF Follows

LEMMA MovesSane ==
  ASSUME Sane, Moves
  PROVE  Sane'
<1>1. items \in Lists /\ Follows(items, idx', ops) /\ UNCHANGED <<scene, db, gen, items, query, failed>> /\ UiStays /\ idx' \in DOMAIN items
  BY DEF Sane, Moves
<1>2. PICK i : i = idx'
  OBVIOUS
<1>3. detailGen' \in Nat /\ (\A o \in ops' : OpOK(o)') /\ loaded' = CursorId(items, i)
  BY <1>1, <1>2, FollowsSane
<1>4. idx' \in 1 .. Size
  <2>1. Len(items) \in 0 .. Size /\ DOMAIN items = 1 .. Len(items)
    BY <1>1, LengthOfList
  <2> QED
    BY <1>1, <2>1, RowFacts
<1>5. loaded' = Cursor' /\ Known(items)'
  BY <1>1, <1>2, <1>3 DEF Cursor, Known, Sane
<1> QED
  BY <1>1, <1>3, <1>4, <1>5 DEF Sane, UiStays

LEMMA WorksSane ==
  ASSUME Sane, NEW o, NEW p, Works(o, p)
  PROVE  Sane'
<1>1. scene' = scene /\ gen' = gen /\ detailGen' = detailGen /\ items' = items /\ gen \in Nat /\ detailGen \in Nat
      /\ o \in ops /\ ops' = (ops \ {o}) \cup {p} /\ Same(o, p) /\ OpOK(o)
  BY DEF Works, ListStays, Sane
<1>2. \A r \in Rows : db[r] # Absent => db'[r] # Absent
  BY DEF Works
<1>3. \A list \in Lists : Known(list) => Known(list)'
  BY <1>2, LengthOfList DEF Known, Shown
<1>4. OpOK(p)'
  <2>1. o.t = "load" /\ p.st # "error" => p.st = "done" /\ p.res = Result(o.q) /\ db' = db
    BY DEF Works, Writing
  <2>2. o.t = "load" /\ p.st # "error" => p.res \in Lists /\ Known(p.res)
    BY <2>1, ResultShows DEF Known, Present, Absent
  <2>3. p.t = "load" /\ p.st = "done" => p.res \in Lists /\ Known(p.res)'
    BY <1>1, <1>3, <2>2 DEF Same
  <2>4. p.st \in {"push", "done", "error"} /\ (p.st = "error" => o.t \in scene.faulty)
    BY DEF Works
  <2> QED
    BY <1>1, <2>3, <2>4 DEF OpOK, Same
<1>5. \A x \in ops' : OpOK(x)'
  BY <1>1, <1>2, <1>4, OpsStayOK
<1>6. Known(items)' /\ loaded' = Cursor'
  <2>1. Known(items)' <=> \A i \in DOMAIN items : db'[items[i].id] # Absent
    BY <1>1 DEF Known
  <2>2. Known(items)'
    BY <1>2, <2>1, LengthOfList DEF Known, Shown, Sane
  <2> QED
    BY <2>2, CursorStays DEF Works, ListStays, Sane
<1> QED
  BY <1>5, <1>6 DEF Sane, Works, ListStays, UiStays

LEMMA DropsSane ==
  ASSUME Sane, NEW o, Drops(o)
  PROVE  Sane'
<1>1. gen' = gen /\ detailGen' = detailGen /\ gen \in Nat /\ detailGen \in Nat /\ db' = db /\ scene' = scene /\ ops' \subseteq ops
  BY DEF Drops, ListStays, Sane
<1>2. \A x \in ops' : OpOK(x)'
  BY <1>1, OpsStayOK
<1>3. Known(items)' /\ loaded' = Cursor'
  BY CursorStays DEF Drops, ListStays, Known, Sane
<1> QED
  BY <1>2, <1>3 DEF Sane, Drops, ListStays, Modes

LEMMA RenewsSane ==
  ASSUME Sane, NEW o, Renews(o)
  PROVE  Sane'
<1>1. gen \in Nat /\ gen' \in Nat /\ gen' >= gen /\ detailGen' = detailGen /\ detailGen \in Nat /\ db' = db /\ scene' = scene
  BY DEF Renews, Sane
<1>2. \A x \in ops' : x \in ops \/ OpOK(x)'
  <2>1. PICK n \in Nat : n = gen'
    BY <1>1
  <2>2. PICK d : d = Load(n, query)
    OBVIOUS
  <2>3. Fresh(d, "load", n)
    BY <2>2, NewReads
  <2>4. OpOK(d)'
    BY <2>1, <2>3, FreshIsOK DEF Reading
  <2>5. ASSUME NEW x, Fresh(x, "counts", 0)
        PROVE  OpOK(x)'
    BY <2>5, FreshIsOK DEF Reading
  <2> QED
    BY <2>1, <2>2, <2>4, <2>5 DEF Renews
<1>3. \A x \in ops' : OpOK(x)'
  BY <1>1, <1>2, OpsStayOK
<1>4. Known(items)' /\ loaded' = Cursor'
  BY DEF Renews, Known, Sane, Cursor
<1> QED
  BY <1>1, <1>3, <1>4 DEF Sane, Renews, Modes

LEMMA ArrivesSane ==
  ASSUME Sane, NEW o, Arrives(o)
  PROVE  Sane'
<1>1. /\ o \in ops /\ OpOK(o) /\ o.t = "load" /\ o.st = "done" /\ items' = o.res /\ UNCHANGED <<scene, db, gen>>
      /\ Follows(o.res, idx', ops \ {o})
      /\ idx' = IF o.res # <<>> /\ idx > Len(o.res) THEN Len(o.res) ELSE idx
  BY DEF Arrives, Sane
<1>2. o.res \in Lists /\ Known(o.res)
  BY <1>1 DEF OpOK
<1>3. PICK i, list : i = idx' /\ list = o.res
  OBVIOUS
<1>4. detailGen' \in Nat /\ (\A x \in ops' : OpOK(x)') /\ loaded' = CursorId(list, i)
  BY <1>1, <1>2, <1>3, FollowsSane
<1>5. idx' \in 1 .. Size
  BY <1>1, <1>2, LengthOfList, RowFacts DEF Sane
<1>6. loaded' = Cursor' /\ Known(items)'
  BY <1>1, <1>2, <1>3, <1>4 DEF Cursor, Known
<1> QED
  BY <1>1, <1>2, <1>4, <1>5, <1>6 DEF Sane, Arrives, UiStays

LEMMA NextSane == Sane /\ [Next]_vars => Sane'
<1>1. Sane /\ Next => Sane'
  BY StepKinds, EditsSane, AsksSane, MovesSane, WorksSane, DropsSane, RenewsSane, ArrivesSane
<1>2. Sane /\ UNCHANGED vars => Sane'
  <2> SUFFICES ASSUME Sane, UNCHANGED vars PROVE Sane'
    OBVIOUS
  <2>1. UNCHANGED <<scene, db, mode, query, items, idx, selected, target, gen, detailGen, loaded, ops, failed>>
    BY DEF vars, ui, panes
  <2>2. \A o \in ops : OpOK(o)'
    BY <2>1 DEF Sane, OpOK, Known
  <2> QED
    BY <2>1, <2>2 DEF Sane, Known, Cursor
<1> QED
  BY <1>1, <1>2

-----------------------------------------------------------------------------
(* The screen is current.                                                    *)
(*                                                                           *)
(* While shares do not fail and the window keeps its first size, a list that *)
(* is not the store's answer has an edit under way, whose message will load  *)
(* it again, or a load or a debounce of the current generation, or a failure *)
(* in the status line; and what such a load has read is the answer unless an *)
(* edit has been done whose message has not come.  In the same way a pane    *)
(* that is not the cursor's row is being loaded, or says that it could not   *)
(* be, or the row has been deleted.                                          *)

Steady == "share" \notin scene.faulty /\ ~scene.laterSizes

Settling == \E o \in ops : o.t \in Writing
Edited == \E o \in ops : o.t \in Writing /\ o.st \in {"push", "done"}
Reloads == \E o \in ops : o.t \in {"load", "tick"} /\ o.gen = gen
Refreshes == \E o \in ops : o.t = "detail" /\ o.gen = detailGen
Gone == loaded # None /\ db[loaded] = Deleted

LoadsAreOfTheQuery ==
    \A o \in ops : o.t = "load" /\ o.gen = gen =>
        o.q = query /\ (o.st = "done" => o.res = Result(query) \/ Edited)
DetailsAreOfTheCursor ==
    \A o \in ops : o.t = "detail" /\ o.gen = detailGen =>
        o.ids = {loaded} /\ (o.st = "done" => o.res[1].id = loaded \/ Gone)
ListIsAwaited == failed \/ items = Result(query) \/ Settling \/ Reloads
PaneIsAwaited == pane = OpenFailed \/ pane.id = loaded \/ Gone \/ Refreshes

ListInv == LoadsAreOfTheQuery /\ ListIsAwaited
PaneInv == DetailsAreOfTheCursor /\ PaneIsAwaited

LEMMA ResultStays ==
  ASSUME UNCHANGED <<db, query>>
  PROVE  Result(query)' = Result(query)
BY DEF Result, Listing, Searching, Present

\* What the invariants say of the generations.
LEMMA Generations ==
  ASSUME Sane
  PROVE  /\ gen \in Nat /\ detailGen \in Nat
         /\ \A o \in ops : /\ o.t \in {"load", "tick"} => o.gen \in Nat /\ o.gen <= gen /\ o.gen # gen + 1
                           /\ o.t = "detail" => o.gen \in Nat /\ o.gen <= detailGen /\ o.gen # detailGen + 1
                           /\ o.st = "error" => o.t \in scene.faulty
BY DEF Sane, OpOK

\* The list while its generation, the query and the store stay: no load of the
\* generation comes, no edit that is done is lost, and what the list waits for is
\* not lost either but to a failure.
LEMMA ListStaysCurrent ==
  ASSUME ListInv, UNCHANGED <<db, query, items, gen>>,
         \A o \in ops' : o.t = "load" /\ o.gen = gen => o \in ops,
         \A o \in ops : o.t \in Writing /\ o.st \in {"push", "done"} => o \in ops',
         \/ failed'
         \/ \E o \in ops' : o.t \in Writing
         \/ /\ failed' = failed
            /\ \A o \in ops : o.t \in Writing \/ (o.t \in {"load", "tick"} /\ o.gen = gen) => o \in ops'
  PROVE  ListInv'
<1> USE DEF ListInv
<1>1. Result(query)' = Result(query)
  BY ResultStays
<1>2. Edited => Edited'
  BY DEF Edited
<1>3. LoadsAreOfTheQuery'
  BY <1>1, <1>2 DEF LoadsAreOfTheQuery
<1>4. CASE failed' \/ \E o \in ops' : o.t \in Writing
  BY <1>3, <1>4 DEF ListIsAwaited, Settling
<1>5. CASE /\ failed' = failed
           /\ \A o \in ops : o.t \in Writing \/ (o.t \in {"load", "tick"} /\ o.gen = gen) => o \in ops'
  <2>1. (Settling => Settling') /\ (Reloads => Reloads')
    BY <1>5 DEF Settling, Reloads
  <2>2. ListIsAwaited'
    BY <1>1, <1>5, <2>1 DEF ListIsAwaited
  <2> QED
    BY <1>3, <2>2
<1> QED
  BY <1>4, <1>5

\* A new generation of the list has one load, or the debounce of one.
LEMMA ListStartsCurrent ==
  ASSUME Sane, gen' = gen + 1, NEW o \in ops', o.t \in {"load", "tick"}, o.gen = gen',
         o.t = "load" => o.q = query' /\ o.st # "done",
         \A x \in ops' : x \in ops \/ x = o \/ x.t \notin {"load", "tick"}
  PROVE  ListInv'
<1>1. \A x \in ops' : x.t = "load" /\ x.gen = gen' => x = o
  BY Generations
<1>2. LoadsAreOfTheQuery'
  BY <1>1 DEF LoadsAreOfTheQuery
<1>3. Reloads'
  BY DEF Reloads
<1> QED
  BY <1>2, <1>3 DEF ListInv, ListIsAwaited

\* The pane while the cursor's row and the loads of it stay.
LEMMA PaneStaysCurrent ==
  ASSUME PaneInv, UNCHANGED <<loaded, detailGen, pane>>, Gone => Gone',
         \A o \in ops' : o.t = "detail" /\ o.gen = detailGen => o \in ops,
         \A o \in ops : o.t = "detail" /\ o.gen = detailGen => o \in ops'
  PROVE  PaneInv'
<1> USE DEF PaneInv
<1>1. Refreshes => Refreshes'
  BY DEF Refreshes
<1>2. DetailsAreOfTheCursor'
  BY DEF DetailsAreOfTheCursor
<1>3. PaneIsAwaited'
  BY <1>1 DEF PaneIsAwaited
<1> QED
  BY <1>2, <1>3

LEMMA GoneStays == ASSUME UNCHANGED <<db, loaded>> PROVE Gone' = Gone
BY DEF Gone

LEMMA PaneFollows ==
  ASSUME Sane, PaneInv, NEW its, NEW i, NEW new, Follows(its, i, new), new \subseteq ops,
         \A o \in ops : o.t = "detail" => o \in new, UNCHANGED <<db, pane>>
  PROVE  /\ PaneInv' /\ new \subseteq ops'
         /\ \A o \in ops' : o \in new \/ o.t = "detail"
<1>1. CASE loaded' = loaded /\ detailGen' = detailGen /\ ops' = new
  BY <1>1, PaneStaysCurrent, GoneStays
<1>2. CASE detailGen' = detailGen + 1 /\ ops' = new \cup {Detail(detailGen + 1, loaded')}
  <2>1. PICK d : d = Detail(detailGen + 1, loaded')
    OBVIOUS
  <2>2. PICK n, row : n = detailGen + 1 /\ row = loaded'
    OBVIOUS
  <2>3. Fresh(d, "detail", n) /\ d.ids = {row}
    BY <2>1, <2>2, NewReads
  <2>4. \A o \in ops' : o.t = "detail" /\ o.gen = detailGen' => o = d
    BY <1>2, <2>1, Generations
  <2>5. d \in ops' /\ d.t = "detail" /\ d.gen = detailGen' /\ d.st = "run" /\ d.ids = {loaded'}
    BY <1>2, <2>1, <2>2, <2>3 DEF Fresh
  <2>6. DetailsAreOfTheCursor'
    BY <2>4, <2>5 DEF DetailsAreOfTheCursor
  <2>7. Refreshes'
    BY <2>5 DEF Refreshes
  <2>8. new \subseteq ops' /\ \A o \in ops' : o \in new \/ o.t = "detail"
    BY <1>2, <2>1, <2>5
  <2> QED
    BY <2>6, <2>7, <2>8 DEF PaneInv, PaneIsAwaited
<1> QED
  BY <1>1, <1>2 DEF Follows

CurrentInv == ListInv /\ PaneInv

LEMMA EditsCurrent ==
  ASSUME Sane, Steady, CurrentInv, Edits
  PROVE  CurrentInv'
<1> USE DEF CurrentInv
<1>1. UNCHANGED <<db, query, items, gen, loaded, detailGen>> /\ ops \subseteq ops'
      /\ (\A o \in ops' : o \in ops \/ o.t \in Writing)
      /\ (failed' = failed \/ \E o \in ops' : o.t \in Writing)
  BY DEF Edits, ListStays, Fresh
<1>2. ListInv'
  BY <1>1, ListStaysCurrent DEF Writing
<1>3. CASE pane' = pane
  <2>1. PaneInv'
    BY <1>1, <1>3, PaneStaysCurrent, GoneStays DEF Writing
  <2> QED
    BY <1>2, <2>1
<1>4. CASE pane'.id = None /\ loaded = None
  <2>1. PaneIsAwaited'
    BY <1>1, <1>4 DEF PaneIsAwaited
  <2>2. DetailsAreOfTheCursor'
    BY <1>1, GoneStays DEF PaneInv, DetailsAreOfTheCursor, Writing
  <2> QED
    BY <1>2, <2>1, <2>2 DEF PaneInv
<1> QED
  BY <1>3, <1>4 DEF Edits, Steady

LEMMA AsksCurrent ==
  ASSUME Sane, CurrentInv, Asks
  PROVE  CurrentInv'
<1>1. PICK o : /\ ops' = ops \cup {o} /\ o.gen = gen + 1 /\ gen' = gen + 1
               /\ \/ o.t = "tick" /\ o.st = "done"
                  \/ o.t = "load" /\ o.st = "run" /\ o.q = query'
  BY DEF Asks
<1>2. ListInv'
  BY <1>1, ListStartsCurrent
<1>3. UNCHANGED <<db, loaded, detailGen, pane, failed>> /\ \A x \in ops' : x \in ops \/ x.t \in {"tick", "load"}
  BY <1>1 DEF Asks
<1>4. PaneInv'
  BY <1>1, <1>3, PaneStaysCurrent, GoneStays DEF CurrentInv
<1> QED
  BY <1>2, <1>4 DEF CurrentInv

LEMMA MovesCurrent ==
  ASSUME Sane, CurrentInv, Moves
  PROVE  CurrentInv'
<1>1. UNCHANGED <<db, query, items, gen, pane, failed>> /\ Follows(items, idx', ops)
  BY DEF Moves
<1>2. PICK i : i = idx'
  OBVIOUS
<1>3. PaneInv' /\ ops \subseteq ops' /\ \A o \in ops' : o \in ops \/ o.t = "detail"
  BY <1>1, <1>2, PaneFollows DEF CurrentInv
<1>4. ListInv'
  BY <1>1, <1>3, ListStaysCurrent DEF CurrentInv
<1> QED
  BY <1>3, <1>4 DEF CurrentInv

LEMMA WorksCurrent ==
  ASSUME Sane, Steady, CurrentInv, NEW o, NEW p, Works(o, p)
  PROVE  CurrentInv'
<1>1. /\ UNCHANGED <<query, items, gen, loaded, detailGen, pane, failed>>
      /\ o \in ops /\ ops' = (ops \ {o}) \cup {p} /\ p.t = o.t /\ p.gen = o.gen /\ p.q = o.q /\ p.ids = o.ids
  BY DEF Works, ListStays, Same
<1>2. (Settling => Settling') /\ (Reloads => Reloads') /\ (Refreshes => Refreshes')
  <2>1. \A x \in ops : \E y \in ops' : y.t = x.t /\ y.gen = x.gen
    BY <1>1
  <2> QED
    BY <1>1, <2>1 DEF Settling, Reloads, Refreshes
<1>2a. Edited => Edited'
  <2>1. ASSUME NEW x \in ops, x.t \in Writing, x.st \in {"push", "done"}
        PROVE  Edited'
    <3>1. CASE x # o
      BY <1>1, <2>1, <3>1 DEF Edited
    <3>2. CASE x = o
      <4>1. p.st \in {"push", "done"}
        BY <2>1, <3>2 DEF Works, Steady
      <4> QED
        BY <1>1, <2>1, <3>2, <4>1 DEF Edited
    <3> QED
      BY <3>1, <3>2
  <2> QED
    BY <2>1 DEF Edited
<1>3. Edited' \/ Result(query)' = Result(query)
  <2>1. CASE o.t \in Writing /\ p.st # "error"
    BY <1>1, <2>1 DEF Edited, Works
  <2>2. CASE ~(o.t \in Writing /\ p.st # "error")
    <3>1. db' = db
      BY <2>2 DEF Works, Steady
    <3> QED
      BY <1>1, <3>1, ResultStays
  <2> QED
    BY <2>1, <2>2
<1>4. LoadsAreOfTheQuery'
  <2> SUFFICES ASSUME NEW x \in ops', x.t = "load", x.gen = gen
               PROVE  x.q = query /\ (x.st = "done" => x.res = Result(query)' \/ Edited')
    BY <1>1 DEF LoadsAreOfTheQuery
  <2>1. CASE x \in ops
    BY <1>3, <1>2a, <2>1 DEF CurrentInv, ListInv, LoadsAreOfTheQuery
  <2>2. CASE x = p
    <3>1. p.q = query /\ o.q = query /\ (p.st = "done" => p.res = Result(o.q))
      BY <1>1, <2>2 DEF Works, CurrentInv, ListInv, LoadsAreOfTheQuery
    <3> QED
      BY <1>3, <2>2, <3>1
  <2> QED
    BY <1>1, <2>1, <2>2
<1>5. ListIsAwaited'
  <2>1. Edited' => Settling'
    BY DEF Edited, Settling
  <2> QED
    BY <1>1, <1>2, <1>3, <2>1 DEF CurrentInv, ListInv, ListIsAwaited
<1>6. Gone => Gone'
  <2>1. loaded \in Rows \cup {None}
    BY CursorIsARow DEF Sane, Cursor
  <2> QED
    BY <1>1, <2>1 DEF Gone, Works
<1>7. DetailsAreOfTheCursor'
  <2> SUFFICES ASSUME NEW x \in ops', x.t = "detail", x.gen = detailGen
               PROVE  x.ids = {loaded} /\ (x.st = "done" => x.res[1].id = loaded \/ Gone')
    BY <1>1 DEF DetailsAreOfTheCursor
  <2>1. CASE x \in ops
    BY <1>6, <2>1 DEF CurrentInv, PaneInv, DetailsAreOfTheCursor
  <2>2. CASE x = p
    <3>1. o.ids = {loaded} /\ p.ids = {loaded} /\ o.t = "detail"
      BY <1>1, <2>2 DEF CurrentInv, PaneInv, DetailsAreOfTheCursor
    <3>2. p.st = "done" => p.res[1].id = IF loaded = None \/ ~Present(loaded) THEN None ELSE loaded
      BY <3>1 DEF Works
    <3>3. loaded # None /\ ~Present(loaded) => Gone
      <4>1. loaded = CursorId(items, idx) /\ items \in Lists /\ Known(items) /\ db \in [Rows -> Stored]
        BY DEF Sane, Cursor
      <4>2. loaded \in Rows \cup {None} /\ (loaded # None => idx \in DOMAIN items /\ items[idx].id = loaded)
        BY <4>1, CursorIsARow
      <4>3. loaded # None => db[loaded] # Absent /\ db[loaded] \in Stored
        BY <4>1, <4>2 DEF Known
      <4> QED
        BY <4>3 DEF Gone, Present, Stored
    <3> QED
      BY <1>6, <2>2, <3>1, <3>2, <3>3
  <2> QED
    BY <1>1, <2>1, <2>2
<1>8. PaneIsAwaited'
  BY <1>1, <1>2, <1>6 DEF CurrentInv, PaneInv, PaneIsAwaited
<1> QED
  BY <1>4, <1>5, <1>7, <1>8 DEF CurrentInv, ListInv, PaneInv

LEMMA DropsCurrent ==
  ASSUME Sane, Steady, CurrentInv, NEW o, Drops(o)
  PROVE  CurrentInv'
<1>1. /\ UNCHANGED <<db, query, items, gen, loaded, detailGen>> /\ o \in ops /\ ops' = ops \ {o}
      /\ (o.t \in Writing => o.st = "error" /\ failed') /\ (o.t \in {"load", "tick"} => o.gen # gen \/ failed')
      /\ failed \in BOOLEAN /\ failed' \in BOOLEAN /\ (failed => failed')
      /\ pane' = IF o.t # "detail" \/ o.gen # detailGen THEN pane ELSE IF o.st = "error" THEN OpenFailed ELSE o.res[1]
      /\ (o.t = "detail" => o.st \in {"done", "error"})
  BY DEF Drops, ListStays, Sane
<1>2. ListInv'
  <2>1. \A x \in ops : x.t \in Writing /\ x.st \in {"push", "done"} => x \in ops'
    BY <1>1
  <2>2. \/ failed'
        \/ /\ failed' = failed
           /\ \A x \in ops : x.t \in Writing \/ (x.t \in {"load", "tick"} /\ x.gen = gen) => x \in ops'
    BY <1>1
  <2> QED
    BY <1>1, <2>1, <2>2, ListStaysCurrent DEF CurrentInv
<1>3. CASE o.t = "detail" /\ o.gen = detailGen
  <2>1. pane' = OpenFailed \/ pane'.id = loaded \/ Gone
    BY <1>1, <1>3 DEF CurrentInv, PaneInv, DetailsAreOfTheCursor
  <2>2. PaneIsAwaited'
    BY <1>1, <2>1, GoneStays DEF PaneIsAwaited
  <2>3. DetailsAreOfTheCursor'
    BY <1>1, GoneStays DEF CurrentInv, PaneInv, DetailsAreOfTheCursor
  <2> QED
    BY <1>2, <2>2, <2>3 DEF CurrentInv, PaneInv
<1>4. CASE ~(o.t = "detail" /\ o.gen = detailGen)
  <2>1. PaneInv'
    BY <1>1, <1>4, PaneStaysCurrent, GoneStays DEF CurrentInv
  <2> QED
    BY <1>2, <2>1 DEF CurrentInv
<1> QED
  BY <1>3, <1>4

LEMMA RenewsCurrent ==
  ASSUME Sane, CurrentInv, NEW o, Renews(o)
  PROVE  CurrentInv'
<1>1. UNCHANGED <<db, query, items, loaded, detailGen, pane>> /\ o \in ops /\ o.t \in {"tick"} \cup Writing
  BY DEF Renews
<1>2. PICK d, n : d = Load(gen', query) /\ n = gen'
  OBVIOUS
<1>3. Fresh(d, "load", n) /\ d.q = query
  BY <1>2, NewReads
<1>4. d \in ops' /\ ops \ {o} \subseteq ops' /\ d.t = "load" /\ d.gen = gen' /\ d.q = query /\ d.st = "run"
      /\ \A x \in ops' : x \in ops \ {o} \/ x = d \/ x.t = "counts"
  BY <1>2, <1>3 DEF Renews, Fresh
<1>5. ListInv'
  <2>1. CASE gen' = gen + 1
    <3>1. /\ gen' = gen + 1 /\ d \in ops' /\ d.t \in {"load", "tick"} /\ d.gen = gen'
          /\ (d.t = "load" => d.q = query' /\ d.st # "done")
          /\ \A x \in ops' : x \in ops \/ x = d \/ x.t \notin {"load", "tick"}
      BY <1>1, <1>4, <2>1
    <3> QED
      BY <3>1, ListStartsCurrent
  <2>2. CASE o.t = "tick" /\ gen' = gen
    <3>1. Reloads'
      BY <1>4 DEF Reloads
    <3>2. Edited => Edited'
      BY <1>4, <2>2 DEF Edited, Writing
    <3>3. LoadsAreOfTheQuery'
      BY <1>1, <1>4, <2>2, <3>2, ResultStays DEF CurrentInv, ListInv, LoadsAreOfTheQuery
    <3> QED
      BY <3>1, <3>3 DEF ListInv, ListIsAwaited
  <2> QED
    BY <2>1, <2>2 DEF Renews
<1>6. PaneInv'
  <2>1. \A x \in ops' : x.t = "detail" => x \in ops
    BY <1>4
  <2>2. \A x \in ops : x.t = "detail" => x \in ops'
    BY <1>1, <1>4 DEF Writing
  <2> QED
    BY <1>1, <2>1, <2>2, PaneStaysCurrent, GoneStays DEF CurrentInv
<1> QED
  BY <1>5, <1>6 DEF CurrentInv

LEMMA ArrivesCurrent ==
  ASSUME Sane, CurrentInv, NEW o, Arrives(o)
  PROVE  CurrentInv'
<1>1. /\ UNCHANGED <<db, query, gen, pane>> /\ o \in ops /\ o.t = "load" /\ o.gen = gen /\ o.st = "done"
      /\ items' = o.res /\ Follows(o.res, idx', ops \ {o})
  BY DEF Arrives
<1>2. PICK i : i = idx'
  OBVIOUS
<1>3. PaneInv' /\ ops \ {o} \subseteq ops' /\ \A x \in ops' : x \in ops \ {o} \/ x.t = "detail"
  <2>1. Follows(o.res, i, ops \ {o}) /\ \A x \in ops : x.t = "detail" => x \in ops \ {o}
    BY <1>1, <1>2
  <2> QED
    BY <1>1, <2>1, PaneFollows DEF CurrentInv
<1>4. Edited => Edited' /\ Settling'
  BY <1>1, <1>3 DEF Edited, Settling, Writing
<1>5. ListIsAwaited'
  BY <1>1, <1>4, ResultStays DEF CurrentInv, ListInv, LoadsAreOfTheQuery, ListIsAwaited
<1>6. LoadsAreOfTheQuery'
  BY <1>1, <1>3, <1>4, ResultStays DEF CurrentInv, ListInv, LoadsAreOfTheQuery
<1> QED
  BY <1>3, <1>5, <1>6 DEF CurrentInv, ListInv

LEMMA InitCurrent == Init => CurrentInv
<1> SUFFICES ASSUME Init PROVE CurrentInv
  OBVIOUS
<1>1. /\ loaded = None /\ gen = 0 /\ detailGen = 0 /\ ops = {Load(0, query)} \cup Counts /\ pane.id = None
  BY DEF Init, NoRow
<1>2. Fresh(Load(0, query), "load", 0) /\ Load(0, query).q = query
  <2>1. \A q : Fresh(Load(0, q), "load", 0) /\ Load(0, q).q = q
    BY NewReads
  <2> QED
    BY <2>1
<1>3. \A o \in ops : o = Load(0, query) \/ o.t = "counts"
  BY <1>1, NewCommands DEF Fresh
<1>4. ListInv
  BY <1>1, <1>2, <1>3 DEF ListInv, LoadsAreOfTheQuery, ListIsAwaited, Reloads, Fresh
<1>5. PaneInv
  BY <1>1, <1>2, <1>3 DEF PaneInv, DetailsAreOfTheCursor, PaneIsAwaited, Fresh
<1> QED
  BY <1>4, <1>5 DEF CurrentInv

LEMMA SceneStays == Sane /\ [Next]_vars => scene' = scene
<1>1. Sane /\ Next => scene' = scene
  BY StepKinds DEF Edits, Asks, Moves, Works, Drops, Renews, Arrives, ListStays
<1> QED
  BY <1>1 DEF vars

LEMMA NextCurrent == Sane /\ Steady /\ CurrentInv /\ [Next]_vars => CurrentInv' /\ Steady'
<1>1. Sane /\ Steady /\ CurrentInv /\ Next => CurrentInv'
  BY StepKinds, EditsCurrent, AsksCurrent, MovesCurrent, WorksCurrent, DropsCurrent, RenewsCurrent, ArrivesCurrent
<1>2. Sane /\ CurrentInv /\ UNCHANGED vars => CurrentInv'
  <2> SUFFICES ASSUME Sane, CurrentInv, UNCHANGED vars PROVE CurrentInv'
    OBVIOUS
  <2>1. UNCHANGED <<db, query, items, gen, loaded, detailGen, pane, ops, failed>>
    BY DEF vars, ui, panes
  <2>2. ListInv' /\ PaneInv'
    BY <2>1, ListStaysCurrent, PaneStaysCurrent, GoneStays DEF CurrentInv
  <2> QED
    BY <2>2 DEF CurrentInv
<1>3. Sane /\ Steady /\ [Next]_vars => Steady'
  BY SceneStays DEF Steady
<1> QED
  BY <1>1, <1>2, <1>3

LEMMA SaneIsTyped == Sane => TypeOK
<1> SUFFICES ASSUME Sane PROVE TypeOK
  OBVIOUS
<1>1. loaded \in Rows \cup {None}
  BY CursorIsARow DEF Sane, Cursor
<1>2. \A o \in ops : o.gen <= gen \/ o.gen <= detailGen
  BY DEF Sane, OpOK
<1> QED
  BY <1>1, <1>2 DEF Sane, TypeOK, Stored, Modes, Size

\* The fields of the model stay well typed, and the pane is asked for the row
\* under the cursor at every moment.
THEOREM TypesHold == Spec => [](TypeOK /\ loaded = Cursor)
<1>1. Sane => TypeOK /\ loaded = Cursor
  BY SaneIsTyped DEF Sane
<1> QED
  BY <1>1, InitSane, NextSane, PTL DEF Spec

\* At rest the list is the store's answer to the query on the screen, and the
\* pane shows the row under the cursor or says that it could not be opened, unless
\* the status line says what failed; while shares do not fail and the window keeps
\* its size.
THEOREM ScreenHolds == Spec /\ Steady => []ScreenIsCurrent
<1>1. Sane /\ CurrentInv => ScreenIsCurrent
  <2> SUFFICES ASSUME Sane, CurrentInv, ops = {}, ~failed
               PROVE  items = Result(query) /\ (pane.id = Cursor \/ pane = OpenFailed)
    BY SaneIsTyped DEF ScreenIsCurrent
  <2>1. items = Result(query)
    BY DEF CurrentInv, ListInv, ListIsAwaited, Settling, Reloads
  <2>2. pane = OpenFailed \/ pane.id = loaded \/ Gone
    BY DEF CurrentInv, PaneInv, PaneIsAwaited, Refreshes
  <2>3. ~Gone
    <3>1. loaded = CursorId(items, idx) /\ items \in Lists
      BY DEF Sane, Cursor
    <3>2. loaded # None => idx \in DOMAIN items /\ items[idx].id = loaded
      BY <3>1, CursorIsARow
    <3>3. loaded # None => Present(loaded)
      BY <2>1, <3>2, ResultShows
    <3> QED
      BY <3>3 DEF Gone, Present, Deleted
  <2> QED
    BY <2>1, <2>2, <2>3 DEF Sane
<1> QED
  BY <1>1, InitSane, NextSane, InitCurrent, NextCurrent, PTL DEF Spec

-----------------------------------------------------------------------------
(* Deletes.                                                                  *)

\* The dialog's target and the rows of a delete under way were asked about.
AskedInv ==
    /\ mode = "confirm" => <<"delete", target>> \in asked
    /\ \A o \in ops : o.t = "delete" => \A r \in o.ids : <<"delete", r>> \in asked

\* A step that asks, or that deletes nothing new.
LEMMA AskedStays ==
  ASSUME AskedInv, asked \subseteq asked',
         mode' = "confirm" => (mode = "confirm" /\ target' = target) \/ <<"delete", target'>> \in asked',
         \A o \in ops' : o.t = "delete" => (\E x \in ops : x.t = "delete" /\ x.ids = o.ids)
                                           \/ \A r \in o.ids : <<"delete", r>> \in asked
  PROVE  AskedInv'
BY DEF AskedInv

LEMMA EditKeysAsk ==
  ASSUME AskedInv, \/ Toggle \/ OpenDelete \/ ConfirmDelete \/ Cancel \/ OpenShare
                   \/ ConfirmShare \/ Unshare \/ Pull \/ Resize
  PROVE  AskedInv' /\ db' = db
<1> USE DEF KeepUi, ui, panes
<1>1. db' = db
  BY DEF Toggle, OpenDelete, ConfirmDelete, Cancel, OpenShare, ConfirmShare, Unshare, Pull, Resize
<1>2. CASE Toggle \/ Cancel \/ Resize \/ OpenShare
  <2>1. asked \subseteq asked' /\ ops' = ops /\ (mode' = "confirm" => mode = "confirm" /\ target' = target)
    BY <1>2 DEF Toggle, Cancel, Resize, OpenShare
  <2> QED
    BY <1>1, <2>1, AskedStays
<1>3. CASE OpenDelete
  <2>1. asked' = asked \cup {<<"delete", Cursor>>} /\ ops' = ops /\ target' = Cursor
    BY <1>3 DEF OpenDelete
  <2> QED
    BY <1>1, <2>1, AskedStays
<1>4. ASSUME NEW t \in {"delete", "share", "unshare"}, NEW S, ops' = ops \cup {[Op(t) EXCEPT !.ids = S]},
             asked' = asked, mode' \in {mode, "normal"}, target' = target,
             t = "delete" => \A r \in S : <<"delete", r>> \in asked
      PROVE  AskedInv'
  <2>1. PICK d : d = [Op(t) EXCEPT !.ids = S]
    OBVIOUS
  <2>2. d.t = t /\ d.ids = S
    BY <2>1, NewCommands DEF Fresh
  <2> QED
    BY <1>4, <2>1, <2>2, AskedStays
<1>5. CASE ConfirmDelete
  <2>1. ops' = ops \cup {[Op("delete") EXCEPT !.ids = {target}]} /\ mode = "confirm" /\ mode' = "normal"
        /\ asked' = asked /\ target' = target
    BY <1>5 DEF ConfirmDelete, Key
  <2>2. PICK S : S = {target}
    OBVIOUS
  <2>3. /\ ops' = ops \cup {[Op("delete") EXCEPT !.ids = S]} /\ asked' = asked
        /\ mode' \in {mode, "normal"} /\ target' = target /\ \A r \in S : <<"delete", r>> \in asked
    BY <2>1, <2>2 DEF AskedInv
  <2>4. AskedInv'
    BY <1>4, <2>3
  <2> QED
    BY <1>1, <2>4
<1>6. CASE ConfirmShare
  <2>1. ops' = ops \cup {[Op("share") EXCEPT !.ids = ShareTargets]} /\ mode' = "normal"
        /\ asked' = asked /\ target' = target
    BY <1>6 DEF ConfirmShare
  <2> QED
    BY <1>1, <1>4, <2>1
<1>7. CASE Unshare
  <2>1. ops' = ops \cup {[Op("unshare") EXCEPT !.ids = {Cursor}]} /\ mode' = mode
        /\ asked' = asked /\ target' = target
    BY <1>7 DEF Unshare
  <2> QED
    BY <1>1, <1>4, <2>1
<1>8. CASE Pull
  <2>1. ops' = ops \cup {Op("pull")} /\ mode' = mode /\ asked' = asked /\ target' = target
    BY <1>8 DEF Pull
  <2>2. Op("pull").t = "pull"
    BY NewCommands DEF Fresh
  <2> QED
    BY <1>1, <2>1, <2>2, AskedStays
<1> QED
  BY <1>2, <1>3, <1>5, <1>6, <1>7, <1>8

LEMMA QueryKeysAsk ==
  ASSUME AskedInv, asked' = asked, Asks
  PROVE  AskedInv' /\ db' = db
<1>1. PICK o : ops' = ops \cup {o} /\ o.t \in {"tick", "load"}
  BY DEF Asks
<1>2. AskedInv'
  BY <1>1, AskedStays DEF Asks, UiStays
<1> QED
  BY <1>2 DEF Asks

LEMMA MoveAsks ==
  ASSUME AskedInv, asked' = asked, Moves
  PROVE  AskedInv' /\ db' = db
<1>1. \A o \in ops' : o \in ops \/ o.t = "detail"
  <2>1. ASSUME NEW g, NEW id
        PROVE  Detail(g, id).t = "detail"
    BY DEF Detail, Op
  <2> QED
    BY <2>1 DEF Moves, Follows
<1> QED
  BY <1>1, AskedStays DEF Moves, UiStays

LEMMA GoroutinesAsk ==
  ASSUME Sane, AskedInv, NEW o \in ops, Read(o) \/ Write(o) \/ ShareFlip(o) \/ SharePush(o)
  PROVE  AskedInv' /\ AskedFirst
<1>1. asked' = asked /\ mode' = mode /\ target' = target
  BY DEF Read, Write, ShareFlip, SharePush, Quietly, ui
<1>2. AskedInv'
  <2>1. PICK p : Works(o, p)
    BY Goroutines
  <2>2. ops' = (ops \ {o}) \cup {p} /\ p.t = o.t /\ p.ids = o.ids
    BY <2>1 DEF Works, Same
  <2> QED
    BY <1>1, <2>2, AskedStays
<1>3. ASSUME NEW S, NEW scope \in {"personal", "shared"}, db' = Flip(S, scope)
      PROVE  AskedFirst
  BY <1>3 DEF AskedFirst, Flip, Present, Deleted
<1>4. AskedFirst
  <2>1. CASE db' = db
    BY <2>1 DEF AskedFirst, Present, Deleted
  <2>2. CASE o.t = "delete" /\ db' = Flip(o.ids, Deleted)
    BY <2>2 DEF AskedFirst, Flip, Present, Deleted, AskedInv
  <2>3. CASE db' = [r \in Rows |-> IF r \in scene.pool /\ db[r] = Absent THEN "shared" ELSE db[r]]
    BY <2>3 DEF AskedFirst, Present, Deleted
  <2>4. CASE Read(o)
    BY <2>1, <2>4 DEF Read
  <2>5. CASE Write(o)
    BY <1>3, <2>1, <2>2, <2>3, <2>5 DEF Write
  <2>6. CASE ShareFlip(o)
    BY <1>3, <2>6 DEF ShareFlip
  <2>7. CASE SharePush(o)
    BY <1>3, <2>1, <2>7 DEF SharePush
  <2> QED
    BY <2>4, <2>5, <2>6, <2>7
<1> QED
  BY <1>2, <1>4

LEMMA MessagesAsk ==
  ASSUME Sane, AskedInv, NEW o \in ops, ItemsMsg(o) \/ DetailMsg(o) \/ TickMsg(o) \/ CountsMsg(o) \/ OpMsg(o)
  PROVE  AskedInv' /\ db' = db
<1>1. asked' = asked /\ db' = db
  BY DEF ItemsMsg, DetailMsg, TickMsg, CountsMsg, OpMsg, KeepAll
<1>2. mode' \in {mode, "normal"} /\ target' = target /\ \A x \in ops' : x \in ops \/ x.t \in {"load", "counts", "detail"}
  <2>1. CASE Drops(o)
    BY <2>1 DEF Drops, ListStays
  <2>2. CASE Renews(o)
    <3>1. ASSUME NEW g, NEW q
          PROVE  Load(g, q).t = "load"
      BY DEF Load, Op
    <3> QED
      BY <2>2, <3>1 DEF Renews, Fresh
  <2>3. CASE Arrives(o)
    <3>1. ASSUME NEW g, NEW id
          PROVE  Detail(g, id).t = "detail"
      BY DEF Detail, Op
    <3> QED
      BY <2>3, <3>1 DEF Arrives, Follows, UiStays
  <2> QED
    BY <2>1, <2>2, <2>3, Messages
<1> QED
  BY <1>1, <1>2, AskedStays

LEMMA NextAsks == Sane /\ AskedInv /\ [Next]_vars => AskedInv' /\ AskedFirst
<1>1. db' = db => AskedFirst
  BY DEF AskedFirst, Present, Deleted
<1>2. Sane /\ AskedInv /\ Keystroke => AskedInv' /\ db' = db
  <2> SUFFICES ASSUME Sane, AskedInv, Keystroke PROVE AskedInv' /\ db' = db
    OBVIOUS
  <2>1. CASE \E i \in 1 .. Cardinality(Rows) : Move(i)
    <3>1. Moves /\ asked' = asked
      BY <2>1, MoveKey DEF Move
    <3> QED
      BY <3>1, MoveAsks
  <2>2. ASSUME \/ \E v \in Typed : Type(v)
               \/ \E k \in Kinds : ChooseKind(k)
               \/ Escape \/ CycleScope
        PROVE  AskedInv' /\ db' = db
    <3>1. asked' = asked
      BY <2>2 DEF Type, ChooseKind, Escape, CycleScope, Filter
    <3>2. Asks
      BY <2>2, QueryKeys
    <3> QED
      BY <3>1, <3>2, QueryKeysAsk
  <2>3. CASE Toggle \/ OpenDelete \/ ConfirmDelete \/ Cancel \/ OpenShare \/ ConfirmShare \/ Unshare \/ Pull \/ Resize
    BY <2>3, EditKeysAsk
  <2> QED
    BY <2>1, <2>2, <2>3 DEF Keystroke
<1>3. Sane /\ AskedInv /\ Background => AskedInv' /\ AskedFirst
  BY <1>1, GoroutinesAsk, MessagesAsk DEF Background
<1>4. AskedInv /\ UNCHANGED vars => AskedInv' /\ AskedFirst
  <2>1. UNCHANGED vars => UNCHANGED <<mode, target, asked, ops, db>>
    BY DEF vars, ui
  <2> QED
    BY <1>1, <2>1 DEF AskedInv
<1> QED
  BY <1>1, <1>2, <1>3, <1>4 DEF Next

\* Nothing leaves the store but a row that the delete dialog was opened on,
\* whatever came back while it was open.
THEOREM OnlyAskedLeave == Spec => DeletesWhatWasAsked
<1>1. Init => AskedInv
  <2>1. \A o \in Counts : o.t = "counts"
    BY NewCommands DEF Fresh
  <2>2. ASSUME NEW q
        PROVE  Load(0, q).t = "load"
    BY DEF Load, Op
  <2> QED
    BY <2>1, <2>2 DEF Init, AskedInv
<1> QED
  BY <1>1, InitSane, NextSane, NextAsks, PTL DEF Spec, DeletesWhatWasAsked

=============================================================================
