------------------------------ MODULE Inspector -----------------------------
(***************************************************************************)
(* The memory inspector (internal/tui): a list driven by one query, a      *)
(* detail pane that follows the cursor, a delete and a share dialog.       *)
(*                                                                         *)
(* Every effect on the store runs in a goroutine of its own; what it read  *)
(* comes back as a message, in any order, while the user goes on typing.   *)
(* Two generation counters decide which messages still count.              *)
(***************************************************************************)
EXTENDS Integers, Sequences, FiniteSets

CONSTANTS
    Rows,       \* row ids, a later one is newer
    KindOf,     \* the kind of each row
    Matching,   \* the rows the search term finds
    Scenes      \* what the store holds, the keys in use, and max, the bound on them;
                \* faulty: the commands that may come back with an error

None == 0
Absent == "absent"      \* not written yet; an import writes it under a new id
Deleted == "deleted"
Scopes == <<"", "personal", "shared">>      \* scopeFilters
Kinds == {""} \cup {KindOf[r] : r \in Rows}
Typed == {"", "ab", "term"}                  \* nothing, too short, a search

ASSUME RowsAssumption == Rows \subseteq Nat \ {None} /\ IsFiniteSet(Rows) /\ Rows # {}
ASSUME KindAssumption == DOMAIN KindOf = Rows /\ Matching \subseteq Rows
ASSUME ScenesAssumption ==
    \A s \in Scenes : /\ s.db \in [Rows -> {Absent, Deleted, "personal", "shared"}]
                      /\ {s.census, s.laterSizes} \subseteq BOOLEAN

VARIABLES
    scene,      \* fixed by Init
    db,         \* the scope of each row, or Absent
    mode, query, items, idx, selected, target,  \* fields of Model
    gen, detailGen, loaded, pane,               \* gen, detailGen, loadedDetailID, detail
    census,     \* m.shared
    failed,     \* m.status reports a failure
    ops,        \* commands that run, and messages on their way
    keys,       \* keystrokes left
    asked       \* the rows a delete or share dialog was opened on

ui == <<mode, query, items, idx, selected, target>>
panes == <<gen, detailGen, loaded, pane>>
vars == <<scene, db, ui, panes, census, failed, ops, keys, asked>>

NoRow == [id |-> None, scope |-> Absent]      \* an empty detail pane
OpenFailed == [id |-> None, scope |-> "failed"]    \* "open failed" in its place

-----------------------------------------------------------------------------
(* What the store answers.                                                 *)

Present(r) == db[r] \in {"personal", "shared"}

\* The present ones of some rows, newest first.
Listing(some) ==
    LET S == {r \in some : Present(r)}
    IN  [i \in 1 .. Cardinality(S) |-> CHOOSE r \in S : Cardinality({x \in S : x > r}) = i - 1]

\* loadCmd: a search ignores the scope filter and carries no scope.
Searching(q) == q.search = "term"
Result(q) ==
    IF Searching(q)
    THEN LET L == Listing({r \in Matching : q.kind \in {"", KindOf[r]}})
         IN  [i \in DOMAIN L |-> [id |-> L[i], shared |-> FALSE]]
    ELSE LET L == Listing({r \in Rows : q.kind \in {"", KindOf[r]} /\ q.scope \in {"", db[r]}})
         IN  [i \in DOMAIN L |-> [id |-> L[i], shared |-> db[L[i]] = "shared"]]

SharedCount == Cardinality({r \in Rows : db[r] = "shared"})

-----------------------------------------------------------------------------
(* The model's own helpers.                                                *)

CursorId(its, i) == IF i \in DOMAIN its THEN its[i].id ELSE None
Cursor == CursorId(items, idx)

\* shareTargets: the ticked rows, else the cursor row.
ShareTargets == IF selected # {} THEN selected ELSE {Cursor} \ {None}

\* A command just issued: st is "run" until its goroutine has done its work
\* ("done"), which its message then reports.
Op(t) == [t |-> t, n |-> keys, gen |-> 0, q |-> query, ids |-> {}, res |-> <<>>, st |-> "run"]
Load(g, q) == [Op("load") EXCEPT !.gen = g, !.q = q, !.n = 0]
Tick(g) == [Op("tick") EXCEPT !.gen = g, !.st = "done", !.n = 0]
Detail(g, id) == [Op("detail") EXCEPT !.gen = g, !.ids = {id}, !.n = 0, !.q = <<>>]
Counts == IF scene.census THEN {[Op("counts") EXCEPT !.q = <<>>]} ELSE {}

\* syncDetail on the list its with cursor i, with the other commands new.
SyncDetail(its, i, new) ==
    LET id == CursorId(its, i) IN
    IF id = loaded THEN ops' = new /\ UNCHANGED <<detailGen, loaded>>
    ELSE /\ loaded' = id
         /\ detailGen' = detailGen + 1
         /\ ops' = new \cup {Detail(detailGen + 1, id)}

\* gen++ and a fresh load of q: every change of the query or of the store.
Reload(q, rest, more) ==
    /\ gen' = gen + 1
    /\ ops' = rest \cup {Load(gen + 1, q)} \cup more

Init ==
    /\ scene \in Scenes
    /\ db = scene.db
    /\ mode = "normal" /\ query = [search |-> "", kind |-> "", scope |-> ""]
    /\ items = <<>> /\ idx = 1 /\ selected = {} /\ target = None
    /\ gen = 0 /\ detailGen = 0 /\ loaded = None /\ pane = NoRow
    /\ census = 0 /\ failed = FALSE
    /\ keys = scene.max
    /\ ops = {Load(0, query)} \cup Counts
    /\ asked = {}

-----------------------------------------------------------------------------
(* Keys.                                                                   *)

Key(k, m) == k \in scene.keys /\ keys > 0 /\ keys' = keys - 1 /\ mode = m
KeepUi == UNCHANGED <<scene, db, census, failed>>

\* Text for the search box: the load waits for the debounce.
Type(v) ==
    /\ Key("type", "normal") /\ v # query.search
    /\ query' = [query EXCEPT !.search = v]
    /\ gen' = gen + 1
    /\ ops' = ops \cup {Tick(gen + 1)}
    /\ UNCHANGED <<mode, items, idx, selected, target, detailGen, loaded, pane, asked>> /\ KeepUi

\* Keys that change a filter: esc on a text or a scope, s, the sidebar.
Filter(q) ==
    /\ query' = q
    /\ Reload(q, ops, {})
    /\ UNCHANGED <<mode, items, idx, selected, target, detailGen, loaded, pane, asked>> /\ KeepUi
Escape ==
    /\ Key("filter", "normal")
    /\ IF query.search # "" THEN Filter([query EXCEPT !.search = ""])
       ELSE query.scope # "" /\ Filter([query EXCEPT !.scope = ""])
CycleScope ==
    /\ Key("filter", "normal") /\ query.search = ""
    /\ LET i == CHOOSE j \in 1 .. 3 : Scopes[j] = query.scope
       IN  Filter([query EXCEPT !.scope = Scopes[(i % 3) + 1]])
ChooseKind(k) ==
    /\ Key("filter", "normal") /\ k # query.kind
    /\ Filter([query EXCEPT !.kind = k])

\* An arrow key in the list.
Move(i) ==
    /\ Key("move", "normal") /\ i \in DOMAIN items /\ i # idx
    /\ idx' = i
    /\ SyncDetail(items, i, ops)
    /\ UNCHANGED <<mode, query, items, selected, target, gen, pane, asked>> /\ KeepUi

\* Space ticks the cursor row, in an empty search box.
Toggle ==
    /\ Key("tick", "normal") /\ query.search = "" /\ Cursor # None
    /\ selected' = IF Cursor \in selected THEN selected \ {Cursor} ELSE selected \cup {Cursor}
    /\ UNCHANGED <<mode, query, items, idx, target, panes, ops, asked>> /\ KeepUi

\* ctrl+d remembers the row it asks about; y deletes that row.
OpenDelete ==
    /\ Key("delete", "normal") /\ Cursor # None
    /\ mode' = "confirm" /\ target' = Cursor
    /\ asked' = asked \cup {<<"delete", Cursor>>}
    /\ UNCHANGED <<query, items, idx, selected, panes, ops>> /\ KeepUi
ConfirmDeleteCursor ==
    /\ Key("delete", "confirm")
    /\ mode' = "normal"
    /\ selected' = selected \ {Cursor}
    /\ ops' = ops \cup {[Op("delete") EXCEPT !.ids = {Cursor} \ {None}]}
    /\ UNCHANGED <<query, items, idx, target, panes, asked>> /\ KeepUi
ConfirmDelete ==
    /\ Key("delete", "confirm")
    /\ mode' = "normal"
    /\ selected' = selected \ {target}
    /\ ops' = ops \cup {[Op("delete") EXCEPT !.ids = {target}]}
    /\ UNCHANGED <<query, items, idx, target, panes, asked>> /\ KeepUi
Cancel ==
    /\ Key("cancel", "confirm") \/ Key("cancel", "share")
    /\ mode' = "normal"
    /\ UNCHANGED <<query, items, idx, selected, target, panes, ops, asked>> /\ KeepUi

\* ctrl+s opens the share dialog; enter computes the targets anew.
OpenShare ==
    /\ Key("share", "normal") /\ ShareTargets # {}
    /\ mode' = "share"
    /\ asked' = asked \cup {<<"share", r>> : r \in ShareTargets}
    /\ UNCHANGED <<query, items, idx, selected, target, panes, ops>> /\ KeepUi
ConfirmShare ==
    /\ Key("share", "share")
    /\ mode' = "normal"
    /\ ops' = ops \cup {[Op("share") EXCEPT !.ids = ShareTargets]}
    /\ UNCHANGED <<query, items, idx, selected, target, panes, asked>> /\ KeepUi

\* ctrl+x on a row shown as shared; ctrl+p, which says "pulling" in the status line.
Unshare ==
    /\ Key("unshare", "normal") /\ Cursor # None /\ items[idx].shared
    /\ ops' = ops \cup {[Op("unshare") EXCEPT !.ids = {Cursor}]}
    /\ UNCHANGED <<ui, panes, asked>> /\ KeepUi
Pull ==
    /\ Key("pull", "normal")
    /\ ops' = ops \cup {Op("pull")}
    /\ failed' = FALSE
    /\ UNCHANGED <<scene, db, census, ui, panes, asked>>

\* A window size, the first one or a later one: layout makes a new, empty
\* detail viewport.
Resize ==
    /\ Key("resize", mode)
    /\ scene.laterSizes \/ loaded = None
    /\ pane' = NoRow
    /\ UNCHANGED <<ui, gen, detailGen, loaded, ops, asked>> /\ KeepUi

-----------------------------------------------------------------------------
(* Goroutines.                                                             *)

Becomes(o, p) == ops' = (ops \ {o}) \cup {p}
Done(o, r) == Becomes(o, [o EXCEPT !.st = "done", !.res = r])
Fails(o) == o.t \in scene.faulty /\ Becomes(o, [o EXCEPT !.st = "error"])
Flip(S, scope) == [r \in Rows |-> IF r \in S /\ Present(r) THEN scope ELSE db[r]]
Quietly == UNCHANGED <<scene, ui, panes, census, failed, keys, asked>>

Read(o) ==
    /\ o.st = "run"
    /\ \/ o.t = "load" /\ Done(o, Result(o.q))
       \/ o.t = "counts" /\ Done(o, <<SharedCount>>)
       \/ \E id \in o.ids :
            /\ o.t = "detail"
            /\ Done(o, <<IF id = None \/ ~Present(id) THEN NoRow ELSE [id |-> id, scope |-> db[id]]>>)
       \/ o.t \in {"load", "counts", "detail"} /\ Fails(o)
    /\ UNCHANGED db /\ Quietly

\* deleteCmd, setScopeCmd, pullCmd.
Write(o) ==
    /\ o.st = "run"
    /\ o.t \in {"delete", "unshare", "pull"}
    /\ \/ /\ \/ o.t = "delete" /\ db' = Flip(o.ids, Deleted)
             \/ o.t = "unshare" /\ db' = Flip(o.ids, "personal")
             \/ o.t = "pull" /\ db' = [r \in Rows |-> IF r \in scene.pool /\ db[r] = Absent THEN "shared" ELSE db[r]]
          /\ Done(o, <<>>)
       \/ Fails(o) /\ UNCHANGED db
    /\ Quietly

\* shareCmd: flip, push, and on a failed push flip back to personal.
ShareFlip(o) ==
    /\ o.t = "share" /\ o.st = "run"
    /\ db' = Flip(o.ids, "shared")
    /\ Becomes(o, [o EXCEPT !.st = "push"]) /\ Quietly
SharePush(o) ==
    /\ o.t = "share" /\ o.st = "push"
    /\ \/ Done(o, <<>>) /\ UNCHANGED db
       \/ Fails(o) /\ db' = Flip(o.ids, "personal")
    /\ Quietly

-----------------------------------------------------------------------------
(* Messages.                                                               *)

Came(o, t) == o \in ops /\ o.t = t /\ o.st \in {"done", "error"}
Rest(o) == ops \ {o}
KeepAll == UNCHANGED <<scene, db, keys, asked>>

\* A list came: the cursor is pulled back into it, and the pane follows it.
Shows(o) ==
    /\ failed' = FALSE
    /\ items' = o.res
    /\ idx' = IF o.res # <<>> /\ idx > Len(o.res) THEN Len(o.res) ELSE idx
    /\ SyncDetail(o.res, idx', Rest(o))

\* itemsMsg: a superseded load is dropped, and one that failed leaves the old list.
ItemsMsgAnyGen(o) ==
    /\ Came(o, "load") /\ o.st = "done"
    /\ Shows(o)
    /\ UNCHANGED <<mode, query, selected, target, gen, pane, census>> /\ KeepAll
ItemsMsg(o) ==
    /\ Came(o, "load")
    /\ IF o.gen = gen /\ o.st = "done" THEN Shows(o)
       ELSE /\ failed' = (failed \/ o.gen = gen)
            /\ ops' = Rest(o) /\ UNCHANGED <<items, idx, detailGen, loaded>>
    /\ UNCHANGED <<mode, query, selected, target, gen, pane, census>> /\ KeepAll

DetailMsg(o) ==
    /\ Came(o, "detail")
    /\ pane' = IF o.gen # detailGen THEN pane ELSE IF o.st = "error" THEN OpenFailed ELSE o.res[1]
    /\ ops' = Rest(o)
    /\ UNCHANGED <<ui, gen, detailGen, loaded, census, failed>> /\ KeepAll

TickMsg(o) ==
    /\ Came(o, "tick")
    /\ ops' = IF o.gen = gen THEN Rest(o) \cup {Load(gen, query)} ELSE Rest(o)
    /\ UNCHANGED <<ui, panes, census, failed>> /\ KeepAll

\* countsMsg carries no generation, and its error is not shown.
CountsMsg(o) ==
    /\ Came(o, "counts")
    /\ census' = IF o.st = "error" THEN census ELSE o.res[1]
    /\ ops' = Rest(o)
    /\ UNCHANGED <<ui, panes, failed>> /\ KeepAll

\* deletedMsg, scopeChangedMsg, pulledMsg, sharedMsg: reload after a success, and
\* after a delete in any case; the first and the last also leave whatever dialog is
\* open by now.
OpMsg(o) ==
    /\ \E t \in {"delete", "unshare", "pull", "share"} : Came(o, t)
    /\ mode' = IF o.t \in {"delete", "share"} THEN "normal" ELSE mode
    /\ failed' = (o.st = "error")
    /\ IF o.st = "error" /\ o.t # "delete"
       THEN ops' = Rest(o) /\ UNCHANGED <<selected, gen>>
       ELSE /\ selected' = IF o.t = "share" THEN {} ELSE selected
            /\ Reload(query, Rest(o), Counts)
    /\ UNCHANGED <<query, items, idx, target, detailGen, loaded, pane, census>> /\ KeepAll

Keystroke ==
    \/ \E v \in Typed : Type(v)
    \/ \E k \in Kinds : ChooseKind(k)
    \/ \E i \in 1 .. Cardinality(Rows) : Move(i)
    \/ Escape \/ CycleScope \/ Toggle \/ OpenDelete \/ ConfirmDelete \/ Cancel
    \/ OpenShare \/ ConfirmShare \/ Unshare \/ Pull \/ Resize
Background ==
    \E o \in ops : \/ Read(o) \/ Write(o) \/ ShareFlip(o) \/ SharePush(o)
                   \/ ItemsMsg(o) \/ DetailMsg(o) \/ TickMsg(o) \/ CountsMsg(o) \/ OpMsg(o)

Next == Keystroke \/ Background

Spec == Init /\ [][Next]_vars

-----------------------------------------------------------------------------
(* Properties.                                                             *)

TypeOK ==
    /\ db \in [Rows -> {Absent, Deleted, "personal", "shared"}]
    /\ mode \in {"normal", "confirm", "share"}
    /\ selected \subseteq Rows /\ target \in Rows \cup {None}
    /\ loaded \in Rows \cup {None} /\ idx \in 1 .. Cardinality(Rows)
    /\ \A o \in ops : o.gen <= gen \/ o.gen <= detailGen
    /\ failed \in BOOLEAN

\* Whenever nothing is on its way, the list is the answer of the store to the
\* query on the screen and the detail pane shows the row under the cursor, or the
\* status line, or the pane, says what failed: no order in which loads, debounces,
\* edits, cursor moves and their errors come back leaves an old answer there
\* unannounced. (model.go Update, syncDetail)
ScreenIsCurrent ==
    /\ TypeOK
    /\ ops = {} => \/ failed
                   \/ items = Result(query) /\ (pane.id = Cursor \/ pane = OpenFailed)

AskedFirst == \A r \in Rows : Present(r) /\ db'[r] = Deleted => <<"delete", r>> \in asked

\* A row leaves the store only if the delete dialog was opened on that row,
\* whatever reload moved the cursor while it was open. (model.go handleKey)
DeletesWhatWasAsked == [][AskedFirst]_vars

-----------------------------------------------------------------------------
(* Statements of comments that the code does not keep: see the README.     *)

\* "open the confirm dialog for the selection (or cursor row)" (model.go:368):
\* only a row the dialog was opened on is offered.
SharesWhatWasAsked ==
    [][\A r \in Rows : db[r] = "personal" /\ db'[r] = "shared" /\ r \notin scene.pool
         => <<"share", r>> \in asked]_vars

\* "list changed -> refresh the detail pane" (model.go:234): the pane shows
\* the row as it is.
PaneIsFresh == ops = {} /\ pane.id # None => pane.scope = db[pane.id]

\* The census of the sidebar is the store's (model.go:573-578 reverts a failed
\* share lest "the census would show rows as shared").
CensusIsCurrent == ops = {} => census = SharedCount

\* scope is a part of "the single source of truth for what the list shows"
\* (model.go:69): no listed row is outside the scope filter.
ScopeFilterHolds ==
    ops = {} /\ query.scope # "" => \A i \in DOMAIN items : db[items[i].id] = query.scope

\* A failed share leaves nothing on the screen that is not so.
FailedShareLeavesNoTrace == ops = {} => items = Result(query)
=============================================================================
