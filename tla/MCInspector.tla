---------------------------- MODULE MCInspector ----------------------------
(* Stores and key sets of the inspector.                                   *)
EXTENDS Inspector

MCRows == 1 .. 3
MCKindOf == <<"a", "b", "a">>
MCMatching == {1, 3}

\* Two rows of our own, and a third that a pull can bring.
Store == <<"personal", "shared", Absent>>
Scene(max, ks) == [max |-> max, db |-> Store, pool |-> {3}, keys |-> ks, faulty |-> {}, census |-> FALSE,
                   laterSizes |-> FALSE]

Browsing == Scene(3, {"type", "filter", "move"})
Deleting == Scene(4, {"delete", "pull", "move", "cancel"})
Typing == Scene(3, {"delete", "type", "unshare", "pull"})
Sharing == Scene(4, {"share", "tick", "unshare", "cancel"})
Filtered == Scene(3, {"share", "unshare", "filter"})

Failing == [Scene(3, {"resize", "share"}) EXCEPT !.db = <<"personal", "personal", Absent>>,
                                                 !.faulty = {"share", "counts"}, !.census = TRUE]

\* The store refuses: any read or edit of it may come back with an error.
Refusing == [Scene(3, {"delete", "move", "filter"}) EXCEPT !.faulty = {"load", "detail", "delete"}]
Locked == [Scene(3, {"unshare", "pull", "filter"}) EXCEPT !.faulty = {"load", "unshare", "pull"}]

PlainScenes == {Browsing, Deleting, Typing, Sharing, Filtered, Failing, Refusing, Locked}
ShareScenes == {[Scene(4, {"share", "pull", "move"}) EXCEPT !.db = <<"personal", "personal", Absent>>]}
PaneScenes == {Scene(4, {"share", "move"})}
ResizeScenes == {[Scene(4, {"resize", "move"}) EXCEPT !.laterSizes = TRUE]}
CensusScenes == {[Scene(4, {"delete", "pull", "move"}) EXCEPT !.max = 5, !.census = TRUE]}
FailScenes == {[Scene(4, {"share", "filter"}) EXCEPT !.faulty = {"share"}]}
FilterScenes == {Scene(4, {"type", "filter"})}
=============================================================================
