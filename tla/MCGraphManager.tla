--------------------------- MODULE MCGraphManager ---------------------------
(* Instances of GraphManager: two callers in one process and a third in      *)
(* another, a tree whose second version does not build, and the scenes.      *)
EXTENDS GraphManager, TLC

CONSTANTS p1, p2, c1, c2, c3

MCHome == [c \in Callers |-> IF c = c3 THEN p2 ELSE p1]

\* c1 makes the calls of a, c2 those of b, c3 those of c.
By(a, b, c) == [d \in Callers |-> CASE d = c1 -> a [] d = c2 -> b [] d = c3 -> c]

Scene == [ops |-> By({"query"}, {"query"}, {}), starts |-> {1, 3}, versions |-> {1, 3},
          jobs |-> {1, 2}, edits |-> 1, crashes |-> 0, faults |-> 0, inos |-> 0,
          reverts |-> FALSE, closes |-> FALSE, hangs |-> FALSE]

\* WaitBuild calls and queries over asynchronous builds that supersede each other
\* or fail, and a build that replaces the file under open handles.
Superseding == [Scene EXCEPT !.ops = By({"wait"}, {"query"}, {}), !.starts = {1}]
Failing == [Scene EXCEPT !.ops = By({"wait"}, {"wait"}, {}), !.starts = {1}, !.versions = {1, 2}, !.faults = 1]
Replacing == [Scene EXCEPT !.ops = By({"wait"}, {"wait"}, {}), !.edits = 0, !.inos = 1]
\* Queries, forced Index calls, first builds, a fault and Close.
Contending == [Scene EXCEPT !.ops = By({"query", "index"}, {"query", "index"}, {}),
                            !.edits = 0, !.faults = 1, !.closes = TRUE]
\* Two processes over one graph file.
Sharing == [Scene EXCEPT !.ops = By({"query"}, {}, {"query"}), !.edits = 0]

\* An edit to a version that builds, to the one that does not, and from it.
Edited == {[Scene EXCEPT !.starts = {v[1]}, !.versions = v[2]] :
           v \in {<<1, {1, 3}>>, <<3, {3}>>, <<1, {1, 2}>>}}
          \cup {[Scene EXCEPT !.ops = By({"query"}, {}, {}), !.starts = {2}, !.versions = {2, 3}]}
\* A builder is killed; the other process, or the restarted one, goes on.
Killed == [Scene EXCEPT !.ops = By({"query"}, {}, {"query"}), !.starts = {1}, !.edits = 0, !.crashes = 1]
\* Every build hangs.
Hung == [Scene EXCEPT !.ops = By({"wait"}, {"wait"}, {}), !.edits = 0, !.hangs = TRUE]

SafetyScenes == {Superseding, Sharing, Failing, Replacing, Contending, Killed}
LiveScenes == Edited \cup {Killed, Hung}

\* A version comes back with the stamp it had.
Undone == {[Scene EXCEPT !.ops = By({"wait"}, {"wait"}, {}), !.starts = {1}, !.versions = {1, 2},
                         !.edits = 2, !.reverts = TRUE]}

\* Close while somebody waits: breaks NoStrandedWaiter.
Closing == {[Scene EXCEPT !.ops = By({"wait"}, {"wait"}, {}), !.closes = TRUE]}

CallerSymmetry == Permutations({c1, c2})
=============================================================================
