-------------------------- MODULE MCSessionStaging --------------------------
(* Instances of SessionStaging: up to two sessions and two hook processes at *)
(* a time over one path, and the scenes.                                     *)
EXTENDS SessionStaging, TLC

CONSTANTS s1, s2, q1, q2, p1

Scene == [sessions |-> {s1}, edits |-> 3, stages |-> 1, faults |-> 0, kills |-> 0,
          parallel |-> FALSE, slow |-> FALSE]

\* The hooks of one session overlap freely, and one of them is killed.
Overlapping == [Scene EXCEPT !.stages = 2, !.kills = 1, !.parallel = TRUE]
\* They run one after the other, and the session stages twice.
Turns == [Scene EXCEPT !.edits = 4, !.stages = 2, !.kills = 1]
\* Two sessions and two recoveries.
Orphans == [Scene EXCEPT !.sessions = {s1, s2}, !.edits = 2]

SafetyScenes == {Overlapping, Turns, Orphans}

\* A crashed session is recovered, by a store that works or one that fails once.
Recovered == [Scene EXCEPT !.edits = 2, !.kills = 1]
Unsaved == [Recovered EXCEPT !.faults = 1]

LiveScenes == {Recovered, Unsaved}

\* A session that does not stage for half an hour: breaks LiveSessionIsShielded.
Slow == {[Scene EXCEPT !.slow = TRUE]}
\* A stage beside an edit: breaks BlocksOnlyWhenStale.
Nagging == {[Scene EXCEPT !.edits = 4, !.stages = 2, !.parallel = TRUE]}
\* A save that fails: breaks EarnedSummaryIsKept.
Failing == {[Scene EXCEPT !.faults = 1]}
\* A session that crashes before it staged: breaks NoLitter.
Littering == {[Scene EXCEPT !.edits = 2]}

Symmetry == Permutations({q1, q2}) \cup Permutations({s1, s2})
=============================================================================
