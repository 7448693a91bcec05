---------------------------- MODULE MCSharePool ----------------------------
(* Instances of SharePool: two teammates, up to three lessons, and the scenes. *)
EXTENDS SharePool, TLC

CONSTANTS p1, p2

Apart == {<<t, t>> : t \in Texts}
\* The second lesson rephrases the first.
Rephrased == Apart \cup {<<1, 2>>, <<2, 1>>}

\* Each lesson is learned by one peer; sharing races and is rejected.  By default git
\* leaves the loser alone with its commit; told to merge, it stops where the lines
\* are neighbours, and merges 1 and 3 around a 2 that both have.
Racing ==
  [near |-> Apart, writes |-> (p1 :> {2, 3}) @@ (p2 :> Texts \ {2, 3}), refuses |-> [p \in Peers |-> {}],
   reconciles |-> FALSE, unshares |-> FALSE, reshares |-> FALSE,
   versions |-> 5, faults |-> 0, crashes |-> 0]
Merging == [Racing EXCEPT !.reconciles = TRUE]
Interrupted == [Merging EXCEPT !.versions = 3, !.crashes = 1]

Simple == [Merging EXCEPT !.writes = (p1 :> {1}) @@ (p2 :> {2}), !.versions = 3]
\* Rows are unshared, deleted and duplicated; the network fails.
Withdrawing == [Simple EXCEPT !.near = Rephrased, !.unshares = TRUE]
Faulty == [Simple EXCEPT !.near = Rephrased, !.reshares = TRUE, !.faults = 1]
\* The second peer's scrubber refuses the first line.
Refusing ==
  [Racing EXCEPT !.writes = (p1 :> {1, 2}) @@ (p2 :> {3}), !.refuses = (p1 :> {}) @@ (p2 :> {1})]

PassingScenes == {Racing, Merging, Interrupted, Withdrawing, Faulty, Refusing}

\* Both peers learn both phrasings: breaks FetchFirstIsSuperset.
Skipping == {[Simple EXCEPT !.near = Rephrased, !.writes = [p \in Peers |-> {1, 2}]]}
\* A push fails: breaks ReportedMeansPublished, and RevertRestores.
Failing == {[Simple EXCEPT !.faults = 1]}
Reverting == {[Simple EXCEPT !.faults = 1, !.reshares = TRUE]}
\* A push loses a race: breaks RacesAreReconciled.
Losing == {[Simple EXCEPT !.reconciles = FALSE]}
=============================================================================
