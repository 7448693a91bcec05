---------------------------- MODULE MCSchemaLadder ----------------------------
(* Instances of SchemaLadder: three processes, and the scenes. *)
EXTENDS SchemaLadder

CONSTANTS p1, p2, p3

\* Three processes open a file that does not exist yet, ...
First == [procs |-> {p1, p2, p3}, starts |-> {Fresh}, collisions |-> {FALSE},
          operator |-> FALSE, crashes |-> 0]
\* ... or one of a version at which two ladders cannot undo one another.
Race == [First EXCEPT !.starts = {8, 9, 10}, !.crashes = 1]
\* One at a time brings up a file of any version, with an operator or without.
Upgrade == {[First EXCEPT !.procs = {p1}, !.starts = Versions, !.collisions = {TRUE, FALSE},
                          !.operator = o, !.crashes = 2] : o \in BOOLEAN}

PassingScenes == {First, Race} \cup Upgrade

\* Two ladders that can: breaks VersionNeverDecreases and SharesSurvive.
Slower == {[First EXCEPT !.procs = {p1, p2}, !.starts = 3..7]}
\* A kill in the fresh DDL: breaks EveryOpenSucceeds.
Torn == {[First EXCEPT !.procs = {p1}, !.crashes = 1]}
=============================================================================
