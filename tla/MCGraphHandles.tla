--------------------------- MODULE MCGraphHandles ---------------------------
(* Instance of GraphHandles: two processes, three queries, two of them in   *)
(* one process, and one handle more than can be reachable at once.          *)
EXTENDS GraphHandles

CONSTANTS p1, p2, u1, u2, u3

MCHome == [u \in {u1, u2, u3} |-> IF u = u3 THEN p2 ELSE p1]
MCFiles == {1, 2}

\* The handles and files a step leaves reachable never outgrow the identifiers,
\* so Open is never disabled for want of one.
AlwaysAllocatable == \E h \in Handles : Unreachable(h)
=============================================================================
