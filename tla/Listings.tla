------------------------------- MODULE Listings -------------------------------
(* Lists of the elements of a finite set in a strict total order: what an   *)
(* ORDER BY makes, and a pass over a sequence that drops some of it.        *)
EXTENDS Naturals, FiniteSets, Sequences

\* The elements of S, each after those that come before it.
Listing(S, before(_, _)) ==
  [k \in 1 .. Cardinality(S) |-> CHOOSE x \in S : Cardinality({y \in S : before(y, x)}) = k - 1]

Ascending(S) == Listing(S, <)

\* The elements of a sequence at some of its places, in their order.
Pick(seq, S) == LET order == Ascending(S) IN [k \in DOMAIN order |-> seq[order[k]]]
===============================================================================
