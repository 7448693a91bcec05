---------------------------- MODULE MCGraphIndex ----------------------------
(* What a graph says: the repositories of MCIndexBuild, whose builds fill  *)
(* graph.db, and the graphs of MCGraphQuery, which are asked.  A behaviour *)
(* is of one or of the other.                                              *)
EXTENDS MCIndexBuild, MCGraphQuery

Asked == [files |-> {}, packages |-> {}]
NoGraph == [symbols |-> <<>>]

GraphInit ==
  \/ /\ MCInit
     /\ graph = NoGraph /\ answer = NoAnswer
  \/ /\ scene = Asked /\ IndexInit
     /\ QueryInit
GraphNext ==
  \/ /\ scene # Asked
     /\ IndexNext /\ OfScene /\ UNCHANGED queryVars
  \/ /\ scene = Asked
     /\ QueryNext /\ UNCHANGED indexVars
GraphSpec == GraphInit /\ [][GraphNext /\ UNCHANGED scene]_<<indexVars, scene, queryVars>>
=============================================================================
