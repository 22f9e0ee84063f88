------------------------------ MODULE GraphSetup ------------------------------
(* What precedes a run: the nodes get their configs, then a graph is built    *)
(* and validated.  The bound of the composition: configs that are not empty   *)
(* are followed by no graph.                                                  *)
EXTENDS GraphBuild, ContentHash

vars == <<graphVars, hashVars>>

Init == BuildInit /\ HashInit

Configure == wiring = <<>> /\ HashNext /\ UNCHANGED graphVars

Build ==
  /\ \A p \in DOMAIN configs : configs[p] = <<>>
  /\ BuildNext
  /\ UNCHANGED hashVars

Next == Configure \/ Build

Spec == Init /\ [][Next]_vars
=============================================================================
