------------------------------ MODULE MCPlanner ------------------------------
EXTENDS Planner, TLC
CONSTANTS e1, e2, e3, e4, i1, i2
\* e1 and e2 ask for a plan of one incident; e3 and e4 are about another.
MCIncidentOf == e1 :> i1 @@ e2 :> i1 @@ e3 :> i2 @@ e4 :> i2
Symmetry == Permutations(Requests)
=============================================================================
