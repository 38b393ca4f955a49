------------------------------ MODULE MCMcrList ------------------------------
(* McrList on small sets, for TLC. *)
EXTENDS McrList, TLC

\* Only pointers to nodes, lists and values are compared, and for equality.
Symmetry == Permutations(Nodes) \union Permutations(Lists) \union Permutations(Values)

\* With a free method and without dup a copy shares the values that each list
\* frees: no caller may do that.
MCMethods == {{}, {"free", "dup"}}
=============================================================================
