\* Two lists over four nodes; the lists free and copy the values, or
\* leave them alone.
CONSTANTS
  Lists = {l1, l2}
  Nodes = {n1, n2, n3, n4}
  Values = {v1, v2, v3, v4}
  Null = Null
  Methods <- MCMethods
  JoinEmpty = FALSE
SPECIFICATION Spec
SYMMETRY Symmetry
INVARIANTS
  Linked
  IterationExact
  LookupsRight
  NoFault
PROPERTIES
  ImplementsSeq
