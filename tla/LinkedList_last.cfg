SPECIFICATION Spec
CONSTANTS
  Lists = {l1}
  Nodes = {n1, n2, n3}
  Keys = {1, 2}
  Null = Null
  AddAfterSort = TRUE
SYMMETRY Interchangeable
INVARIANT LastIsLast
CHECK_DEADLOCK FALSE
