SPECIFICATION FairSpec
CONSTANTS
  Lists = {l1, l2}
  Nodes = {n1, n2, n3}
  Keys = {1, 2}
  Null = Null
  AddAfterSort = FALSE
INVARIANTS ListIsIntact
PROPERTIES ImplementsListSeq LoopsEnd
CHECK_DEADLOCK FALSE
