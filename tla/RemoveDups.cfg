SPECIFICATION DupsSpec
CONSTANTS
  Lists = {devs}
  Nodes = {1, 2, 3, 4, 5}
  Keys = {0}
  Null = Null
  AddAfterSort = FALSE
  devs = devs
  Ids = {0, 1, 2}
INVARIANTS DeviceKept NoDuplicateLeft
PROPERTY RemoveDupsEnds
CHECK_DEADLOCK FALSE
