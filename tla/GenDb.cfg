SPECIFICATION Spec
CONSTANTS Calls <- Commands
          Values = {"0", "1"}
          MaxRows = 2
          MaxCalls = 4
CHECK_DEADLOCK FALSE
INVARIANTS ProgramIsWhole
PROPERTIES AsAsked ReadsAreRows CursorIsFreed
