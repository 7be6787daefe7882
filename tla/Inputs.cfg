SPECIFICATION Spec
CONSTANTS MaxLen = 5
          BufLen = 3
          SboxSize = 16
          MaxDisks = 4
          MB = 4
          Lunids = 2
          WwnLen = 5
          Ldevs = 2
          Half = 16
CHECK_DEADLOCK FALSE
INVARIANTS StringsAreKept CodecRoundTrips StreamsAreWhole CommandsArePassed RecordsAreRead VolumesReachEveryPath AnswersAreRead InventoryIsComplete
