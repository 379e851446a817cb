SPECIFICATION Spec
CONSTANTS
  Short = 2
  LongPrefill = 4
  RowsM = 2
  Segs = 2
  SplitTile = 2
  PlainTile = 4
  Threshold = 8
  Capacity = 6
  Calls <- SmallCalls
  NoCall = NoCall
INVARIANTS
  ScratchInBounds
  NoStalePartial
  DividedOnce
  ShortRowsSequential
  LongRowsAsBaseline
