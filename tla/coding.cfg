CONSTANTS
  MaxPuts = 3
  SliceLens = {0, 1, 128}
  SliceBytes = {0, 255}
  CorruptInputs <- MCNoCorrupt
INIT Init
NEXT Next
INVARIANT RoundTrip SizesMatch
CHECK_DEADLOCK FALSE
