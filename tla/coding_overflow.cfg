CONSTANTS
  MaxPuts = 0
  SliceLens = {0}
  SliceBytes = {0}
  CorruptInputs <- MCCorrupt
INIT Init
NEXT Next
INVARIANT GetVarint32Faithful
CHECK_DEADLOCK FALSE
