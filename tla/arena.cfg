CONSTANTS
  kBlockSize = 4096
  PtrSize = 8
  NewAlign = 16
  Requests <- MCRequests
  MaxAllocs = 5
SPECIFICATION Spec
INVARIANT TypeOK
INVARIANT RegionsValid
INVARIANT AlignedResults
INVARIANT UsageCoversRequests
INVARIANT WasteBounded
CHECK_DEADLOCK FALSE
