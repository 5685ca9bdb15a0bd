CONSTANTS
  BlockSize <- MCBlockSize
  HeaderSize = 7
  PayloadLens <- MCPayloadLens
  Messages <- MCMessages
  MaxCalls = 3
  MaxFailures = 1
  MaxCrashes = 1
  PadCanFail = FALSE
  RetryAfterError = FALSE
  ReuseLogs = FALSE
SPECIFICATION Spec
INVARIANT NoResurrection
