\* The writer against a failing sink and a crashing process, with a new
\* log started after every crash.
CONSTANTS
  BlockSize <- MCBlockSize
  HeaderSize = 7
  PayloadLens <- MCPayloadLens
  Messages <- MCMessages
  MaxCalls = 3
  MaxFailures = 1
  MaxCrashes = 1
  PadCanFail = FALSE
  RetryAfterError = FALSE
  ReuseLogs = FALSE
SPECIFICATION Spec
INVARIANT TypeOK
INVARIANT RecordsInBlocks
INVARIANT ReaderIntegrity
INVARIANT Durability
INVARIANT WriterInSync
INVARIANT ReturnsSinkError
