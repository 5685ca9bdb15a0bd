CONSTANTS
  Keys <- MCKeys
  Hashes <- MCHashes
  KeyHashes <- MCKeyHashes
  MaxOps = 6
SPECIFICATION Spec
INVARIANT TypeOK
INVARIANT TableShape
PROPERTY AbsSpec
CHECK_DEADLOCK FALSE
