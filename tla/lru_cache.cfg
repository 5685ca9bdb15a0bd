CONSTANTS
  ka = ka
  kb = kb
  kc = kc
  kd = kd
  Keys = {ka, kb, kc, kd}
  KeyHash <- MCKeyHash
  NumShardBits = 2
  Charges = {1, 2}
  Clients = {c1, c2}
  Capacity = 5
  MaxInserts = 4
  MaxHold = 1
  MaxIds = 1
SPECIFICATION Spec
SYMMETRY MCSymmetry
INVARIANT TypeOK
INVARIANT ListsMatchRefs
INVARIANT RefsAccount
INVARIANT UsageAccount
INVARIANT LookupNeverStale
INVARIANT NoLeakAtDestroy
 
CHECK_DEADLOCK FALSE
