CONSTANTS
  Keys <- MCKeys
  Readers = {r1}
  MaxAdds = 3
  MaxHeight = 2
SPECIFICATION FairSpec
INVARIANT TypeOK
INVARIANT IndexOrdered
INVARIANT RefsMatchHolders
INVARIANT ScanConsistent
PROPERTY AbsSpec
PROPERTY GetTerminates
PROPERTY EventuallyFreed
\* A deleted MemTable has no operations left: the behaviour ends there.
CHECK_DEADLOCK FALSE
