CONSTANTS
  SectorSize = 4
  PageSize = 2
  More = 2
  NSectors = 6
  Head = 2
  Tail = 1
  Calls <- AllCalls
  MaxCalls = 2
  MaxFaults = 2
SPECIFICATION FairSpec
INVARIANTS TypeOK WriteIsExact NeighboursUntouched ImageSparesTail PlainWritesAreExact
PROPERTIES VerifiedStays CallReturns
CHECK_DEADLOCK FALSE
