SPECIFICATION Spec
CONSTANTS
  CardA = CardA
  CardB = CardB
  Cards <- MCCards
  NoCard = NoCard
  FileSize <- MCFileSize
  Offset <- MCOffset
  Limit <- MCLimit
  Old = Old
  Zero = Zero
  Cyl = 2
  EmmcSize = 10
  MaxChanges = 2
  MaxFaults = 1
  MaxUpdates = 2
INVARIANTS ProgressIsDurable SuccessIsWholeCard DoneIsWhole RestIsIntact
PROPERTIES UpdateReturns
\* the device may lose power, and the user may stop
CHECK_DEADLOCK FALSE
