SPECIFICATION Spec
CONSTANTS
  CardA = CardA
  CardB = CardB
  Cards <- MCCards
  NoCard = NoCard
  MaxChanges = 5
  MaxFaults = 1
INVARIANTS StaleMountEnds
PROPERTIES InsertedIsMounted DestroyReturns
\* the interface can be destroyed, and the user may stop changing the card
CHECK_DEADLOCK FALSE
