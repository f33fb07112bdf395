SPECIFICATION Spec
CONSTANTS
  MaxInFlight = 1
  MaxNotices = 1
  MaxFaults = 1
INVARIANTS BeliefIsTrue AnswerIsMine
PROPERTIES CallReturns
