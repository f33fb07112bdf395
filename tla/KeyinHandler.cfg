SPECIFICATION Spec
CONSTANTS
  Symbols <- MCSymbols
  LongKey = 1
  NoPost = NoPost
  NoThread = NoThread
  Scanner = Scanner
  Main = Main
  MaxStrokes = 2
  MaxLocks = 3
INVARIANTS NoStuckKey NoLostWakeup
PROPERTIES StreamSpec DestroyReturns
\* destroy is the end of the handler
CHECK_DEADLOCK FALSE
