SPECIFICATION Spec
CONSTANTS
  Keyscan = Keyscan
  Mcu = Mcu
  Keyin = Keyin
  Power = Power
  Producers <- MCProducers
  Codes <- MCCodes
  StopCodes <- MCStopCodes
  Main = Main
  NoThread = NoThread
  NoItem = NoItem
  MaxPosts = 2
  MaxNoMem = 1
INVARIANTS NoLostWakeup
PROPERTIES FifoSpec EventuallyHandled
\* the process ends when start-up fails, and stops for good at power off
CHECK_DEADLOCK FALSE
