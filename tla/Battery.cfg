SPECIFICATION BatterySpec
CONSTANTS
  Volts <- MCVolts
  MaxPending = 4
PROPERTIES LevelNeverRises EmptyTurnsOff
\* the device is turned off
CHECK_DEADLOCK FALSE
