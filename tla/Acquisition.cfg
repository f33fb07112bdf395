CONSTANTS
  MaxShots = 2
  MaxFaults = 1
  MAXNUM_TAQDATA = 3
SPECIFICATION Spec
INVARIANTS
  ResultIsTarget
  OwnRange
  NothingMissing
PROPERTIES
  LaserIsWanted
  AcquisitionEnds
CHECK_DEADLOCK FALSE
