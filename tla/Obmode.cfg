CONSTANTS
  Settings = {"level"}
  Top = 2
  MaxLate = 1
  MaxFaults = 1
  MaxAdjust = 1
SPECIFICATION Spec
INVARIANTS
  PartsAgree
  SettingsSurvive
  AcceptedIsKept
  FreedOnce
PROPERTIES
  SavedShift
  ChangeEnds
CHECK_DEADLOCK FALSE
