SPECIFICATION Spec
CONSTANTS
  MayFail <- MCAllFail
  MaxDialogs = 3
INVARIANTS CrashCauses AligningIsShown ResultIsSeen
PROPERTIES KeysComeBack
\* a null dereference ends the process
CHECK_DEADLOCK FALSE
