SPECIFICATION Spec
CONSTANTS
  MayFail <- MCNoneFail
  MaxDialogs = 4
PROPERTIES SessionSpec
\* a null dereference ends the process
CHECK_DEADLOCK FALSE
