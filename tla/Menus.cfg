SPECIFICATION MenuSpec
CONSTANTS
    Menus = {"ftmode", "dvmode", "irmode"}
    MaxFailures = 2
INVARIANTS
    CrashCause
