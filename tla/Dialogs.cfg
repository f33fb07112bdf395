SPECIFICATION DialogSpec
CONSTANTS MaxFailures = 2
INVARIANTS
    HangCause
    DeafCause
    NothingLeaks
