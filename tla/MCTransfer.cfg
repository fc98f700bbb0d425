SPECIFICATION Spec
CONSTANTS
    BandRows <- MCBandRows
    Expected <- MCExpected
    MaxBands = 3
INVARIANTS CommitAfterCleanup VerdictIsOriginal
PROPERTIES ProgressIsHonest NothingAfterRefusal
CHECK_DEADLOCK FALSE
