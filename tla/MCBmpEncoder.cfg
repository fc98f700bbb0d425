SPECIFICATION Spec
CONSTANTS
    Widths <- MCWidths
    RowCounts <- MCRowCounts
    Dpis <- MCDpis
    MaxRowBytes = 6
    MaxPixelBytes = 6
    MaxBands = 4
    MaxInt = 20000
    MaxFileSize = 33
INVARIANTS FileIsAsPromised SizesFit
PROPERTY ImplementsContract
CHECK_DEADLOCK FALSE
