SPECIFICATION FairSpec
CONSTANTS
    BandSizes <- MCBandSizes
    Widths <- MCWidths
    MaxBands = 2
    MaxUnits = 3
INVARIANTS  SuccessIsComplete
PROPERTIES CommandsAllowed DeliversDrainedBands
    CancelDrainsFirstImage CancelledFirstWait JobReturns ImplementsContract
CHECK_DEADLOCK FALSE
