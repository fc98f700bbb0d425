SPECIFICATION FairSpec
CONSTANTS
    scanner = scanner
    second = second
    printer = printer
    NoNode = NoNode
    Nodes = {scanner, second, printer}
    KindOf <- MCKindOf
    StatesOf <- MCStatesOf
    PipeLists <- MCPipeLists
    MaxInterfaces = 2
    MaxTries = 2
    MaxIdTries = 2
    MaxDevices = 3
    MaxCandidates = 2
    Count = 2
    MaxBands = 2
    Replies <- MCReplies
    Bands <- MCBands
INVARIANTS OpensTheOnlyScanner HandlesUnwound InstallsOnlyTheNamedUnbound DoctorTellsTheBus CompleteMeansComplete OnlyItsOwnDirectory
PROPERTY ProgramsEnd
CHECK_DEADLOCK FALSE
