SPECIFICATION FairTreeSpec
CONSTANTS
    Threads = {t1, t2, t3}
    Devices = {d1, d2}
    MaxClients = 2
    NoConnection = NoConnection
    NoJob = NoJob
INVARIANTS ConnectionIsWhole PartialNeverScanned CancelAnswered
PROPERTIES LocksGivenBack BusyResolves
CHECK_DEADLOCK FALSE
