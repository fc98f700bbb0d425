SPECIFICATION FairEntriesSpec
CONSTANTS
    Threads = {t1, t2}
    Handles = {h1}
    NoHandle = NoHandle
    NoThread = NoThread
    NoHelper = NoHelper
INVARIANTS FlagsAreTrue  LockHasOneHolder
PROPERTIES HandleKept CallsReturn
CHECK_DEADLOCK FALSE
