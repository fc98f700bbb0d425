SPECIFICATION FairSlotSpec
CONSTANTS
    Threads = {t1, t2, t3}
    Handles = {h1, h2}
    NoHandle = NoHandle
    NoThread = NoThread
INVARIANTS HandlesKept
PROPERTIES TransientResolves ImplementsContract
