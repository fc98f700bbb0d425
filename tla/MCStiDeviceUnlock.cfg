SPECIFICATION Spec
CONSTANTS
    Threads = {t1, t2}
    Handles = {h1, h2}
    NoHandle = NoHandle
    NoThread = NoThread
    NoHelper = NoHelper
PROPERTY UnlockRefusedWhileLent
CHECK_DEADLOCK FALSE
