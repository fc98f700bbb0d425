SPECIFICATION FairSpec
CONSTANTS
    Threads = {t1, t2, t3}
    Objects = {o1, o2}
    NoObject = NoObject
    MaxCount = 4
    MaxOwned = 5
INVARIANTS CountsCover
PROPERTY UnownedDies
