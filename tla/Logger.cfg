SPECIFICATION FairSpec
CONSTANTS
    g1 = g1
    g2 = g2
    f1 = f1
    f2 = f2
    f3 = f3
    f4 = f4
    NoFile = NoFile
    Nobody = Nobody
    Goroutine <- MCGoroutine
    File <- MCFile
    MaxSize = 2
    MaxBackups = 2
    MaxEntries = 8
INVARIANTS LoggerTypeOK WritesGoToCurrent SizeBounded
PROPERTIES OldestDroppedFirst CallsReturn
