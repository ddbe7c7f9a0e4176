SPECIFICATION BusyLoopSpec
CONSTANTS
    c1 = c1
    c2 = c2
    Convs <- TwoConvs
    Top <- TopOf
    MaxSeq = 5
    DeliveredCap = 2
INVARIANTS TypeOK BufferIsExact HoleIsTimed LoopsAgree
PROPERTIES SkipsOnlyAfterTimeout ImplementsOrderedDisplay BufferedIsShown
