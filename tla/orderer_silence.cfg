SPECIFICATION FairLoopSpec
CONSTANTS
    c1 = c1
    c2 = c2
    Convs <- OneConv
    Top <- TopOf
    MaxSeq = 3
    DeliveredCap = 2
PROPERTY ExpiredHoleIsReleased
