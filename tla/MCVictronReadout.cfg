\* Two bytes each for the address and the key stand for six and sixteen.
SPECIFICATION ReadoutSpec
CONSTANTS
    NotAvailable = NotAvailable
    NoFrame = NoFrame
    AddrLen = 2
    KeyLen = 2
    Texts <- MCTexts
    ShuntAddr <- MCShuntAddr
    ShuntKey <- MCShuntKey
    Frames <- MCFrames
INVARIANTS
    ConfigIsWhole
    StoredIsMeasured
CHECK_DEADLOCK FALSE
