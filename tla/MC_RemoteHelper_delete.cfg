CONSTANTS
    p1 = p1
    p2 = p2
    f1 = f1
    none = none
    main = main
    Helpers = {p1, p2, f1}
    Pushers = {p1, p2}
    Main <- main
    None <- none
    LocalObjects <- MC_LocalObjects
    LocalTip <- MC_LocalTip
    Nibbles = {0, 1}
    HexLen = 2
    ObjFaults = 0
    MaxFaults = 1
SPECIFICATION Spec
PROPERTY DeleteReported
CHECK_DEADLOCK FALSE
