CONSTANTS
    p1 = p1
    p2 = p2
    c1 = c1
    none = none
    main = main
    Clients = {p1, p2, c1}
    Pushers = {p1, p2}
    Main <- main
    None <- none
    LocalObjects <- MC_LocalObjects
    LocalTip <- MC_LocalTip
    Nibbles = {0, 1}
    HexLen = 2
    ObjFaults = 1
    MaxFaults = 0
SPECIFICATION Spec
INVARIANT CliRefsConnected
\* Every run of the tool exits at the end of its command.
CHECK_DEADLOCK FALSE
