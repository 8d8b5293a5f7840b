CONSTANTS
    s1 = s1
    none = none
    Sessions = {s1}
    None <- none
    Nibbles = {0, 1}
    HexLen = 4
    MaxObjects = 3
    MaxFaults = 1
SPECIFICATION Spec
INVARIANT PrefixAnswerSound
