CONSTANTS
    sp = sp
    nul = nul
    a = a
    ff = ff
    Space <- sp
    Nul <- nul
    Letters = {a, ff}
    NonUtf8 = {ff}
    OidLen = 1
    MaxLen = 8
SPECIFICATION Spec
INVARIANT SqlMatchesC
CHECK_DEADLOCK FALSE
