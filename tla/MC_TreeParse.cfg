CONSTANTS
    sp = sp
    nul = nul
    a = a
    ff = ff
    Space <- sp
    Nul <- nul
    Letters = {a}
    NonUtf8 = {}
    OidLen = 2
    MaxLen = 10
SPECIFICATION Spec
INVARIANT InBounds
INVARIANT RoundTrip
CHECK_DEADLOCK FALSE
