CONSTANTS
    sp = sp
    nul = nul
    a = a
    ff = ff
    Space <- sp
    Nul <- nul
    Letters = {a, ff}
    NonUtf8 = {ff}
    OidLen = 1
    MaxLen = 8
SPECIFICATION Spec
INVARIANT SqlAcceptsGitTrees
CHECK_DEADLOCK FALSE
