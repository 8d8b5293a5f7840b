\* A git_transaction locking two refs, racing a write.
CONSTANTS
    s1 = s1  s2 = s2  r1 = r1  r2 = r2  o1 = o1  o2 = o2
    Sessions = {s1, s2}
    Names = {r1, r2}
    Oids = {o1}
    NoRef = NoRef  Untouched = Untouched  None = None  NoOne = NoOne  Gone = Gone
    MaxOps = 3
    MaxTokens = 2
    MaxFaults = 0
SPECIFICATION Spec
PROPERTIES ReflogAtomic
\* The clients' calls are bounded; once all have returned nothing is enabled.
CHECK_DEADLOCK FALSE
SYMMETRY Symmetry
