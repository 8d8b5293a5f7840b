\* A git_transaction holds a ref while another session writes it.
CONSTANTS
    s1 = s1  s2 = s2  r1 = r1  r2 = r2  o1 = o1  o2 = o2
    Sessions = {s1, s2}
    Names = {r1, r2}
    Oids = {o1, o2}
    NoRef = NoRef  Untouched = Untouched  None = None  NoOne = NoOne  Gone = Gone
    MaxOps = 2
    MaxTokens = 1
    MaxFaults = 0
SPECIFICATION Spec
PROPERTIES LockedRefStable
\* The clients' calls are bounded; once all have returned nothing is enabled.
CHECK_DEADLOCK FALSE
SYMMETRY Symmetry
