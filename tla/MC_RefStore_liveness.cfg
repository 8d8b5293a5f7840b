\* Liveness: two sessions, two refs, one oid, no injected failures (wait
\* cycles are still broken by the deadlock detector). No symmetry: it is
\* unsound for liveness checking.
CONSTANTS
    s1 = s1  s2 = s2  r1 = r1  r2 = r2  o1 = o1  o2 = o2
    Sessions = {s1, s2}
    Names = {r1, r2}
    Oids = {o1}
    NoRef = NoRef  Untouched = Untouched  None = None  NoOne = NoOne  Gone = Gone
    MaxOps = 2
    MaxTokens = 1
    MaxFaults = 0
SPECIFICATION FairSpec
PROPERTIES TransactionsEnd
\* The clients' calls are bounded; once all have returned nothing is enabled.
CHECK_DEADLOCK FALSE
