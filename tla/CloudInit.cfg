\* Two inits that are retried, and a command that loads one of the workspaces.
CONSTANTS
    u1 = u1  u2 = u2  k1 = k1  d1 = d1  d2 = d2
    r1 = r1  r2 = r2  r3 = r3  r4 = r4  r5 = r5  r6 = r6
    User = {u1, u2}
    Reader = {k1}
    Dir = {d1, d2}
    RepoId = {r1, r2, r3, r4, r5, r6}
    MaxFaults = 2
SPECIFICATION OrderedSpec
INVARIANTS TypeOK OwnRepository ReadyMeansPublished BadConfigMeansRemoved StoresAgree InitInv
PROPERTIES InitSucceeds
CHECK_DEADLOCK FALSE
