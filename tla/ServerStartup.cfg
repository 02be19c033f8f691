\* Two tests at once, of either store, and two ports.
CONSTANTS
    t1 = t1  t2 = t2
    Test = {t1, t2}
    Port = {1, 2}
    MaxLines = 1
SPECIFICATION Spec
INVARIANTS UrlReachesOwnServer NoServerForSqlite PanicHasReason AnswersServing StartupInv
PROPERTIES HarnessEnds
CHECK_DEADLOCK FALSE
