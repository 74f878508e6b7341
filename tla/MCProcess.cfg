SPECIFICATION ProcFairSpec
CONSTANTS
    Main = Main
    Probes = Probes
    Restarts = {r1, r2}
INVARIANTS ProcTypeOK FailureNotMissed LoneRestartNoPanic SinksStopLast
PROPERTIES EndingEnds ProbesFailureEnds
CHECK_DEADLOCK FALSE
