SPECIFICATION Spec
CONSTANTS
    Attacks = {port_scan, syn_flood}
    Threads = {t1, t2, t3}
    NoAttack = NoAttack
INVARIANT ActiveHasWorker
PROPERTY StoppedComesToRest
CHECK_DEADLOCK FALSE
