CONSTANTS
    Thread = {t1, t2}
    Runner = t1
    MaxSignals = 1
SPECIFICATION FairSpec
INVARIANTS SignalFinalizesTrace
