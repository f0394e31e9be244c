CONSTANTS
    Thread = {t1, t2, t3}
    Runner = t1
    MaxSignals = 2
SPECIFICATION FairSpec
INVARIANTS TypeOK FinalizedOnce SuccessIsRecorded
PROPERTIES FailureNotForgotten ProcessEnds
