SPECIFICATION FairSpec
CONSTANTS
    BuffMax = 3
    MaxBytes = 5
    MaxSignals = 2
INVARIANTS EndingIsTrue
PROPERTIES EveryCallReturns
