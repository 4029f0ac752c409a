SPECIFICATION FairSpec
CONSTANTS
    N = 3
    Layouts <- SmallFiles
    Hopeless = {2}
    MaxFaults = 3
INVARIANTS TypeOK OnceUnlessStruck TrueMeansDone
PROPERTIES LedgerSpec EveryCommandSettles
