SPECIFICATION FairSpec
CONSTANTS
    N = 3
    Layouts <- SmallFiles
    FirstMarks = {"open", "done", "none"}
    Targets = {"all", "done", "dup", "error"}
    Answers = {"done", "dup"}
    Refusals = {"error", "loaderr"}
    Throwing = {3}
    MaxFaults = 2
INVARIANTS TypeOK OnceUnlessStruck HonestResult
PROPERTIES LedgerSpec EveryRecordSettles
