SPECIFICATION FairSpec
CONSTANTS
    Clients = {"c1"}
    Auths = {"p1", "p2", "p3"}
    Anonymous <- Nameless
    NoAmount <- Amountless
    None = "none"
    MaxFaults = 2
INVARIANTS OwnAmount
PROPERTIES TrueMeansRecorded EveryAuthSettles
