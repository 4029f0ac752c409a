SPECIFICATION Spec
CONSTANTS
    Clients = {"c1", "c2"}
    Auths = {"p1"}
    Anonymous = {}
    NoAmount = {}
    None = "none"
    MaxFaults = 3
INVARIANTS TypeOK OnceUnlessStruckOrRaced
