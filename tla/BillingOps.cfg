SPECIFICATION FairSpec
CONSTANTS
    Clients = {"c1"}
    Requests <- UsedRequests
    Worlds <- UsedWorlds
    MaxCount = 3
    MaxFaults = 1
INVARIANTS TypeOK OnceUnlessLost YesMeansDone HalfActiveOnlyAfterFault NoBlindWrite
PROPERTIES EveryPromisingRequestSucceeds
