SPECIFICATION FairSpec
CONSTANTS
    Clients = {c1}
    MaxFaults = 2
    Types = {"dial", "mail"}
    Deals = {"dial", "mail", "extra", "own"}
    Id <- DealIds
    Permitted <- DealTypes
    Seasonal = {"extra"}
    Plans <- OnePlan
    Records <- SomeRecords
    NoDeal = "none"
INVARIANTS TypeOK AsAsked InItsPlace YesMeansCreated
PROPERTIES EveryRecordIsAnswered
