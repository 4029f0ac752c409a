SPECIFICATION FairSpec
CONSTANTS
    Sources = {"f1", "f2"}
    Lines = 2
    Copies = 3
    Places <- PlacesUsed
    Configs <- Working
    Lands <- LandsIn
    Sees <- SeenFrom
    Inbox = "pending.in"
    Outcomes = {"Processed"}
    TooLong = {}
    MaxFds = 20
    MaxFaults = 2
    MaxWorked = 4
INVARIANTS TypeOK NoLoss BackupFirst TwiceOnlyAfterFault
PROPERTIES NothingOverwritten EveryFileSettles
