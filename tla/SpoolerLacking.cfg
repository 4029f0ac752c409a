SPECIFICATION Spec
CONSTANTS
    Sources = {"f1", "f2"}
    Lines = 1
    Copies = 2
    Places <- PlacesUsed
    Configs <- Lacking
    Lands <- LandsIn
    Sees <- SeenFrom
    Inbox = "pending.in"
    Outcomes = {"Processed", "NoChange", "Spool"}
    TooLong <- OverlongOne
    MaxFds = 7
    MaxFaults = 1
    MaxWorked = 2
INVARIANTS NoLoss BackupFirst
