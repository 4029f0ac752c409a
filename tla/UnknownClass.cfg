SPECIFICATION Spec
CONSTANTS
    Names <- TwoNames
    Covered <- AsCovered
    Columns <- SomeColumns
    Records <- SomeRecords
    MaxGroups = 2
    MaxColumns = 3
INVARIANTS UnknownClassRefused
