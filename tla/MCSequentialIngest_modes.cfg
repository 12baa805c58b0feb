SPECIFICATION FairSpec

CONSTANTS
    Reader = reader
    Batcher = batcher
    Nothing = nothing
    DataTypesSupported <- AllDataTypes
    Samples <- SampleNumbers
    Words <- SampleWords
    Messages <- MessageNames
    Value <- Values
    Configs <- BothModes
    BatchSize = 2
    EventCap = 1
    MaxFetched = 3
    Faults <- StoreAndStop

INVARIANT RowsAreWellFormed
INVARIANT DuplicatesShareTheBusinessKey
PROPERTY ContractSpec
PROPERTY ShutdownCompletes
