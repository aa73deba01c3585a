CONSTANTS
    b0 = b0
    b1 = b1
    b2 = b2
    b3 = b3
    b4 = b4
    b5 = b5
    b6 = b6
    i1 = i1
    i2 = i2
    ChainDefault = b0
    NoImpl = NoImpl
    Bytes4 <- DispatchBytes4
    Reserved <- RegistryReserved
    Impls <- DispatchImpls
    implements <- DispatchImplements
    ClassInputs <- DispatchClasses
    EntryInputs <- DispatchEntries
    Batches <- DispatchBatches
SPECIFICATION Spec
CHECK_DEADLOCK FALSE
INVARIANTS
    VerifyBatchIsExact
