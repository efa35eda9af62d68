\* Every operation of the service, with Snapshot reads in between.
SPECIFICATION Spec
CONSTANTS
    a = a
    b = b
    buy = buy
    take = take
    fix = fix
    fix2 = fix2
    drop = drop
    soap = soap
    mop = mop
    RequestIds <- AllIds
    Names = {soap, mop}
    MaxQuantity = 2
    Limit = 3
    Operations <- WriteOps
    NoOperation = NoOperation
    NoProduct = NoProduct
    NoPurchase = NoPurchase
INVARIANTS
    TypeOK
    StockWithinLimits
    StockBalances
    PurchasesComplete
    AuditContinues
    AnsweredDone
    SnapshotAgrees
PROPERTIES
    DeletedFrozen
    LedgerSpec
