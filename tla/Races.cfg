SPECIFICATION LifecycleSpec
CONSTANTS
    r1 = r1
    r2 = r2
    r3 = r3
    Rentals = {r1}
    Workers = {w1, w2}
    AssetOf <- MCAssetOf
    StartAt <- MCStartAt
    EndAt <- MCEndAt
    Total = 2
    LateRefund = 1
    PayoutTargets = {"PENDING", "PAID"}
    MaxRefunds = 1
    MaxHandovers = 2
    MaxDisputes = 1
INVARIANT Inv
INVARIANT PaidBeforeSigning
INVARIANT SignedBeforeHandover
INVARIANT DeliveredBeforeReturn
INVARIANT ActiveContractSigned
INVARIANT OneActiveDispute
PROPERTY SettledOnce
PROPERTY HandedOverOnce
SYMMETRY WorkerSymmetry
CHECK_DEADLOCK FALSE
