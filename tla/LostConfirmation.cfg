SPECIFICATION LifecycleSpec
CONSTANTS
    r1 = r1
    r2 = r2
    r3 = r3
    Rentals = {r1}
    Workers = {w1, w2}
    AssetOf <- MCAssetOf
    StartAt <- MCStartAt
    EndAt <- MCEndAt
    Total = 2
    LateRefund = 1
    PayoutTargets = {"PENDING", "PAID"}
    MaxRefunds = 1
    MaxHandovers = 0
    MaxDisputes = 0
INVARIANT ActiveContractConfirms
CHECK_DEADLOCK FALSE
