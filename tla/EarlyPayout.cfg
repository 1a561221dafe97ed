SPECIFICATION Spec
CONSTANTS
    r1 = r1
    r2 = r2
    r3 = r3
    Rentals = {r1}
    Workers = {w1}
    AssetOf <- MCAssetOf
    StartAt <- MCStartAt
    EndAt <- MCEndAt
    Total = 2
    LateRefund = 1
    PayoutTargets = {"PENDING", "PAID"}
    MaxRefunds = 0
    MaxHandovers = 2
    MaxDisputes = 1
INVARIANT PaidAfterDelivery
CHECK_DEADLOCK FALSE
