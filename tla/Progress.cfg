SPECIFICATION ProgressSpec
CONSTANTS
    r1 = r1
    r2 = r2
    r3 = r3
    Rentals = {r1, r2}
    Workers = {w1, w2}
    AssetOf <- MCAssetOf
    StartAt <- MCStartAt
    EndAt <- MCEndAt
    Total = 2
    LateRefund = 1
    PayoutTargets = {"PENDING", "PAID"}
    MaxRefunds = 1
    MaxHandovers = 0
    MaxDisputes = 0
    PassSize = 1
    MaxNewer = 1
    MaxPhotos = 2
    MaxRestarts = 1
PROPERTY RequestsFinish
PROPERTY AnalysisSettles
CHECK_DEADLOCK FALSE
