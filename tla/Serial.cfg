SPECIFICATION Spec
CONSTANTS
    r1 = r1
    r2 = r2
    r3 = r3
    Rentals = {r1}
    Workers = {w1}
    AssetOf <- MCAssetOf
    StartAt <- MCStartAt
    EndAt <- MCEndAt
    Total = 2
    LateRefund = 1
    PayoutTargets = {"PENDING", "SCHEDULED", "PAID", "BLOCKED", "CANCELLED"}
    MaxRefunds = 2
    MaxHandovers = 2
    MaxDisputes = 2
INVARIANT TypeOK
INVARIANT ActiveDisputeHoldsRental
INVARIANT PaidOnlyWhenCompleted
INVARIANT CancelledContract
INVARIANT RefundsMatchPayment
INVARIANT CallsAccepted
INVARIANT SomebodyCanAct
PROPERTY LivesByStages
PROPERTY ClosedStaysClosed
CHECK_DEADLOCK FALSE
