SPECIFICATION PlatformSpec
CONSTANTS
    Focuses = {"removed"}
    Workers = {w1, w2}
    Users = {u1}
    MaxTokens = 3
    SignedAt <- MCSignedAt
    MaxMails = 2
    MaxUploads = 2
    Assets = {a1}
    MaxIncidents = 2
    MaxCancelled = 3
    Threshold = 2
    t1 = t1
    Trips = {t1, t2}
    Ratings = {2, 5}
    Records <- MCRecords
    Reports = {p1}
    Tickets = {k1}
    MaxEvents = 4
    d1 = d1
    d2 = d2
    Deals = {d1, d2}
    OwnerOf <- MCOwnerOf
    RenterOf <- MCRenterOf
    StaffId = 3
    MaxLines = 1
    Recipients = {renter}
    Window = 2
    StartsAt = 2
    MaxClock = 3
    o1 = o1
    o2 = o2
    Officers = {o1, o2}
    Chiefs = {o1, o2}
    Rentals = {r1}
    AssetOf <- MCAssetOf
    StartAt <- MCStartAt
    EndAt <- MCEndAt
    Total = 2
    LateRefund = 1
    PayoutTargets = {"PAID"}
    MaxRefunds = 1
    MaxHandovers = 2
    MaxDisputes = 0
    MaxCodes = 2
    Items = {1, 2, 3}
    Profiles <- MCProfiles
    Queries <- MCQueries
    Limit = 2
    MaxCandidates = 2
    Calls = {c1, c2, out}
    SignOut = out
    MaxPairs = 2
    Prices = {7, 10}
    Percents = {5, 10}
    MinDays = 1
    MaxDays = 3
SYMMETRY WorkerSymmetry
CHECK_DEADLOCK FALSE
INVARIANT RemovedNeverPublished
