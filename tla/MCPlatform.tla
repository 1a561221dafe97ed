----------------------------- MODULE MCPlatform ----------------------------
(* The services around the rental, over one database.  A behaviour explores *)
(* one part of it, its focus, while the rows of the others stay as they are. *)
EXTENDS StaffDesks, RiskService, SupportService, Conversations,
        ReminderJobs, HandoverQr, Search,
        MobileSession, AppCache, Pricing, TLC

CONSTANTS
    Focuses,            \* the parts to explore
    d1, d2, o1, o2, t1

VARIABLES
    focus,
    removed     \* history: listings that were removed

\* no handler tells the workers apart
WorkerSymmetry == Permutations(Workers)

MCOwnerOf == [d \in Deals |-> IF d = d1 THEN 1 ELSE 2]
MCRenterOf == [d \in Deals |-> IF d = d1 THEN 2 ELSE 1]

\* the first two tokens of a user are signed in the same second
MCSignedAt == [n \in 1 .. MaxTokens |-> IF n < 3 THEN 1 ELSE 2]

MCAssetOf == [r \in Rentals |-> "asset"]
MCStartAt == [r \in Rentals |-> 1]
MCEndAt == [r \in Rentals |-> 3]

\* a dispute is opened
MCRecords ==
    [n \in {1, 2} |-> [verified |-> TRUE, completed |-> 7, ageDays |-> 40,
                      openDisputes |-> n - 1, overdue |-> 0, openRisks |-> 0]]

Period(kind, from, to) == [kind |-> kind, from |-> from, to |-> to]
Listed(state, price, rating, rented, km, delivery, windows, rentals) ==
    [status |-> state, price |-> price, rating |-> rating, rented |-> rented,
     km |-> km, delivery |-> delivery, windows |-> windows, rentals |-> rentals]
MCProfiles ==
    {Listed("ACTIVE", 1, 5, 0, 3, TRUE, {}, {Period("ONGOING", 3, 5)}),
     Listed("ACTIVE", 2, 3, 2, Unknown, FALSE,
            {Period("AVAILABLE", 1, 5), Period("BLOCKED", 2, 3)},
            {Period("AWAITING_PAYMENT", 5, 6)}),
     Listed("ACTIVE", 1, 3, 1, 8, TRUE, {Period("BLOCKED", 5, 6)},
            {Period("COMPLETED", 1, 9), Period("CONFIRMED", 1, 2)}),
     Listed("PAUSED", 2, 5, 1, 3, TRUE, {}, {})}
MCQueries ==
    [sort : {"newest", "lowest-price", "highest-price", "highest-rating",
             "most-rented", "nearest"},
     delivery : BOOLEAN, minRating : {0, 4}, radius : {Unknown, 5},
     dates : {NoDates, [from |-> 2, to |-> 3], [from |-> 3, to |-> 5],
              [from |-> 4, to |-> 6]},
     staff : BOOLEAN]

----------------------------------------------------------------------------
(* One listing on show, with a review of its owner, can be reported.  It   *)
(* can be removed as well in the focus "removed" only.                     *)
ReportsBegin ==
    /\ account = [u \in Users |-> "ACTIVE"]
    /\ listing = [a \in Assets |-> "ACTIVE"]
    /\ favorites = {}
    /\ reviews = [t \in Trips |-> IF t = t1 THEN <<[rating |-> 2, status |-> "PUBLISHED"]>>
                                            ELSE <<>>]
    /\ editable = {}
    /\ standing = 1
    /\ counted = standing
    /\ score = TrustScore(counted)
    /\ behind = FALSE

(* A rental that was delivered can be returned.                            *)
RentalBegin ==
    /\ status = [r \in Rentals |-> "ONGOING"]
    /\ handovers = [r \in Rentals |-> <<[type |-> "DELIVERY", status |-> "CONFIRMED"]>>]
    /\ elapsed = [r \in Rentals |-> FALSE]
    /\ payment = [r \in Rentals |-> "SUCCESS"]
    /\ paidAt = [r \in Rentals |-> TRUE]
    /\ refunds = [r \in Rentals |-> <<>>]
    /\ payout = [r \in Rentals |-> "PENDING"]
    /\ contract = [r \in Rentals |-> "ACTIVE"]
    /\ signed = [r \in Rentals |-> Parties]
    /\ disputes = [r \in Rentals |-> <<>>]

(* A listing awaiting review can be approved, and removed, from a phone.   *)
Offered ==
    /\ listing = [a \in Assets |-> "PENDING_REVIEW"]
    /\ favorites = {}

Init ==
    /\ focus \in Focuses
    /\ removed = {}
    /\ NothingIssued
    /\ IF focus \in {"reports", "removed"} THEN ReportsBegin
       ELSE /\ UserInit
            /\ IF focus = "cache" THEN Offered ELSE ListingInit
            /\ ReputationInit
    /\ RiskInit
    /\ ReportInit
    /\ SupportInit
    /\ ChatInit
    /\ ReminderInit
    /\ StaffInit
    /\ RentalBegin
    /\ QrInit
    /\ SearchInit
    /\ focus # "search" =>
          /\ query = CHOOSE q \in Queries : TRUE
          /\ catalog = [i \in Items |-> CHOOSE p \in Profiles : TRUE]
    /\ DeviceInit
    /\ CacheInit
    /\ PricingInit
    /\ focus # "prices" =>
          tariff = CHOOSE t \in [price : Prices, fee : Percents, commission : Percents] : TRUE

accounts == userTables
market == <<listingVars, riskVars>>
desk == <<supportVars, staffVars, reportVars>>
talk == <<chatVars, reminderVars>>
rental == <<tables, qrVars>>
apart == <<searchVars, deviceVars, cacheVars, pricingVars>>

AccountsStep ==
    /\ \E w \in Workers :
          \/ AccountProgress(w)
          \/ AccountAbort(w)
          \/ \E u \in Users :
                \/ AccountCall(w, u)
                \/ focus = "sessions" /\ SessionCall(w, u)
                \/ focus = "deletion" /\ DeletionCall(w, u)
                \/ focus = "identity" /\ IdentityCall(w, u)
                \/ focus = "lists" /\ ListCall(w, u)
    /\ UNCHANGED <<market, reputationVars, desk, talk, rental, apart>>

ListingStep ==
    /\ \/ focus = "listings" /\ ListingNext
       \/ focus = "risk" /\ RiskNext
       \/ focus = "cancellations" /\ CancellationNext
    /\ UNCHANGED <<accounts, reputationVars, desk, talk, rental, apart>>

\* bound: a score that is behind is excused from then on
ReputationStep ==
    /\ ~behind /\ ReputationNext
    /\ UNCHANGED <<accounts, market, desk, talk, rental, apart>>

\* the staff work on the reported listing, review and user meanwhile (same bound)
ReportsStep ==
    /\ ~behind /\ ReportNext
    /\ UNCHANGED <<riskVars, supportVars, staffVars, talk, rental, apart>>

\* the listing is removed and moderated meanwhile
RemovedStep ==
    /\ \/ ReportNext
       \/ /\ \E w \in Workers :
                \/ \E a \in Assets : RemoveRead(w, a) \/ ModerateRead(w, a)
                \/ RemoveCommit(w) \/ ModerateCommit(w) \/ ListingGone(w)
          /\ UNCHANGED <<reputationVars, accounts, reportVars>>
    /\ UNCHANGED <<riskVars, supportVars, staffVars, talk, rental, apart>>

SupportStep ==
    /\ SupportNext
    /\ UNCHANGED <<accounts, market, reputationVars, reportVars, staffVars, talk,
                   rental, apart>>

StaffStep ==
    /\ StaffNext
    /\ UNCHANGED <<accounts, market, reputationVars, reportVars, supportVars, talk,
                   rental, apart>>

ChatStep ==
    /\ ChatNext
    /\ UNCHANGED <<accounts, market, reputationVars, desk, reminderVars, rental, apart>>

ReminderStep ==
    /\ ReminderNext
    /\ UNCHANGED <<accounts, market, reputationVars, desk, chatVars, rental, apart>>

HandoverStep ==
    /\ QrNext
    /\ UNCHANGED <<accounts, market, reputationVars, desk, talk, apart>>

SearchStep ==
    /\ NextPage
    /\ UNCHANGED <<accounts, market, reputationVars, desk, talk, rental, deviceVars,
                   cacheVars, pricingVars, req>>

DeviceStep ==
    /\ DeviceNext
    /\ UNCHANGED <<accounts, market, reputationVars, desk, talk, rental, searchVars,
                   cacheVars, pricingVars, req>>

\* bound: of the answers read from the rows, one at a time is on its way
CacheStep ==
    /\ CacheNext
    /\ Cardinality({k \in Cached : fetching'[k].state = "answered"}) < 2
    /\ UNCHANGED <<accounts, riskVars, reputationVars, desk, talk, rental, searchVars,
                   deviceVars, pricingVars>>

PricingStep ==
    /\ PricingNext
    /\ UNCHANGED <<accounts, market, reputationVars, desk, talk, rental, searchVars,
                   deviceVars, cacheVars>>

Next ==
    /\ UNCHANGED focus
    /\ \/ focus \in {"sessions", "deletion", "identity", "lists"} /\ AccountsStep
       \/ focus \in {"listings", "risk", "cancellations"} /\ ListingStep
       \/ focus = "reputation" /\ ReputationStep
       \/ focus = "reports" /\ ReportsStep
       \/ focus = "removed" /\ RemovedStep
       \/ focus = "support" /\ SupportStep
       \/ focus = "staff" /\ StaffStep
       \/ focus = "chat" /\ ChatStep
       \/ focus = "reminders" /\ ReminderStep
       \/ focus = "handover" /\ HandoverStep
       \/ focus = "search" /\ SearchStep
       \/ focus = "device" /\ DeviceStep
       \/ focus = "cache" /\ CacheStep
       \/ focus = "prices" /\ PricingStep
    /\ removed' = removed \cup {a \in Assets : listing'[a] = "ARCHIVED"}

everything ==
    <<focus, removed, accounts, market, reputationVars, desk, talk, rental, apart, req>>

PlatformSpec == Init /\ [][Next]_everything

----------------------------------------------------------------------------
\* A listing that was removed is never on show again: "archived listings cannot
\* be republished" (assets.service.ts remove).
RemovedNeverPublished == \A a \in removed : listing[a] # "ACTIVE"

============================================================================
