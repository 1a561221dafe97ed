------------------------------- MODULE Search ------------------------------
(***************************************************************************)
(* assets.service.ts, search: somebody asks for the listings that match a  *)
(* query, page by page.  The plain orders are left to the database; a      *)
(* query by rating, distance, popularity or delivery method takes the      *)
(* newest candidates, and filters, orders and cuts them in memory.         *)
(***************************************************************************)
EXTENDS Integers, Sequences, FiniteSets

CONSTANTS
    Items,          \* the listings, numbers in the order of their creation
    Profiles,       \* bound: what a listing may be like
    Queries,        \* bound: what may be asked
    Limit,          \* listings of a page
    MaxCandidates   \* MAX_ADVANCED_SEARCH_CANDIDATES

VARIABLES
    catalog,    \* the profile of each listing
    query,      \* what was asked
    page,       \* pages received so far
    shown       \* the listings on them, in order

searchVars == <<catalog, query, page, shown>>

NoDates == [from |-> 0, to |-> 0]
Unknown == -1   \* in place of a distance when a listing has no coordinates

\* assertSearchQuery
Askable(q) == q.dates # NoDates => q.dates.from < q.dates.to

ASSUME SearchAssumption ==
    /\ Items \subseteq Nat /\ IsFiniteSet(Items)
    /\ \A p \in Profiles : {p.price, p.rating, p.rented, p.km} \subseteq Int
    /\ Limit \in Nat \ {0}
    /\ MaxCandidates \in Nat
    /\ \A q \in Queries : Askable(q)

----------------------------------------------------------------------------
(* Periods.  A window or a rental is [from, to), with its kind.            *)
\* wrong variant: a period that ends as the other begins overlaps it
Touches(p, q) == p.from <= q.to /\ p.to >= q.from

Overlaps(p, q) == p.from < q.to /\ p.to > q.from
Covers(p, q) == p.from <= q.from /\ p.to >= q.to

Of(windows, kind) == {v \in windows : v.kind = kind}

\* buildAvailabilityDateRangeFilter
OpenFor(windows, dates) ==
    /\ \A v \in Of(windows, "BLOCKED") : ~Overlaps(v, dates)
    /\ \/ Of(windows, "AVAILABLE") = {}
       \/ \E v \in Of(windows, "AVAILABLE") : Covers(v, dates)

\* the rentals that hide a listing from a search with dates
Hiding ==
    {"CONFIRMED", "READY_FOR_HANDOVER", "ONGOING", "RETURN_PENDING", "OVERDUE"}

FreeFor(rentals, dates) ==
    \A r \in rentals : r.kind \in Hiding => ~Overlaps(r, dates)

----------------------------------------------------------------------------
(* The query.                                                              *)
Statuses(q) ==
    IF q.staff THEN {"DRAFT", "PENDING_REVIEW", "ACTIVE", "PAUSED", "REJECTED"}
    ELSE {"ACTIVE"}

Matches(i, q) ==
    LET a == catalog[i]
    IN  /\ a.status \in Statuses(q)
        /\ q.dates # NoDates => FreeFor(a.rentals, q.dates) /\ OpenFor(a.windows, q.dates)

\* filterSearchAssets
Passes(i, q) ==
    LET a == catalog[i]
    IN  /\ q.delivery => a.delivery
        /\ a.rating >= q.minRating
        /\ q.radius # Unknown => a.km # Unknown /\ a.km <= q.radius

\* requiresAdvancedRanking
Advanced(q) ==
    \/ q.delivery \/ q.minRating > 0 \/ q.radius # Unknown
    \/ q.sort \in {"nearest", "highest-rating", "most-rented"}

\* what an order compares before it compares the age; nothing is farther
\* than what has no coordinates
Farther(a) == IF a.km = Unknown THEN 1000000 ELSE a.km
Rank(a, sort) ==
    CASE sort = "lowest-price"   -> a.price
      [] sort = "highest-price"  -> -a.price
      [] sort = "highest-rating" -> -a.rating
      [] sort = "most-rented"    -> -a.rented
      [] sort = "nearest"        -> Farther(a)
      [] OTHER                   -> 0

Before(q, i, j) ==
    LET mine == Rank(catalog[i], q.sort)
        other == Rank(catalog[j], q.sort)
    IN  mine < other \/ (mine = other /\ i > j)

Candidates(q) ==
    LET matching == {i \in Items : Matches(i, q)}
    IN  IF ~Advanced(q) THEN matching
        ELSE {i \in matching : Cardinality({j \in matching : j > i}) < MaxCandidates}

Listing(q) == IF Advanced(q) THEN {i \in Candidates(q) : Passes(i, q)} ELSE Candidates(q)

\* what is listed before a listing
Ahead(q, i) == {j \in Listing(q) : Before(q, j, i)}

\* the answer in its order: so many stand before the one at a place
Found(q) ==
    [n \in 1 .. Cardinality(Listing(q)) |->
        CHOOSE i \in Listing(q) : Cardinality(Ahead(q, i)) = n - 1]

----------------------------------------------------------------------------
SearchInit ==
    /\ catalog \in [Items -> Profiles]
    /\ query \in Queries
    /\ page = 0
    /\ shown = <<>>

\* wrong variant: pages are counted from nought
SkipFromNought(number) == number * Limit

Skip(number) == (number - 1) * Limit

\* a page of the list, as long as totalPages promises one
NextPage ==
    LET found == Found(query)
    IN  /\ page * Limit < Len(found)
        /\ page' = page + 1
        /\ shown' = shown \o SubSeq(found, Skip(page') + 1,
                                    IF Skip(page') + Limit < Len(found)
                                    THEN Skip(page') + Limit ELSE Len(found))
        /\ UNCHANGED <<catalog, query>>

SearchSpec == SearchInit /\ [][NextPage]_searchVars

\* The pages together are the answer: each listing that matches, out of the
\* newest MaxCandidates when the order is not the database's, is shown once,
\* and none before one that the order puts first.
PagesAreTheList ==
    LET promised == IF Advanced(query)
                    THEN {i \in Candidates(query) : Passes(i, query)}
                    ELSE {i \in Items : Matches(i, query)}
    IN  /\ \A m, n \in DOMAIN shown : m < n => Before(query, shown[m], shown[n])
        /\ page * Limit >= Cardinality(promised) =>
              {shown[n] : n \in DOMAIN shown} = promised

\* ensureWithinAvailability and the overlap check of rentals.service.ts, create
Refusing == Hiding \cup {"AWAITING_PAYMENT", "AWAITING_SIGNATURE"}
Bookable(i, dates) ==
    LET a == catalog[i]
    IN  /\ \A r \in a.rentals : r.kind \in Refusing =>
              ~(r.from < dates.to /\ r.to > dates.from)
        /\ ~\E v \in a.windows :
              v.kind = "BLOCKED" /\ v.from < dates.to /\ v.to > dates.from
        /\ (\E v \in a.windows : v.kind = "AVAILABLE") =>
              \E v \in a.windows :
                 v.kind = "AVAILABLE" /\ v.from <= dates.from /\ v.to >= dates.to

\* A listing a visitor finds for some dates is refused for them only when a
\* rental still awaits its payment or signatures, and one that could be booked
\* is found: the two services agree on windows and rentals.
FoundIsBookable ==
    query.dates # NoDates /\ ~query.staff =>
        \A i \in Items : catalog[i].status = "ACTIVE" =>
            /\ Bookable(i, query.dates) => Matches(i, query)
            /\ Matches(i, query) /\ ~Bookable(i, query.dates) =>
                  \E r \in catalog[i].rentals : r.kind \in Refusing \ Hiding

============================================================================
