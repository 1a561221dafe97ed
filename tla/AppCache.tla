------------------------------ MODULE AppCache ------------------------------
(***************************************************************************)
(* The query cache of the mobile app around one change of a listing: what  *)
(* its screens show, the fetches on their way, and how utils/assetCache.ts *)
(* and the screens bring the cache up to date once the service answered.   *)
(***************************************************************************)
EXTENDS Listings

VARIABLES
    onPhone,    \* the status of the listing each query has cached
    fetching,   \* what each query is waiting for
    mounted,    \* the queries a screen is showing
    task,       \* what the press of a button is waiting for
    gone        \* history: listings removed and synchronized

cacheVars == <<onPhone, fetching, mounted, task, gone>>

\* ['assets', 'list'], ['admin', 'listings'], ['assets', 'detail']
Cached == {"browse", "desk", "detail"}

NoFetch == [state |-> "none"]
NoTask == [kind |-> "none"]

CacheInit ==
    /\ onPhone = [k \in Cached |-> [a \in Assets |-> NoRow]]
    /\ fetching = [k \in Cached |-> NoFetch]
    /\ mounted = {}
    /\ task = NoTask
    /\ gone = {}

\* search for a visitor, search for the staff with hideRemoved, getById
Answer(k) ==
    [a \in Assets |->
        CASE k = "browse" /\ listing[a] # "ACTIVE"                 -> NoRow
          [] k = "desk" /\ listing[a] \in {"SUSPENDED", "ARCHIVED"} -> NoRow
          [] OTHER                                                 -> listing[a]]

----------------------------------------------------------------------------
(* A screen opens: its query is fetched unless it is fresh, or on its way. *)
Open(k) ==
    /\ k \notin mounted
    /\ mounted' = mounted \cup {k}
    /\ fetching' \in {fetching, [fetching EXCEPT ![k] =
                         IF @ = NoFetch THEN [state |-> "asked"] ELSE @]}
    /\ UNCHANGED <<onPhone, task, gone, listingVars, req>>

\* a fetch outlives the screen that began it
Leave(k) ==
    /\ k \in mounted
    /\ mounted' = mounted \ {k}
    /\ UNCHANGED <<onPhone, fetching, task, gone, listingVars, req>>

\* the user pulls the list down: a fetch on its way is given up
Refetch(k) ==
    /\ k \in mounted
    /\ fetching' = [fetching EXCEPT ![k] = [state |-> "asked"]]
    /\ UNCHANGED <<onPhone, mounted, task, gone, listingVars, req>>

FetchAnswered(k) ==
    /\ fetching[k].state = "asked"
    /\ fetching' = [fetching EXCEPT ![k] = [state |-> "answered", rows |-> Answer(k)]]
    /\ UNCHANGED <<onPhone, mounted, task, gone, listingVars, req>>

FetchDelivered(k) ==
    /\ fetching[k].state = "answered"
    /\ onPhone' = [onPhone EXCEPT ![k] = fetching[k].rows]
    /\ fetching' = [fetching EXCEPT ![k] = NoFetch]
    /\ UNCHANGED <<mounted, task, gone, listingVars, req>>

----------------------------------------------------------------------------
(* A listing is removed from the desk or its own page, or from the owner's *)
(* list, which refreshes the cache in another way.                         *)
PressRemove(w, a) ==
    /\ task = NoTask
    /\ \E k \in mounted : onPhone[k][a] # NoRow
    /\ \E kind \in {"remove", "removeMine"} :
          task' = [kind |-> kind, a |-> a, w |-> w, phase |-> "sent"]
    /\ \/ RemoveRead(w, a)
       \/ listing[a] = "ARCHIVED" /\ AtOnce(w) /\ UNCHANGED listingVars
    /\ UNCHANGED <<onPhone, fetching, mounted, gone>>

PressVerdict(w, a) ==
    /\ task = NoTask
    /\ "desk" \in mounted
    /\ onPhone["desk"][a] \in {"PENDING_REVIEW", "REJECTED", "SUSPENDED"}
    /\ ModerateRead(w, a)
    /\ req'[w].next \in {"ACTIVE", "REJECTED"}
    /\ task' = [kind |-> "moderate", a |-> a, w |-> w, phase |-> "sent"]
    /\ UNCHANGED <<onPhone, fetching, mounted, gone>>

\* the phone sends one change at a time: the answer arrives once the service
\* has written, or is lost
TaskAnswered ==
    /\ task # NoTask /\ task.phase = "sent"
    /\ req[task.w] = Idle
    /\ task' \in {[task EXCEPT !.phase = "answered"], NoTask}
    /\ UNCHANGED <<onPhone, fetching, mounted, gone, listingVars, req>>

\* invalidateQueries fetches what is on a screen again
Invalidated(k) == IF k \in mounted THEN [state |-> "asked"] ELSE fetching[k]

\* wrong variant: the requests begun before the removal are kept
CancelNothing ==
    /\ task # NoTask /\ task.phase = "answered" /\ task.kind = "remove"
    /\ task' = [task EXCEPT !.phase = "cancelled"]
    /\ UNCHANGED <<onPhone, fetching, mounted, gone, listingVars, req>>

\* synchronizeRemovedAsset, cancelQueries
CancelFetches ==
    /\ task # NoTask /\ task.phase = "answered" /\ task.kind = "remove"
    /\ fetching' = [k \in Cached |-> NoFetch]
    /\ task' = [task EXCEPT !.phase = "cancelled"]
    /\ UNCHANGED <<onPhone, mounted, gone, listingVars, req>>

\* removeAssetFromListCaches, the status of the page, invalidateQueries
DropRow ==
    LET a == task.a
    IN  /\ task # NoTask /\ task.phase = "cancelled"
        /\ onPhone' = [k \in Cached |-> [onPhone[k] EXCEPT ![a] =
                        IF k = "detail" /\ @ # NoRow THEN "ARCHIVED" ELSE NoRow]]
        /\ fetching' = [k \in Cached |-> Invalidated(k)]
        /\ gone' = gone \cup {a}
        /\ task' = NoTask
        /\ UNCHANGED <<mounted, listingVars, req>>

\* admin/listings.tsx after a verdict, profile/listings.tsx after a removal
RefreshLists ==
    /\ task # NoTask /\ task.phase = "answered" /\ task.kind # "remove"
    /\ fetching' = [k \in Cached |->
                      IF k = "desk" /\ task.kind = "removeMine" THEN fetching[k]
                      ELSE Invalidated(k)]
    /\ task' = NoTask
    /\ UNCHANGED <<onPhone, mounted, gone, listingVars, req>>

\* the update of a removal that another client asked for
RemovedElsewhere(a) ==
    /\ listing[a] \in AssetStatus \ {"ARCHIVED"}
    /\ SetListing(a, "ARCHIVED")
    /\ UNCHANGED <<favorites, req, cacheVars>>

CacheNext ==
    \/ \E k \in Cached :
          Open(k) \/ Leave(k) \/ Refetch(k) \/ FetchAnswered(k) \/ FetchDelivered(k)
    \/ \E w \in Workers :
          \/ \E a \in Assets : PressRemove(w, a) \/ PressVerdict(w, a)
          \/ /\ RemoveCommit(w) \/ ModerateCommit(w) \/ ListingGone(w)
             /\ UNCHANGED cacheVars
    \/ \E a \in Assets : RemovedElsewhere(a)
    \/ TaskAnswered \/ CancelFetches \/ DropRow \/ RefreshLists

\* the listings may be anything when the app starts
CacheSpec ==
    /\ listing \in [Assets -> AssetStatus \cup {NoRow}]
    /\ favorites = {}
    /\ CacheInit
    /\ req = [w \in Workers |-> Idle]
    /\ [][CacheNext]_<<listingVars, cacheVars, req>>

\* Once a removal has been synchronized no list shows the listing and no page
\* shows it as available, whichever fetches had been begun, answered or left
\* behind before ("so they cannot restore the old row").  The removal from the
\* owner's own list is not synchronized, and promises less.
RemovedRowGone ==
    \A a \in gone, k \in Cached :
        onPhone[k][a] \in IF k = "detail" THEN {NoRow, "ARCHIVED"} ELSE {NoRow}

============================================================================
