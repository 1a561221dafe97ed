------------------------------ MODULE Listings -----------------------------
(***************************************************************************)
(* assets.service.ts and favorites.service.ts: the life of a listing, as   *)
(* its owner edits and removes it and the staff moderate it.  An edit      *)
(* writes back the status it read, a verdict the status it was asked for.  *)
(***************************************************************************)
EXTENDS Api

CONSTANT Assets     \* ids of the listings that may be created

VARIABLES
    listing,    \* assets.status, NoRow before the row is created
    favorites   \* listings the visitor has a favorite_assets row for

listingVars == <<listing, favorites>>

AssetStatus ==
    {"DRAFT", "PENDING_REVIEW", "ACTIVE", "PAUSED", "REJECTED", "SUSPENDED",
     "ARCHIVED"}

ListingInit ==
    /\ listing = [a \in Assets |-> NoRow]
    /\ favorites = {}

SetListing(a, to) == listing' = [listing EXCEPT ![a] = to]

\* by a verified user who is not an administrator
CreateListing(w, a) ==
    /\ listing[a] = NoRow
    /\ listing' = [listing EXCEPT ![a] = "PENDING_REVIEW"]
    /\ UNCHANGED favorites

\* the status an edit writes, from the one it read
Edited(before) ==
    IF before \in {"REJECTED", "DRAFT"} THEN "PENDING_REVIEW" ELSE before

\* who of the two may edit it: the staff edit a suspended listing too
Editors(a) ==
    CASE listing[a] \in {NoRow, "ARCHIVED"} -> {}
      [] listing[a] = "SUSPENDED"          -> {"staff"}
      [] OTHER                             -> {"owner", "staff"}

EditRead(w, a) ==
    /\ Editors(a) # {}
    /\ Begin(w, [op |-> "edit", a |-> a, next |-> Edited(listing[a])])
    /\ UNCHANGED listingVars

\* wrong variant: the update does not exclude archived listings
EditAnyway(q) ==
    /\ listing' = [listing EXCEPT ![q.a] = q.next]
    /\ UNCHANGED favorites

EditWrites(q) ==
    /\ listing[q.a] # "ARCHIVED"
    /\ listing' = [listing EXCEPT ![q.a] = q.next]
    /\ UNCHANGED favorites

Removable(a) == listing[a] \in AssetStatus \ {"ARCHIVED"}

\* the owner, or the staff with a reason
RemoveRead(w, a) ==
    /\ Removable(a)
    /\ Begin(w, [op |-> "remove", a |-> a])
    /\ UNCHANGED listingVars

RemoveCommit(w) ==
    /\ req[w].op = "remove"
    /\ SetListing(req[w].a, "ARCHIVED")
    /\ Done(w)
    /\ UNCHANGED favorites

Verdicts == {"ACTIVE", "REJECTED", "SUSPENDED", "PAUSED", "ARCHIVED"}

Moderatable(a) == IF listing[a] \in AssetStatus \ {"ARCHIVED"} THEN Verdicts ELSE {}

ModerateRead(w, a) ==
    /\ \E verdict \in Moderatable(a) :
          Begin(w, [op |-> "moderate", a |-> a, next |-> verdict])
    /\ UNCHANGED listingVars

ModerateCommit(w) ==
    /\ req[w].op = "moderate"
    /\ listing[req[w].a] # "ARCHIVED"
    /\ SetListing(req[w].a, req[w].next)
    /\ Done(w)
    /\ UNCHANGED favorites

\* an edit or a verdict finds the listing archived meanwhile
ListingGone(w) ==
    /\ req[w].op \in {"edit", "moderate"}
    /\ listing[req[w].a] = "ARCHIVED"
    /\ Done(w)
    /\ UNCHANGED listingVars

----------------------------------------------------------------------------
(* Favorites.  The pair of user and asset is the key of the row.           *)
AddFavoriteRead(w, a) ==
    /\ listing[a] = "ACTIVE"
    /\ a \notin favorites
    /\ Begin(w, [op |-> "favorite", a |-> a])
    /\ UNCHANGED listingVars

AddFavoriteCommit(w) ==
    /\ req[w].op = "favorite"
    /\ favorites' = favorites \cup {req[w].a}
    /\ Done(w)
    /\ UNCHANGED listing

RemoveFavorite(w, a) ==
    /\ AtOnce(w)
    /\ a \in favorites
    /\ favorites' = favorites \ {a}
    /\ UNCHANGED listing

============================================================================
