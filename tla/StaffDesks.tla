----------------------------- MODULE StaffDesks ----------------------------
(***************************************************************************)
(* The desks of the back office in the mobile app, app/admin: what each    *)
(* offers for a row as it is.  The app decides from its own conditions,    *)
(* the services from theirs.                                               *)
(***************************************************************************)
EXTENDS ReportsService, Accounts, StaffRoles

\* useAdminQueueCounts.ts: the rows the dashboard counts as waiting
PendingKyc == {u \in Users : identity[u].status \in {"PENDING", "REQUIRES_REVIEW"}}
PendingListings == {a \in Assets : listing[a] = "PENDING_REVIEW"}
OpenReports == {p \in Reports : reports[p].status = "OPEN"}

\* admin/kyc.tsx, canReview
KycDesk(u) ==
    IF identity[u].status \in {"PENDING", "REQUIRES_REVIEW", "REJECTED"}
    THEN {"VERIFIED", "REJECTED"} ELSE {}

\* wrong variant: an archived listing can be removed too
ListingDeskAlways(a) ==
    IF listing[a] = NoRow THEN {} ELSE {"ACTIVE", "REJECTED", "ARCHIVED"}

\* admin/listings.tsx, canReview and removable; ARCHIVED asks for the removal
ListingDesk(a) ==
    (IF listing[a] \in {"PENDING_REVIEW", "REJECTED", "SUSPENDED"}
     THEN {"ACTIVE", "REJECTED"} ELSE {})
    \cup (IF listing[a] \in {NoRow, "ARCHIVED"} THEN {} ELSE {"ARCHIVED"})

\* admin/reports.tsx, without the action of a resolution
ReportDesk(p) ==
    IF reports[p] = NoReport \/ reports[p].status \in TerminalReport THEN {}
    ELSE ReportStatus \ {"OPEN"}

\* admin/reviews.tsx shows a hidden review and hides a shown one
ReviewDesk(t) ==
    {IF reviews[t][i].status = "PUBLISHED" THEN "HIDDEN" ELSE "PUBLISHED" :
        i \in 1 .. Len(reviews[t])}

\* admin/users.tsx disables an active account and enables any other
UserDesk(u) ==
    CASE account[u] = NoRow    -> {}
      [] account[u] = "ACTIVE" -> {"SUSPENDED"}
      [] OTHER                 -> {"ACTIVE"}

----------------------------------------------------------------------------
(* The services, asked for one of these.                                   *)
ReviewAccepted(u, verdict) == verdict \in Givable(u)

ModerationAccepted(a, verdict) ==
    IF verdict = "ARCHIVED" THEN Removable(a) ELSE verdict \in Moderatable(a)

ReviewStatusAccepted(t, verdict) == verdict \in Showable(t)

StatusAccepted(u, verdict) == verdict \in Settable(u)

ReportAccepted(p, verdict) == verdict \in Decidable(p)

\* Whatever the dashboard counts as waiting is offered a decision on its desk,
\* and what a desk offers the service accepts, whatever edits, removals,
\* submissions and sanctions fell in between.  A request that was reviewed
\* before it had documents is the exception: its approval is offered and
\* refused.
DesksServe ==
    /\ \A u \in PendingKyc : KycDesk(u) # {}
    /\ \A a \in PendingListings : {"ACTIVE", "REJECTED"} \subseteq ListingDesk(a)
    /\ \A p \in OpenReports : ReportDesk(p) # {}
    /\ \A t \in Trips : \A verdict \in ReviewDesk(t) : ReviewStatusAccepted(t, verdict)
    /\ \A u \in Users :
          /\ \A verdict \in UserDesk(u) : StatusAccepted(u, verdict)
          /\ identity[u].files # 0 => \A verdict \in KycDesk(u) : ReviewAccepted(u, verdict)
    /\ \A a \in Assets : \A verdict \in ListingDesk(a) : ModerationAccepted(a, verdict)
    /\ \A p \in Reports : \A verdict \in ReportDesk(p) : ReportAccepted(p, verdict)

============================================================================
