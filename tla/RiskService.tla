---------------------------- MODULE RiskService ----------------------------
(***************************************************************************)
(* risk.service.ts: each submission of a listing is assessed after its row *)
(* was written, against the rules as they are by then, and each            *)
(* cancellation by a renter is counted after it was written.  An incident  *)
(* is raised unless one is open: the look and the insert are two           *)
(* statements, and no key forbids a second incident.                       *)
(***************************************************************************)
EXTENDS Listings

CONSTANTS
    MaxIncidents,   \* bound: incidents per listing
    MaxCancelled,   \* bound: cancelled rentals of the renter
    Threshold       \* risk_cancel_threshold

ASSUME ThresholdAssumption == Threshold \in Nat

VARIABLES
    contents,   \* per listing, the grounds its last text and value give
    ruleActive, \* isActive of the rule of prohibited listings
    incidents,  \* risk_incidents of each listing, oldest first
    excused,    \* history: listings whose assessment was cut off, or older
                \* than the last change of the rule
    cancelled,  \* a renter's cancelled rentals within the look-back period:
                \* by the renter, by the owners, and not counted after a crash
    patterns    \* incidents of repeated cancellations

riskVars == <<contents, ruleActive, incidents, excused, cancelled, patterns>>

\* the titles an incident of a listing may have, in the order they are raised
Grounds == {"prohibited", "highValue"}

\* nothing tells a DISMISSED incident from a RESOLVED one
IncidentStatus == {"OPEN", "UNDER_REVIEW", "RESOLVED"}
OpenIncident == {"OPEN", "UNDER_REVIEW"}

RiskInit ==
    /\ contents = [a \in Assets |-> {}]
    /\ ruleActive = FALSE
    /\ incidents = [a \in Assets |-> <<>>]
    /\ excused = {}
    /\ cancelled = [renter |-> 0, owner |-> 0, lost |-> 0]
    /\ patterns = 0

\* createProhibitedRule, updateProhibitedRule: no listing is assessed again
ChangeRule(w) ==
    /\ AtOnce(w)
    /\ ruleActive' = ~ruleActive
    /\ excused' = Assets
    /\ UNCHANGED <<listingVars, contents, incidents, cancelled, patterns>>

\* the row of a listing is written: its assessment is yet to come
Written(a) ==
    /\ \E grounds \in SUBSET Grounds : contents' = [contents EXCEPT ![a] = grounds]
    /\ excused' = excused \ {a}
    /\ UNCHANGED <<ruleActive, incidents, cancelled, patterns>>

\* create and update end with the assessment of what they wrote
SubmitListing(w, a) ==
    /\ CreateListing(w, a)
    /\ Written(a)
    /\ Begin(w, [op |-> "submitted", a |-> a, grounds |-> contents'[a]])

\* wrong variant: an edit is not assessed
EditUnassessed(w) ==
    /\ req[w].op = "edit"
    /\ EditWrites(req[w])
    /\ Written(req[w].a)
    /\ Done(w)

EditCommit(w) ==
    /\ req[w].op = "edit"
    /\ EditWrites(req[w])
    /\ Written(req[w].a)
    /\ Continue(w, [op |-> "submitted", a |-> req[w].a, grounds |-> contents'[req[w].a]])

\* the rules and the owner, read in one transaction
AssessRead(w) ==
    /\ req[w].op = "submitted"
    /\ Continue(w, [op |-> "assess", a |-> req[w].a,
                    grounds |-> IF ruleActive THEN req[w].grounds
                                ELSE req[w].grounds \ {"prohibited"}])
    /\ UNCHANGED <<listingVars, riskVars>>

\* the ground looked at: the rules come before the value
Ground(q) == IF "prohibited" \in q.grounds THEN "prohibited" ELSE "highValue"

Raised(a, ground) ==
    \E i \in DOMAIN incidents[a] :
        incidents[a][i].ground = ground /\ incidents[a][i].status \in OpenIncident

\* an incident is open already
IncidentThere(w) ==
    LET q == req[w]
    IN  /\ q.op = "assess" /\ q.grounds # {}
        /\ Raised(q.a, Ground(q))
        /\ Continue(w, [q EXCEPT !.grounds = @ \ {Ground(q)}])
        /\ UNCHANGED <<listingVars, riskVars>>

IncidentAbsent(w) ==
    LET q == req[w]
    IN  /\ q.op = "assess" /\ q.grounds # {}
        /\ ~Raised(q.a, Ground(q))
        /\ Len(incidents[q.a]) < MaxIncidents
        /\ Continue(w, [q EXCEPT !.op = "incident"])
        /\ UNCHANGED <<listingVars, riskVars>>

CreateIncident(w) ==
    LET q == req[w]
    IN  /\ q.op = "incident"
        /\ incidents' = [incidents EXCEPT ![q.a] =
               Append(@, [ground |-> Ground(q), status |-> "OPEN"])]
        /\ Continue(w, [q EXCEPT !.op = "assess", !.grounds = @ \ {Ground(q)}])
        /\ UNCHANGED <<listingVars, contents, ruleActive, excused, cancelled, patterns>>

AssessDone(w) ==
    /\ req[w].op = "assess"
    /\ req[w].grounds = {}
    /\ Done(w)
    /\ UNCHANGED <<listingVars, riskVars>>

\* any status may follow any other
UpdateIncident(w, a) ==
    /\ AtOnce(w)
    /\ \E i \in DOMAIN incidents[a] : \E to \in IncidentStatus :
          incidents' = [incidents EXCEPT ![a][i].status = to]
    /\ UNCHANGED <<listingVars, contents, ruleActive, excused, cancelled, patterns>>

----------------------------------------------------------------------------
(* Repeated cancellations.  The rental is cancelled in a transaction; only *)
(* a renter's own cancellation is followed by the count, which takes in    *)
(* those of the owners.                                                    *)
RentalCancelled(w) ==
    /\ cancelled.renter + cancelled.owner < MaxCancelled
    /\ \/ /\ AtOnce(w)
          /\ cancelled' = [cancelled EXCEPT !.owner = @ + 1]
       \/ /\ Begin(w, [op |-> "cancelled"])
          /\ cancelled' = [cancelled EXCEPT !.renter = @ + 1]
    /\ UNCHANGED <<listingVars, contents, ruleActive, incidents, excused, patterns>>

CountCancelled(w) ==
    /\ req[w].op = "cancelled"
    /\ Continue(w, [op |-> "pattern", found |-> cancelled.renter + cancelled.owner >= Threshold])
    /\ UNCHANGED <<listingVars, riskVars>>

NotePattern(w) ==
    /\ req[w].op = "pattern"
    /\ patterns' = IF req[w].found THEN patterns + 1 ELSE patterns
    /\ Done(w)
    /\ UNCHANGED <<listingVars, contents, ruleActive, incidents, excused, cancelled>>

----------------------------------------------------------------------------
ListingCall(w, a) ==
    \/ SubmitListing(w, a)
    \/ EditRead(w, a) /\ UNCHANGED riskVars
    \/ RemoveRead(w, a) /\ UNCHANGED riskVars
    \/ ModerateRead(w, a) /\ UNCHANGED riskVars
    \/ AddFavoriteRead(w, a) /\ UNCHANGED riskVars
    \/ RemoveFavorite(w, a) /\ UNCHANGED riskVars

\* the calls the assessment depends on
RiskCall(w, a) ==
    \/ SubmitListing(w, a)
    \/ EditRead(w, a) /\ UNCHANGED riskVars
    \/ UpdateIncident(w, a)
    \/ ChangeRule(w)

ListingProgress(w) ==
    \/ EditCommit(w)
    \/ AssessRead(w) \/ IncidentThere(w) \/ IncidentAbsent(w)
    \/ CreateIncident(w) \/ AssessDone(w)
    \/ /\ RemoveCommit(w) \/ ModerateCommit(w) \/ ListingGone(w) \/ AddFavoriteCommit(w)
       /\ UNCHANGED riskVars

\* the process restarts between two statements
RiskAbort(w) ==
    LET op == req[w].op
    IN  /\ req[w] # Idle
        /\ excused' = excused \cup
              {a \in Assets : op \in {"submitted", "assess", "incident"} /\ req[w].a = a}
        /\ cancelled' = IF op \in {"cancelled", "pattern"}
                        THEN [cancelled EXCEPT !.lost = @ + 1] ELSE cancelled
        /\ Done(w)
        /\ UNCHANGED <<listingVars, contents, ruleActive, incidents, patterns>>

ListingNext ==
    \E w \in Workers :
        \/ ListingProgress(w)
        \/ RiskAbort(w)
        \/ \E a \in Assets : ListingCall(w, a)

RiskNext ==
    \E w \in Workers :
        \/ ListingProgress(w)
        \/ RiskAbort(w)
        \/ \E a \in Assets : RiskCall(w, a)

CancellationNext ==
    \E w \in Workers :
        RentalCancelled(w) \/ CountCancelled(w) \/ NotePattern(w) \/ RiskAbort(w)

RiskSpec ==
    /\ ListingInit
    /\ RiskInit
    /\ req = [w \in Workers |-> Idle]
    /\ [][ListingNext \/ RiskNext \/ CancellationNext]_<<listingVars, riskVars, req>>

\* A removed listing keeps its status: no edit or verdict that read it before
\* its removal, and nothing else the owner, the staff or the assessment do to a
\* listing, writes over it.  (The sanction of a report does, see
\* ReportsService.HideReportedAsset; here no report is at work.)
RemovedStaysRemoved ==
    [][\A a \in Assets :
          listing[a] = "ARCHIVED" => listing'[a] = "ARCHIVED"]_listing

\* Once the requests that wrote it are over, a listing that breaks an active
\* rule, or is worth too much for a new account, has had an incident that says
\* so, also when two edits overlap: unless the assessment was cut off, or the
\* rule changed since.  And when the renter's own cancellations reach the
\* threshold, the last to count them sees them all.
RiskNoticed ==
    /\ \A a \in Assets \ excused : \A ground \in contents[a] :
          (/\ ground = "prohibited" => ruleActive
           /\ \A w \in Workers : req[w].op \notin {"submitted", "assess", "incident"})
              => \E i \in DOMAIN incidents[a] : incidents[a][i].ground = ground
    /\ (/\ cancelled.renter > 0 /\ cancelled.renter >= Threshold
        /\ cancelled.lost = 0
        /\ \A w \in Workers : req[w].op \notin {"cancelled", "pattern"})
           => patterns > 0

============================================================================
