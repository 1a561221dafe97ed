--------------------------- MODULE ReportsService --------------------------
(***************************************************************************)
(* reports.service.ts: a report of a user, a listing, a review or a chat   *)
(* message, and the verdict of the staff.  A verdict first carries out its *)
(* sanction, with statements of its own, and then writes the report.       *)
(***************************************************************************)
EXTENDS Listings, Reputation, UserStore

CONSTANT Reports    \* ids of the reports that may be made

VARIABLES
    reports,        \* reports, NoReport before the row is created
    messageHidden,  \* the reported chat message was blanked
    sanctioned      \* history: <<report, action>> carried out

reportVars == <<reports, messageHidden, sanctioned>>
othersReported == <<listingVars, reputationVars, userTables>>

\* CLOSED stands for REJECTED too: no handler tells them apart
ReportStatus == {"OPEN", "UNDER_REVIEW", "RESOLVED", "CLOSED"}
TerminalReport == {"RESOLVED", "CLOSED"}
ReportModerationAction ==
    {"WARN_REPORTED_USER", "SUSPEND_REPORTED_USER", "HIDE_ASSET",
     "HIDE_REVIEW", "HIDE_CHAT_MESSAGE"}

NoReport == [status |-> NoRow]

ReportInit ==
    /\ reports = [p \in Reports |-> NoReport]
    /\ messageHidden = FALSE
    /\ sanctioned = {}

\* ensureTargetExists; user: whose listing, review or message it is
ReportTargets ==
    [kind : {"USER", "CHAT_MESSAGE"}, user : {u \in Users : account[u] # NoRow}]
    \cup [kind : {"ASSET"}, id : {a \in Assets : listing[a] # NoRow},
          user : {u \in Users : account[u] # NoRow}]
    \cup [kind : {"REVIEW"}, id : {t \in Trips : reviews[t] # <<>>},
          user : {u \in Users : account[u] # NoRow}]

CreateReport(w, p) ==
    /\ AtOnce(w)
    /\ reports[p] = NoReport
    /\ \E target \in ReportTargets :
          reports' = [reports EXCEPT ![p] =
             [target |-> target, status |-> "OPEN", resolved |-> FALSE, summary |-> {}]]
    /\ UNCHANGED <<othersReported, messageHidden, sanctioned>>

\* to a member of the staff, or to nobody
AssignReportRead(w, p) ==
    /\ reports[p] # NoReport
    /\ Begin(w, [op |-> "assignReport", p |-> p, before |-> reports[p].status])
    /\ UNCHANGED <<othersReported, reportVars>>

AssignReportCommit(w) ==
    LET q == req[w]
    IN  /\ q.op = "assignReport"
        /\ reports' = [reports EXCEPT ![q.p].status =
                         IF q.before = "OPEN" THEN "UNDER_REVIEW" ELSE q.before]
        /\ Done(w)
        /\ UNCHANGED <<othersReported, messageHidden, sanctioned>>

----------------------------------------------------------------------------
(* updateStatus: any status may follow any other.  Only a resolution comes *)
(* with an action, and a terminal status needs a summary.                  *)
Fits(action, kind) ==
    \/ action \in {"WARN_REPORTED_USER", "SUSPEND_REPORTED_USER"}
    \/ <<action, kind>> \in {<<"HIDE_ASSET", "ASSET">>, <<"HIDE_REVIEW", "REVIEW">>,
                             <<"HIDE_CHAT_MESSAGE", "CHAT_MESSAGE">>}

Decidable(p) == IF reports[p] = NoReport THEN {} ELSE ReportStatus

VerdictRead(w, p) ==
    /\ \/ \E to \in Decidable(p), rewritten \in BOOLEAN :
             /\ to \in TerminalReport => rewritten
             /\ Begin(w, [op |-> "verdict", p |-> p, to |-> to,
                          summary |-> IF rewritten THEN {} ELSE reports[p].summary])
       \/ \E action \in ReportModerationAction :
             /\ reports[p] # NoReport
             /\ Fits(action, reports[p].target.kind)
             /\ Begin(w, [op |-> "sanction", p |-> p, action |-> action])
    /\ UNCHANGED <<othersReported, reportVars>>

\* what the action reads of its target before it writes
SanctionRead(w) ==
    LET q == req[w]
        target == reports[q.p].target
    IN  /\ q.op = "sanction"
        /\ Continue(w, [op |-> "sanctionWrite", p |-> q.p, action |-> q.action,
              before |-> CASE q.action = "HIDE_ASSET" -> listing[target.id]
                           [] q.action = "HIDE_REVIEW" -> reviews[target.id][1].status
                           [] OTHER -> account[target.user]])
        /\ UNCHANGED <<othersReported, reportVars>>

CarriedOut(w) ==
    /\ sanctioned' = sanctioned \cup {<<req[w].p, req[w].action>>}
    /\ Continue(w, [op |-> "verdict", p |-> req[w].p, to |-> "RESOLVED",
                    summary |-> {req[w].action}])

Sanctions(w, action) == req[w].op = "sanctionWrite" /\ req[w].action = action

WarnReportedUser(w) ==
    /\ Sanctions(w, "WARN_REPORTED_USER")
    /\ CarriedOut(w)
    /\ UNCHANGED <<othersReported, reports, messageHidden>>

\* nobody banned or deleted, as far as it has read
SuspendReportedUser(w) ==
    /\ Sanctions(w, "SUSPEND_REPORTED_USER")
    /\ account' = IF req[w].before \in {"BANNED", "DELETED"} THEN account
                  ELSE [account EXCEPT ![reports[req[w].p].target.user] = "SUSPENDED"]
    /\ Unannounced
    /\ CarriedOut(w)
    /\ UNCHANGED <<listingVars, reputationVars, password, refresh, reset, deletion,
                   issued, answered, mails, papers, cached, reports, messageHidden>>

\* an archived listing too
HideReportedAsset(w) ==
    /\ Sanctions(w, "HIDE_ASSET")
    /\ IF req[w].before = "SUSPENDED" THEN UNCHANGED listing
       ELSE listing' = [listing EXCEPT ![reports[req[w].p].target.id] = "SUSPENDED"]
    /\ CarriedOut(w)
    /\ UNCHANGED <<favorites, reputationVars, userTables, reports, messageHidden>>

HideReportedReview(w) ==
    /\ Sanctions(w, "HIDE_REVIEW")
    /\ IF req[w].before = "HIDDEN"
       THEN CarriedOut(w) /\ UNCHANGED <<reviews, behind>>
       ELSE /\ reviews' = [reviews EXCEPT ![reports[req[w].p].target.id][1].status = "HIDDEN"]
            /\ behind' = (behind \/ Crosses(w))
            /\ Continue(w, [req[w] EXCEPT !.op = "sanctionRescore"])
            /\ UNCHANGED sanctioned
    /\ UNCHANGED <<listingVars, editable, standing, score, counted, userTables,
                   reports, messageHidden>>

HideReviewRescore(w) ==
    /\ req[w].op = "sanctionRescore"
    /\ Continue(w, [op |-> "sanctionScore", p |-> req[w].p, action |-> req[w].action,
                    score |-> TrustScore(standing), record |-> standing])
    /\ UNCHANGED <<othersReported, reportVars>>

HideReviewScored(w) ==
    /\ req[w].op = "sanctionScore"
    /\ score' = req[w].score
    /\ counted' = req[w].record
    /\ CarriedOut(w)
    /\ UNCHANGED <<listingVars, reviews, editable, standing, behind, userTables,
                   reports, messageHidden>>

HideReportedChatMessage(w) ==
    /\ Sanctions(w, "HIDE_CHAT_MESSAGE")
    /\ messageHidden' = TRUE
    /\ CarriedOut(w)
    /\ UNCHANGED <<othersReported, reports>>

\* wrong variant: the verdict is written although the action threw
SanctionSwallowed(w) ==
    /\ req[w].op \in {"sanction", "sanctionWrite"}
    /\ Continue(w, [op |-> "verdict", p |-> req[w].p, to |-> "RESOLVED",
                    summary |-> {req[w].action}])
    /\ UNCHANGED <<othersReported, reportVars>>

\* a statement of the action fails, and the handler with it
SanctionFails(w) ==
    /\ req[w].op \in {"sanction", "sanctionWrite"}
    /\ Done(w)
    /\ UNCHANGED <<othersReported, reportVars>>

VerdictCommit(w) ==
    LET q == req[w]
    IN  /\ q.op = "verdict"
        /\ reports' = [reports EXCEPT ![q.p] =
                         [@ EXCEPT !.status = q.to, !.summary = q.summary,
                                   !.resolved = q.to \in TerminalReport]]
        /\ Done(w)
        /\ UNCHANGED <<othersReported, messageHidden, sanctioned>>

----------------------------------------------------------------------------
ReportCall(w, p) ==
    CreateReport(w, p) \/ AssignReportRead(w, p) \/ VerdictRead(w, p)

ReportProgress(w) ==
    \/ AssignReportCommit(w)
    \/ SanctionRead(w) \/ SanctionFails(w)
    \/ WarnReportedUser(w) \/ SuspendReportedUser(w) \/ HideReportedAsset(w)
    \/ HideReportedReview(w) \/ HideReviewRescore(w) \/ HideReviewScored(w)
    \/ HideReportedChatMessage(w)
    \/ VerdictCommit(w)

\* a request that stops leaves its score behind, if it was writing one; the
\* record changes meanwhile (for an owner's penalty see Reputation)
ReportNext ==
    \E w \in Workers :
        \/ ReportProgress(w)
        \/ \E p \in Reports : ReportCall(w, p)
        \/ /\ ReputationAbort(w) \/ RecordChanges
           /\ UNCHANGED <<listingVars, userTables, reportVars>>

\* the rows the other services wrote before
ReportSpec ==
    /\ ReportInit
    /\ listing \in [Assets -> AssetStatus \cup {NoRow}]
    /\ reviews \in [Trips -> Seq([rating : Ratings, status : {"PUBLISHED", "HIDDEN"}])]
    /\ score = TrustScore(counted)
    /\ behind = FALSE
    /\ req = [w \in Workers |-> Idle]
    /\ [][ReportNext]_<<othersReported, reportVars, req>>

----------------------------------------------------------------------------
\* A report that says which action was taken is right: no verdict names an
\* action that failed half way, or that another verdict took and lost.
VerdictCarriedOut ==
    \A p \in Reports : reports[p] # NoReport =>
        \A action \in reports[p].summary : <<p, action>> \in sanctioned

============================================================================
