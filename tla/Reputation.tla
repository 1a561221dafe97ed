----------------------------- MODULE Reputation ----------------------------
(***************************************************************************)
(* reviews.service.ts and trust-score.service.ts: the reviews one user has *)
(* received and the score computed from them.  A handler writes the review *)
(* in one statement, and then recomputes: it reads all that counts, and    *)
(* writes the score without a condition.                                   *)
(***************************************************************************)
EXTENDS Api

CONSTANTS
    Trips,      \* completed rentals with the user, each by another reviewer
    Ratings,    \* bound: the ratings that are given
    Records     \* bound: what else is known about the user, as it changes

ASSUME RatingAssumption == Ratings \subseteq 1 .. 5 /\ Records # <<>>

VARIABLES
    reviews,    \* reviews of each trip by its reviewer, oldest first
    editable,   \* trips whose review can be edited still
    standing,   \* which of the records is the user's
    score,      \* users.trustScore
    counted,    \* history: the record the score was computed from, 0 once a
                \* penalty was taken off since
    behind      \* history: a recomputation was cut off, or it had read the
                \* reviews when another handler wrote one

reputationVars == <<reviews, editable, standing, score, counted, behind>>

Least(a, b) == IF a < b THEN a ELSE b
Greatest(a, b) == IF a > b THEN a ELSE b

ReputationInit ==
    /\ reviews = [t \in Trips |-> <<>>]
    /\ editable = {}
    /\ standing = 1
    /\ score = 0
    /\ counted = standing
    /\ behind = FALSE

----------------------------------------------------------------------------
Published == {t \in Trips : \E i \in DOMAIN reviews[t] :
                                reviews[t][i].status = "PUBLISHED"}

\* Math.round(average * 12); the one published review of a trip counts
RatingBonus ==
    LET ratings == SumFunction([t \in Published |-> reviews[t][1].rating])
        number == Cardinality(Published)
    IN  IF number = 0 THEN 0 ELSE (2 * 12 * ratings + number) \div (2 * number)

StandingBonus(n) ==
    LET record == Records[n] IN
      (IF record.verified THEN 20 ELSE 0)
    + Least(record.completed * 2, 10)
    + (IF record.ageDays >= 30 THEN 5 ELSE 0)
    + (IF record.ageDays >= 180 THEN 5 ELSE 0)
    - Least(record.openDisputes * 8, 24)
    - Least(record.overdue * 5, 15)
    - Least(record.openRisks * 10, 20)

TrustScore(n) == Greatest(0, Least(100, StandingBonus(n) + RatingBonus))

\* a review is written while somebody else's recomputation has read already
Crosses(w) ==
    \E v \in Workers \ {w} : req[v].op \in {"writeScore", "sanctionScore"}

----------------------------------------------------------------------------
CreateReviewRead(w, t) ==
    /\ reviews[t] = <<>>
    /\ \E rating \in Ratings :
          Begin(w, [op |-> "review", t |-> t, rating |-> rating])
    /\ UNCHANGED reputationVars

\* the unique key on rental and reviewer
ReviewKeyFree(t) == reviews[t] = <<>>

CreateReviewCommit(w) ==
    LET q == req[w]
    IN  /\ q.op = "review"
        /\ ReviewKeyFree(q.t)
        /\ reviews' = [reviews EXCEPT ![q.t] =
                         Append(@, [rating |-> q.rating, status |-> "PUBLISHED"])]
        /\ editable' = editable \cup {q.t}
        /\ behind' = (behind \/ Crosses(w))
        /\ Continue(w, [op |-> "rescore"])
        /\ UNCHANGED <<standing, score, counted>>

CreateReviewRefused(w) ==
    /\ req[w].op = "review"
    /\ ~ReviewKeyFree(req[w].t)
    /\ Done(w)
    /\ UNCHANGED reputationVars

\* review_edit_hours are over
EditWindowCloses(t) ==
    /\ t \in editable
    /\ editable' = editable \ {t}
    /\ UNCHANGED <<reviews, standing, score, counted, behind, req>>

UpdateReviewRead(w, t) ==
    /\ t \in editable
    /\ \E rating \in Ratings :
          Begin(w, [op |-> "rewrite", t |-> t, rating |-> rating])
    /\ UNCHANGED reputationVars

UpdateReviewCommit(w) ==
    LET q == req[w]
    IN  /\ q.op = "rewrite"
        /\ reviews' = [reviews EXCEPT ![q.t][1].rating = q.rating]
        /\ behind' = (behind \/ Crosses(w))
        /\ Continue(w, [op |-> "rescore"])
        /\ UNCHANGED <<editable, standing, score, counted>>

\* shown or hidden again, whatever the review is
Showable(t) == IF reviews[t] = <<>> THEN {} ELSE {"PUBLISHED", "HIDDEN"}

ModerateReviewRead(w, t) ==
    /\ \E to \in Showable(t) :
          Begin(w, [op |-> "moderateReview", t |-> t, to |-> to])
    /\ UNCHANGED reputationVars

\* wrong variant: the score is left as it is
ModerateReviewOnly(w) ==
    LET q == req[w]
    IN  /\ q.op = "moderateReview"
        /\ reviews' = [reviews EXCEPT ![q.t][1].status = q.to]
        /\ Done(w)
        /\ UNCHANGED <<editable, standing, score, counted, behind>>

ModerateReviewCommit(w) ==
    LET q == req[w]
    IN  /\ q.op = "moderateReview"
        /\ reviews' = [reviews EXCEPT ![q.t][1].status = q.to]
        /\ behind' = (behind \/ Crosses(w))
        /\ Continue(w, [op |-> "rescore"])
        /\ UNCHANGED <<editable, standing, score, counted>>

\* owner_cancel_trust_penalty, as it is by default
OwnerTrustPenalty == 10

\* the owner cancels a rental; bound: once between two recomputations, and
\* after the record's last change
OwnerPenalised ==
    /\ counted # 0 /\ standing = Len(Records)
    /\ score' = score - OwnerTrustPenalty
    /\ counted' = 0
    /\ UNCHANGED <<reviews, editable, standing, behind, req>>

\* a rental completed or overdue, an incident and the account's age: nobody
\* recomputes
RecordChanges ==
    /\ standing < Len(Records)
    /\ standing' = standing + 1
    /\ UNCHANGED <<reviews, editable, score, counted, behind, req>>

\* a verified identity, a dispute opened or closed
RecordRescored(w) ==
    /\ standing < Len(Records)
    /\ standing' = standing + 1
    /\ Begin(w, [op |-> "rescore"])
    /\ UNCHANGED <<reviews, editable, score, counted, behind>>

\* recalculateUserTrustScore
RescoreRead(w) ==
    /\ req[w].op = "rescore"
    /\ Continue(w, [op |-> "writeScore", score |-> TrustScore(standing),
                    record |-> standing])
    /\ UNCHANGED reputationVars

RescoreWrite(w) ==
    /\ req[w].op = "writeScore"
    /\ score' = req[w].score
    /\ counted' = req[w].record
    /\ Done(w)
    /\ UNCHANGED <<reviews, editable, standing, behind>>

ReputationAbort(w) ==
    /\ req[w] # Idle
    /\ behind' = (behind \/ req[w].op \in {"rescore", "writeScore", "sanctionRescore",
                                           "sanctionScore"})
    /\ Done(w)
    /\ UNCHANGED <<reviews, editable, standing, score, counted>>

ReputationNext ==
    \E w \in Workers :
        \/ CreateReviewCommit(w) \/ CreateReviewRefused(w)
        \/ UpdateReviewCommit(w) \/ ModerateReviewCommit(w)
        \/ RecordChanges \/ RecordRescored(w) \/ OwnerPenalised
        \/ RescoreRead(w) \/ RescoreWrite(w) \/ ReputationAbort(w)
        \/ \E t \in Trips :
              CreateReviewRead(w, t) \/ UpdateReviewRead(w, t)
              \/ ModerateReviewRead(w, t) \/ EditWindowCloses(t)

ReputationSpec ==
    /\ ReputationInit
    /\ req = [w \in Workers |-> Idle]
    /\ [][ReputationNext]_<<reputationVars, req>>

----------------------------------------------------------------------------
\* When no handler is at work the score is what the reviews say, as they are,
\* and the rest of the record, as the recomputation that wrote it found it,
\* unless a recomputation was cut off or wrote what it had read before another
\* review was written: create, edit, hide and republish all recompute it.  The
\* penalty of a cancellation is in it until it is computed again.
ScoreFollowsReviews ==
    (\A w \in Workers : req[w] = Idle) /\ ~behind /\ counted # 0
        => score = TrustScore(counted) \/ \A t \in Trips : reviews[t] = <<>>

============================================================================
