--------------------------- MODULE DamageAnalysis --------------------------
(***************************************************************************)
(* disputes.service.ts: the comparison of a listing's picture with the     *)
(* newest photo of a damage dispute by an AI provider.  A timer starts a   *)
(* pass every 20 seconds unless one is at work; a pass tries a photo three *)
(* times, a minute longer apart each time.  The staff may ask as well.     *)
(* One dispute; what a pass does to others changes nothing of it, but they *)
(* can keep it out: a pass takes the newest of the active ones only.       *)
(***************************************************************************)
EXTENDS Api

CONSTANTS
    PassSize,       \* active damage disputes a pass takes, the newest first
    MaxNewer,       \* bound: active damage disputes newer than this one
    MaxPhotos,      \* bound: photos attached to the dispute
    MaxRestarts     \* bound: restarts of the process

VARIABLES
    contested,  \* the dispute is not resolved, rejected or closed
    photos,     \* photos attached so far: the number of the newest
    results,    \* for each photo, its AI_DAMAGE_ANALYSIS events of a pass
    asked,      \* for each photo, those of the staff
    failures,   \* for each photo, its AI_ANALYSIS_FAILED events
    resting,    \* photos whose last failure is too recent
    processing, \* isProcessingAnalyses
    newer,      \* active damage disputes opened after this one
    restarts    \* restarts so far

analysisVars ==
    <<contested, photos, results, asked, failures, resting, processing, newer,
      restarts>>

Photos == 1 .. MaxPhotos

AnalysisInit ==
    /\ contested = TRUE
    /\ photos = 0
    /\ results = [p \in Photos |-> 0]
    /\ asked = [p \in Photos |-> 0]
    /\ failures = [p \in Photos |-> 0]
    /\ resting = {}
    /\ processing = FALSE
    /\ newer = 0
    /\ restarts = 0

\* evidence with the dispute, or with a response
AttachPhoto ==
    /\ contested
    /\ photos < MaxPhotos
    /\ photos' = photos + 1
    /\ UNCHANGED <<contested, results, asked, failures, resting, processing,
                   newer, restarts, req>>

CloseCase ==
    /\ contested
    /\ contested' = FALSE
    /\ UNCHANGED <<photos, results, asked, failures, resting, processing,
                   newer, restarts, req>>

\* a minute for each failure so far
RestOver(p) ==
    /\ p \in resting
    /\ resting' = resting \ {p}
    /\ UNCHANGED <<contested, photos, results, asked, failures, processing,
                   newer, restarts, req>>

\* others open damage disputes and see them closed; what has been analysed
\* still counts, as long as it is active
NewerOpens ==
    /\ newer < MaxNewer
    /\ newer' = newer + 1
    /\ UNCHANGED <<contested, photos, results, asked, failures, resting,
                   processing, restarts, req>>

NewerCloses ==
    /\ newer > 0
    /\ newer' = newer - 1
    /\ UNCHANGED <<contested, photos, results, asked, failures, resting,
                   processing, restarts, req>>

----------------------------------------------------------------------------
(* processAutomaticAnalyses                                                *)
NoPassAtWork == ~processing

\* the query of the pass: what it goes by is of this moment
PassStart(w) ==
    /\ NoPassAtWork
    /\ contested
    /\ newer < PassSize
    /\ photos # 0
    /\ results[photos] + asked[photos] = 0
    /\ failures[photos] < 3
    /\ photos \notin resting
    /\ Begin(w, [op |-> "pass", p |-> photos])
    /\ processing' = TRUE
    /\ UNCHANGED <<contested, photos, results, asked, failures, resting, newer, restarts>>

\* the call, in analyzeSelectedImages; the dispute is read again before it
PassCall(w) ==
    /\ req[w].op = "pass"
    /\ contested
    /\ Continue(w, [req[w] EXCEPT !.op = "passCall"])
    /\ UNCHANGED analysisVars

\* and after it: the answer counts only while the dispute is contested
PassAnswer(w) ==
    /\ req[w].op = "passCall"
    /\ contested
    /\ results' = [results EXCEPT ![req[w].p] = @ + 1]
    /\ Done(w)
    /\ processing' = FALSE
    /\ UNCHANGED <<contested, photos, asked, failures, resting, newer, restarts>>

\* wrong variant: a failure leaves no event
FailureForgotten(p) == UNCHANGED <<failures, resting>>

FailureNoted(p) ==
    /\ failures' = [failures EXCEPT ![p] = @ + 1]
    /\ resting' = resting \cup {p}

\* the provider fails or answers nonsense, or the dispute was closed
PassFails(w) ==
    /\ req[w].op = "passCall" \/ (req[w].op = "pass" /\ ~contested)
    /\ FailureNoted(req[w].p)
    /\ Done(w)
    /\ processing' = FALSE
    /\ UNCHANGED <<contested, photos, results, asked, newer, restarts>>

----------------------------------------------------------------------------
(* analyzeForDispute: the staff choose the photo, and may choose any; one  *)
(* of them at a time, so that the timer finds a place to work.             *)
AskRead(w) ==
    /\ contested
    /\ \A v \in Workers : req[v].op # "ask"
    /\ \E p \in 1 .. photos :
          asked[p] = 0 /\ Begin(w, [op |-> "ask", p |-> p])
    /\ UNCHANGED analysisVars

AskAnswer(w) ==
    /\ req[w].op = "ask"
    /\ contested
    /\ asked' = [asked EXCEPT ![req[w].p] = @ + 1]
    /\ Done(w)
    /\ UNCHANGED <<contested, photos, results, failures, resting, processing,
                   newer, restarts>>

AskFails(w) ==
    /\ req[w].op = "ask"
    /\ Done(w)
    /\ UNCHANGED analysisVars

\* what is in memory is lost, and what is at work with it
ProcessRestarts ==
    /\ restarts < MaxRestarts
    /\ restarts' = restarts + 1
    /\ processing' = FALSE
    /\ req' = [w \in Workers |-> Idle]
    /\ UNCHANGED <<contested, photos, results, asked, failures, resting, newer>>

Pass(w) == PassCall(w) \/ PassAnswer(w) \/ PassFails(w)

AnalysisNext ==
    \/ AttachPhoto \/ CloseCase \/ NewerOpens \/ NewerCloses \/ ProcessRestarts
    \/ \E p \in Photos : RestOver(p)
    \/ \E w \in Workers :
          PassStart(w) \/ Pass(w) \/ AskRead(w) \/ AskAnswer(w) \/ AskFails(w)

\* the timer ticks, time passes, and the provider answers or the call fails
AnalysisFairness ==
    /\ WF_<<analysisVars, req>>(\E w \in Workers : PassStart(w))
    /\ WF_<<analysisVars, req>>(\E p \in Photos : RestOver(p))
    /\ WF_<<analysisVars, req>>(\E w \in Workers : Pass(w))
    /\ WF_<<analysisVars, req>>(\E w \in Workers : AskAnswer(w) \/ AskFails(w))

----------------------------------------------------------------------------
\* As long as a pass goes on reaching the dispute, its newest photo gets a
\* result or three failures, unless the dispute is closed or a newer photo takes
\* its place.  Without the condition it need not: with PassSize newer disputes
\* that nobody closes, no pass looks at this one, analysed though they are.
Settled(p) == results[p] + asked[p] > 0 \/ failures[p] >= 3
AnalysisSettles ==
    <>[](newer < PassSize) =>
        \A p \in Photos :
            photos = p ~> Settled(p) \/ ~contested \/ photos > p

============================================================================
