----------------------------- MODULE MCProgress ----------------------------
(* What has to come to an end: the requests for one asset, booked and paid *)
(* for at once, and the image analysis of a dispute.  A behaviour explores *)
(* one of the two while the rows of the other stay as they are.            *)
EXTENDS MCMarketplace, DamageAnalysis

VARIABLE part

ProgressInit ==
    /\ part \in {"checkout", "analysis"}
    /\ Init
    /\ AnalysisInit

ProgressNext ==
    /\ UNCHANGED part
    /\ \/ part = "checkout" /\ CheckoutNext /\ UNCHANGED analysisVars
       \/ part = "analysis" /\ AnalysisNext /\ UNCHANGED tables

ProgressSpec ==
    /\ ProgressInit
    /\ [][ProgressNext]_<<part, vars, analysisVars>>
    /\ CheckoutFairness
    /\ AnalysisFairness
============================================================================
