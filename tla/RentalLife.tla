----------------------------- MODULE RentalLife -----------------------------
(***************************************************************************)
(* What a rental promises to its two parties, without requests, locks and  *)
(* rows: the stages it goes through, and what has to have happened before. *)
(* Rentals live side by side, so several may go on at once.                *)
(***************************************************************************)
CONSTANTS Rentals, Parties

VARIABLES
    stage,      \* where each rental is
    paid,       \* its money has been received
    signers,    \* who has signed its contract
    delivered,  \* the asset was handed over to the renter
    returned    \* and back to the owner

lifeVars == <<stage, paid, signers, delivered, returned>>

Unborn == "NO_ROW"

LifeInit ==
    /\ stage = [r \in Rentals |-> Unborn]
    /\ paid = [r \in Rentals |-> FALSE]
    /\ signers = [r \in Rentals |-> {}]
    /\ delivered = [r \in Rentals |-> FALSE]
    /\ returned = [r \in Rentals |-> FALSE]

----------------------------------------------------------------------------
(* The turns that need no evidence.                                        *)
Agreeing ==
    ({Unborn} \X {"PENDING_OWNER"})
    \cup ({"PENDING_OWNER"} \X {"AWAITING_PAYMENT", "DECLINED"})
    \cup ({"AWAITING_PAYMENT"} \X {"EXPIRED"})
Using ==
    ({"CONFIRMED"} \X {"READY_FOR_HANDOVER"})
    \cup ({"ONGOING", "OVERDUE"} \X {"RETURN_PENDING"})
    \cup ({"ONGOING", "RETURN_PENDING"} \X {"OVERDUE"})
BeforeDelivery ==
    {"PENDING_OWNER", "AWAITING_PAYMENT", "AWAITING_SIGNATURE", "CONFIRMED",
     "READY_FOR_HANDOVER"}
Cancelling == BeforeDelivery \X {"CANCELLED"}

Moves(r) == <<stage[r], stage'[r]>>
SamePapers(r) == paid'[r] = paid[r] /\ signers'[r] = signers[r]
SameHands(r) == delivered'[r] = delivered[r] /\ returned'[r] = returned[r]

Rest(r) == stage'[r] = stage[r] /\ SamePapers(r) /\ SameHands(r)

Turn(r) == Moves(r) \in Agreeing \cup Using \cup Cancelling /\ SamePapers(r) /\ SameHands(r)

\* the money comes in once, for a booking that still waits for it
Pay(r) ==
    /\ Moves(r) = <<"AWAITING_PAYMENT", "AWAITING_SIGNATURE">>
    /\ ~paid[r] /\ paid'[r]
    /\ signers'[r] = signers[r] /\ SameHands(r)

Sign(r) ==
    /\ Moves(r) = <<"AWAITING_SIGNATURE", "AWAITING_SIGNATURE">>
    /\ \E p \in Parties : signers'[r] = signers[r] \cup {p}
    /\ paid'[r] = paid[r] /\ SameHands(r)

Confirm(r) ==
    /\ Moves(r) = <<"AWAITING_SIGNATURE", "CONFIRMED">>
    /\ paid[r] /\ signers[r] = Parties
    /\ SamePapers(r) /\ SameHands(r)

\* the asset goes out once
Deliver(r) ==
    /\ Moves(r) = <<"READY_FOR_HANDOVER", "ONGOING">>
    /\ paid[r] /\ signers[r] = Parties
    /\ ~delivered[r] /\ delivered'[r]
    /\ returned'[r] = returned[r] /\ SamePapers(r)

\* and comes back once
Return(r) ==
    /\ Moves(r) = <<"RETURN_PENDING", "COMPLETED">>
    /\ delivered[r] /\ ~returned[r] /\ returned'[r]
    /\ delivered'[r] = delivered[r] /\ SamePapers(r)

Dispute(r) ==
    /\ stage[r] # Unborn /\ stage'[r] = "DISPUTED"
    /\ SamePapers(r) /\ SameHands(r)

Resolve(r) ==
    /\ Moves(r) = <<"DISPUTED", "COMPLETED">>
    /\ SamePapers(r) /\ SameHands(r)

LifeStep(r) ==
    \/ Rest(r) \/ Turn(r) \/ Pay(r) \/ Sign(r) \/ Confirm(r)
    \/ Deliver(r) \/ Return(r) \/ Dispute(r) \/ Resolve(r)

LifeNext ==
    /\ DOMAIN stage' = Rentals /\ DOMAIN paid' = Rentals /\ DOMAIN signers' = Rentals
    /\ DOMAIN delivered' = Rentals /\ DOMAIN returned' = Rentals
    /\ \A r \in Rentals : LifeStep(r)

LifeSpec == LifeInit /\ [][LifeNext]_lifeVars

============================================================================
