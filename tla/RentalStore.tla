---------------------------- MODULE RentalStore ----------------------------
(***************************************************************************)
(* The PostgreSQL tables the rental services share, and the requests that  *)
(* are in flight against them.                                             *)
(*                                                                         *)
(* A handler of the API reads the rows it needs, decides, awaits, and then *)
(* commits a transaction.  The isolation level is READ COMMITTED, so what  *)
(* it read may be stale by then: each handler is a Read action that keeps  *)
(* the part of the rows its transaction will use in req[w], and a Commit   *)
(* action.  Workers is the number of requests the API serves at once; with *)
(* one worker the handlers are serial.                                     *)
(***************************************************************************)
EXTENDS Api

CONSTANTS
    Rentals,        \* ids of the rental requests that may be created
    AssetOf,        \* the asset each request is for
    StartAt,        \* first instant of the rental period
    EndAt,          \* first instant after the rental period
    Total,          \* totalAmount of a rental, the amount of its payment
    LateRefund,     \* what a renter who cancels close to the start gets back
    PayoutTargets,  \* bound: the payout statuses a finance manager asks for
    MaxRefunds,     \* bound: refund rows per payment
    MaxHandovers,   \* bound: handover sessions per rental
    MaxDisputes     \* bound: disputes per rental

ASSUME PeriodAssumption ==
    /\ StartAt \in [Rentals -> Nat]
    /\ EndAt \in [Rentals -> Nat]
    /\ \A r \in Rentals : StartAt[r] < EndAt[r]

ASSUME AmountAssumption ==
    /\ Total \in Nat \ {0}
    /\ LateRefund \in 0 .. Total

ASSUME BoundAssumption ==
    /\ PayoutTargets \subseteq {"PENDING", "SCHEDULED", "PAID", "BLOCKED", "CANCELLED"}
    /\ MaxRefunds \in Nat
    /\ MaxHandovers \in Nat
    /\ MaxDisputes \in Nat

VARIABLES
    status,     \* rental_requests.status, NoRow before the row is created
    elapsed,    \* the payment window counted from updatedAt has passed
    payment,    \* status of the rental's payment row
    paidAt,     \* payments.paidAt is set: the money was received
    refunds,    \* refund rows of the payment, oldest first
    payout,     \* status of the rental's payout row
    contract,   \* status of the rental's contract row
    signed,     \* parties with a signature row on the contract
    handovers,  \* handover sessions, oldest first
    disputes    \* disputes of the rental, oldest first

money == <<payment, paidAt, refunds, payout>>
agreement == <<contract, signed>>
tables == <<status, elapsed, money, agreement, handovers, disputes>>
vars == <<tables, req>>

RentalStatus ==
    {"PENDING_OWNER", "AWAITING_PAYMENT", "AWAITING_SIGNATURE", "CONFIRMED",
     "READY_FOR_HANDOVER", "ONGOING", "RETURN_PENDING", "COMPLETED",
     "DECLINED", "CANCELLED", "EXPIRED", "DISPUTED", "OVERDUE"}
PaymentStatus ==
    {"PENDING", "PROCESSING", "SUCCESS", "REFUNDED", "PARTIALLY_REFUNDED"}
\* REJECTED stands for FAILED too: no handler tells them apart
RefundStatus == {"PENDING", "COMPLETED", "REJECTED"}
PayoutStatus == {"PENDING", "SCHEDULED", "PAID", "BLOCKED", "CANCELLED"}
ContractStatus == {"PENDING_SIGNATURE", "ACTIVE", "CANCELLED"}
HandoverType == {"DELIVERY", "RETURN"}
ActiveDispute == {"OPEN", "WAITING_RESPONSE", "UNDER_REVIEW"}
\* CLOSED stands for RESOLVED and REJECTED too: no handler tells them apart
TerminalDispute == {"CLOSED"}
DisputeStatus == ActiveDispute \cup TerminalDispute
Parties == {"owner", "renter"}

Reserved ==
    {"AWAITING_PAYMENT", "AWAITING_SIGNATURE", "CONFIRMED",
     "READY_FOR_HANDOVER", "ONGOING", "RETURN_PENDING", "OVERDUE"}

Refund == [amount : 1 .. Total, status : RefundStatus]
Handover == [type : HandoverType, status : {"PENDING", "CONFIRMED"}]
\* damage: reason RETURN_ISSUE and opened by the owner
Dispute == [status : DisputeStatus, damage : BOOLEAN]

----------------------------------------------------------------------------
(* Queries the handlers make. *)

Overlapping(r, s) ==
    /\ AssetOf[r] = AssetOf[s]
    /\ StartAt[r] < EndAt[s]
    /\ EndAt[r] > StartAt[s]

RefundSum(r, states) ==
    MapThenSumSet(LAMBDA i : refunds[r][i].amount,
                  {i \in 1 .. Len(refunds[r]) : refunds[r][i].status \in states})

ReservedAmount(r) == RefundSum(r, {"PENDING", "COMPLETED"})

Handed(r, type) ==
    \E i \in 1 .. Len(handovers[r]) :
        handovers[r][i] = [type |-> type, status |-> "CONFIRMED"]

ActiveDisputes(r) ==
    {i \in 1 .. Len(disputes[r]) : disputes[r][i].status \in ActiveDispute}

----------------------------------------------------------------------------
(* The row locks the open transactions of requests hold.                   *)

\* approve holds the asset row (SELECT ... FOR UPDATE) until it commits, and
\* the rows of the rentals its updateMany expires
AssetFree(a) ==
    \A w \in Workers : req[w].op = "approve" => AssetOf[req[w].r] # a
RentalFree(r) ==
    \A w \in Workers : req[w].op = "approve" => r \notin req[w].expired
\* wrong variant: the settlement reads the payment without FOR UPDATE
PaymentNeverLocked(r) == TRUE

\* the settlement holds the payment row
PaymentFree(r) ==
    \A w \in Workers : req[w].op = "settle" => req[w].r # r

SetStatus(r, new) ==
    /\ RentalFree(r)
    /\ status' = [status EXCEPT ![r] = new]
    /\ elapsed' = [elapsed EXCEPT ![r] = FALSE]

============================================================================
