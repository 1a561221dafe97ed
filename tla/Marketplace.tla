---------------------------- MODULE Marketplace ----------------------------
(***************************************************************************)
(* The rental, payment, finance and dispute services over one database.    *)
(***************************************************************************)
EXTENDS RentalService, PaymentService, FinanceService, DisputeService

Init ==
    /\ status = [r \in Rentals |-> NoRow]
    /\ elapsed = [r \in Rentals |-> FALSE]
    /\ payment = [r \in Rentals |-> NoRow]
    /\ paidAt = [r \in Rentals |-> FALSE]
    /\ refunds = [r \in Rentals |-> <<>>]
    /\ payout = [r \in Rentals |-> NoRow]
    /\ contract = [r \in Rentals |-> NoRow]
    /\ signed = [r \in Rentals |-> {}]
    /\ handovers = [r \in Rentals |-> <<>>]
    /\ disputes = [r \in Rentals |-> <<>>]
    /\ req = [w \in Workers |-> Idle]

\* a request arrives, or a handler of a single transaction runs
Booking(w, r) ==
    \/ CreateRental(w, r)
    \/ ApproveRead(w, r)
    \/ DeclineRead(w, r)
    \/ CancelRead(w, r)

Paying(w, r) ==
    \/ WindowElapses(r)
    \/ OpenIntent(w, r)
    \/ ExpireIntent(w, r)
    \/ FindPayment(w, r)

Lending(w, r) ==
    \/ SignRead(w, r)
    \/ StartHandoverRead(w, r)
    \/ ConfirmHandoverRead(w, r)
    \/ RequestReturnRead(w, r)
    \/ OverdueRead(w, r)

Finance(w, r) ==
    \/ CreateRefund(w, r)
    \/ RefundRead(w, r)
    \/ PayoutRead(w, r)

Disputing(w, r) ==
    \/ OpenDisputeRead(w, r)
    \/ RespondRead(w, r)
    \/ AssignRead(w, r)
    \/ AcceptDamageRead(w, r)
    \/ UpdateDisputeRead(w, r)

\* a request in flight goes on
Progress(w) ==
    \/ ApproveCommit(w)
    \/ DeclineCommit(w)
    \/ CancelCommit(w)
    \/ FlagForReview(w)
    \/ SettleLock(w)
    \/ SettleSkip(w)
    \/ SettleCommit(w)
    \/ SignUpsert(w)
    \/ SignCount(w)
    \/ SignCommit(w)
    \/ StartHandoverCommit(w)
    \/ ConfirmHandoverCommit(w)
    \/ ConfirmHandoverConflict(w)
    \/ RequestReturnCommit(w)
    \/ OverdueCommit(w)
    \/ RefundCommit(w)
    \/ PayoutCommit(w)
    \/ OpenDisputeCommit(w)
    \/ TrackCommit(w)
    \/ CloseCommit(w)
    \/ DisputeConflict(w)

\* A request ends between two of its statements: the process restarts, or the
\* database rolls the open transaction back.  What was committed stays.
Abort(w) ==
    /\ req[w] # Idle
    /\ Done(w)
    /\ UNCHANGED tables

Next ==
    \E w \in Workers :
        \/ Progress(w)
        \/ Abort(w)
        \/ \E r \in Rentals :
              \/ Booking(w, r)
              \/ Paying(w, r)
              \/ Lending(w, r)
              \/ Finance(w, r)
              \/ Disputing(w, r)

Spec == Init /\ [][Next]_vars

\* the calls that reserve and release an asset, with no money in flight
BookingNext ==
    \E w \in Workers :
        \/ ApproveCommit(w)
        \/ DeclineCommit(w)
        \/ CancelCommit(w)
        \/ Abort(w)
        \/ \E r \in Rentals :
              \/ Booking(w, r)
              \/ WindowElapses(r)
              \/ OpenIntent(w, r)
              \/ ExpireIntent(w, r)

BookingSpec == Init /\ [][BookingNext]_vars

\* booking and payment together
CheckoutNext ==
    \E w \in Workers :
        \/ Progress(w)
        \/ Abort(w)
        \/ \E r \in Rentals : Booking(w, r) \/ Paying(w, r)

\* The database runs the next statement of every request, once the rows it
\* waits for are free, and serves the requests that wait for a row in the
\* order they came: no later request overtakes one for ever, not even when
\* transactions are rolled back and retried.  Nobody is bound to make a request.
CheckoutFairness == \A w \in Workers : SF_vars(Progress(w))

CheckoutSpec == Init /\ [][CheckoutNext]_vars /\ CheckoutFairness

\* the life of a rental without the finance desk
LifecycleNext ==
    \E w \in Workers :
        \/ Progress(w)
        \/ Abort(w)
        \/ \E r \in Rentals :
              \/ Booking(w, r)
              \/ Paying(w, r)
              \/ Lending(w, r)
              \/ Disputing(w, r)

LifecycleSpec == Init /\ [][LifecycleNext]_vars

----------------------------------------------------------------------------
(* What req[w] may hold: the part of the rows a handler carries from its   *)
(* reads to its writes.                                                    *)
PlainRequest ==
    [op : {"decline", "found", "settle", "signed", "requestReturn", "overdue"},
     r : Rentals]
ApproveRequest == [op : {"approve"}, r : Rentals, expired : SUBSET Rentals]
CancelRequest ==
    [op : {"cancel"}, r : Rentals, refund : 0 .. Total,
     payout : {"CANCELLED", "BLOCKED"}, hasPayout : BOOLEAN,
     hasContract : BOOLEAN]
SignRequest == [op : {"sign"}, r : Rentals, party : Parties]
ActivateRequest == [op : {"activate"}, r : Rentals, bothSigned : BOOLEAN]
StartRequest == [op : {"startHandover"}, r : Rentals, type : HandoverType]
ConfirmRequest ==
    [op : {"confirm"}, r : Rentals, i : Nat, type : HandoverType,
     hasPayout : BOOLEAN]
RefundRequest ==
    [op : {"refund"}, r : Rentals, i : Nat, next : {"COMPLETED"},
     outcome : {"REFUNDED", "PARTIALLY_REFUNDED"}, hasPayout : BOOLEAN]
    \cup
    [op : {"refund"}, r : Rentals, i : Nat, next : {"REJECTED"},
     outcome : {"RELEASED", "HELD"}, hasPayout : BOOLEAN]
PayoutRequest == [op : {"payout"}, r : Rentals, next : PayoutStatus]
OpenRequest ==
    [op : {"open"}, r : Rentals, damage : BOOLEAN,
     first : {"OPEN", "WAITING_RESPONSE"}, hasPayout : BOOLEAN]
TrackRequest ==
    [op : {"respond", "assign"}, r : Rentals, i : Nat, next : DisputeStatus]
CloseRequest ==
    [op : {"close"}, r : Rentals, i : Nat, next : DisputeStatus,
     completes : BOOLEAN, restores : BOOLEAN]

Requests ==
    {Idle} \cup PlainRequest \cup ApproveRequest \cup CancelRequest
    \cup SignRequest \cup ActivateRequest \cup StartRequest
    \cup ConfirmRequest \cup RefundRequest \cup PayoutRequest
    \cup OpenRequest \cup TrackRequest \cup CloseRequest

\* Every table row and every request in flight is well formed.
TypeOK ==
    /\ status \in [Rentals -> RentalStatus \cup {NoRow}]
    /\ elapsed \in [Rentals -> BOOLEAN]
    /\ payment \in [Rentals -> PaymentStatus \cup {NoRow}]
    /\ paidAt \in [Rentals -> BOOLEAN]
    /\ refunds \in [Rentals -> Seq(Refund)]
    /\ payout \in [Rentals -> PayoutStatus \cup {NoRow}]
    /\ contract \in [Rentals -> ContractStatus \cup {NoRow}]
    /\ signed \in [Rentals -> SUBSET Parties]
    /\ handovers \in [Rentals -> Seq(Handover)]
    /\ disputes \in [Rentals -> Seq(Dispute)]
    /\ req \in [Workers -> Requests]

----------------------------------------------------------------------------
(* What holds however the requests interleave: a rental never reaches a    *)
(* stage whose evidence is missing, though every handler decides on rows   *)
(* that may be stale when it writes.                                       *)

AfterPayment ==
    {"AWAITING_SIGNATURE", "CONFIRMED", "READY_FOR_HANDOVER", "ONGOING",
     "RETURN_PENDING", "OVERDUE"}
AfterSigning == AfterPayment \ {"AWAITING_SIGNATURE"}
AfterDelivery == {"ONGOING", "RETURN_PENDING", "OVERDUE"}

\* A rental past payment has received its money, and has its payout and its
\* contract: no stale write of an unpaid request brings it there.
PaidBeforeSigning ==
    \A r \in Rentals :
        status[r] \in AfterPayment =>
            paidAt[r] /\ payout[r] # NoRow /\ contract[r] # NoRow

\* A rental past signing carries the signatures of both parties, although
\* signContract counts them outside its transaction.
SignedBeforeHandover ==
    \A r \in Rentals : status[r] \in AfterSigning => signed[r] = Parties

\* An asset is out, late or on its way back only after a delivery session
\* was confirmed by the renter.
DeliveredBeforeReturn ==
    \A r \in Rentals : status[r] \in AfterDelivery => Handed(r, "DELIVERY")

\* A contract becomes active only with both signatures, whatever the order
\* of the two signContract calls.
ActiveContractSigned ==
    \A r \in Rentals : contract[r] = "ACTIVE" => signed[r] = Parties

\* A rental has at most one active dispute, late answers and assignments to
\* a closed dispute included.
OneActiveDispute ==
    \A r \in Rentals : Cardinality(ActiveDisputes(r)) <= 1

\* A transfer announced twice, to two workers at once, settles one time: no
\* step resets the contract of a paid rental.
SettledOnce ==
    [][\A r \in Rentals :
          paidAt[r] => contract'[r] \in {contract[r], "ACTIVE", "CANCELLED"}]_vars

\* One session hands an asset over once, however often its confirmation is
\* sent: a rental turns ONGOING only in the step that confirms a session that
\* was still pending, and no step takes a confirmation back.
HandoverStep ==
    \A r \in Rentals :
        /\ status[r] # "ONGOING" /\ status'[r] = "ONGOING" =>
              \E i \in 1 .. Len(handovers[r]) :
                  /\ handovers[r][i].status = "PENDING"
                  /\ handovers'[r][i].status = "CONFIRMED"
        /\ \A i \in 1 .. Len(handovers[r]) :
              handovers[r][i].status = "CONFIRMED"
                  => handovers'[r][i].status = "CONFIRMED"
\* Every step of the services is a HandoverStep.
HandedOverOnce == [][HandoverStep]_vars

----------------------------------------------------------------------------
(* The inductive invariant behind the first four.  A handler in flight     *)
(* writes a stage without looking again, so what it saw when it began must *)
(* still support that stage: the evidence only ever grows.                 *)

Paid(r) == paidAt[r] /\ payout[r] # NoRow /\ contract[r] # NoRow
BothSigned(r) == Paid(r) /\ signed[r] = Parties
Delivered(r) == BothSigned(r) /\ Handed(r, "DELIVERY")

\* the rows a request points to
IndexFits(q) ==
    /\ q.op = "confirm" =>
          /\ q.i \in 1 .. Len(handovers[q.r])
          /\ handovers[q.r][q.i].type = q.type
    /\ q.op = "refund" => q.i \in 1 .. Len(refunds[q.r])
    /\ q.op \in {"respond", "assign", "close"} => q.i \in 1 .. Len(disputes[q.r])

\* the evidence a request has seen
Supported(q) ==
    /\ q.op \in {"sign", "signed", "activate"} => Paid(q.r)
    /\ q.op = "activate" => (q.bothSigned => BothSigned(q.r))
    /\ q.op \in {"startHandover", "confirm"} =>
          IF q.type = "DELIVERY" THEN BothSigned(q.r) ELSE Delivered(q.r)
    /\ q.op \in {"requestReturn", "overdue"} => Delivered(q.r)

StageOK(r) ==
    /\ status[r] \in AfterPayment => Paid(r)
    /\ status[r] \in AfterSigning => BothSigned(r)
    /\ status[r] \in AfterDelivery => Delivered(r)
    /\ contract[r] = "ACTIVE" => signed[r] = Parties

Inv ==
    /\ TypeOK
    /\ \A w \in Workers : IndexFits(req[w]) /\ Supported(req[w])
    /\ \A r \in Rentals : StageOK(r)

----------------------------------------------------------------------------
(* What holds as long as handlers do not interleave.                       *)

\* Two rentals never hold one asset for overlapping periods.
NoDoubleBooking ==
    \A r, s \in Rentals :
        r # s /\ status[r] \in Reserved /\ status[s] \in Reserved
            => ~Overlapping(r, s)

\* While a dispute is active the rental is DISPUTED: no handler of the rental
\* takes it out of the dispute's hands.
ActiveDisputeHoldsRental ==
    \A r \in Rentals : ActiveDisputes(r) # {} => status[r] = "DISPUTED"

\* The owner's payout is marked paid only while the rental is completed: no
\* dispute or other later step leaves a PAID payout on it.
PaidOnlyWhenCompleted ==
    \A r \in Rentals : payout[r] = "PAID" => status[r] = "COMPLETED"

\* A cancelled rental has no live contract.
CancelledContract ==
    \A r \in Rentals :
        status[r] = "CANCELLED" => contract[r] \in {NoRow, "CANCELLED"}

\* Until a cancellation, the payment's status says how much of it has been
\* refunded.
RefundsMatchPayment ==
    \A r \in Rentals :
        paidAt[r] /\ contract[r] # "CANCELLED" =>
            payment[r] = CASE RefundSum(r, {"COMPLETED"}) = 0 -> "SUCCESS"
                           [] RefundSum(r, {"COMPLETED"}) >= Total -> "REFUNDED"
                           [] OTHER -> "PARTIALLY_REFUNDED"

\* A rental that was declined, cancelled or expired, or is completed, changes
\* only by a dispute.
FinishedStaysFinished ==
    [][\A r \in Rentals :
          status[r] \in {"DECLINED", "CANCELLED", "EXPIRED", "COMPLETED"}
              => status'[r] \in {status[r], "DISPUTED"}]_vars

\* A rental lives through its stages in order, with its papers: it is paid once
\* and before it is signed, confirmed with both signatures, handed over once and
\* returned once, in between never back to an earlier stage, and over when it is
\* over, but for a dispute.
Life == INSTANCE RentalLife
            WITH stage <- status, paid <- paidAt, signers <- signed,
                 delivered <- [r \in Rentals |-> Handed(r, "DELIVERY")],
                 returned <- [r \in Rentals |-> Handed(r, "RETURN")]

LivesByStages == Life!LifeSpec

\* A closed dispute stays closed: no answer, assignment or status update
\* makes it active again.
ClosedStaysClosed ==
    [][\A r \in Rentals : \A i \in 1 .. Len(disputes[r]) :
          disputes[r][i].status \in TerminalDispute
              => disputes'[r][i].status \in TerminalDispute]_vars

----------------------------------------------------------------------------
(* What the documentation promises and the code does not keep.             *)

\* A refund is recorded only for money that was received.
NoRefundWithoutMoney ==
    \A r \in Rentals : RefundSum(r, {"COMPLETED"}) > 0 => paidAt[r]

\* The refunds reserved on a received payment never exceed it.
RefundsWithinBalance ==
    \A r \in Rentals : paidAt[r] => ReservedAmount(r) <= Total

\* Once both parties have signed, which activates the contract, the rental is
\* confirmed: it does not wait for signatures any more.
ActiveContractConfirms ==
    \A r \in Rentals : contract[r] = "ACTIVE" => status[r] # "AWAITING_SIGNATURE"

\* The owner is not paid for an asset that was never handed over.
PaidAfterDelivery ==
    \A r \in Rentals : payout[r] = "PAID" => Handed(r, "DELIVERY")

----------------------------------------------------------------------------
\* No worker waits for ever on the rows another one holds: the asset and
\* rental rows of approve, the payment row of the settlement.
RequestsFinish ==
    \A w \in Workers : req[w] # Idle ~> req[w] = Idle

============================================================================
