--------------------------- MODULE RentalService ---------------------------
(***************************************************************************)
(* rentals.service.ts: booking, approval, cancellation, signing, handover  *)
(* and return.  The payment half of that file is in PaymentService and its *)
(* disputes are in DisputeService.                                         *)
(***************************************************************************)
EXTENDS RentalStore

(* Booking.  The whole decision is made under the lock of the asset row.   *)
(* Dates, duration and availability windows may reject a request; here any *)
(* request may simply never be made.                                       *)
CreateRental(w, r) ==
    /\ AtOnce(w)
    /\ status[r] = NoRow
    /\ AssetFree(AssetOf[r])
    /\ \A s \in Rentals : status[s] \in Reserved => ~Overlapping(r, s)
    /\ SetStatus(r, "PENDING_OWNER")
    /\ UNCHANGED <<money, agreement, handovers, disputes>>

(* Approval: one transaction under the asset lock.  It expires the unpaid  *)
(* bookings of the asset, then reads and checks, then writes the rental    *)
(* row, which it never locked.                                             *)
Lapsed(a) ==
    {s \in Rentals : /\ AssetOf[s] = a
                     /\ status[s] = "AWAITING_PAYMENT"
                     /\ elapsed[s]}

\* wrong variant: approve does not lock the asset
ApproveUnlocked(w, r) ==
    LET expired == Lapsed(AssetOf[r])
    IN  /\ status[r] = "PENDING_OWNER"
        /\ \A s \in Rentals \ (expired \cup {r}) :
              status[s] \in Reserved => ~Overlapping(r, s)
        /\ Begin(w, [op |-> "approve", r |-> r, expired |-> expired])
        /\ UNCHANGED tables

Approvable(r) ==
    /\ AssetFree(AssetOf[r])
    /\ status[r] = "PENDING_OWNER"
    /\ \A s \in Rentals \ (Lapsed(AssetOf[r]) \cup {r}) :
          status[s] \in Reserved => ~Overlapping(r, s)

ApproveRead(w, r) ==
    /\ Approvable(r)
    /\ Begin(w, [op |-> "approve", r |-> r, expired |-> Lapsed(AssetOf[r])])
    /\ UNCHANGED tables

\* wrong variant: it also locks the payments of the bookings it expires
ApproveVoidingPayments(w) ==
    LET q == req[w]
    IN  /\ q.op = "approve"
        /\ \A s \in q.expired : PaymentFree(s)
        /\ status' = [s \in Rentals |->
                        IF s = q.r THEN "AWAITING_PAYMENT"
                        ELSE IF s \in q.expired THEN "EXPIRED" ELSE status[s]]
        /\ elapsed' = [s \in Rentals |->
                        elapsed[s] /\ s \notin q.expired \cup {q.r}]
        /\ Done(w)
        /\ UNCHANGED <<money, agreement, handovers, disputes>>

ApproveCommit(w) ==
    LET q == req[w]
    IN  /\ q.op = "approve"
        /\ status' = [s \in Rentals |->
                        IF s = q.r THEN "AWAITING_PAYMENT"
                        ELSE IF s \in q.expired THEN "EXPIRED" ELSE status[s]]
        /\ elapsed' = [s \in Rentals |->
                        elapsed[s] /\ s \notin q.expired \cup {q.r}]
        /\ Done(w)
        /\ UNCHANGED <<money, agreement, handovers, disputes>>

Declinable == {"PENDING_OWNER"}

DeclineRead(w, r) ==
    /\ status[r] \in Declinable
    /\ Begin(w, [op |-> "decline", r |-> r])
    /\ UNCHANGED tables

DeclineCommit(w) ==
    /\ req[w].op = "decline"
    /\ SetStatus(req[w].r, "DECLINED")
    /\ Done(w)
    /\ UNCHANGED <<money, agreement, handovers, disputes>>

----------------------------------------------------------------------------
(* Cancellation.  computeCancellationOutcome looks for a payment row, not  *)
(* at its status.                                                          *)
\* wrong variant: an expired booking can be cancelled too
CancellableWhenExpired ==
    {"PENDING_OWNER", "AWAITING_PAYMENT", "AWAITING_SIGNATURE", "CONFIRMED",
     "READY_FOR_HANDOVER", "EXPIRED"}

Cancellable ==
    {"PENDING_OWNER", "AWAITING_PAYMENT", "AWAITING_SIGNATURE", "CONFIRMED",
     "READY_FOR_HANDOVER"}

\* the owner and an early renter refund everything, a late renter a part
CancellationOutcomes(r) ==
    IF payment[r] = NoRow
    THEN {[refund |-> 0, payout |-> "CANCELLED"]}
    ELSE {[refund |-> Total, payout |-> "CANCELLED"],
          [refund |-> LateRefund,
           payout |-> IF LateRefund = Total THEN "CANCELLED" ELSE "BLOCKED"]}

CancelRead(w, r) ==
    /\ status[r] \in Cancellable
    /\ Len(refunds[r]) < MaxRefunds
    /\ \E outcome \in CancellationOutcomes(r) :
          Begin(w, [op |-> "cancel", r |-> r,
                    refund |-> outcome.refund, payout |-> outcome.payout,
                    hasPayout |-> payout[r] # NoRow,
                    hasContract |-> contract[r] # NoRow])
    /\ UNCHANGED tables

CancelRefund(q) ==
    IF q.refund = 0
    THEN UNCHANGED <<payment, refunds>>
    ELSE /\ PaymentFree(q.r)
         /\ refunds' = [refunds EXCEPT ![q.r] =
                          Append(@, [amount |-> q.refund, status |-> "COMPLETED"])]
         /\ payment' = [payment EXCEPT ![q.r] =
                          IF q.refund >= Total THEN "REFUNDED"
                                               ELSE "PARTIALLY_REFUNDED"]

\* wrong variant: the contract is left alone
CancelKeepingContract(w) ==
    LET q == req[w]
    IN  /\ q.op = "cancel"
        /\ CancelRefund(q)
        /\ payout' = [payout EXCEPT ![q.r] =
                        IF q.hasPayout THEN q.payout ELSE @]
        /\ SetStatus(q.r, "CANCELLED")
        /\ Done(w)
        /\ UNCHANGED <<paidAt, agreement, handovers, disputes>>

CancelCommit(w) ==
    LET q == req[w]
    IN  /\ q.op = "cancel"
        /\ CancelRefund(q)
        /\ payout' = [payout EXCEPT ![q.r] =
                        IF q.hasPayout THEN q.payout ELSE @]
        /\ contract' = [contract EXCEPT ![q.r] =
                          IF q.hasContract THEN "CANCELLED" ELSE @]
        /\ SetStatus(q.r, "CANCELLED")
        /\ Done(w)
        /\ UNCHANGED <<paidAt, signed, handovers, disputes>>

----------------------------------------------------------------------------
(* Signing is four statements: the check, the upsert of the signature, the *)
(* query for both signatures, and the transaction.                         *)
Signable(r) == status[r] = "AWAITING_SIGNATURE" /\ contract[r] # NoRow

SignRead(w, r) ==
    /\ Signable(r)
    /\ \E party \in Parties :
          Begin(w, [op |-> "sign", r |-> r, party |-> party])
    /\ UNCHANGED tables

SignUpsert(w) ==
    LET q == req[w]
    IN  /\ q.op = "sign"
        /\ signed' = [signed EXCEPT ![q.r] = @ \cup {q.party}]
        /\ Continue(w, [op |-> "signed", r |-> q.r])
        /\ UNCHANGED <<status, elapsed, money, contract, handovers, disputes>>

\* wrong variant: one signature is enough
SignCountAny(w) ==
    LET q == req[w]
    IN  /\ q.op = "signed"
        /\ Continue(w, [op |-> "activate", r |-> q.r,
                        bothSigned |-> signed[q.r] # {}])
        /\ UNCHANGED tables

SignCount(w) ==
    LET q == req[w]
    IN  /\ q.op = "signed"
        /\ Continue(w, [op |-> "activate", r |-> q.r,
                        bothSigned |-> signed[q.r] = Parties])
        /\ UNCHANGED tables

SignCommit(w) ==
    LET q == req[w]
    IN  /\ q.op = "activate"
        /\ contract' = [contract EXCEPT ![q.r] =
                          IF q.bothSigned THEN "ACTIVE" ELSE @]
        /\ SetStatus(q.r, IF q.bothSigned THEN "CONFIRMED"
                                          ELSE "AWAITING_SIGNATURE")
        /\ Done(w)
        /\ UNCHANGED <<money, signed, handovers, disputes>>

----------------------------------------------------------------------------
(* Handover sessions.  The owner starts one, the renter confirms it.       *)
MayStart(type) ==
    IF type = "DELIVERY" THEN {"CONFIRMED", "READY_FOR_HANDOVER"}
                         ELSE {"RETURN_PENDING"}

StartHandoverRead(w, r) ==
    /\ Len(handovers[r]) < MaxHandovers
    /\ \E type \in HandoverType :
          /\ status[r] \in MayStart(type)
          /\ Begin(w, [op |-> "startHandover", r |-> r, type |-> type])
    /\ UNCHANGED tables

StartHandoverCommit(w) ==
    LET q == req[w]
    IN  /\ q.op = "startHandover"
        /\ handovers' = [handovers EXCEPT ![q.r] =
                           Append(@, [type |-> q.type, status |-> "PENDING"])]
        /\ SetStatus(q.r, IF q.type = "DELIVERY" THEN "READY_FOR_HANDOVER"
                                                 ELSE "RETURN_PENDING")
        /\ Done(w)
        /\ UNCHANGED <<money, agreement, disputes>>

MayConfirm(type) ==
    IF type = "DELIVERY" THEN "READY_FOR_HANDOVER" ELSE "RETURN_PENDING"

Confirmable(r) ==
    {i \in 1 .. Len(handovers[r]) : status[r] = MayConfirm(handovers[r][i].type)}

ConfirmHandoverRead(w, r) ==
    /\ \E i \in Confirmable(r) :
          Begin(w, [op |-> "confirm", r |-> r, i |-> i,
                    type |-> handovers[r][i].type,
                    hasPayout |-> payout[r] # NoRow])
    /\ UNCHANGED tables

\* wrong variant: a session that is already confirmed is confirmed again
ConfirmHandoverAgain(w) ==
    LET q == req[w]
    IN  /\ q.op = "confirm"
        /\ handovers' = [handovers EXCEPT ![q.r][q.i].status = "CONFIRMED"]
        /\ payout' = [payout EXCEPT ![q.r] =
                        IF q.type = "RETURN" /\ q.hasPayout THEN "PENDING" ELSE @]
        /\ SetStatus(q.r, IF q.type = "DELIVERY" THEN "ONGOING" ELSE "COMPLETED")
        /\ Done(w)
        /\ UNCHANGED <<payment, paidAt, refunds, agreement, disputes>>

\* the transaction claims the session; a session already confirmed aborts it
ConfirmHandoverCommit(w) ==
    LET q == req[w]
    IN  /\ q.op = "confirm"
        /\ handovers[q.r][q.i].status = "PENDING"
        /\ handovers' = [handovers EXCEPT ![q.r][q.i].status = "CONFIRMED"]
        /\ payout' = [payout EXCEPT ![q.r] =
                        IF q.type = "RETURN" /\ q.hasPayout THEN "PENDING" ELSE @]
        /\ SetStatus(q.r, IF q.type = "DELIVERY" THEN "ONGOING" ELSE "COMPLETED")
        /\ Done(w)
        /\ UNCHANGED <<payment, paidAt, refunds, agreement, disputes>>

ConfirmHandoverConflict(w) ==
    /\ req[w].op = "confirm"
    /\ handovers[req[w].r][req[w].i].status # "PENDING"
    /\ Done(w)
    /\ UNCHANGED tables

\* wrong variant: the return may be asked before the delivery is confirmed
RequestReturnEarly(w, r) ==
    /\ status[r] \in {"READY_FOR_HANDOVER", "ONGOING", "OVERDUE"}
    /\ Begin(w, [op |-> "requestReturn", r |-> r])
    /\ UNCHANGED tables

Returnable == {"ONGOING", "OVERDUE"}

RequestReturnRead(w, r) ==
    /\ status[r] \in Returnable
    /\ Begin(w, [op |-> "requestReturn", r |-> r])
    /\ UNCHANGED tables

RequestReturnCommit(w) ==
    /\ req[w].op = "requestReturn"
    /\ SetStatus(req[w].r, "RETURN_PENDING")
    /\ Done(w)
    /\ UNCHANGED <<money, agreement, handovers, disputes>>

----------------------------------------------------------------------------
(* notifications.service.ts, runReminderJobs: it selects the rentals past  *)
(* their end in one query and marks them one by one after other awaits.    *)
\* wrong variant: an asset nobody came for is overdue as well
OverdueUndelivered(w, r) ==
    /\ status[r] \in {"READY_FOR_HANDOVER", "ONGOING", "RETURN_PENDING"}
    /\ Begin(w, [op |-> "overdue", r |-> r])
    /\ UNCHANGED tables

OverdueRead(w, r) ==
    /\ status[r] \in {"ONGOING", "RETURN_PENDING"}
    /\ Begin(w, [op |-> "overdue", r |-> r])
    /\ UNCHANGED tables

OverdueCommit(w) ==
    /\ req[w].op = "overdue"
    /\ SetStatus(req[w].r, "OVERDUE")
    /\ Done(w)
    /\ UNCHANGED <<money, agreement, handovers, disputes>>

============================================================================
