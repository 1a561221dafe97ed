--------------------------- MODULE FinanceService --------------------------
(***************************************************************************)
(* finance.service.ts: refunds asked by a finance manager, and the status  *)
(* of the payout to the owner.                                             *)
(***************************************************************************)
EXTENDS RentalStore

Refundable == {"SUCCESS", "PARTIALLY_REFUNDED"}

(* createRefund repeats its checks under the lock of the payment row.      *)
MayRefund(r, amount) ==
    /\ payment[r] \in Refundable
    /\ PaymentFree(r)
    /\ amount <= Total - ReservedAmount(r)

CreateRefund(w, r) ==
    /\ AtOnce(w)
    /\ Len(refunds[r]) < MaxRefunds
    /\ \E amount \in 1 .. Total :
          /\ MayRefund(r, amount)
          /\ refunds' = [refunds EXCEPT ![r] =
                           Append(@, [amount |-> amount, status |-> "PENDING"])]
    /\ payout' = [payout EXCEPT ![r] = IF @ = NoRow THEN @ ELSE "BLOCKED"]
    /\ UNCHANGED <<status, elapsed, payment, paidAt, agreement, handovers,
                   disputes>>

(* updateRefundStatus locks the refund row, reads its siblings without a   *)
(* lock, and decides from that what becomes of the payment and the payout. *)
Siblings(r, i, states) ==
    {j \in 1 .. Len(refunds[r]) \ {i} : refunds[r][j].status \in states}

\* wrong variant: the refund being completed is not counted
RefundOutcomeBefore(r, i, next) ==
    IF next = "COMPLETED"
    THEN IF RefundSum(r, {"COMPLETED"}) >= Total
         THEN "REFUNDED" ELSE "PARTIALLY_REFUNDED"
    ELSE IF Siblings(r, i, {"PENDING", "COMPLETED"}) = {}
         THEN "RELEASED" ELSE "HELD"

RefundOutcome(r, i, next) ==
    IF next = "COMPLETED"
    THEN IF RefundSum(r, {"COMPLETED"}) + refunds[r][i].amount >= Total
         THEN "REFUNDED" ELSE "PARTIALLY_REFUNDED"
    ELSE IF Siblings(r, i, {"PENDING", "COMPLETED"}) = {}
         THEN "RELEASED" ELSE "HELD"

Endable(r) ==
    {i \in 1 .. Len(refunds[r]) :
        /\ refunds[r][i].status = "PENDING"
        /\ \A v \in Workers :
              req[v].op = "refund" => req[v].r # r \/ req[v].i # i}

RefundRead(w, r) ==
    /\ \E i \in Endable(r), next \in RefundStatus \ {"PENDING"} :
          Begin(w, [op |-> "refund", r |-> r, i |-> i, next |-> next,
                    outcome |-> RefundOutcome(r, i, next),
                    hasPayout |-> payout[r] # NoRow])
    /\ UNCHANGED tables

\* wrong variant: the payment's new status is written to the payout
PayoutLikePayment(outcome, old) ==
    IF outcome \in {"REFUNDED", "PARTIALLY_REFUNDED"} THEN outcome ELSE old

PayoutAfterRefund(outcome, old) ==
    CASE outcome = "REFUNDED"           -> "CANCELLED"
      [] outcome = "PARTIALLY_REFUNDED" -> "BLOCKED"
      [] outcome = "RELEASED"           -> "PENDING"
      [] outcome = "HELD"               -> old

RefundCommit(w) ==
    LET q == req[w]
    IN  /\ q.op = "refund"
        /\ q.next = "COMPLETED" => PaymentFree(q.r)
        /\ refunds' = [refunds EXCEPT ![q.r][q.i].status = q.next]
        /\ payment' = [payment EXCEPT ![q.r] =
                         IF q.next = "COMPLETED" THEN q.outcome ELSE @]
        /\ payout' = [payout EXCEPT ![q.r] =
                        IF q.hasPayout THEN PayoutAfterRefund(q.outcome, @)
                                       ELSE @]
        /\ Done(w)
        /\ UNCHANGED <<status, elapsed, paidAt, agreement, handovers, disputes>>

----------------------------------------------------------------------------
(* updatePayoutStatus checks only the way to PAID, and writes              *)
(* unconditionally afterwards.                                             *)
MayPay(r) ==
    /\ status[r] = "COMPLETED"
    /\ payout[r] \in {"PENDING", "PAID"}

PayoutRead(w, r) ==
    /\ payout[r] # NoRow
    /\ \E next \in PayoutTargets :
          /\ next = "PAID" => MayPay(r)
          /\ Begin(w, [op |-> "payout", r |-> r, next |-> next])
    /\ UNCHANGED tables

PayoutCommit(w) ==
    LET q == req[w]
    IN  /\ q.op = "payout"
        /\ payout' = [payout EXCEPT ![q.r] = q.next]
        /\ Done(w)
        /\ UNCHANGED <<status, elapsed, payment, paidAt, refunds, agreement,
                       handovers, disputes>>

============================================================================
