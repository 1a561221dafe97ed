--------------------------- MODULE PaymentService --------------------------
(***************************************************************************)
(* The payment of a rental: the intent and the settlement in               *)
(* rentals.service.ts, the SePay webhook in payment.service.ts.  The       *)
(* configured provider never changes, so a rental has one payment row.     *)
(***************************************************************************)
EXTENDS RentalStore

\* time: payment_window_minutes pass since the approval
WindowElapses(r) ==
    /\ status[r] = "AWAITING_PAYMENT"
    /\ ~elapsed[r]
    /\ elapsed' = [elapsed EXCEPT ![r] = TRUE]
    /\ UNCHANGED <<status, money, agreement, handovers, disputes, req>>

(* getPaymentIntent inside the window: the rental row is locked, its       *)
(* status checked again, and a pending payment row reused or created.      *)
MayOpenIntent(r) ==
    /\ status[r] = "AWAITING_PAYMENT"
    /\ ~elapsed[r]
    /\ payment[r] = NoRow
    /\ RentalFree(r)

OpenIntent(w, r) ==
    /\ AtOnce(w)
    /\ MayOpenIntent(r)
    /\ payment' = [payment EXCEPT ![r] = "PENDING"]
    /\ UNCHANGED <<status, elapsed, paidAt, refunds, payout, agreement,
                   handovers, disputes>>

(* getPaymentIntent after the window: a conditional update.                *)
MayExpireIntent(r) ==
    /\ status[r] = "AWAITING_PAYMENT"
    /\ elapsed[r]
    /\ RentalFree(r)

ExpireIntent(w, r) ==
    /\ AtOnce(w)
    /\ MayExpireIntent(r)
    /\ SetStatus(r, "EXPIRED")
    /\ UNCHANGED <<money, agreement, handovers, disputes>>

(* A transfer is announced by the webhook, or a sandbox payment confirmed: *)
(* the payment row is found by its intent id, without a lock.  The same    *)
(* transfer may be announced again.  Of the rows that still carry the      *)
(* intent id only a PENDING one can lead to a write.                       *)
Findable(r) == payment[r] = "PENDING"

FindPayment(w, r) ==
    /\ Findable(r)
    /\ Begin(w, [op |-> "found", r |-> r])
    /\ UNCHANGED tables

(* The amount differs from the rental's: a conditional update takes the    *)
(* payment, and its intent id, out of the webhook's reach.                 *)
FlagForReview(w) ==
    LET r == req[w].r
    IN  /\ req[w].op = "found"
        /\ PaymentFree(r)
        /\ payment' = [payment EXCEPT ![r] =
                         IF @ \in {"PENDING", "PROCESSING"} THEN "PROCESSING"
                                                            ELSE @]
        /\ Done(w)
        /\ UNCHANGED <<status, elapsed, paidAt, refunds, payout, agreement,
                       handovers, disputes>>

(* settleVerifiedPayment locks the payment row and reads the rental row.   *)
SettleLock(w) ==
    LET r == req[w].r
    IN  /\ req[w].op = "found"
        /\ PaymentFree(r)
        /\ payment[r] # "SUCCESS"
        /\ status[r] = "AWAITING_PAYMENT"
        /\ Continue(w, [op |-> "settle", r |-> r])
        /\ UNCHANGED tables

(* Already settled (returns the rental), or no longer awaiting payment     *)
(* (Conflict).                                                             *)
SettleSkip(w) ==
    LET r == req[w].r
    IN  /\ req[w].op = "found"
        /\ PaymentFree(r)
        /\ payment[r] = "SUCCESS" \/ status[r] # "AWAITING_PAYMENT"
        /\ Done(w)
        /\ UNCHANGED tables

\* wrong variant: the payout row is not created
SettleWithoutPayout(w) ==
    LET r == req[w].r
    IN  /\ req[w].op = "settle"
        /\ payment' = [payment EXCEPT ![r] = "SUCCESS"]
        /\ paidAt' = [paidAt EXCEPT ![r] = TRUE]
        /\ contract' = [contract EXCEPT ![r] = "PENDING_SIGNATURE"]
        /\ SetStatus(r, "AWAITING_SIGNATURE")
        /\ Done(w)
        /\ UNCHANGED <<refunds, payout, signed, handovers, disputes>>

SettleCommit(w) ==
    LET r == req[w].r
    IN  /\ req[w].op = "settle"
        /\ payment' = [payment EXCEPT ![r] = "SUCCESS"]
        /\ paidAt' = [paidAt EXCEPT ![r] = TRUE]
        /\ payout' = [payout EXCEPT ![r] = "PENDING"]
        /\ contract' = [contract EXCEPT ![r] = "PENDING_SIGNATURE"]
        /\ SetStatus(r, "AWAITING_SIGNATURE")
        /\ Done(w)
        /\ UNCHANGED <<refunds, signed, handovers, disputes>>

============================================================================
