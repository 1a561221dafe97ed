--------------------------- MODULE RentalScreens ---------------------------
(***************************************************************************)
(* The screens of the mobile app that carry a rental on, and the desks of  *)
(* the staff: which buttons they show for the rows as they are, which call *)
(* a button makes, and which calls the services accept from whom.  The app *)
(* decides from its own conditions, not from the services'.                *)
(***************************************************************************)
EXTENDS Marketplace

(* rental/[id].tsx: the status and the role decide what is offered.  A     *)
(* cancellation is offered only before the owner has answered, a return    *)
(* only while the rental is not late.                                      *)
DetailButtons ==
    ({"PENDING_OWNER"} \X {"owner"} \X {"approve", "decline"})
    \cup ({"PENDING_OWNER"} \X {"renter"} \X {"cancel"})
    \cup ({"AWAITING_PAYMENT"} \X {"renter"} \X {"payment"})
    \cup ({"AWAITING_SIGNATURE"} \X Parties \X {"contract"})
    \cup ({"CONFIRMED", "READY_FOR_HANDOVER", "RETURN_PENDING"}
             \X Parties \X {"handover"})
    \cup ({"ONGOING"} \X {"renter"} \X {"return"})

ProblemButtons ==
    ({"RETURN_PENDING"} \X {"owner"} \X {"damage"})
    \cup ({"OVERDUE"} \X {"owner"} \X {"notReturned"})
    \cup ({"DISPUTED"} \X Parties \X {"dispute"})

Opens(r, p) ==
    {screen \in {"approve", "decline", "cancel", "payment", "contract",
                 "handover", "return", "damage", "notReturned", "dispute"} :
        <<status[r], p, screen>> \in DetailButtons \cup ProblemButtons}

----------------------------------------------------------------------------
(* The calls the screens behind the buttons make.                          *)

\* rental/[id]/payment.tsx asks for the intent when it opens
PaymentCalls(r) == {"intent"} \cup
    (IF payment[r] = "PENDING" /\ ~elapsed[r] THEN {"pay"} ELSE {})

\* buildPaymentIntent: what is asked of the renter
Payable(r) ==
    /\ status[r] = "AWAITING_PAYMENT"
    /\ payment[r] \notin {"SUCCESS", "PARTIALLY_REFUNDED", "REFUNDED"}

\* rental/[id]/contract.tsx
ContractCalls(r, p) ==
    IF contract[r] # NoRow /\ p \notin signed[r] THEN {"sign"} ELSE {}

\* rental/[id]/handover.tsx: the type follows from the status it has read
HandoverKind(r) == IF status[r] = "RETURN_PENDING" THEN "RETURN" ELSE "DELIVERY"

\* rental/[id]/qr.tsx: the owner's screen shows a code of the session it began
CodeShown(r) ==
    /\ handovers[r] # <<>>
    /\ handovers[r][Len(handovers[r])] =
           [type |-> HandoverKind(r), status |-> "PENDING"]

HandoverCalls(r, p) ==
    IF p = "owner" THEN {"start"}
    ELSE IF CodeShown(r) THEN {"scan"} ELSE {}

\* wrong variant: the screen takes the oldest dispute of the rental
ShownOldest(r) == disputes[r][1]

\* rental/[id]/dispute.tsx: the first of one's disputes, which come newest first
ShownDispute(r) == disputes[r][Len(disputes[r])]

DisputeCalls(r, p) ==
    IF disputes[r] = <<>> \/ ShownDispute(r).status \in TerminalDispute THEN {}
    ELSE {"respond"}
         \cup (IF p = "renter" /\ ShownDispute(r).damage THEN {"accept"} ELSE {})

ReturnCalls == {"requestReturn"}

\* every call one press away from the screens party p is led to
Calls(r, p) ==
    UNION {CASE screen = "payment"  -> PaymentCalls(r)
             [] screen = "contract" -> ContractCalls(r, p)
             [] screen = "handover" -> HandoverCalls(r, p)
             [] screen = "return"   -> ReturnCalls
             [] screen = "dispute"  -> DisputeCalls(r, p)
             [] OTHER               -> {screen} : screen \in Opens(r, p)}

----------------------------------------------------------------------------
(* The desks of the staff.  admin/finance.tsx hides a payment while its     *)
(* payout awaits processing, and computes the balance it lets refund.       *)
FinanceShows(r) == payment[r] # NoRow /\ payout[r] \notin {"PENDING", "SCHEDULED"}

\* wrong variant: a refund that is still pending does not count
BalanceWithoutPending(r) == Total - RefundSum(r, {"COMPLETED"})

RefundableBalance(r) == Total - ReservedAmount(r)

\* the card of a payment lets any sum within the balance be refunded, whether
\* the payment was ever received or not, and a pending refund be ended
FinanceDesk(r) ==
    IF ~FinanceShows(r) THEN {}
    ELSE {call \in {"refund", "endRefund"} :
             IF call = "refund" THEN RefundableBalance(r) > 0
             ELSE \E i \in 1 .. Len(refunds[r]) : refunds[r][i].status = "PENDING"}

\* the card of a payout has a button for every status
PayoutDesk(r) == IF payout[r] = NoRow THEN {} ELSE PayoutStatus

\* admin/disputes/[id].tsx: a dispute that is not closed can be answered, and
\* set to every status but the one it began with
DisputeDesk(r) ==
    {i \in 1 .. Len(disputes[r]) : disputes[r][i].status \notin TerminalDispute}
VerdictButtons == DisputeStatus \ {"OPEN"}

----------------------------------------------------------------------------
(* The services: who may call (assertOwner, assertRenter), and whether the *)
(* handler gets past its reads.                                            *)
CallableBy(call) ==
    CASE call \in {"approve", "decline", "start", "damage", "notReturned"} ->
           {"owner"}
      [] call \in {"intent", "pay", "scan", "requestReturn", "accept"} ->
           {"renter"}
      [] OTHER -> Parties

\* getPaymentIntent gives the row it finds or makes one; once the window has
\* elapsed it expires the rental and answers with a conflict
IntentAnswered(r) ==
    \/ MayOpenIntent(r)
    \/ Payable(r) /\ ~elapsed[r] /\ payment[r] \in {"PENDING", "PROCESSING"}

\* the guards of the handlers' reads
Admits(r, call) ==
    CASE call = "approve"       -> Approvable(r)
      [] call = "decline"       -> status[r] \in Declinable
      [] call = "cancel"        -> status[r] \in Cancellable
      [] call = "intent"        -> IntentAnswered(r)
      [] call = "pay"           -> Payable(r) /\ Findable(r)
      [] call = "sign"          -> Signable(r)
      [] call = "start"         -> status[r] \in MayStart(HandoverKind(r))
      [] call = "scan"          -> Confirmable(r) # {}
      [] call = "requestReturn" -> status[r] \in Returnable
      [] call = "damage"        ->
           /\ \E opening \in Openings(r) : opening.first = "WAITING_RESPONSE"
           /\ ActiveDisputes(r) = {}
      [] call = "notReturned"   ->
           /\ status[r] \in {"OVERDUE", "RETURN_PENDING"}
           /\ ActiveDisputes(r) = {}
      [] call = "respond"       -> NotClosed(r) # {}
      [] call = "accept"        -> Claims(r) # {}
      [] call = "refund"        -> \E amount \in 1 .. Total : MayRefund(r, amount)
      [] call = "endRefund"     -> Endable(r) # {}

AdmitsPayout(r, next) == next = "PAID" => MayPay(r)
AdmitsVerdict(r, i, next) == next \in AllowedTransitions(disputes[r][i].status)

----------------------------------------------------------------------------
(* The cases the screens do not look at.                                   *)

\* the asset was given away for these dates since the request was made, to
\* somebody whose time to pay has not elapsed
GivenAway(r) ==
    \E s \in Rentals \ {r} :
        /\ status[s] \in Reserved
        /\ status[s] = "AWAITING_PAYMENT" => ~elapsed[s]
        /\ Overlapping(r, s)

\* the request is approved, or its payment opened, too late
TooLate(r, call) ==
    \/ call = "approve" /\ GivenAway(r)
    \/ call = "intent" /\ elapsed[r]

\* an intent nobody paid
NothingReceived(r) == payment[r] \in {"PENDING", "PROCESSING"}

\* in the words of the refusal of finance.service.ts: "a pending payout for a
\* completed rental without an active dispute"
PayoutDue(r) ==
    /\ status[r] = "COMPLETED"
    /\ ActiveDisputes(r) = {}
    /\ payout[r] \in {"PENDING", "PAID"}

----------------------------------------------------------------------------
\* With no request in flight, the services refuse what a screen or a desk
\* offers on the rows as they are in these cases only, and always in these: the
\* approval of a request whose dates went to another, the payment of a rental
\* whose window has elapsed, the refund of an intent nobody paid, the payout as
\* PAID before it is due, and the status a dispute already has.  The screens
\* and the services repeat each other's conditions over status, contract,
\* session, dispute and refunds.
CallsAccepted ==
    (\A w \in Workers : req[w] = Idle) =>
        \A r \in Rentals :
            /\ \A p \in Parties : \A call \in Calls(r, p) :
                  p \in CallableBy(call) /\ (Admits(r, call) <=> ~TooLate(r, call))
            /\ \A call \in FinanceDesk(r) :
                  Admits(r, call) <=> ~(call = "refund" /\ NothingReceived(r))
            /\ \A next \in PayoutDesk(r) :
                  AdmitsPayout(r, next) <=> ~(next = "PAID" /\ ~PayoutDue(r))
            /\ \A i \in DisputeDesk(r) :
                  /\ Admits(r, "respond")
                  /\ \A next \in VerdictButtons :
                        AdmitsVerdict(r, i, next) <=> next # disputes[r][i].status

\* Two ways a rental is left without a step: its disputes were closed before
\* the return, or the process stopped after storing the second signature, for
\* the contract screen has no button for somebody who has signed.
LeftBehind(r) ==
    \/ status[r] = "DISPUTED" /\ ActiveDisputes(r) = {}
    \/ status[r] = "AWAITING_SIGNATURE" /\ signed[r] = Parties

\* A rental nobody has finished or closed has a next step that one of the
\* parties is shown, whatever happened before: repeated sessions, a late
\* payment, a second dispute.  The only exceptions are those LeftBehind names.
SomebodyCanAct ==
    \A r \in Rentals :
        \/ status[r] \in {NoRow, "COMPLETED", "DECLINED", "CANCELLED", "EXPIRED"}
        \/ LeftBehind(r)
        \/ \E p \in Parties : Calls(r, p) # {}

============================================================================
