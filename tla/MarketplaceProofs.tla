------------------------- MODULE MarketplaceProofs -------------------------
(***************************************************************************)
(* Proofs about the marketplace for any rentals, workers and amounts: the  *)
(* tables stay well formed, and no rental is ever in a stage whose         *)
(* evidence (money, signatures, delivery) is missing.                      *)
(*                                                                         *)
(* A commit writes a stage on the strength of rows read earlier.  The      *)
(* argument is that evidence only grows: no step takes back a payment      *)
(* date, a payout or contract row, a signature or a confirmed session.     *)
(* So what a request saw when it began still holds when it writes.         *)
(***************************************************************************)
EXTENDS Marketplace, TLAPS

\* A request of each kind is a request.
LEMMA KindsAreRequests ==
    /\ Idle \in Requests
    /\ PlainRequest \subseteq Requests
    /\ ApproveRequest \subseteq Requests
    /\ CancelRequest \subseteq Requests
    /\ SignRequest \subseteq Requests
    /\ ActivateRequest \subseteq Requests
    /\ StartRequest \subseteq Requests
    /\ ConfirmRequest \subseteq Requests
    /\ RefundRequest \subseteq Requests
    /\ PayoutRequest \subseteq Requests
    /\ OpenRequest \subseteq Requests
    /\ TrackRequest \subseteq Requests
    /\ CloseRequest \subseteq Requests
  BY DEF Requests

\* The operation of a request tells its kind.
LEMMA OpTellsKind ==
    ASSUME NEW q \in Requests
    PROVE  /\ q.op = "idle" => q = Idle
           /\ q.op \in {"decline", "found", "settle", "signed", "requestReturn",
                        "overdue"} => q \in PlainRequest
           /\ q.op = "approve" => q \in ApproveRequest
           /\ q.op = "cancel" => q \in CancelRequest
           /\ q.op = "sign" => q \in SignRequest
           /\ q.op = "activate" => q \in ActivateRequest
           /\ q.op = "startHandover" => q \in StartRequest
           /\ q.op = "confirm" => q \in ConfirmRequest
           /\ q.op = "refund" => q \in RefundRequest
           /\ q.op = "payout" => q \in PayoutRequest
           /\ q.op = "open" => q \in OpenRequest
           /\ q.op \in {"respond", "assign"} => q \in TrackRequest
           /\ q.op = "close" => q \in CloseRequest
  BY DEF Requests, Idle, PlainRequest, ApproveRequest, CancelRequest,
         SignRequest, ActivateRequest, StartRequest, ConfirmRequest,
         RefundRequest, PayoutRequest, OpenRequest, TrackRequest, CloseRequest

\* Appending a row to a table, or updating one of its rows, keeps the table
\* well formed and the rows already there.
LEMMA AppendRow ==
    ASSUME NEW T, NEW s \in Seq(T), NEW e \in T
    PROVE  /\ Append(s, e) \in Seq(T)
           /\ Len(Append(s, e)) = Len(s) + 1
           /\ \A i \in 1 .. Len(s) : Append(s, e)[i] = s[i]
  OBVIOUS

\* Updating one row of a table keeps the table well formed.
LEMMA UpdateRow ==
    ASSUME NEW T, NEW s \in Seq(T), NEW k \in 1 .. Len(s), NEW e \in T
    PROVE  /\ [s EXCEPT ![k] = e] \in Seq(T)
           /\ Len([s EXCEPT ![k] = e]) = Len(s)
           /\ \A i \in 1 .. Len(s) :
                 [s EXCEPT ![k] = e][i] = IF i = k THEN e ELSE s[i]
  OBVIOUS

----------------------------------------------------------------------------
(* Types. *)

\* A request that begins, goes on or ends leaves the requests well formed.
LEMMA RequestTyped ==
    ASSUME TypeOK, NEW w \in Workers, NEW q \in Requests
    PROVE  /\ Begin(w, q) => req' \in [Workers -> Requests]
           /\ Continue(w, q) => req' \in [Workers -> Requests]
           /\ Done(w) => req' \in [Workers -> Requests]
           /\ AtOnce(w) => req' \in [Workers -> Requests]
  BY KindsAreRequests DEF TypeOK, Begin, Continue, Done, AtOnce

\* A handler that has only read leaves everything well formed.
LEMMA ReadTyped ==
    ASSUME TypeOK, NEW w \in Workers, NEW q \in Requests,
           Begin(w, q) \/ Continue(w, q), UNCHANGED tables
    PROVE  TypeOK'
  BY RequestTyped DEF TypeOK, tables, money, agreement

\* A rejected request leaves everything well formed.
LEMMA DoneTyped ==
    ASSUME TypeOK, NEW w \in Workers, Done(w), UNCHANGED tables
    PROVE  TypeOK'
  BY RequestTyped, KindsAreRequests DEF TypeOK, tables, money, agreement

\* Writing a status keeps the rental rows well formed.
LEMMA SetStatusTyped ==
    ASSUME TypeOK, NEW r \in Rentals, NEW new \in RentalStatus,
           SetStatus(r, new)
    PROVE  /\ status' \in [Rentals -> RentalStatus \cup {NoRow}]
           /\ elapsed' \in [Rentals -> BOOLEAN]
  BY DEF TypeOK, SetStatus

\* The arrival of a booking request keeps the tables well formed.
LEMMA BookingTyped ==
    ASSUME TypeOK, NEW w \in Workers, NEW r \in Rentals, Booking(w, r)
    PROVE  TypeOK'
<1>1. CASE CreateRental(w, r)
  BY <1>1, RequestTyped, SetStatusTyped, KindsAreRequests
     DEF CreateRental, TypeOK, money, agreement, RentalStatus
<1>2. CASE ApproveRead(w, r)
  <2> DEFINE q == [op |-> "approve", r |-> r, expired |-> Lapsed(AssetOf[r])]
  <2>1. q \in ApproveRequest
    BY DEF ApproveRequest, Lapsed
  <2> QED
    BY <1>2, <2>1, ReadTyped, KindsAreRequests DEF ApproveRead
<1>3. CASE DeclineRead(w, r)
  <2>1. [op |-> "decline", r |-> r] \in PlainRequest
    BY DEF PlainRequest
  <2> QED
    BY <1>3, <2>1, ReadTyped, KindsAreRequests DEF DeclineRead
<1>4. CASE CancelRead(w, r)
  <2>1. PICK outcome \in CancellationOutcomes(r) :
          Begin(w, [op |-> "cancel", r |-> r,
                    refund |-> outcome.refund, payout |-> outcome.payout,
                    hasPayout |-> payout[r] # NoRow,
                    hasContract |-> contract[r] # NoRow])
    BY <1>4 DEF CancelRead
  <2>2. outcome.refund \in 0 .. Total /\ outcome.payout \in {"CANCELLED", "BLOCKED"}
    BY AmountAssumption DEF CancellationOutcomes
  <2>3. [op |-> "cancel", r |-> r,
         refund |-> outcome.refund, payout |-> outcome.payout,
         hasPayout |-> payout[r] # NoRow,
         hasContract |-> contract[r] # NoRow] \in CancelRequest
    BY <2>2 DEF CancelRequest
  <2> QED
    BY <1>4, <2>1, <2>3, ReadTyped, KindsAreRequests DEF CancelRead
<1> QED
  BY <1>1, <1>2, <1>3, <1>4 DEF Booking

\* So do the payment intent and the passing of the payment window.
LEMMA PayingTyped ==
    ASSUME TypeOK, NEW w \in Workers, NEW r \in Rentals, Paying(w, r)
    PROVE  TypeOK'
<1>1. CASE WindowElapses(r)
  BY <1>1 DEF WindowElapses, TypeOK, money, agreement
<1>2. CASE OpenIntent(w, r)
  BY <1>2, RequestTyped, KindsAreRequests
     DEF OpenIntent, TypeOK, agreement, PaymentStatus
<1>3. CASE ExpireIntent(w, r)
  BY <1>3, RequestTyped, SetStatusTyped, KindsAreRequests
     DEF ExpireIntent, TypeOK, money, agreement, RentalStatus
<1>4. CASE FindPayment(w, r)
  <2>1. [op |-> "found", r |-> r] \in PlainRequest
    BY DEF PlainRequest
  <2> QED
    BY <1>4, <2>1, ReadTyped, KindsAreRequests DEF FindPayment
<1> QED
  BY <1>1, <1>2, <1>3, <1>4 DEF Paying

\* So does a request to sign, hand over, return or mark overdue.
LEMMA LendingTyped ==
    ASSUME TypeOK, NEW w \in Workers, NEW r \in Rentals, Lending(w, r)
    PROVE  TypeOK'
<1>1. CASE SignRead(w, r)
  <2>1. PICK party \in Parties :
          Begin(w, [op |-> "sign", r |-> r, party |-> party])
    BY <1>1 DEF SignRead
  <2>2. [op |-> "sign", r |-> r, party |-> party] \in SignRequest
    BY DEF SignRequest
  <2> QED
    BY <1>1, <2>1, <2>2, ReadTyped, KindsAreRequests DEF SignRead
<1>2. CASE StartHandoverRead(w, r)
  <2>1. PICK type \in HandoverType :
          Begin(w, [op |-> "startHandover", r |-> r, type |-> type])
    BY <1>2 DEF StartHandoverRead
  <2>2. [op |-> "startHandover", r |-> r, type |-> type] \in StartRequest
    BY DEF StartRequest
  <2> QED
    BY <1>2, <2>1, <2>2, ReadTyped, KindsAreRequests DEF StartHandoverRead
<1>3. CASE ConfirmHandoverRead(w, r)
  <2>1. PICK i \in 1 .. Len(handovers[r]) :
          Begin(w, [op |-> "confirm", r |-> r, i |-> i,
                    type |-> handovers[r][i].type,
                    hasPayout |-> payout[r] # NoRow])
    BY <1>3 DEF ConfirmHandoverRead, Confirmable
  <2>2. handovers[r] \in Seq(Handover)
    BY DEF TypeOK
  <2>3. i \in Nat /\ handovers[r][i].type \in HandoverType
    <3>1. i \in Nat /\ handovers[r][i] \in Handover
      BY <2>2
    <3> QED
      BY <3>1 DEF Handover
  <2>4. [op |-> "confirm", r |-> r, i |-> i, type |-> handovers[r][i].type,
         hasPayout |-> payout[r] # NoRow] \in ConfirmRequest
    BY <2>3 DEF ConfirmRequest
  <2> QED
    BY <1>3, <2>1, <2>4, ReadTyped, KindsAreRequests DEF ConfirmHandoverRead
<1>4. CASE RequestReturnRead(w, r)
  <2>1. [op |-> "requestReturn", r |-> r] \in PlainRequest
    BY DEF PlainRequest
  <2> QED
    BY <1>4, <2>1, ReadTyped, KindsAreRequests DEF RequestReturnRead
<1>5. CASE OverdueRead(w, r)
  <2>1. [op |-> "overdue", r |-> r] \in PlainRequest
    BY DEF PlainRequest
  <2> QED
    BY <1>5, <2>1, ReadTyped, KindsAreRequests DEF OverdueRead
<1> QED
  BY <1>1, <1>2, <1>3, <1>4, <1>5 DEF Lending

\* So does a request of the finance manager.
LEMMA FinanceTyped ==
    ASSUME TypeOK, NEW w \in Workers, NEW r \in Rentals, Finance(w, r)
    PROVE  TypeOK'
<1>1. CASE CreateRefund(w, r)
  <2>1. PICK amount \in 1 .. Total :
          refunds' = [refunds EXCEPT ![r] =
                        Append(@, [amount |-> amount, status |-> "PENDING"])]
    BY <1>1 DEF CreateRefund
  <2>2. [amount |-> amount, status |-> "PENDING"] \in Refund
    BY DEF Refund, RefundStatus
  <2>3. refunds[r] \in Seq(Refund)
    BY DEF TypeOK
  <2>4. Append(refunds[r], [amount |-> amount, status |-> "PENDING"]) \in Seq(Refund)
    BY <2>2, <2>3, AppendRow
  <2>5. refunds' \in [Rentals -> Seq(Refund)]
    BY <2>1, <2>4 DEF TypeOK
  <2>6. payout' \in [Rentals -> PayoutStatus \cup {NoRow}]
    BY <1>1 DEF CreateRefund, TypeOK, PayoutStatus
  <2> QED
    BY <1>1, <2>5, <2>6, RequestTyped, KindsAreRequests
       DEF CreateRefund, TypeOK, agreement
<1>2. CASE RefundRead(w, r)
  <2>1. PICK i \in 1 .. Len(refunds[r]), next \in RefundStatus \ {"PENDING"} :
          Begin(w, [op |-> "refund", r |-> r, i |-> i, next |-> next,
                    outcome |-> RefundOutcome(r, i, next),
                    hasPayout |-> payout[r] # NoRow])
    BY <1>2 DEF RefundRead, Endable
  <2>2. refunds[r] \in Seq(Refund)
    BY DEF TypeOK
  <2>3. i \in Nat
    BY <2>2
  <2>4. RefundOutcome(r, i, next)
          \in IF next = "COMPLETED" THEN {"REFUNDED", "PARTIALLY_REFUNDED"}
                                   ELSE {"RELEASED", "HELD"}
    BY DEF RefundOutcome
  <2>5. [op |-> "refund", r |-> r, i |-> i, next |-> next,
         outcome |-> RefundOutcome(r, i, next),
         hasPayout |-> payout[r] # NoRow] \in RefundRequest
    BY <2>3, <2>4 DEF RefundRequest, RefundStatus
  <2> QED
    BY <1>2, <2>1, <2>5, ReadTyped, KindsAreRequests DEF RefundRead
<1>3. CASE PayoutRead(w, r)
  <2>1. PICK next \in PayoutTargets :
          Begin(w, [op |-> "payout", r |-> r, next |-> next])
    BY <1>3 DEF PayoutRead
  <2>2. [op |-> "payout", r |-> r, next |-> next] \in PayoutRequest
    BY BoundAssumption DEF PayoutRequest, PayoutStatus
  <2> QED
    BY <1>3, <2>1, <2>2, ReadTyped, KindsAreRequests DEF PayoutRead
<1> QED
  BY <1>1, <1>2, <1>3 DEF Finance

\* So does a request about a dispute.
LEMMA DisputingTyped ==
    ASSUME TypeOK, NEW w \in Workers, NEW r \in Rentals, Disputing(w, r)
    PROVE  TypeOK'
<1>0. disputes[r] \in Seq(Dispute)
  BY DEF TypeOK
<1>1. CASE OpenDisputeRead(w, r)
  <2>1. PICK opening \in Openings(r) :
          Begin(w, [op |-> "open", r |-> r, damage |-> opening.damage,
                    first |-> opening.first, hasPayout |-> payout[r] # NoRow])
    BY <1>1 DEF OpenDisputeRead
  <2>2. opening.damage \in BOOLEAN /\ opening.first \in {"OPEN", "WAITING_RESPONSE"}
    <3>1. CASE \E d \in BOOLEAN : opening = [damage |-> d, first |-> "OPEN"]
      BY <3>1
    <3>2. CASE opening = [damage |-> TRUE, first |-> "WAITING_RESPONSE"]
      BY <3>2
    <3> QED
      BY <3>1, <3>2, Zenon DEF Openings
  <2>3. [op |-> "open", r |-> r, damage |-> opening.damage,
         first |-> opening.first, hasPayout |-> payout[r] # NoRow] \in OpenRequest
    BY <2>2 DEF OpenRequest
  <2> QED
    BY <1>1, <2>1, <2>3, ReadTyped, KindsAreRequests DEF OpenDisputeRead
<1>2. CASE RespondRead(w, r)
  <2>1. PICK i \in 1 .. Len(disputes[r]) :
          Begin(w, [op |-> "respond", r |-> r, i |-> i,
                    next |-> IF disputes[r][i].status = "OPEN"
                             THEN "WAITING_RESPONSE" ELSE "UNDER_REVIEW"])
    BY <1>2 DEF RespondRead, NotClosed
  <2>2. i \in Nat
    BY <1>0
  <2>3. [op |-> "respond", r |-> r, i |-> i,
         next |-> IF disputes[r][i].status = "OPEN"
                  THEN "WAITING_RESPONSE" ELSE "UNDER_REVIEW"] \in TrackRequest
    BY <2>2 DEF TrackRequest, DisputeStatus, ActiveDispute
  <2> QED
    BY <1>2, <2>1, <2>3, ReadTyped, KindsAreRequests DEF RespondRead
<1>3. CASE AssignRead(w, r)
  <2>1. PICK i \in 1 .. Len(disputes[r]) :
          Begin(w, [op |-> "assign", r |-> r, i |-> i,
                    next |-> IF disputes[r][i].status \in {"OPEN", "WAITING_RESPONSE"}
                             THEN "UNDER_REVIEW" ELSE disputes[r][i].status])
    BY <1>3 DEF AssignRead
  <2>2. i \in Nat /\ disputes[r][i].status \in DisputeStatus
    <3>1. i \in Nat /\ disputes[r][i] \in Dispute
      BY <1>0
    <3> QED
      BY <3>1 DEF Dispute
  <2>3. [op |-> "assign", r |-> r, i |-> i,
         next |-> IF disputes[r][i].status \in {"OPEN", "WAITING_RESPONSE"}
                  THEN "UNDER_REVIEW" ELSE disputes[r][i].status] \in TrackRequest
    BY <2>2 DEF TrackRequest, DisputeStatus, ActiveDispute
  <2> QED
    BY <1>3, <2>1, <2>3, ReadTyped, KindsAreRequests DEF AssignRead
<1>4. CASE AcceptDamageRead(w, r)
  <2>1. PICK i \in 1 .. Len(disputes[r]) :
          Begin(w, [op |-> "close", r |-> r, i |-> i, next |-> "CLOSED",
                    completes |-> TRUE, restores |-> payout[r] = "BLOCKED"])
    BY <1>4 DEF AcceptDamageRead, Claims, NotClosed
  <2>2. i \in Nat
    BY <1>0
  <2>3. [op |-> "close", r |-> r, i |-> i, next |-> "CLOSED",
         completes |-> TRUE, restores |-> payout[r] = "BLOCKED"] \in CloseRequest
    BY <2>2 DEF CloseRequest, DisputeStatus, TerminalDispute
  <2> QED
    BY <1>4, <2>1, <2>3, ReadTyped, KindsAreRequests DEF AcceptDamageRead
<1>5. CASE UpdateDisputeRead(w, r)
  <2> DEFINE completes(next) == next \in TerminalDispute /\ Handed(r, "RETURN")
  <2>1. PICK i \in 1 .. Len(disputes[r]) :
        \E next \in AllowedTransitions(disputes[r][i].status) :
          Begin(w, [op |-> "close", r |-> r, i |-> i, next |-> next,
                    completes |-> completes(next),
                    restores |-> completes(next) /\ payout[r] = "BLOCKED"])
    BY <1>5 DEF UpdateDisputeRead
  <2>2. PICK next \in AllowedTransitions(disputes[r][i].status) :
          Begin(w, [op |-> "close", r |-> r, i |-> i, next |-> next,
                    completes |-> completes(next),
                    restores |-> completes(next) /\ payout[r] = "BLOCKED"])
    BY <2>1
  <2>3. i \in Nat
    BY <1>0
  <2>4. next \in DisputeStatus
    BY DEF AllowedTransitions, DisputeStatus, ActiveDispute
  <2>5. completes(next) \in BOOLEAN
    BY DEF Handed
  <2> HIDE DEF completes
  <2>6. [op |-> "close", r |-> r, i |-> i, next |-> next,
         completes |-> completes(next),
         restores |-> completes(next) /\ payout[r] = "BLOCKED"] \in CloseRequest
    BY <2>3, <2>4, <2>5 DEF CloseRequest
  <2> QED
    BY <1>5, <2>2, <2>6, ReadTyped, KindsAreRequests DEF UpdateDisputeRead
<1> QED
  BY <1>1, <1>2, <1>3, <1>4, <1>5 DEF Disputing

\* Every write of a request in flight keeps the tables well formed.
LEMMA ProgressTyped ==
    ASSUME TypeOK, NEW w \in Workers, IndexFits(req[w]), Progress(w)
    PROVE  TypeOK'
<1> DEFINE q == req[w]
<1>0. q \in Requests
  BY DEF TypeOK
<1> HIDE DEF q
<1>1. CASE ApproveCommit(w)
  <2>1. q.op = "approve"
    BY <1>1 DEF ApproveCommit, q
  <2>2. q \in ApproveRequest
    BY <1>0, <2>1, OpTellsKind
  <2> QED
    BY <1>1, <2>2, RequestTyped, KindsAreRequests
       DEF ApproveCommit, TypeOK, RentalStatus, money, agreement, q
<1>2. CASE DeclineCommit(w)
  <2>1. q.op = "decline"
    BY <1>2 DEF DeclineCommit, q
  <2>2. q.r \in Rentals
    BY <1>0, <2>1, OpTellsKind DEF PlainRequest
  <2> QED
    BY <1>2, <2>2, RequestTyped, SetStatusTyped, KindsAreRequests
       DEF DeclineCommit, TypeOK, RentalStatus, money, agreement, q
<1>3. CASE CancelCommit(w)
  <2>1. q.op = "cancel"
    BY <1>3 DEF CancelCommit, q
  <2>2. q \in CancelRequest
    BY <1>0, <2>1, OpTellsKind
  <2>3. /\ q.r \in Rentals
        /\ q.refund \in 0 .. Total
        /\ q.payout \in PayoutStatus
    BY <2>2 DEF CancelRequest, PayoutStatus
  <2>4. /\ payment' \in [Rentals -> PaymentStatus \cup {NoRow}]
        /\ refunds' \in [Rentals -> Seq(Refund)]
    <3>0. CancelRefund(q)
      BY <1>3 DEF CancelCommit, q
    <3>1. CASE q.refund = 0
      BY <3>0, <3>1 DEF CancelRefund, TypeOK
    <3>2. CASE q.refund # 0
      <4> DEFINE row == [amount |-> q.refund, status |-> "COMPLETED"]
      <4>1. row \in Refund
        BY <2>3, <3>2, AmountAssumption DEF Refund, RefundStatus
      <4> HIDE DEF row
      <4>2. refunds[q.r] \in Seq(Refund)
        BY <2>3 DEF TypeOK
      <4>3. Append(refunds[q.r], row) \in Seq(Refund)
        BY <4>1, <4>2, AppendRow
      <4>4. refunds' = [refunds EXCEPT ![q.r] = Append(@, row)]
        BY <3>0, <3>2 DEF CancelRefund, row
      <4>5. payment' \in [Rentals -> PaymentStatus \cup {NoRow}]
        BY <3>0, <3>2 DEF CancelRefund, TypeOK, PaymentStatus
      <4> QED
        BY <4>3, <4>4, <4>5 DEF TypeOK
    <3> QED
      BY <3>1, <3>2
  <2>5. payout' \in [Rentals -> PayoutStatus \cup {NoRow}]
    BY <1>3, <2>3 DEF CancelCommit, TypeOK, q
  <2>6. contract' \in [Rentals -> ContractStatus \cup {NoRow}]
    BY <1>3 DEF CancelCommit, TypeOK, ContractStatus
  <2> QED
    BY <1>3, <2>3, <2>4, <2>5, <2>6, RequestTyped, SetStatusTyped, KindsAreRequests
       DEF CancelCommit, TypeOK, RentalStatus, q
<1>4. CASE FlagForReview(w)
  BY <1>4, RequestTyped, KindsAreRequests
     DEF FlagForReview, TypeOK, agreement, PaymentStatus
<1>5. CASE SettleLock(w)
  <2>1. q.r \in Rentals
    BY <1>0, <1>5, OpTellsKind DEF SettleLock, PlainRequest, q
  <2>2. [op |-> "settle", r |-> q.r] \in PlainRequest
    BY <2>1 DEF PlainRequest
  <2> QED
    BY <1>5, <2>2, ReadTyped, KindsAreRequests DEF SettleLock, q
<1>6. CASE SettleSkip(w)
  BY <1>6, DoneTyped DEF SettleSkip
<1>7. CASE SettleCommit(w)
  <2>1. q.r \in Rentals
    BY <1>0, <1>7, OpTellsKind DEF SettleCommit, PlainRequest, q
  <2> QED
    BY <1>7, <2>1, RequestTyped, SetStatusTyped, KindsAreRequests
       DEF SettleCommit, TypeOK, RentalStatus, PaymentStatus, PayoutStatus,
           ContractStatus, q
<1>8. CASE SignUpsert(w)
  <2>1. q.op = "sign"
    BY <1>8 DEF SignUpsert, q
  <2>2. q.r \in Rentals /\ q.party \in Parties
    BY <1>0, <2>1, OpTellsKind DEF SignRequest
  <2>3. [op |-> "signed", r |-> q.r] \in PlainRequest
    BY <2>2 DEF PlainRequest
  <2>4. signed' \in [Rentals -> SUBSET Parties]
    BY <1>8, <2>2 DEF SignUpsert, TypeOK, q
  <2> QED
    BY <1>8, <2>3, <2>4, RequestTyped, KindsAreRequests
       DEF SignUpsert, TypeOK, money, q
<1>9. CASE SignCount(w)
  <2>1. q.r \in Rentals
    BY <1>0, <1>9, OpTellsKind DEF SignCount, PlainRequest, q
  <2>2. [op |-> "activate", r |-> q.r, bothSigned |-> signed[q.r] = Parties]
           \in ActivateRequest
    BY <2>1 DEF ActivateRequest
  <2> QED
    BY <1>9, <2>2, ReadTyped, KindsAreRequests DEF SignCount, q
<1>10. CASE SignCommit(w)
  <2>1. q.r \in Rentals
    BY <1>0, <1>10, OpTellsKind DEF SignCommit, ActivateRequest, q
  <2> DEFINE new == IF q.bothSigned THEN "CONFIRMED" ELSE "AWAITING_SIGNATURE"
  <2>2. new \in RentalStatus /\ SetStatus(q.r, new)
    BY <1>10 DEF SignCommit, RentalStatus, q
  <2> HIDE DEF new
  <2>3. status' \in [Rentals -> RentalStatus \cup {NoRow}] /\ elapsed' \in [Rentals -> BOOLEAN]
    BY <2>1, <2>2, SetStatusTyped
  <2>4. contract' \in [Rentals -> ContractStatus \cup {NoRow}]
    BY <1>10 DEF SignCommit, TypeOK, ContractStatus
  <2> QED
    BY <1>10, <2>3, <2>4, RequestTyped, KindsAreRequests
       DEF SignCommit, TypeOK, money
<1>11. CASE StartHandoverCommit(w)
  <2>1. q.op = "startHandover"
    BY <1>11 DEF StartHandoverCommit, q
  <2>2. q.r \in Rentals /\ q.type \in HandoverType
    BY <1>0, <2>1, OpTellsKind DEF StartRequest
  <2> DEFINE new == IF q.type = "DELIVERY" THEN "READY_FOR_HANDOVER" ELSE "RETURN_PENDING"
             row == [type |-> q.type, status |-> "PENDING"]
  <2>3. new \in RentalStatus /\ SetStatus(q.r, new)
    BY <1>11 DEF StartHandoverCommit, RentalStatus, q
  <2>4. row \in Handover
    BY <2>2 DEF Handover
  <2>5. handovers' = [handovers EXCEPT ![q.r] = Append(@, row)]
    BY <1>11 DEF StartHandoverCommit, q
  <2> HIDE DEF new, row
  <2>6. handovers[q.r] \in Seq(Handover)
    BY <2>2 DEF TypeOK
  <2>7. Append(handovers[q.r], row) \in Seq(Handover)
    BY <2>4, <2>6, AppendRow
  <2>8. handovers' \in [Rentals -> Seq(Handover)]
    BY <2>5, <2>7 DEF TypeOK
  <2>9. status' \in [Rentals -> RentalStatus \cup {NoRow}] /\ elapsed' \in [Rentals -> BOOLEAN]
    BY <2>2, <2>3, SetStatusTyped
  <2> QED
    BY <1>11, <2>8, <2>9, RequestTyped, KindsAreRequests
       DEF StartHandoverCommit, TypeOK, money, agreement
<1>12. CASE ConfirmHandoverCommit(w)
  <2>1. q.op = "confirm"
    BY <1>12 DEF ConfirmHandoverCommit, q
  <2>2. q.r \in Rentals
    BY <1>0, <2>1, OpTellsKind DEF ConfirmRequest
  <2>3. q.i \in 1 .. Len(handovers[q.r])
    BY <2>1 DEF IndexFits, q
  <2>4. handovers' \in [Rentals -> Seq(Handover)]
    <3> DEFINE row == [handovers[q.r][q.i] EXCEPT !.status = "CONFIRMED"]
    <3>1. handovers[q.r] \in Seq(Handover)
      BY <2>2 DEF TypeOK
    <3>2. handovers[q.r][q.i] \in Handover
      BY <2>3, <3>1
    <3>3. row \in Handover
      BY <3>2 DEF Handover
    <3>4. handovers' = [handovers EXCEPT ![q.r] = [@ EXCEPT ![q.i] = row]]
      BY <1>12 DEF ConfirmHandoverCommit, q
    <3> HIDE DEF row
    <3>5. [handovers[q.r] EXCEPT ![q.i] = row] \in Seq(Handover)
      BY <2>3, <3>1, <3>3, UpdateRow
    <3> QED
      BY <3>4, <3>5 DEF TypeOK
  <2> DEFINE new == IF q.type = "DELIVERY" THEN "ONGOING" ELSE "COMPLETED"
  <2>5. new \in RentalStatus /\ SetStatus(q.r, new)
    BY <1>12 DEF ConfirmHandoverCommit, RentalStatus, q
  <2> HIDE DEF new
  <2>6. status' \in [Rentals -> RentalStatus \cup {NoRow}] /\ elapsed' \in [Rentals -> BOOLEAN]
    BY <2>2, <2>5, SetStatusTyped
  <2>7. payout' \in [Rentals -> PayoutStatus \cup {NoRow}]
    BY <1>12 DEF ConfirmHandoverCommit, TypeOK, PayoutStatus
  <2> QED
    BY <1>12, <2>4, <2>6, <2>7, RequestTyped, KindsAreRequests
       DEF ConfirmHandoverCommit, TypeOK, agreement
<1>13. CASE ConfirmHandoverConflict(w)
  BY <1>13, DoneTyped DEF ConfirmHandoverConflict
<1>14. CASE RequestReturnCommit(w)
  <2>1. q.r \in Rentals
    BY <1>0, <1>14, OpTellsKind DEF RequestReturnCommit, PlainRequest, q
  <2> QED
    BY <1>14, <2>1, RequestTyped, SetStatusTyped, KindsAreRequests
       DEF RequestReturnCommit, TypeOK, RentalStatus, money, agreement, q
<1>15. CASE OverdueCommit(w)
  <2>1. q.r \in Rentals
    BY <1>0, <1>15, OpTellsKind DEF OverdueCommit, PlainRequest, q
  <2> QED
    BY <1>15, <2>1, RequestTyped, SetStatusTyped, KindsAreRequests
       DEF OverdueCommit, TypeOK, RentalStatus, money, agreement, q
<1>16. CASE RefundCommit(w)
  <2>1. q.op = "refund"
    BY <1>16 DEF RefundCommit, q
  <2>2. q \in RefundRequest
    BY <1>0, <2>1, OpTellsKind
  <2>3. q.i \in 1 .. Len(refunds[q.r])
    BY <2>1 DEF IndexFits, q
  <2>4. refunds' \in [Rentals -> Seq(Refund)]
    <3> DEFINE row == [refunds[q.r][q.i] EXCEPT !.status = q.next]
    <3>1. refunds[q.r] \in Seq(Refund) /\ q.next \in RefundStatus
      BY <2>2 DEF TypeOK, RefundRequest, RefundStatus
    <3>2. refunds[q.r][q.i] \in Refund
      BY <2>3, <3>1
    <3>3. row \in Refund
      BY <3>1, <3>2 DEF Refund
    <3>4. refunds' = [refunds EXCEPT ![q.r] = [@ EXCEPT ![q.i] = row]]
      BY <1>16 DEF RefundCommit, q
    <3> HIDE DEF row
    <3>5. [refunds[q.r] EXCEPT ![q.i] = row] \in Seq(Refund)
      BY <2>3, <3>1, <3>3, UpdateRow
    <3> QED
      BY <3>4, <3>5 DEF TypeOK
  <2>5. payment' \in [Rentals -> PaymentStatus \cup {NoRow}]
    <3>1. q.next = "COMPLETED" => q.outcome \in PaymentStatus
      BY <2>2 DEF RefundRequest, PaymentStatus
    <3> QED
      BY <1>16, <3>1 DEF RefundCommit, TypeOK, q
  <2>6. payout' \in [Rentals -> PayoutStatus \cup {NoRow}]
    <3>1. \A old \in PayoutStatus \cup {NoRow} :
            PayoutAfterRefund(q.outcome, old) \in PayoutStatus \cup {NoRow}
      BY <2>2 DEF PayoutAfterRefund, RefundRequest, PayoutStatus
    <3> QED
      BY <1>16, <3>1 DEF RefundCommit, TypeOK, q
  <2> QED
    BY <1>16, <2>4, <2>5, <2>6, RequestTyped, KindsAreRequests
       DEF RefundCommit, TypeOK, agreement
<1>17. CASE PayoutCommit(w)
  <2>1. q.next \in PayoutStatus
    BY <1>0, <1>17, OpTellsKind DEF PayoutCommit, PayoutRequest, q
  <2> QED
    BY <1>17, <2>1, RequestTyped, KindsAreRequests
       DEF PayoutCommit, TypeOK, agreement, q
<1>18. CASE OpenDisputeCommit(w)
  <2>1. q.op = "open"
    BY <1>18 DEF OpenDisputeCommit, q
  <2>2. q \in OpenRequest
    BY <1>0, <2>1, OpTellsKind
  <2>3. q.r \in Rentals /\ disputes[q.r] \in Seq(Dispute)
    BY <2>2 DEF OpenRequest, TypeOK
  <2>4. disputes' \in [Rentals -> Seq(Dispute)]
    <3> DEFINE row == [status |-> q.first, damage |-> q.damage]
    <3>1. row \in Dispute
      BY <2>2 DEF Dispute, OpenRequest, DisputeStatus, ActiveDispute
    <3>2. disputes' = [disputes EXCEPT ![q.r] = Append(@, row)]
      BY <1>18 DEF OpenDisputeCommit, q
    <3> HIDE DEF row
    <3>3. Append(disputes[q.r], row) \in Seq(Dispute)
      BY <2>3, <3>1, AppendRow
    <3> QED
      BY <3>2, <3>3 DEF TypeOK
  <2>5. payout' \in [Rentals -> PayoutStatus \cup {NoRow}]
    BY <1>18 DEF OpenDisputeCommit, TypeOK, PayoutStatus
  <2> QED
    BY <1>18, <2>3, <2>4, <2>5, RequestTyped, SetStatusTyped, KindsAreRequests
       DEF OpenDisputeCommit, TypeOK, RentalStatus, agreement, q
<1>19. ASSUME q.op \in {"respond", "assign", "close"}, q.next \in DisputeStatus,
              q.r \in Rentals,
              disputes' = [disputes EXCEPT ![q.r][q.i].status = q.next]
       PROVE  disputes' \in [Rentals -> Seq(Dispute)]
  <2> DEFINE row == [disputes[q.r][q.i] EXCEPT !.status = q.next]
  <2>1. disputes[q.r] \in Seq(Dispute) /\ q.i \in 1 .. Len(disputes[q.r])
    BY <1>19 DEF TypeOK, IndexFits, q
  <2>2. disputes[q.r][q.i] \in Dispute
    BY <2>1
  <2>3. row \in Dispute
    BY <1>19, <2>2 DEF Dispute
  <2>4. disputes' = [disputes EXCEPT ![q.r] = [@ EXCEPT ![q.i] = row]]
    BY <1>19
  <2> HIDE DEF row
  <2>5. [disputes[q.r] EXCEPT ![q.i] = row] \in Seq(Dispute)
    BY <2>1, <2>3, UpdateRow
  <2> QED
    BY <2>4, <2>5 DEF TypeOK
<1>20. CASE TrackCommit(w)
  <2>1. q.op \in {"respond", "assign"}
    BY <1>20 DEF TrackCommit, q
  <2>2. q.r \in Rentals /\ q.next \in DisputeStatus
    BY <1>0, <2>1, OpTellsKind DEF TrackRequest
  <2>3. disputes' \in [Rentals -> Seq(Dispute)]
    BY <1>19, <1>20, <2>1, <2>2 DEF TrackCommit, q
  <2> QED
    BY <1>20, <2>3, RequestTyped, KindsAreRequests
       DEF TrackCommit, TypeOK, money, agreement
<1>21. CASE CloseCommit(w)
  <2>1. q.op = "close"
    BY <1>21 DEF CloseCommit, q
  <2>2. q.r \in Rentals /\ q.next \in DisputeStatus
    BY <1>0, <2>1, OpTellsKind DEF CloseRequest
  <2>3. disputes' \in [Rentals -> Seq(Dispute)]
    BY <1>19, <1>21, <2>1, <2>2 DEF CloseCommit, q
  <2> DEFINE new == IF q.completes THEN "COMPLETED" ELSE "DISPUTED"
  <2>4. new \in RentalStatus /\ SetStatus(q.r, new)
    BY <1>21 DEF CloseCommit, RentalStatus, q
  <2> HIDE DEF new
  <2>5. status' \in [Rentals -> RentalStatus \cup {NoRow}] /\ elapsed' \in [Rentals -> BOOLEAN]
    BY <2>2, <2>4, SetStatusTyped
  <2>6. payout' \in [Rentals -> PayoutStatus \cup {NoRow}]
    BY <1>21 DEF CloseCommit, TypeOK, PayoutStatus
  <2> QED
    BY <1>21, <2>3, <2>5, <2>6, RequestTyped, KindsAreRequests
       DEF CloseCommit, TypeOK, agreement
<1>22. CASE DisputeConflict(w)
  BY <1>22, DoneTyped DEF DisputeConflict
<1> QED
  BY <1>1, <1>2, <1>3, <1>4, <1>5, <1>6, <1>7, <1>8, <1>9, <1>10, <1>11, <1>12,
     <1>13, <1>14, <1>15, <1>16, <1>17, <1>18, <1>20, <1>21, <1>22 DEF Progress

----------------------------------------------------------------------------
(* Evidence only grows. *)

\* What no step takes back from rental r.
Grew(r) ==
    /\ paidAt[r] => paidAt'[r]
    /\ payout[r] # NoRow => payout'[r] # NoRow
    /\ contract[r] # NoRow => contract'[r] # NoRow
    /\ signed[r] \subseteq signed'[r]
    /\ Handed(r, "DELIVERY") => Handed(r, "DELIVERY")'
    /\ \A i \in 1 .. Len(handovers[r]) :
          /\ i \in 1 .. Len(handovers'[r])
          /\ handovers'[r][i].type = handovers[r][i].type
          /\ handovers[r][i].status = "CONFIRMED"
                => handovers'[r][i].status = "CONFIRMED"
    /\ \A i \in 1 .. Len(refunds[r]) : i \in 1 .. Len(refunds'[r])
    /\ \A i \in 1 .. Len(disputes[r]) : i \in 1 .. Len(disputes'[r])

\* A step that leaves the evidence alone keeps it.
LEMMA KeptGrew ==
    ASSUME NEW r \in Rentals,
           UNCHANGED <<paidAt, refunds, payout, contract, signed, handovers,
                       disputes>>
    PROVE  Grew(r)
  BY DEF Grew, Handed

\* The services that only read keep it.
LEMMA ReadGrew ==
    ASSUME NEW r \in Rentals, UNCHANGED tables
    PROVE  Grew(r)
  BY KeptGrew DEF tables, money, agreement

\* So does a step that replaces the payout, contract or signatures by more.
LEMMA PapersGrew ==
    ASSUME NEW r \in Rentals,
           UNCHANGED <<refunds, handovers, disputes>>,
           paidAt[r] => paidAt'[r],
           payout[r] # NoRow => payout'[r] # NoRow,
           contract[r] # NoRow => contract'[r] # NoRow,
           signed[r] \subseteq signed'[r]
    PROVE  Grew(r)
  BY DEF Grew, Handed

\* Or one that adds to the refunds or updates one of them, and the payout.
LEMMA RefundsGrew ==
    ASSUME NEW r \in Rentals,
           UNCHANGED <<paidAt, signed, handovers, disputes>>,
           payout[r] # NoRow => payout'[r] # NoRow,
           contract[r] # NoRow => contract'[r] # NoRow,
           \A i \in 1 .. Len(refunds[r]) : i \in 1 .. Len(refunds'[r])
    PROVE  Grew(r)
  BY DEF Grew, Handed

\* The same for the disputes.
LEMMA DisputesGrew ==
    ASSUME NEW r \in Rentals,
           UNCHANGED <<paidAt, refunds, contract, signed, handovers>>,
           payout[r] # NoRow => payout'[r] # NoRow,
           \A i \in 1 .. Len(disputes[r]) : i \in 1 .. Len(disputes'[r])
    PROVE  Grew(r)
  BY DEF Grew, Handed

\* A new request takes no evidence back.
LEMMA ArrivalGrew ==
    ASSUME TypeOK, NEW w \in Workers, NEW s \in Rentals, NEW r \in Rentals,
           Booking(w, s) \/ Paying(w, s) \/ Lending(w, s) \/ Finance(w, s)
              \/ Disputing(w, s)
    PROVE  Grew(r)
<1>1. CASE Booking(w, s)
  <2>1. UNCHANGED <<paidAt, refunds, payout, contract, signed, handovers, disputes>>
    BY <1>1 DEF Booking, CreateRental, ApproveRead, DeclineRead, CancelRead,
                tables, money, agreement
  <2> QED
    BY <2>1, KeptGrew
<1>2. CASE Paying(w, s)
  <2>1. UNCHANGED <<paidAt, refunds, payout, contract, signed, handovers, disputes>>
    BY <1>2 DEF Paying, WindowElapses, OpenIntent, ExpireIntent, FindPayment,
                tables, money, agreement
  <2> QED
    BY <2>1, KeptGrew
<1>3. CASE Lending(w, s)
  <2>1. UNCHANGED tables
    BY <1>3 DEF Lending, SignRead, StartHandoverRead, ConfirmHandoverRead,
                RequestReturnRead, OverdueRead
  <2> QED
    BY <2>1, ReadGrew
<1>4. CASE CreateRefund(w, s)
  <2>1. PICK amount \in 1 .. Total :
          refunds' = [refunds EXCEPT ![s] =
                        Append(@, [amount |-> amount, status |-> "PENDING"])]
    BY <1>4 DEF CreateRefund
  <2> DEFINE row == [amount |-> amount, status |-> "PENDING"]
  <2>2. row \in Refund
    BY DEF Refund, RefundStatus
  <2>3. refunds[s] \in Seq(Refund) /\ refunds' = [refunds EXCEPT ![s] = Append(@, row)]
    BY <2>1 DEF TypeOK
  <2> HIDE DEF row
  <2>4. Len(Append(refunds[s], row)) = Len(refunds[s]) + 1
    BY <2>2, <2>3, AppendRow
  <2>5. \A i \in 1 .. Len(refunds[r]) : i \in 1 .. Len(refunds'[r])
    BY <2>3, <2>4 DEF TypeOK
  <2>6. payout[r] # NoRow => payout'[r] # NoRow
    BY <1>4 DEF CreateRefund, TypeOK, NoRow
  <2> QED
    BY <1>4, <2>5, <2>6, RefundsGrew DEF CreateRefund, agreement
<1>5. CASE RefundRead(w, s) \/ PayoutRead(w, s)
  <2>1. UNCHANGED tables
    BY <1>5 DEF RefundRead, PayoutRead
  <2> QED
    BY <2>1, ReadGrew
<1>6. CASE Disputing(w, s)
  <2>1. UNCHANGED tables
    BY <1>6 DEF Disputing, OpenDisputeRead, RespondRead, AssignRead,
                AcceptDamageRead, UpdateDisputeRead
  <2> QED
    BY <2>1, ReadGrew
<1> QED
  BY <1>1, <1>2, <1>3, <1>4, <1>5, <1>6 DEF Finance

\* Appending to a table of the rental, or writing a status in one of its
\* rows, keeps the rows that were there.
LEMMA HandoverAppended ==
    ASSUME TypeOK, NEW s \in Rentals, NEW row \in Handover, NEW r \in Rentals,
           handovers' = [handovers EXCEPT ![s] = Append(@, row)],
           UNCHANGED <<money, agreement, disputes>>
    PROVE  Grew(r)
<1>1. handovers[s] \in Seq(Handover)
  BY DEF TypeOK
<1>2. /\ Len(Append(handovers[s], row)) = Len(handovers[s]) + 1
      /\ \A i \in 1 .. Len(handovers[s]) :
            Append(handovers[s], row)[i] = handovers[s][i]
  BY <1>1, AppendRow
<1>3. \A i \in 1 .. Len(handovers[r]) :
         i \in 1 .. Len(handovers'[r]) /\ handovers'[r][i] = handovers[r][i]
  BY <1>2, <1>1 DEF TypeOK
<1> QED
  BY <1>3 DEF Grew, Handed, money, agreement

\* Confirming a session keeps every session of the rental and its type.
LEMMA HandoverConfirmed ==
    ASSUME TypeOK, NEW s \in Rentals, NEW k \in 1 .. Len(handovers[s]),
           NEW r \in Rentals,
           handovers' = [handovers EXCEPT ![s][k].status = "CONFIRMED"],
           UNCHANGED <<paidAt, refunds, contract, signed, disputes>>,
           payout[r] # NoRow => payout'[r] # NoRow
    PROVE  /\ Grew(r)
           /\ handovers'[s][k] = [handovers[s][k] EXCEPT !.status = "CONFIRMED"]
           /\ k \in 1 .. Len(handovers'[s])
<1> DEFINE row == [handovers[s][k] EXCEPT !.status = "CONFIRMED"]
<1>1. handovers[s] \in Seq(Handover)
  BY DEF TypeOK
<1>2. handovers[s][k] \in Handover
  BY <1>1
<1>3. row \in Handover /\ row.type = handovers[s][k].type /\ row.status = "CONFIRMED"
  BY <1>2 DEF Handover
<1>4. handovers' = [handovers EXCEPT ![s] = [@ EXCEPT ![k] = row]]
  OBVIOUS
<1>5. handovers[s][k].status = "CONFIRMED" => row = handovers[s][k]
  BY <1>2 DEF Handover
<1> HIDE DEF row
<1>6. /\ Len([handovers[s] EXCEPT ![k] = row]) = Len(handovers[s])
      /\ \A i \in 1 .. Len(handovers[s]) :
            [handovers[s] EXCEPT ![k] = row][i] = IF i = k THEN row ELSE handovers[s][i]
  BY <1>1, <1>3, UpdateRow
<1>7. handovers'[s] = [handovers[s] EXCEPT ![k] = row]
  BY <1>4 DEF TypeOK
<1>8. r # s => handovers'[r] = handovers[r]
  BY <1>4 DEF TypeOK
<1>9. \A i \in 1 .. Len(handovers[r]) :
         /\ i \in 1 .. Len(handovers'[r])
         /\ handovers'[r][i].type = handovers[r][i].type
         /\ handovers[r][i].status = "CONFIRMED" =>
               handovers'[r][i] = handovers[r][i]
         /\ handovers[r][i].status = "CONFIRMED" =>
               handovers'[r][i].status = "CONFIRMED"
  <2>1. CASE r = s
    BY <1>3, <1>5, <1>6, <1>7, <2>1
  <2>2. CASE r # s
    BY <1>8, <2>2
  <2> QED
    BY <2>1, <2>2
<1>10. Handed(r, "DELIVERY") => Handed(r, "DELIVERY")'
  BY <1>9 DEF Handed
<1>11. Grew(r)
  BY <1>9, <1>10 DEF Grew
<1>12. handovers'[s][k] = row /\ k \in 1 .. Len(handovers'[s])
  BY <1>6, <1>7
<1> QED
  BY <1>11, <1>12 DEF row

\* Writing the status of a dispute keeps every dispute row.
LEMMA DisputeUpdated ==
    ASSUME TypeOK, NEW s \in Rentals, NEW k \in 1 .. Len(disputes[s]),
           NEW next \in DisputeStatus, NEW r \in Rentals,
           disputes' = [disputes EXCEPT ![s][k].status = next]
    PROVE  \A i \in 1 .. Len(disputes[r]) : i \in 1 .. Len(disputes'[r])
<1> DEFINE row == [disputes[s][k] EXCEPT !.status = next]
<1>1. disputes[s] \in Seq(Dispute)
  BY DEF TypeOK
<1>2. disputes[s][k] \in Dispute
  BY <1>1
<1>3. row \in Dispute
  BY <1>2 DEF Dispute
<1>4. disputes' = [disputes EXCEPT ![s] = [@ EXCEPT ![k] = row]]
  OBVIOUS
<1> HIDE DEF row
<1>5. Len([disputes[s] EXCEPT ![k] = row]) = Len(disputes[s])
  BY <1>1, <1>3, UpdateRow
<1> QED
  BY <1>4, <1>5 DEF TypeOK

\* Writing the status of a refund keeps every refund row.
LEMMA RefundUpdated ==
    ASSUME TypeOK, NEW s \in Rentals, NEW k \in 1 .. Len(refunds[s]),
           NEW next \in RefundStatus, NEW r \in Rentals,
           refunds' = [refunds EXCEPT ![s][k].status = next]
    PROVE  \A i \in 1 .. Len(refunds[r]) : i \in 1 .. Len(refunds'[r])
<1> DEFINE row == [refunds[s][k] EXCEPT !.status = next]
<1>1. refunds[s] \in Seq(Refund)
  BY DEF TypeOK
<1>2. refunds[s][k] \in Refund
  BY <1>1
<1>3. row \in Refund
  BY <1>2 DEF Refund
<1>4. refunds' = [refunds EXCEPT ![s] = [@ EXCEPT ![k] = row]]
  OBVIOUS
<1> HIDE DEF row
<1>5. Len([refunds[s] EXCEPT ![k] = row]) = Len(refunds[s])
  BY <1>1, <1>3, UpdateRow
<1> QED
  BY <1>4, <1>5 DEF TypeOK

\* A request that goes on takes no evidence back.
LEMMA ProgressGrew ==
    ASSUME TypeOK, NEW w \in Workers, IndexFits(req[w]), Progress(w),
           NEW r \in Rentals
    PROVE  Grew(r)
<1> DEFINE q == req[w]
<1>0. q \in Requests
  BY DEF TypeOK
<1> HIDE DEF q
<1>1. CASE \/ ApproveCommit(w) \/ DeclineCommit(w) \/ FlagForReview(w)
           \/ RequestReturnCommit(w) \/ OverdueCommit(w)
  <2>1. UNCHANGED <<paidAt, refunds, payout, contract, signed, handovers, disputes>>
    BY <1>1 DEF ApproveCommit, DeclineCommit, FlagForReview,
                RequestReturnCommit, OverdueCommit, money, agreement
  <2> QED
    BY <2>1, KeptGrew
<1>2. CASE \/ SettleLock(w) \/ SettleSkip(w) \/ SignCount(w)
           \/ ConfirmHandoverConflict(w) \/ DisputeConflict(w)
  <2>1. UNCHANGED tables
    BY <1>2 DEF SettleLock, SettleSkip, SignCount, ConfirmHandoverConflict,
                DisputeConflict
  <2> QED
    BY <2>1, ReadGrew
<1>3. CASE CancelCommit(w)
  <2>1. q \in CancelRequest
    BY <1>0, <1>3, OpTellsKind DEF CancelCommit, q
  <2>2. q.r \in Rentals /\ q.refund \in 0 .. Total /\ q.payout \in {"CANCELLED", "BLOCKED"}
    BY <2>1 DEF CancelRequest
  <2>3. payout[r] # NoRow => payout'[r] # NoRow
    BY <1>3, <2>2 DEF CancelCommit, TypeOK, NoRow, q
  <2>4. contract[r] # NoRow => contract'[r] # NoRow
    BY <1>3 DEF CancelCommit, TypeOK, NoRow
  <2>5. \A i \in 1 .. Len(refunds[r]) : i \in 1 .. Len(refunds'[r])
    <3>1. CASE q.refund = 0
      BY <1>3, <3>1 DEF CancelCommit, CancelRefund, q
    <3>2. CASE q.refund # 0
      <4> DEFINE row == [amount |-> q.refund, status |-> "COMPLETED"]
      <4>1. row \in Refund
        BY <2>2, <3>2, AmountAssumption DEF Refund, RefundStatus
      <4>2. refunds' = [refunds EXCEPT ![q.r] = Append(@, row)]
        BY <1>3, <3>2 DEF CancelCommit, CancelRefund, q
      <4> HIDE DEF row
      <4>3. refunds[q.r] \in Seq(Refund)
        BY <2>2 DEF TypeOK
      <4>4. Len(Append(refunds[q.r], row)) = Len(refunds[q.r]) + 1
        BY <4>1, <4>3, AppendRow
      <4> QED
        BY <4>2, <4>3, <4>4 DEF TypeOK
    <3> QED
      BY <3>1, <3>2
  <2> QED
    BY <1>3, <2>3, <2>4, <2>5, RefundsGrew DEF CancelCommit
<1>4. CASE SettleCommit(w)
  BY <1>4, PapersGrew DEF SettleCommit, TypeOK, NoRow
<1>5. CASE SignUpsert(w)
  BY <1>5, PapersGrew DEF SignUpsert, TypeOK, money
<1>6. CASE SignCommit(w)
  BY <1>6, PapersGrew DEF SignCommit, TypeOK, NoRow, money
<1>7. CASE StartHandoverCommit(w)
  <2>1. q.r \in Rentals /\ q.type \in HandoverType
    BY <1>0, <1>7, OpTellsKind DEF StartHandoverCommit, StartRequest, q
  <2> DEFINE row == [type |-> q.type, status |-> "PENDING"]
  <2>2. row \in Handover
    BY <2>1 DEF Handover
  <2>3. handovers' = [handovers EXCEPT ![q.r] = Append(@, row)]
    BY <1>7 DEF StartHandoverCommit, q
  <2> HIDE DEF row
  <2> QED
    BY <1>7, <2>1, <2>2, <2>3, HandoverAppended DEF StartHandoverCommit
<1>8. CASE ConfirmHandoverCommit(w)
  <2>1. q.r \in Rentals
    BY <1>0, <1>8, OpTellsKind DEF ConfirmHandoverCommit, ConfirmRequest, q
  <2>2. q.i \in 1 .. Len(handovers[q.r])
    BY <1>8 DEF ConfirmHandoverCommit, IndexFits, q
  <2>3. payout[r] # NoRow => payout'[r] # NoRow
    BY <1>8 DEF ConfirmHandoverCommit, TypeOK, NoRow
  <2>4. handovers' = [handovers EXCEPT ![q.r][q.i].status = "CONFIRMED"]
    BY <1>8 DEF ConfirmHandoverCommit, q
  <2> QED
    BY <1>8, <2>1, <2>2, <2>3, <2>4, HandoverConfirmed
       DEF ConfirmHandoverCommit, agreement
<1>9. CASE RefundCommit(w)
  <2>1. q \in RefundRequest
    BY <1>0, <1>9, OpTellsKind DEF RefundCommit, q
  <2>2. /\ q.r \in Rentals /\ q.next \in RefundStatus
        /\ q.outcome \in {"REFUNDED", "PARTIALLY_REFUNDED", "RELEASED", "HELD"}
    BY <2>1 DEF RefundRequest, RefundStatus
  <2>3. q.i \in 1 .. Len(refunds[q.r])
    BY <1>9 DEF RefundCommit, IndexFits, q
  <2>4. \A i \in 1 .. Len(refunds[r]) : i \in 1 .. Len(refunds'[r])
    BY <1>9, <2>2, <2>3, RefundUpdated DEF RefundCommit, q
  <2>5. payout[r] # NoRow => payout'[r] # NoRow
    BY <1>9, <2>2 DEF RefundCommit, PayoutAfterRefund, TypeOK, NoRow, q
  <2> QED
    BY <1>9, <2>4, <2>5, RefundsGrew DEF RefundCommit, agreement
<1>10. CASE PayoutCommit(w)
  <2>1. q.next \in PayoutStatus
    BY <1>0, <1>10, OpTellsKind DEF PayoutCommit, PayoutRequest, q
  <2>2. payout[r] # NoRow => payout'[r] # NoRow
    BY <1>10, <2>1 DEF PayoutCommit, TypeOK, PayoutStatus, NoRow, q
  <2> QED
    BY <1>10, <2>2, PapersGrew DEF PayoutCommit, agreement
<1>11. CASE OpenDisputeCommit(w)
  <2>1. q \in OpenRequest
    BY <1>0, <1>11, OpTellsKind DEF OpenDisputeCommit, q
  <2> DEFINE row == [status |-> q.first, damage |-> q.damage]
  <2>2. row \in Dispute /\ q.r \in Rentals
    BY <2>1 DEF OpenRequest, Dispute, DisputeStatus, ActiveDispute
  <2>3. disputes' = [disputes EXCEPT ![q.r] = Append(@, row)]
    BY <1>11 DEF OpenDisputeCommit, q
  <2> HIDE DEF row
  <2>4. disputes[q.r] \in Seq(Dispute)
    BY <2>2 DEF TypeOK
  <2>5. Len(Append(disputes[q.r], row)) = Len(disputes[q.r]) + 1
    BY <2>2, <2>4, AppendRow
  <2>6. \A i \in 1 .. Len(disputes[r]) : i \in 1 .. Len(disputes'[r])
    BY <2>3, <2>4, <2>5 DEF TypeOK
  <2>7. payout[r] # NoRow => payout'[r] # NoRow
    BY <1>11 DEF OpenDisputeCommit, TypeOK, NoRow
  <2> QED
    BY <1>11, <2>6, <2>7, DisputesGrew DEF OpenDisputeCommit, agreement
<1>12. CASE TrackCommit(w) \/ CloseCommit(w)
  <2>1. q.op \in {"respond", "assign", "close"}
    BY <1>12 DEF TrackCommit, CloseCommit, q
  <2>2. q.r \in Rentals /\ q.next \in DisputeStatus
    BY <1>0, <2>1, OpTellsKind DEF TrackRequest, CloseRequest
  <2>3. q.i \in 1 .. Len(disputes[q.r])
    BY <2>1 DEF IndexFits, q
  <2>4. disputes' = [disputes EXCEPT ![q.r][q.i].status = q.next]
    BY <1>12 DEF TrackCommit, CloseCommit, q
  <2>5. \A i \in 1 .. Len(disputes[r]) : i \in 1 .. Len(disputes'[r])
    BY <2>2, <2>3, <2>4, DisputeUpdated
  <2>6. payout[r] # NoRow => payout'[r] # NoRow
    BY <1>12 DEF TrackCommit, CloseCommit, TypeOK, NoRow, money
  <2>7. UNCHANGED <<paidAt, refunds, contract, signed, handovers>>
    BY <1>12 DEF TrackCommit, CloseCommit, money, agreement
  <2> QED
    BY <2>5, <2>6, <2>7, DisputesGrew
<1> QED
  BY <1>1, <1>2, <1>3, <1>4, <1>5, <1>6, <1>7, <1>8, <1>9, <1>10, <1>11, <1>12
     DEF Progress

----------------------------------------------------------------------------
(* So what a request saw still holds when it writes. *)

\* Every request but the idle one is about a rental.
LEMMA RequestTarget ==
    ASSUME NEW q \in Requests, q.op # "idle"
    PROVE  q.r \in Rentals
  BY DEF Requests, Idle, PlainRequest, ApproveRequest, CancelRequest,
         SignRequest, ActivateRequest, StartRequest, ConfirmRequest,
         RefundRequest, PayoutRequest, OpenRequest, TrackRequest, CloseRequest

\* Growing evidence stays evidence.
LEMMA EvidenceStays ==
    ASSUME TypeOK', NEW r \in Rentals, Grew(r)
    PROVE  /\ Paid(r) => Paid(r)'
           /\ BothSigned(r) => BothSigned(r)'
           /\ Delivered(r) => Delivered(r)'
<1>1. Paid(r) => Paid(r)'
  BY DEF Grew, Paid
<1>2. signed[r] = Parties => signed'[r] = Parties
  <2>1. signed' \in [Rentals -> SUBSET Parties]
    BY DEF TypeOK
  <2>2. signed'[r] \subseteq Parties
    BY <2>1
  <2> QED
    BY <2>2 DEF Grew
<1>3. BothSigned(r) => BothSigned(r)'
  BY <1>1, <1>2 DEF BothSigned
<1>4. Handed(r, "DELIVERY") => Handed(r, "DELIVERY")'
  BY DEF Grew
<1> QED
  BY <1>1, <1>3, <1>4 DEF Delivered

\* A request waiting in flight is not overtaken by any step.
LEMMA SupportStays ==
    ASSUME TypeOK', NEW q \in Requests, \A r \in Rentals : Grew(r),
           IndexFits(q), Supported(q)
    PROVE  IndexFits(q)' /\ Supported(q)'
<1>1. CASE q.op = "idle"
  BY <1>1 DEF IndexFits, Supported
<1>2. CASE q.op # "idle"
  <2>1. q.r \in Rentals
    BY <1>2, RequestTarget
  <2>2. Grew(q.r)
    BY <2>1
  <2>3. IndexFits(q)'
    BY <2>2 DEF IndexFits, Grew
  <2>4. /\ Paid(q.r) => Paid(q.r)'
        /\ BothSigned(q.r) => BothSigned(q.r)'
        /\ Delivered(q.r) => Delivered(q.r)'
    BY <2>1, <2>2, EvidenceStays
  <2>5. Supported(q)'
    BY <2>4 DEF Supported
  <2> QED
    BY <2>3, <2>5
<1> QED
  BY <1>1, <1>2

\* The idle request needs no support.
LEMMA IdleSupported == IndexFits(Idle) /\ Supported(Idle)
  BY DEF IndexFits, Supported, Idle

\* A step replaces the request of one worker by a supported one, if any.
Turn(w) ==
    \E q \in Requests :
        /\ req' = [req EXCEPT ![w] = q]
        /\ IndexFits(q)
        /\ Supported(q)

\* The other requests in flight keep their support in every step.
LEMMA RequestsStay ==
    ASSUME Inv, TypeOK', \A r \in Rentals : Grew(r), NEW w \in Workers,
           Turn(w) \/ req' = req
    PROVE  \A v \in Workers : (IndexFits(req[v]) /\ Supported(req[v]))'
<1> SUFFICES ASSUME NEW v \in Workers
             PROVE  (IndexFits(req[v]) /\ Supported(req[v]))'
  OBVIOUS
<1>1. \E q \in Requests : req'[v] = q /\ IndexFits(q) /\ Supported(q)
  <2>1. req[v] \in Requests /\ IndexFits(req[v]) /\ Supported(req[v])
    BY DEF Inv, TypeOK
  <2>2. CASE req'[v] = req[v]
    BY <2>1, <2>2
  <2>3. CASE req'[v] # req[v]
    BY <2>3 DEF Turn, Inv, TypeOK
  <2> QED
    BY <2>2, <2>3
<1>2. PICK q \in Requests : req'[v] = q /\ IndexFits(q) /\ Supported(q)
  BY <1>1
<1>3. IndexFits(q)' /\ Supported(q)'
  BY <1>2, SupportStays
<1> QED
  BY <1>2, <1>3 DEF IndexFits, Supported, Paid, BothSigned, Delivered, Handed

\* A request that begins carries evidence it has just read.
LEMMA ArrivalSupported ==
    ASSUME Inv, TypeOK', NEW w \in Workers, NEW r \in Rentals,
           Booking(w, r) \/ Paying(w, r) \/ Lending(w, r) \/ Finance(w, r)
              \/ Disputing(w, r)
    PROVE  Turn(w) \/ req' = req
<1>0. TypeOK /\ StageOK(r)
  BY DEF Inv
<1>1. \A q \in Requests :
         /\ Begin(w, q)
         /\ q.op \notin {"confirm", "refund", "respond", "assign", "close",
                         "sign", "signed", "activate", "startHandover",
                         "requestReturn", "overdue"}
         => Turn(w)
  BY DEF Turn, Begin, IndexFits, Supported
<1>2. CASE Booking(w, r)
  <2>1. CASE CreateRental(w, r)
    BY <2>1 DEF CreateRental, AtOnce
  <2>2. CASE ApproveRead(w, r)
    <3> DEFINE q == [op |-> "approve", r |-> r, expired |-> Lapsed(AssetOf[r])]
    <3>1. q \in Requests
      BY KindsAreRequests DEF ApproveRequest, Lapsed
    <3>2. Begin(w, q) /\ q.op = "approve"
      BY <2>2 DEF ApproveRead
    <3> HIDE DEF q
    <3> QED
      BY <1>1, <3>1, <3>2
  <2>3. CASE DeclineRead(w, r)
    <3> DEFINE q == [op |-> "decline", r |-> r]
    <3>1. q \in Requests
      BY KindsAreRequests DEF PlainRequest
    <3>2. Begin(w, q) /\ q.op = "decline"
      BY <2>3 DEF DeclineRead
    <3> HIDE DEF q
    <3> QED
      BY <1>1, <3>1, <3>2
  <2>4. CASE CancelRead(w, r)
    <3>1. PICK outcome \in CancellationOutcomes(r) :
            Begin(w, [op |-> "cancel", r |-> r,
                      refund |-> outcome.refund, payout |-> outcome.payout,
                      hasPayout |-> payout[r] # NoRow,
                      hasContract |-> contract[r] # NoRow])
      BY <2>4 DEF CancelRead
    <3>2. outcome.refund \in 0 .. Total /\ outcome.payout \in {"CANCELLED", "BLOCKED"}
      BY AmountAssumption DEF CancellationOutcomes
    <3> DEFINE q == [op |-> "cancel", r |-> r,
                     refund |-> outcome.refund, payout |-> outcome.payout,
                     hasPayout |-> payout[r] # NoRow,
                     hasContract |-> contract[r] # NoRow]
    <3>3. q \in CancelRequest
      BY <3>2 DEF CancelRequest
    <3>4. Begin(w, q) /\ q.op = "cancel"
      BY <3>1
    <3> HIDE DEF q
    <3> QED
      BY <1>1, <3>3, <3>4, KindsAreRequests
  <2> QED
    BY <1>2, <2>1, <2>2, <2>3, <2>4 DEF Booking
<1>3. CASE Paying(w, r)
  <2>1. CASE WindowElapses(r) \/ OpenIntent(w, r) \/ ExpireIntent(w, r)
    BY <2>1 DEF WindowElapses, OpenIntent, ExpireIntent, AtOnce
  <2>2. CASE FindPayment(w, r)
    <3> DEFINE q == [op |-> "found", r |-> r]
    <3>1. q \in Requests
      BY KindsAreRequests DEF PlainRequest
    <3>2. Begin(w, q) /\ q.op = "found"
      BY <2>2 DEF FindPayment
    <3> HIDE DEF q
    <3> QED
      BY <1>1, <3>1, <3>2
  <2> QED
    BY <1>3, <2>1, <2>2 DEF Paying
<1>4. CASE Lending(w, r)
  <2>1. CASE SignRead(w, r)
    <3>1. PICK party \in Parties :
            Begin(w, [op |-> "sign", r |-> r, party |-> party])
      BY <2>1 DEF SignRead
    <3> DEFINE q == [op |-> "sign", r |-> r, party |-> party]
    <3>2. q \in Requests
      BY KindsAreRequests DEF SignRequest
    <3>3. Paid(r)
      BY <1>0, <2>1 DEF StageOK, SignRead, AfterPayment, Signable
    <3>4. IndexFits(q) /\ Supported(q)
      BY <3>3 DEF IndexFits, Supported
    <3>5. req' = [req EXCEPT ![w] = q]
      BY <3>1 DEF Begin
    <3> HIDE DEF q
    <3> QED
      BY <3>2, <3>4, <3>5 DEF Turn
  <2>2. CASE StartHandoverRead(w, r)
    <3>1. PICK type \in HandoverType :
            /\ status[r] \in MayStart(type)
            /\ Begin(w, [op |-> "startHandover", r |-> r, type |-> type])
      BY <2>2 DEF StartHandoverRead
    <3> DEFINE q == [op |-> "startHandover", r |-> r, type |-> type]
    <3>2. q \in Requests
      BY KindsAreRequests DEF StartRequest
    <3>3. IF type = "DELIVERY" THEN BothSigned(r) ELSE Delivered(r)
      BY <1>0, <3>1 DEF StageOK, MayStart, AfterSigning, AfterDelivery, AfterPayment
    <3>4. IndexFits(q) /\ Supported(q)
      BY <3>3 DEF IndexFits, Supported
    <3>5. req' = [req EXCEPT ![w] = q]
      BY <3>1 DEF Begin
    <3> HIDE DEF q
    <3> QED
      BY <3>2, <3>4, <3>5 DEF Turn
  <2>3. CASE ConfirmHandoverRead(w, r)
    <3>1. PICK i \in 1 .. Len(handovers[r]) :
            /\ status[r] = MayConfirm(handovers[r][i].type)
            /\ Begin(w, [op |-> "confirm", r |-> r, i |-> i,
                         type |-> handovers[r][i].type,
                         hasPayout |-> payout[r] # NoRow])
      BY <2>3 DEF ConfirmHandoverRead, Confirmable
    <3> DEFINE type == handovers[r][i].type
               q == [op |-> "confirm", r |-> r, i |-> i, type |-> type,
                     hasPayout |-> payout[r] # NoRow]
    <3>2. handovers[r] \in Seq(Handover)
      BY <1>0 DEF TypeOK
    <3>3. i \in Nat /\ handovers[r][i] \in Handover
      BY <3>2
    <3>4. type \in HandoverType
      BY <3>3 DEF Handover
    <3>5. q \in Requests
      BY <3>3, <3>4, KindsAreRequests DEF ConfirmRequest
    <3>6. IF type = "DELIVERY" THEN BothSigned(r) ELSE Delivered(r)
      BY <1>0, <3>1 DEF StageOK, MayConfirm, AfterSigning, AfterDelivery, AfterPayment
    <3>7. IndexFits(q) /\ Supported(q)
      BY <3>6 DEF IndexFits, Supported
    <3>8. req' = [req EXCEPT ![w] = q]
      BY <3>1 DEF Begin
    <3> HIDE DEF q
    <3> QED
      BY <3>5, <3>7, <3>8 DEF Turn
  <2>4. CASE RequestReturnRead(w, r)
    <3> DEFINE q == [op |-> "requestReturn", r |-> r]
    <3>1. q \in Requests
      BY KindsAreRequests DEF PlainRequest
    <3>2. Delivered(r)
      BY <1>0, <2>4 DEF StageOK, RequestReturnRead, AfterDelivery, Returnable
    <3>3. IndexFits(q) /\ Supported(q)
      BY <3>2 DEF IndexFits, Supported
    <3>4. req' = [req EXCEPT ![w] = q]
      BY <2>4 DEF RequestReturnRead, Begin
    <3> HIDE DEF q
    <3> QED
      BY <3>1, <3>3, <3>4 DEF Turn
  <2>5. CASE OverdueRead(w, r)
    <3> DEFINE q == [op |-> "overdue", r |-> r]
    <3>1. q \in Requests
      BY KindsAreRequests DEF PlainRequest
    <3>2. Delivered(r)
      BY <1>0, <2>5 DEF StageOK, OverdueRead, AfterDelivery
    <3>3. IndexFits(q) /\ Supported(q)
      BY <3>2 DEF IndexFits, Supported
    <3>4. req' = [req EXCEPT ![w] = q]
      BY <2>5 DEF OverdueRead, Begin
    <3> HIDE DEF q
    <3> QED
      BY <3>1, <3>3, <3>4 DEF Turn
  <2> QED
    BY <1>4, <2>1, <2>2, <2>3, <2>4, <2>5 DEF Lending
<1>5. CASE Finance(w, r)
  <2>1. CASE CreateRefund(w, r)
    BY <2>1 DEF CreateRefund, AtOnce
  <2>2. CASE RefundRead(w, r)
    <3>1. PICK i \in 1 .. Len(refunds[r]), next \in RefundStatus \ {"PENDING"} :
            Begin(w, [op |-> "refund", r |-> r, i |-> i, next |-> next,
                      outcome |-> RefundOutcome(r, i, next),
                      hasPayout |-> payout[r] # NoRow])
      BY <2>2 DEF RefundRead, Endable
    <3> DEFINE q == [op |-> "refund", r |-> r, i |-> i, next |-> next,
                     outcome |-> RefundOutcome(r, i, next),
                     hasPayout |-> payout[r] # NoRow]
    <3>2. req' = [req EXCEPT ![w] = q]
      BY <3>1 DEF Begin
    <3>3. q \in Requests
      <4>1. req'[w] \in Requests
        BY DEF TypeOK
      <4>2. req'[w] = q
        BY <1>0, <3>2 DEF TypeOK
      <4> QED
        BY <4>1, <4>2
    <3>4. IndexFits(q) /\ Supported(q)
      BY <3>1 DEF IndexFits, Supported
    <3> HIDE DEF q
    <3> QED
      BY <3>2, <3>3, <3>4 DEF Turn
  <2>3. CASE PayoutRead(w, r)
    <3>1. PICK next \in PayoutTargets :
            Begin(w, [op |-> "payout", r |-> r, next |-> next])
      BY <2>3 DEF PayoutRead
    <3> DEFINE q == [op |-> "payout", r |-> r, next |-> next]
    <3>2. q \in Requests
      BY BoundAssumption, KindsAreRequests DEF PayoutRequest, PayoutStatus
    <3>3. Begin(w, q) /\ q.op = "payout"
      BY <3>1
    <3> HIDE DEF q
    <3> QED
      BY <1>1, <3>2, <3>3
  <2> QED
    BY <1>5, <2>1, <2>2, <2>3 DEF Finance
<1>6. CASE Disputing(w, r)
  <2>1. req'[w] \in Requests
    BY DEF TypeOK
  <2>2. \A q : Begin(w, q) => q \in Requests /\ req' = [req EXCEPT ![w] = q]
    BY <1>0, <2>1 DEF TypeOK, Begin
  <2>3. CASE OpenDisputeRead(w, r)
    <3>1. PICK opening \in Openings(r) :
            Begin(w, [op |-> "open", r |-> r, damage |-> opening.damage,
                      first |-> opening.first, hasPayout |-> payout[r] # NoRow])
      BY <2>3 DEF OpenDisputeRead
    <3> DEFINE q == [op |-> "open", r |-> r, damage |-> opening.damage,
                     first |-> opening.first, hasPayout |-> payout[r] # NoRow]
    <3>2. Begin(w, q) /\ q.op = "open"
      BY <3>1
    <3> HIDE DEF q
    <3> QED
      BY <1>1, <2>2, <3>2
  <2>4. CASE RespondRead(w, r)
    <3>1. PICK i \in 1 .. Len(disputes[r]) :
            Begin(w, [op |-> "respond", r |-> r, i |-> i,
                      next |-> IF disputes[r][i].status = "OPEN"
                               THEN "WAITING_RESPONSE" ELSE "UNDER_REVIEW"])
      BY <2>4 DEF RespondRead, NotClosed
    <3> DEFINE q == [op |-> "respond", r |-> r, i |-> i,
                     next |-> IF disputes[r][i].status = "OPEN"
                              THEN "WAITING_RESPONSE" ELSE "UNDER_REVIEW"]
    <3>2. Begin(w, q) /\ IndexFits(q) /\ Supported(q)
      BY <3>1 DEF IndexFits, Supported
    <3> HIDE DEF q
    <3> QED
      BY <2>2, <3>2 DEF Turn
  <2>5. CASE AssignRead(w, r)
    <3>1. PICK i \in 1 .. Len(disputes[r]) :
            Begin(w, [op |-> "assign", r |-> r, i |-> i,
                      next |-> IF disputes[r][i].status \in {"OPEN", "WAITING_RESPONSE"}
                               THEN "UNDER_REVIEW" ELSE disputes[r][i].status])
      BY <2>5 DEF AssignRead
    <3> DEFINE q == [op |-> "assign", r |-> r, i |-> i,
                     next |-> IF disputes[r][i].status \in {"OPEN", "WAITING_RESPONSE"}
                              THEN "UNDER_REVIEW" ELSE disputes[r][i].status]
    <3>2. Begin(w, q) /\ IndexFits(q) /\ Supported(q)
      BY <3>1 DEF IndexFits, Supported
    <3> HIDE DEF q
    <3> QED
      BY <2>2, <3>2 DEF Turn
  <2>6. CASE AcceptDamageRead(w, r)
    <3>1. PICK i \in 1 .. Len(disputes[r]) :
            Begin(w, [op |-> "close", r |-> r, i |-> i, next |-> "CLOSED",
                      completes |-> TRUE, restores |-> payout[r] = "BLOCKED"])
      BY <2>6 DEF AcceptDamageRead, Claims, NotClosed
    <3> DEFINE q == [op |-> "close", r |-> r, i |-> i, next |-> "CLOSED",
                     completes |-> TRUE, restores |-> payout[r] = "BLOCKED"]
    <3>2. Begin(w, q) /\ IndexFits(q) /\ Supported(q)
      BY <3>1 DEF IndexFits, Supported
    <3> HIDE DEF q
    <3> QED
      BY <2>2, <3>2 DEF Turn
  <2>7. CASE UpdateDisputeRead(w, r)
    <3> DEFINE completes(next) == next \in TerminalDispute /\ Handed(r, "RETURN")
               q(i, next) == [op |-> "close", r |-> r, i |-> i, next |-> next,
                              completes |-> completes(next),
                              restores |-> completes(next) /\ payout[r] = "BLOCKED"]
    <3>1. PICK i \in 1 .. Len(disputes[r]) :
          \E next \in AllowedTransitions(disputes[r][i].status) : Begin(w, q(i, next))
      BY <2>7 DEF UpdateDisputeRead
    <3>2. PICK next \in AllowedTransitions(disputes[r][i].status) : Begin(w, q(i, next))
      BY <3>1
    <3>3. IndexFits(q(i, next)) /\ Supported(q(i, next))
      BY <3>1 DEF IndexFits, Supported
    <3> HIDE DEF q
    <3> QED
      BY <2>2, <3>2, <3>3 DEF Turn
  <2> QED
    BY <1>6, <2>3, <2>4, <2>5, <2>6, <2>7 DEF Disputing
<1> QED
  BY <1>2, <1>3, <1>4, <1>5, <1>6

\* A request that goes on keeps what it saw, or ends.
LEMMA ProgressSupported ==
    ASSUME Inv, NEW w \in Workers, Progress(w)
    PROVE  Turn(w)
<1>0. TypeOK /\ req[w] \in Requests /\ Supported(req[w])
  BY DEF Inv, TypeOK
<1>1. CASE Done(w)
  BY <1>1, IdleSupported, KindsAreRequests DEF Done, Turn
<1>2. CASE SettleLock(w)
  <2> DEFINE q == [op |-> "settle", r |-> req[w].r]
  <2>1. q \in PlainRequest
    BY <1>0, <1>2, OpTellsKind DEF SettleLock, PlainRequest
  <2>2. IndexFits(q) /\ Supported(q)
    BY DEF IndexFits, Supported
  <2>3. req' = [req EXCEPT ![w] = q]
    BY <1>2 DEF SettleLock, Continue
  <2> HIDE DEF q
  <2> QED
    BY <2>1, <2>2, <2>3, KindsAreRequests DEF Turn
<1>3. CASE SignUpsert(w)
  <2> DEFINE q == [op |-> "signed", r |-> req[w].r]
  <2>1. q \in PlainRequest
    BY <1>0, <1>3, OpTellsKind DEF SignUpsert, PlainRequest, SignRequest
  <2>2. IndexFits(q) /\ Supported(q)
    BY <1>0, <1>3 DEF SignUpsert, IndexFits, Supported
  <2>3. req' = [req EXCEPT ![w] = q]
    BY <1>3 DEF SignUpsert, Continue
  <2> HIDE DEF q
  <2> QED
    BY <2>1, <2>2, <2>3, KindsAreRequests DEF Turn
<1>4. CASE SignCount(w)
  <2> DEFINE q == [op |-> "activate", r |-> req[w].r,
                   bothSigned |-> signed[req[w].r] = Parties]
  <2>1. q \in ActivateRequest
    BY <1>0, <1>4, OpTellsKind DEF SignCount, PlainRequest, ActivateRequest
  <2>2. IndexFits(q) /\ Supported(q)
    BY <1>0, <1>4 DEF SignCount, IndexFits, Supported, BothSigned
  <2>3. req' = [req EXCEPT ![w] = q]
    BY <1>4 DEF SignCount, Continue
  <2> HIDE DEF q
  <2> QED
    BY <2>1, <2>2, <2>3, KindsAreRequests DEF Turn
<1>5. \/ Done(w) \/ SettleLock(w) \/ SignUpsert(w) \/ SignCount(w)
  BY DEF Progress, ApproveCommit, DeclineCommit, CancelCommit, FlagForReview,
         SettleSkip, SettleCommit, SignCommit, StartHandoverCommit,
         ConfirmHandoverCommit, ConfirmHandoverConflict, RequestReturnCommit,
         OverdueCommit, RefundCommit, PayoutCommit, OpenDisputeCommit,
         TrackCommit, CloseCommit, DisputeConflict
<1> QED
  BY <1>1, <1>2, <1>3, <1>4, <1>5

----------------------------------------------------------------------------
(* The stages. *)

\* A rental that enters no later stage keeps its evidence.
LEMMA StageKept ==
    ASSUME TypeOK', NEW r \in Rentals, Grew(r), StageOK(r),
           status'[r] = status[r] \/ status'[r] \notin AfterPayment,
           contract'[r] = contract[r] \/ contract'[r] # "ACTIVE"
    PROVE  StageOK(r)'
<1>1. signed'[r] \subseteq Parties
  <2>1. signed' \in [Rentals -> SUBSET Parties]
    BY DEF TypeOK
  <2> QED
    BY <2>1
<1>2. /\ Paid(r) => Paid(r)'
      /\ BothSigned(r) => BothSigned(r)'
      /\ Delivered(r) => Delivered(r)'
  BY EvidenceStays
<1>3. contract'[r] = "ACTIVE" => signed'[r] = Parties
  BY <1>1 DEF StageOK, Grew
<1> QED
  BY <1>2, <1>3 DEF StageOK, AfterPayment, AfterSigning, AfterDelivery

\* A new request brings no rental to a later stage.
LEMMA ArrivalStage ==
    ASSUME Inv, TypeOK', NEW w \in Workers, NEW s \in Rentals,
           Booking(w, s) \/ Paying(w, s) \/ Lending(w, s) \/ Finance(w, s)
              \/ Disputing(w, s),
           NEW r \in Rentals
    PROVE  StageOK(r)'
<1>1. contract' = contract
  BY DEF Booking, CreateRental, ApproveRead, DeclineRead, CancelRead,
         Paying, WindowElapses, OpenIntent, ExpireIntent, FindPayment,
         Lending, SignRead, StartHandoverRead, ConfirmHandoverRead,
         RequestReturnRead, OverdueRead,
         Finance, CreateRefund, RefundRead, PayoutRead,
         Disputing, OpenDisputeRead, RespondRead, AssignRead,
         AcceptDamageRead, UpdateDisputeRead, tables, agreement
<1>2. status'[r] = status[r] \/ status'[r] \notin AfterPayment
  <2>1. \/ status' = status
        \/ \E new \in {"PENDING_OWNER", "EXPIRED"} :
              status' = [status EXCEPT ![s] = new]
    BY DEF Booking, CreateRental, ApproveRead, DeclineRead, CancelRead,
           Paying, WindowElapses, OpenIntent, ExpireIntent, FindPayment,
           Lending, SignRead, StartHandoverRead, ConfirmHandoverRead,
           RequestReturnRead, OverdueRead,
           Finance, CreateRefund, RefundRead, PayoutRead,
           Disputing, OpenDisputeRead, RespondRead, AssignRead,
           AcceptDamageRead, UpdateDisputeRead, tables, SetStatus
  <2> QED
    BY <2>1 DEF AfterPayment, Inv, TypeOK
<1>3. Grew(r)
  BY ArrivalGrew DEF Inv
<1> QED
  BY <1>1, <1>2, <1>3, StageKept DEF Inv

\* A request that goes on brings its rental only to a stage it has evidence
\* for.
LEMMA ProgressStage ==
    ASSUME Inv, TypeOK', NEW w \in Workers, Progress(w), NEW r \in Rentals
    PROVE  StageOK(r)'
<1> DEFINE q == req[w]
<1>0. /\ q \in Requests /\ IndexFits(q) /\ Supported(q)
      /\ TypeOK /\ StageOK(r) /\ Grew(r)
      /\ status \in [Rentals -> RentalStatus \cup {NoRow}]
      /\ contract \in [Rentals -> ContractStatus \cup {NoRow}]
  BY ProgressGrew DEF Inv, TypeOK
<1>e. /\ Paid(r) => Paid(r)'
      /\ BothSigned(r) => BothSigned(r)'
      /\ Delivered(r) => Delivered(r)'
  BY <1>0, EvidenceStays
<1>k. ASSUME status'[r] = status[r] \/ status'[r] \notin AfterPayment,
             contract'[r] = contract[r] \/ contract'[r] # "ACTIVE"
      PROVE  StageOK(r)'
  BY <1>0, <1>k, StageKept
<1> HIDE DEF q
<1>1. CASE \/ ApproveCommit(w) \/ DeclineCommit(w) \/ FlagForReview(w)
           \/ SettleLock(w) \/ SettleSkip(w) \/ SignUpsert(w) \/ SignCount(w)
           \/ ConfirmHandoverConflict(w) \/ RefundCommit(w) \/ PayoutCommit(w)
           \/ OpenDisputeCommit(w) \/ TrackCommit(w) \/ CloseCommit(w)
           \/ DisputeConflict(w)
  <2>1. contract' = contract
    BY <1>1 DEF ApproveCommit, DeclineCommit, FlagForReview, SettleLock,
                SettleSkip, SignUpsert, SignCount, ConfirmHandoverConflict,
                RefundCommit, PayoutCommit, OpenDisputeCommit, TrackCommit,
                CloseCommit, DisputeConflict, tables, agreement
  <2>2. status'[r] = status[r] \/ status'[r] \notin AfterPayment
    <3>1. CASE ApproveCommit(w)
      BY <3>1 DEF ApproveCommit, AfterPayment
    <3>2. CASE DeclineCommit(w)
      BY <1>0, <3>2 DEF DeclineCommit, SetStatus, AfterPayment
    <3>3. CASE OpenDisputeCommit(w)
      BY <1>0, <3>3 DEF OpenDisputeCommit, SetStatus, AfterPayment
    <3>4. CASE CloseCommit(w)
      BY <1>0, <3>4 DEF CloseCommit, SetStatus, AfterPayment
    <3>5. CASE \/ FlagForReview(w) \/ SettleLock(w) \/ SettleSkip(w)
               \/ SignUpsert(w) \/ SignCount(w) \/ ConfirmHandoverConflict(w)
               \/ RefundCommit(w) \/ PayoutCommit(w) \/ TrackCommit(w)
               \/ DisputeConflict(w)
      BY <3>5 DEF FlagForReview, SettleLock, SettleSkip, SignUpsert, SignCount,
                  ConfirmHandoverConflict, RefundCommit, PayoutCommit,
                  TrackCommit, DisputeConflict, tables
    <3> QED
      BY <1>1, <3>1, <3>2, <3>3, <3>4, <3>5
  <2> QED
    BY <2>1, <2>2, <1>k
<1>2. CASE CancelCommit(w)
  <2>1. status'[r] = status[r] \/ status'[r] \notin AfterPayment
    BY <1>0, <1>2 DEF CancelCommit, SetStatus, AfterPayment
  <2>2. contract'[r] = contract[r] \/ contract'[r] # "ACTIVE"
    BY <1>0, <1>2 DEF CancelCommit
  <2> QED
    BY <2>1, <2>2, <1>k
<1>3. CASE SettleCommit(w)
  <2>1. CASE r = q.r
    <3>1. status'[r] = "AWAITING_SIGNATURE" /\ contract'[r] = "PENDING_SIGNATURE"
      BY <1>0, <1>3, <2>1 DEF SettleCommit, SetStatus, q
    <3>2. Paid(r)'
      BY <1>0, <1>3, <2>1 DEF SettleCommit, Paid, TypeOK, NoRow, q
    <3> QED
      BY <3>1, <3>2 DEF StageOK, AfterSigning, AfterDelivery
  <2>2. CASE r # q.r
    BY <1>0, <1>3, <1>k, <2>2 DEF SettleCommit, SetStatus, q
  <2> QED
    BY <2>1, <2>2
<1>4. CASE SignCommit(w)
  <2>1. CASE r = q.r
    <3>1. Paid(r) /\ (q.bothSigned => BothSigned(r))
      BY <1>0, <1>4, <2>1 DEF SignCommit, Supported, q
    <3>2. CASE q.bothSigned
      <4>1. status'[r] = "CONFIRMED" /\ BothSigned(r)'
        BY <1>0, <1>4, <1>e, <2>1, <3>1, <3>2 DEF SignCommit, SetStatus, q
      <4> QED
        BY <4>1 DEF StageOK, BothSigned, AfterDelivery
    <3>3. CASE ~q.bothSigned
      <4>1. status'[r] = "AWAITING_SIGNATURE" /\ contract' = contract
        BY <1>0, <1>4, <2>1, <3>3 DEF SignCommit, SetStatus, q
      <4>2. Paid(r)' /\ (contract'[r] = "ACTIVE" => signed'[r] = Parties)
        BY <1>0, <1>4, <1>e, <3>1, <4>1 DEF SignCommit, StageOK
      <4> QED
        BY <4>1, <4>2 DEF StageOK, AfterSigning, AfterDelivery
    <3> QED
      BY <3>2, <3>3
  <2>2. CASE r # q.r
    BY <1>0, <1>4, <1>k, <2>2 DEF SignCommit, SetStatus, q
  <2> QED
    BY <2>1, <2>2
<1>5. CASE StartHandoverCommit(w)
  <2>0. contract' = contract /\ signed' = signed
    BY <1>5 DEF StartHandoverCommit, agreement
  <2>1. CASE r = q.r
    <3>1. IF q.type = "DELIVERY" THEN BothSigned(r) ELSE Delivered(r)
      BY <1>0, <1>5, <2>1 DEF StartHandoverCommit, Supported, q
    <3>2. status'[r] = IF q.type = "DELIVERY" THEN "READY_FOR_HANDOVER"
                                              ELSE "RETURN_PENDING"
      BY <1>0, <1>5, <2>1 DEF StartHandoverCommit, SetStatus, q
    <3>3. BothSigned(r)' /\ (q.type # "DELIVERY" => Delivered(r)')
      BY <1>e, <3>1 DEF Delivered
    <3>4. contract'[r] = "ACTIVE" => signed'[r] = Parties
      BY <1>0, <2>0 DEF StageOK
    <3> QED
      BY <3>2, <3>3, <3>4 DEF StageOK, BothSigned, AfterDelivery
  <2>2. CASE r # q.r
    BY <1>0, <1>5, <1>k, <2>0, <2>2 DEF StartHandoverCommit, SetStatus, q
  <2> QED
    BY <2>1, <2>2
<1>6. CASE ConfirmHandoverCommit(w)
  <2>0. contract' = contract /\ signed' = signed
    BY <1>6 DEF ConfirmHandoverCommit, agreement
  <2>1. CASE r = q.r /\ q.type = "DELIVERY"
    <3>1. BothSigned(r)'
      BY <1>0, <1>6, <1>e, <2>1 DEF ConfirmHandoverCommit, Supported, q
    <3>2. q.i \in 1 .. Len(handovers[r]) /\ handovers[r][q.i].type = "DELIVERY"
      BY <1>0, <1>6, <2>1 DEF ConfirmHandoverCommit, IndexFits, q
    <3>3. handovers[r] \in Seq(Handover)
      BY <1>0 DEF TypeOK
    <3>4. handovers[r][q.i] \in Handover
      BY <3>2, <3>3
    <3>5. handovers' = [handovers EXCEPT ![r][q.i].status = "CONFIRMED"]
      BY <1>6, <2>1 DEF ConfirmHandoverCommit, q
    <3>6. UNCHANGED <<paidAt, refunds, contract, signed, disputes>>
      BY <1>6 DEF ConfirmHandoverCommit, agreement
    <3>7. payout[r] # NoRow => payout'[r] # NoRow
      BY <1>0 DEF Grew
    <3>8. /\ handovers'[r][q.i] = [handovers[r][q.i] EXCEPT !.status = "CONFIRMED"]
          /\ q.i \in 1 .. Len(handovers'[r])
      BY <1>0, <3>2, <3>5, <3>6, <3>7, HandoverConfirmed
    <3>9. [handovers[r][q.i] EXCEPT !.status = "CONFIRMED"]
             = [type |-> "DELIVERY", status |-> "CONFIRMED"]
      BY <3>2, <3>4 DEF Handover
    <3>10. Handed(r, "DELIVERY")'
      BY <3>8, <3>9 DEF Handed
    <3>11. Delivered(r)'
      BY <3>1, <3>10 DEF Delivered
    <3> QED
      BY <3>11 DEF StageOK, Delivered, BothSigned
  <2>2. CASE r = q.r /\ q.type # "DELIVERY"
    BY <1>0, <1>6, <1>k, <2>0, <2>2
       DEF ConfirmHandoverCommit, SetStatus, AfterPayment, q
  <2>3. CASE r # q.r
    BY <1>0, <1>6, <1>k, <2>0, <2>3 DEF ConfirmHandoverCommit, SetStatus, q
  <2> QED
    BY <2>1, <2>2, <2>3
<1>7. CASE RequestReturnCommit(w) \/ OverdueCommit(w)
  <2>0. contract' = contract /\ signed' = signed
    BY <1>7 DEF RequestReturnCommit, OverdueCommit, agreement
  <2>1. CASE r = q.r
    <3>1. Delivered(r)'
      BY <1>0, <1>7, <1>e, <2>1
         DEF RequestReturnCommit, OverdueCommit, Supported, q
    <3> QED
      BY <3>1 DEF StageOK, Delivered, BothSigned
  <2>2. CASE r # q.r
    BY <1>0, <1>7, <1>k, <2>0, <2>2
       DEF RequestReturnCommit, OverdueCommit, SetStatus, q
  <2> QED
    BY <2>1, <2>2
<1> QED
  BY <1>1, <1>2, <1>3, <1>4, <1>5, <1>6, <1>7 DEF Progress

----------------------------------------------------------------------------
(* The theorems. *)

\* The empty database supports every stage: no rental is in one.
LEMMA InitInv == Init => Inv
<1> SUFFICES ASSUME Init PROVE Inv
  OBVIOUS
<1>1. TypeOK
  <2>1. <<>> \in Seq(Refund) /\ <<>> \in Seq(Handover) /\ <<>> \in Seq(Dispute)
    OBVIOUS
  <2> QED
    BY <2>1, KindsAreRequests DEF Init, TypeOK
<1>2. \A w \in Workers : IndexFits(req[w]) /\ Supported(req[w])
  BY IdleSupported DEF Init
<1>3. \A r \in Rentals : StageOK(r)
  BY DEF Init, StageOK, AfterPayment, AfterSigning, AfterDelivery, NoRow
<1> QED
  BY <1>1, <1>2, <1>3 DEF Inv

\* The invariant does not depend on anything but the tables and requests.
LEMMA StutterInv == Inv /\ UNCHANGED vars => Inv'
<1> SUFFICES ASSUME Inv, UNCHANGED vars PROVE Inv'
  OBVIOUS
<1>1. UNCHANGED tables /\ req' = req
  BY DEF vars
<1>2. TypeOK'
  BY <1>1 DEF Inv, TypeOK, tables, money, agreement
<1>3. /\ \A r : Paid(r)' = Paid(r) /\ BothSigned(r)' = BothSigned(r)
      /\ \A r : Delivered(r)' = Delivered(r)
  BY <1>1 DEF Paid, BothSigned, Delivered, Handed, tables, money, agreement
<1>4. \A w \in Workers : IndexFits(req[w])' /\ Supported(req[w])'
  BY <1>1, <1>3 DEF Inv, IndexFits, Supported, tables, money, agreement
<1>5. \A r \in Rentals : StageOK(r)'
  BY <1>1, <1>3 DEF Inv, StageOK, tables, money, agreement
<1> QED
  BY <1>2, <1>4, <1>5 DEF Inv

\* The arrival of a request keeps the invariant.
LEMMA ArrivalInv ==
    ASSUME Inv, NEW w \in Workers, NEW s \in Rentals,
           Booking(w, s) \/ Paying(w, s) \/ Lending(w, s) \/ Finance(w, s)
              \/ Disputing(w, s)
    PROVE  Inv'
<1>1. TypeOK'
  BY BookingTyped, PayingTyped, LendingTyped, FinanceTyped, DisputingTyped DEF Inv
<1>2. \A r \in Rentals : Grew(r)
  BY ArrivalGrew DEF Inv
<1>3. \A v \in Workers : (IndexFits(req[v]) /\ Supported(req[v]))'
  BY <1>1, <1>2, ArrivalSupported, RequestsStay
<1>4. \A r \in Rentals : StageOK(r)'
  BY <1>1, ArrivalStage
<1> QED
  BY <1>1, <1>3, <1>4 DEF Inv

\* So does the next statement of a request in flight.
LEMMA ProgressInv ==
    ASSUME Inv, NEW w \in Workers, Progress(w)
    PROVE  Inv'
<1>1. TypeOK'
  BY ProgressTyped DEF Inv
<1>2. \A r \in Rentals : Grew(r)
  BY ProgressGrew DEF Inv
<1>3. \A v \in Workers : (IndexFits(req[v]) /\ Supported(req[v]))'
  BY <1>1, <1>2, ProgressSupported, RequestsStay
<1>4. \A r \in Rentals : StageOK(r)'
  BY <1>1, ProgressStage
<1> QED
  BY <1>1, <1>3, <1>4 DEF Inv

\* A request that fails leaves the evidence and the other requests alone.
LEMMA AbortInv ==
    ASSUME Inv, NEW w \in Workers, Abort(w)
    PROVE  Inv'
<1>1. TypeOK'
  BY DoneTyped DEF Inv, Abort
<1>2. \A v \in Workers : (IndexFits(req[v]) /\ Supported(req[v]))'
  <2> TAKE v \in Workers
  <2>1. req'[v] = Idle \/ req'[v] = req[v]
    BY DEF Abort, Done, Inv, TypeOK
  <2>2. IndexFits(req[v]) /\ Supported(req[v])
    BY DEF Inv
  <2>3. UNCHANGED tables
    BY DEF Abort
  <2>4. CASE req'[v] = Idle
    BY <2>4 DEF Idle, IndexFits, Supported
  <2>5. CASE req'[v] = req[v]
    BY <2>2, <2>3, <2>5
       DEF IndexFits, Supported, Delivered, BothSigned, Paid, Handed, tables,
           money, agreement
  <2> QED
    BY <2>1, <2>4, <2>5
<1>3. \A r \in Rentals : StageOK(r)'
  BY DEF Abort, Inv, StageOK, Delivered, BothSigned, Paid, Handed, tables,
         money, agreement
<1> QED
  BY <1>1, <1>2, <1>3 DEF Inv

\* The invariant is inductive.
LEMMA NextInv == Inv /\ [Next]_vars => Inv'
<1> SUFFICES ASSUME Inv, [Next]_vars PROVE Inv'
  OBVIOUS
<1>1. CASE UNCHANGED vars
  BY <1>1, StutterInv
<1>2. CASE Next
  <2>1. PICK w \in Workers :
           \/ Progress(w)
           \/ Abort(w)
           \/ \E s \in Rentals :
                 Booking(w, s) \/ Paying(w, s) \/ Lending(w, s)
                    \/ Finance(w, s) \/ Disputing(w, s)
    BY <1>2 DEF Next
  <2> QED
    BY <2>1, ArrivalInv, ProgressInv, AbortInv
<1> QED
  BY <1>1, <1>2

\* Every request in flight still has the evidence it read, and every rental
\* has the evidence of its stage.
THEOREM Invariance == Spec => []Inv
  BY InitInv, NextInv, PTL DEF Spec

\* The tables and the requests in flight stay well formed, whatever rows a
\* handler read and how long ago.
THEOREM Typing == Spec => []TypeOK
<1>1. Inv => TypeOK
  BY DEF Inv
<1> QED
  BY <1>1, Invariance, PTL

\* No interleaving of the handlers brings an unpaid rental past payment.
THEOREM Payment == Spec => []PaidBeforeSigning
<1>1. Inv => PaidBeforeSigning
  BY DEF Inv, StageOK, Paid, PaidBeforeSigning
<1> QED
  BY <1>1, Invariance, PTL

\* None brings a rental past signing without both signatures.
THEOREM Signing == Spec => []SignedBeforeHandover
<1>1. Inv => SignedBeforeHandover
  BY DEF Inv, StageOK, BothSigned, SignedBeforeHandover
<1> QED
  BY <1>1, Invariance, PTL

\* None lets an asset be out, late or returning that was never delivered.
THEOREM Delivery == Spec => []DeliveredBeforeReturn
<1>1. Inv => DeliveredBeforeReturn
  BY DEF Inv, StageOK, Delivered, DeliveredBeforeReturn
<1> QED
  BY <1>1, Invariance, PTL

\* None activates a contract that a party has not signed.
THEOREM Activation == Spec => []ActiveContractSigned
<1>1. Inv => ActiveContractSigned
  BY DEF Inv, StageOK, ActiveContractSigned
<1> QED
  BY <1>1, Invariance, PTL

\* A confirmation sent twice hands the asset over once, and stays confirmed.
THEOREM Handing == Spec => HandedOverOnce
<1> DEFINE turns(r) ==
             status[r] # "ONGOING" /\ status'[r] = "ONGOING" =>
                \E i \in 1 .. Len(handovers[r]) :
                    /\ handovers[r][i].status = "PENDING"
                    /\ handovers'[r][i].status = "CONFIRMED"
           stays(r) ==
             \A i \in 1 .. Len(handovers[r]) :
                handovers[r][i].status = "CONFIRMED"
                    => handovers'[r][i].status = "CONFIRMED"
<1>1. ASSUME Inv, NEW w \in Workers, NEW s \in Rentals, NEW r \in Rentals,
             Booking(w, s) \/ Paying(w, s) \/ Lending(w, s) \/ Finance(w, s)
                \/ Disputing(w, s)
      PROVE  turns(r) /\ stays(r)
  <2>1. \/ status' = status
        \/ \E new \in {"PENDING_OWNER", "EXPIRED"} :
              status' = [status EXCEPT ![s] = new]
    BY <1>1
       DEF Booking, CreateRental, ApproveRead, DeclineRead, CancelRead,
           Paying, WindowElapses, OpenIntent, ExpireIntent, FindPayment,
           Lending, SignRead, StartHandoverRead, ConfirmHandoverRead,
           RequestReturnRead, OverdueRead,
           Finance, CreateRefund, RefundRead, PayoutRead,
           Disputing, OpenDisputeRead, RespondRead, AssignRead,
           AcceptDamageRead, UpdateDisputeRead, tables, SetStatus
  <2>2. turns(r)
    BY <1>1, <2>1 DEF Inv, TypeOK
  <2>3. Grew(r)
    BY <1>1, ArrivalGrew DEF Inv
  <2> QED
    BY <2>2, <2>3 DEF Grew
<1>2. ASSUME Inv, NEW w \in Workers, NEW r \in Rentals, Progress(w)
      PROVE  turns(r) /\ stays(r)
  <2>0. /\ Grew(r) /\ TypeOK /\ IndexFits(req[w]) /\ req[w] \in Requests
        /\ status \in [Rentals -> RentalStatus \cup {NoRow}]
    BY <1>2, ProgressGrew DEF Inv, TypeOK
  <2>1. CASE ConfirmHandoverCommit(w)
    <3>1. req[w].op = "confirm"
      BY <2>1 DEF ConfirmHandoverCommit
    <3>2. req[w].r \in Rentals /\ req[w].i \in 1 .. Len(handovers[req[w].r])
      BY <2>0, <3>1, RequestTarget DEF IndexFits
    <3>3. CASE r = req[w].r
      <4>1. /\ handovers[r][req[w].i].status = "PENDING"
            /\ handovers' = [handovers EXCEPT ![r][req[w].i].status = "CONFIRMED"]
            /\ UNCHANGED <<paidAt, refunds, contract, signed, disputes>>
        BY <2>1, <3>3 DEF ConfirmHandoverCommit, agreement
      <4>2. payout[r] # NoRow => payout'[r] # NoRow
        BY <2>0 DEF Grew
      <4>0. req[w].i \in 1 .. Len(handovers[r])
        BY <3>2, <3>3
      <4>3. handovers'[r][req[w].i]
               = [handovers[r][req[w].i] EXCEPT !.status = "CONFIRMED"]
        <5>1. TypeOK
          BY <2>0
        <5> QED
          BY <5>1, <4>0, <4>1, <4>2, HandoverConfirmed
      <4>4. handovers[r] \in Seq(Handover)
        BY <2>0 DEF TypeOK
      <4>5. handovers[r][req[w].i] \in Handover
        BY <3>2, <3>3, <4>4
      <4>6. handovers'[r][req[w].i].status = "CONFIRMED"
        BY <4>3, <4>5 DEF Handover
      <4> QED
        BY <2>0, <3>2, <3>3, <4>1, <4>6 DEF Grew
    <3>4. CASE r # req[w].r
      BY <2>0, <2>1, <3>4 DEF ConfirmHandoverCommit, SetStatus, Grew
    <3> QED
      BY <3>3, <3>4
  <2>2. CASE ~ConfirmHandoverCommit(w)
    <3>1. \/ status' = status
          \/ ApproveCommit(w)
          \/ \E s \in Rentals, new \in RentalStatus \ {"ONGOING"} :
                status' = [status EXCEPT ![s] = new]
      BY <1>2, <2>0, <2>2, RequestTarget
         DEF Progress, DeclineCommit, CancelCommit, FlagForReview, SettleLock,
             SettleSkip, SettleCommit, SignUpsert, SignCount, SignCommit,
             StartHandoverCommit, ConfirmHandoverConflict, RequestReturnCommit,
             OverdueCommit, RefundCommit, PayoutCommit, OpenDisputeCommit,
             TrackCommit, CloseCommit, DisputeConflict, SetStatus, tables,
             RentalStatus
    <3>2. turns(r)
      BY <2>0, <3>1 DEF ApproveCommit
    <3> QED
      BY <2>0, <3>2 DEF Grew
  <2> QED
    BY <2>1, <2>2
<1>3. ASSUME NEW w \in Workers, NEW r \in Rentals, Abort(w)
      PROVE  turns(r) /\ stays(r)
  BY <1>3 DEF Abort, tables
<1>4. Inv /\ [Next]_vars => [HandoverStep]_vars
  <2> SUFFICES ASSUME Inv, Next, NEW r \in Rentals
               PROVE  turns(r) /\ stays(r)
    BY DEF HandoverStep
  <2> HIDE DEF turns, stays
  <2> QED
    BY <1>1, <1>2, <1>3 DEF Next
<1> QED
  BY <1>4, Invariance, PTL DEF Spec, HandedOverOnce

============================================================================
