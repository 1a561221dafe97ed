---------------------------- MODULE SerialProofs ----------------------------
(***************************************************************************)
(* Proofs of what holds as long as handlers do not interleave: with one    *)
(* request served at a time, what a handler has read is still so when it   *)
(* writes, and then a dispute, a payout, a contract and the status of the  *)
(* rental agree.  The races of two handlers, which break these properties, *)
(* are the runs of the divergences.                                        *)
(***************************************************************************)
EXTENDS RaceProofs, RentalScreens, WellFoundedInduction

\* the API serves one request at a time
OneWorker == \A v, w \in Workers : v = w

\* What a request in flight has read is still so.
Fresh(q) ==
    /\ q.op = "approve" =>
          /\ status[q.r] = "PENDING_OWNER"
          /\ \A s \in q.expired : status[s] = "AWAITING_PAYMENT"
    /\ q.op = "decline" => status[q.r] = "PENDING_OWNER"
    /\ q.op = "cancel" =>
          /\ status[q.r] \in Cancellable
          /\ q.hasContract = (contract[q.r] # NoRow)
    /\ q.op = "settle" => status[q.r] = "AWAITING_PAYMENT"
    /\ q.op \in {"sign", "signed", "activate"} => status[q.r] = "AWAITING_SIGNATURE"
    /\ q.op = "startHandover" => status[q.r] \in MayStart(q.type)
    /\ q.op = "confirm" => status[q.r] = MayConfirm(q.type)
    /\ q.op = "requestReturn" => status[q.r] \in {"ONGOING", "OVERDUE"}
    /\ q.op = "overdue" => status[q.r] \in {"ONGOING", "RETURN_PENDING"}
    /\ q.op = "payout" => (q.next = "PAID" => status[q.r] = "COMPLETED")
    /\ q.op = "open" =>
          /\ status[q.r] # NoRow
          /\ q.hasPayout = (payout[q.r] # NoRow)
    /\ q.op \in {"respond", "assign"} =>
          (q.next \in ActiveDispute => q.i \in ActiveDisputes(q.r))
    /\ q.op = "close" =>
          /\ q.i \in ActiveDisputes(q.r)
          /\ q.completes => q.next \notin ActiveDispute

Agrees(r) ==
    /\ ActiveDisputes(r) # {} => status[r] = "DISPUTED"
    /\ payout[r] = "PAID" => status[r] = "COMPLETED"
    /\ status[r] = "CANCELLED" => contract[r] \in {NoRow, "CANCELLED"}

SerialInv ==
    /\ DisputeInv
    /\ \A w \in Workers : Fresh(req[w])
    /\ \A r \in Rentals : Agrees(r)

\* What a step may do to a rental and its disputes.
Final == {"DECLINED", "CANCELLED", "EXPIRED", "COMPLETED"}
StaysFinished(r) == status[r] \in Final => status'[r] \in {status[r], "DISPUTED"}
StaysClosed(r) ==
    \A i \in 1 .. Len(disputes[r]) :
        disputes[r][i].status \in TerminalDispute
            => disputes'[r][i].status \in TerminalDispute
StepOK(r) == StaysFinished(r) /\ StaysClosed(r)

----------------------------------------------------------------------------
\* The request that begins, or goes on, while the tables stay as they are.
LEMMA SerialRead ==
    ASSUME TypeOK, SerialInv, OneWorker, NEW w \in Workers, NEW q,
           req' = [req EXCEPT ![w] = q],
           UNCHANGED <<status, payout, contract, disputes>>,
           Fresh(q)
    PROVE  SerialInv' /\ \A r \in Rentals : StepOK(r)
<1>1. \A v \in Workers : req'[v] = q
  BY DEF TypeOK, OneWorker
<1>2. \A v \in Workers : Fresh(req[v])'
  BY <1>1 DEF Fresh, ActiveDisputes
<1>3. DisputeInv' /\ \A r \in Rentals : Agrees(r)'
  BY DEF SerialInv, DisputeInv, SameDispute, Agrees, ActiveDisputes
<1>4. \A r \in Rentals : StepOK(r)
  BY DEF StepOK, StaysFinished, StaysClosed
<1> QED
  BY <1>2, <1>3, <1>4 DEF SerialInv

\* The request that ends by writing one rental.
LEMMA SerialWrite ==
    ASSUME TypeOK, SerialInv, OneWorker, NEW w \in Workers, NEW s \in Rentals,
           req'[w] = Idle,
           DisputeInv',
           \A r \in Rentals \ {s} :
              /\ status'[r] = status[r] /\ payout'[r] = payout[r]
              /\ contract'[r] = contract[r] /\ disputes'[r] = disputes[r],
           Agrees(s)', StepOK(s)
    PROVE  SerialInv' /\ \A r \in Rentals : StepOK(r)
<1>1. \A v \in Workers : Fresh(req[v])'
  BY DEF OneWorker, Fresh, Idle
<1>2. \A r \in Rentals : Agrees(r)'
  BY DEF SerialInv, Agrees, ActiveDisputes
<1>3. \A r \in Rentals : StepOK(r)
  BY DEF StepOK, StaysFinished, StaysClosed
<1> QED
  BY <1>1, <1>2, <1>3 DEF SerialInv

\* The same where the disputes stay as they are.
LEMMA SerialTrade ==
    ASSUME TypeOK, SerialInv, OneWorker, NEW w \in Workers, NEW s \in Rentals,
           req'[w] = Idle,
           UNCHANGED disputes,
           \A r \in Rentals \ {s} :
              /\ status'[r] = status[r] /\ payout'[r] = payout[r]
              /\ contract'[r] = contract[r],
           status'[s] # status[s] => status[s] # "DISPUTED",
           payout'[s] = "PAID" => status'[s] = "COMPLETED",
           status'[s] = "CANCELLED" => contract'[s] \in {NoRow, "CANCELLED"},
           StaysFinished(s)
    PROVE  SerialInv' /\ \A r \in Rentals : StepOK(r)
<1>1. DisputeInv'
  BY DEF SerialInv, DisputeInv, SameDispute, ActiveDisputes
<1>2. Agrees(s)'
  BY DEF SerialInv, Agrees, ActiveDisputes
<1>3. StepOK(s)
  BY DEF StepOK, StaysClosed
<1> QED
  BY <1>1, <1>2, <1>3, SerialWrite

\* An arriving request has just read what it carries; a handler of a single
\* transaction decides on the rows it writes.
LEMMA ArrivalSerial ==
    ASSUME Inv, SerialInv, OneWorker, NEW w \in Workers, NEW s \in Rentals,
           Booking(w, s) \/ Paying(w, s) \/ Lending(w, s) \/ Finance(w, s)
              \/ Disputing(w, s)
    PROVE  SerialInv' /\ \A r \in Rentals : StepOK(r)
<1>0. /\ TypeOK
      /\ status \in [Rentals -> RentalStatus \cup {NoRow}]
      /\ payout \in [Rentals -> PayoutStatus \cup {NoRow}]
      /\ Agrees(s)
  BY DEF Inv, TypeOK, SerialInv
<1>b. ASSUME NEW q, Begin(w, q), UNCHANGED tables, Fresh(q)
      PROVE  SerialInv' /\ \A r \in Rentals : StepOK(r)
  BY <1>0, <1>b, SerialRead DEF Begin, tables, money, agreement
<1>a. ASSUME AtOnce(w)
      PROVE  req'[w] = Idle
  BY <1>a DEF AtOnce
<1>1. CASE CreateRental(w, s)
  <2>1. /\ AtOnce(w) /\ status[s] = NoRow
        /\ status' = [status EXCEPT ![s] = "PENDING_OWNER"]
        /\ UNCHANGED <<payout, contract, disputes>>
    BY <1>1 DEF CreateRental, SetStatus, money, agreement
  <2>2. status[s] # "DISPUTED" /\ payout[s] # "PAID"
    BY <1>0, <2>1 DEF Agrees, NoRow
  <2>3. StaysFinished(s)
    BY <2>1 DEF StaysFinished, Final, NoRow
  <2> QED
    BY <1>0, <1>a, <2>1, <2>2, <2>3, SerialTrade
<1>2. CASE ApproveRead(w, s)
  <2> DEFINE q == [op |-> "approve", r |-> s, expired |-> Lapsed(AssetOf[s])]
  <2>1. Fresh(q)
    BY <1>2 DEF ApproveRead, Fresh, Lapsed, Approvable
  <2>2. Begin(w, q) /\ UNCHANGED tables
    BY <1>2 DEF ApproveRead
  <2> HIDE DEF q
  <2> QED
    BY <2>1, <2>2, <1>b
<1>3. CASE DeclineRead(w, s)
  <2>1. Fresh([op |-> "decline", r |-> s])
    BY <1>3 DEF DeclineRead, Fresh, Declinable
  <2> QED
    BY <1>3, <2>1, <1>b DEF DeclineRead
<1>4. CASE CancelRead(w, s)
  <2>1. PICK outcome \in CancellationOutcomes(s) :
          Begin(w, [op |-> "cancel", r |-> s,
                    refund |-> outcome.refund, payout |-> outcome.payout,
                    hasPayout |-> payout[s] # NoRow,
                    hasContract |-> contract[s] # NoRow])
    BY <1>4 DEF CancelRead
  <2> DEFINE q == [op |-> "cancel", r |-> s,
                   refund |-> outcome.refund, payout |-> outcome.payout,
                   hasPayout |-> payout[s] # NoRow,
                   hasContract |-> contract[s] # NoRow]
  <2>2. Fresh(q)
    BY <1>4 DEF CancelRead, Fresh
  <2>3. Begin(w, q) /\ UNCHANGED tables
    BY <1>4, <2>1 DEF CancelRead
  <2> HIDE DEF q
  <2> QED
    BY <2>2, <2>3, <1>b
<1>5. CASE WindowElapses(s)
  <2>1. UNCHANGED <<status, payout, contract, disputes, req>>
    BY <1>5 DEF WindowElapses, money, agreement
  <2>2. SerialInv'
    BY <2>1 DEF SerialInv, DisputeInv, SameDispute, Agrees, ActiveDisputes, Fresh
  <2> QED
    BY <2>1, <2>2 DEF StepOK, StaysFinished, StaysClosed
<1>6. CASE OpenIntent(w, s)
  <2>1. AtOnce(w) /\ UNCHANGED <<status, payout, contract, disputes>>
    BY <1>6 DEF OpenIntent, agreement
  <2>2. StaysFinished(s)
    BY <2>1 DEF StaysFinished
  <2> QED
    BY <1>0, <1>a, <2>1, <2>2, SerialTrade DEF Agrees
<1>7. CASE ExpireIntent(w, s)
  <2>1. /\ AtOnce(w) /\ status[s] = "AWAITING_PAYMENT"
        /\ status' = [status EXCEPT ![s] = "EXPIRED"]
        /\ UNCHANGED <<payout, contract, disputes>>
    BY <1>7 DEF ExpireIntent, SetStatus, money, agreement, MayExpireIntent
  <2>2. payout[s] # "PAID" /\ StaysFinished(s)
    BY <1>0, <2>1 DEF Agrees, StaysFinished, Final
  <2> QED
    BY <1>0, <1>a, <2>1, <2>2, SerialTrade
<1>8. CASE FindPayment(w, s)
  <2>1. Fresh([op |-> "found", r |-> s])
    BY DEF Fresh
  <2> QED
    BY <1>8, <2>1, <1>b DEF FindPayment
<1>9. CASE SignRead(w, s)
  <2>1. PICK party \in Parties : Begin(w, [op |-> "sign", r |-> s, party |-> party])
    BY <1>9 DEF SignRead
  <2>2. Fresh([op |-> "sign", r |-> s, party |-> party])
    BY <1>9 DEF SignRead, Fresh, Signable
  <2> QED
    BY <1>9, <2>1, <2>2, <1>b DEF SignRead
<1>10. CASE StartHandoverRead(w, s)
  <2>1. PICK type \in HandoverType :
          /\ status[s] \in MayStart(type)
          /\ Begin(w, [op |-> "startHandover", r |-> s, type |-> type])
    BY <1>10 DEF StartHandoverRead
  <2>2. Fresh([op |-> "startHandover", r |-> s, type |-> type])
    BY <2>1 DEF Fresh
  <2> QED
    BY <1>10, <2>1, <2>2, <1>b DEF StartHandoverRead
<1>11. CASE ConfirmHandoverRead(w, s)
  <2>1. PICK i \in 1 .. Len(handovers[s]) :
          /\ status[s] = MayConfirm(handovers[s][i].type)
          /\ Begin(w, [op |-> "confirm", r |-> s, i |-> i,
                       type |-> handovers[s][i].type,
                       hasPayout |-> payout[s] # NoRow])
    BY <1>11 DEF ConfirmHandoverRead, Confirmable
  <2> DEFINE q == [op |-> "confirm", r |-> s, i |-> i,
                   type |-> handovers[s][i].type, hasPayout |-> payout[s] # NoRow]
  <2>2. Fresh(q)
    BY <2>1 DEF Fresh
  <2>3. Begin(w, q) /\ UNCHANGED tables
    BY <1>11, <2>1 DEF ConfirmHandoverRead
  <2> HIDE DEF q
  <2> QED
    BY <2>2, <2>3, <1>b
<1>12. CASE RequestReturnRead(w, s)
  <2>1. Fresh([op |-> "requestReturn", r |-> s])
    BY <1>12 DEF RequestReturnRead, Fresh, Returnable
  <2> QED
    BY <1>12, <2>1, <1>b DEF RequestReturnRead
<1>13. CASE OverdueRead(w, s)
  <2>1. Fresh([op |-> "overdue", r |-> s])
    BY <1>13 DEF OverdueRead, Fresh
  <2> QED
    BY <1>13, <2>1, <1>b DEF OverdueRead
<1>14. CASE CreateRefund(w, s)
  <2>1. /\ AtOnce(w) /\ UNCHANGED <<status, contract, disputes>>
        /\ payout' = [payout EXCEPT ![s] = IF @ = NoRow THEN @ ELSE "BLOCKED"]
    BY <1>14 DEF CreateRefund, agreement
  <2>2. StaysFinished(s)
    BY <2>1 DEF StaysFinished
  <2>3. payout'[s] # "PAID" /\ \A r \in Rentals \ {s} : payout'[r] = payout[r]
    BY <1>0, <2>1 DEF NoRow
  <2> QED
    BY <1>0, <1>a, <2>1, <2>2, <2>3, SerialTrade DEF Agrees
<1>15. CASE RefundRead(w, s)
  <2>1. PICK i \in 1 .. Len(refunds[s]), next \in RefundStatus \ {"PENDING"} :
          Begin(w, [op |-> "refund", r |-> s, i |-> i, next |-> next,
                    outcome |-> RefundOutcome(s, i, next),
                    hasPayout |-> payout[s] # NoRow])
    BY <1>15 DEF RefundRead, Endable
  <2> DEFINE q == [op |-> "refund", r |-> s, i |-> i, next |-> next,
                   outcome |-> RefundOutcome(s, i, next),
                   hasPayout |-> payout[s] # NoRow]
  <2>2. Fresh(q)
    BY DEF Fresh
  <2>3. Begin(w, q) /\ UNCHANGED tables
    BY <1>15, <2>1 DEF RefundRead
  <2> HIDE DEF q
  <2> QED
    BY <2>2, <2>3, <1>b
<1>16. CASE PayoutRead(w, s)
  <2>1. PICK next \in PayoutTargets :
          /\ next = "PAID" => MayPay(s)
          /\ Begin(w, [op |-> "payout", r |-> s, next |-> next])
    BY <1>16 DEF PayoutRead
  <2>2. Fresh([op |-> "payout", r |-> s, next |-> next])
    BY <2>1 DEF Fresh, MayPay
  <2> QED
    BY <1>16, <2>1, <2>2, <1>b DEF PayoutRead
<1>17. CASE Disputing(w, s)
  <2>0. disputes[s] \in Seq(Dispute)
    BY <1>0 DEF TypeOK
  <2>d. \A i \in 1 .. Len(disputes[s]) :
           disputes[s][i].status \in DisputeStatus
    <3>1. \A i \in 1 .. Len(disputes[s]) : disputes[s][i] \in Dispute
      BY <2>0
    <3> QED
      BY <3>1 DEF Dispute
  <2>1. CASE OpenDisputeRead(w, s)
    <3>1. PICK opening \in Openings(s) :
            Begin(w, [op |-> "open", r |-> s, damage |-> opening.damage,
                      first |-> opening.first, hasPayout |-> payout[s] # NoRow])
      BY <2>1 DEF OpenDisputeRead
    <3> DEFINE q == [op |-> "open", r |-> s, damage |-> opening.damage,
                     first |-> opening.first, hasPayout |-> payout[s] # NoRow]
    <3>2. Fresh(q)
      BY <2>1 DEF Fresh, OpenDisputeRead
    <3>3. Begin(w, q) /\ UNCHANGED tables
      BY <2>1, <3>1 DEF OpenDisputeRead
    <3> HIDE DEF q
    <3> QED
      BY <3>2, <3>3, <1>b
  <2>2. CASE RespondRead(w, s)
    <3>1. PICK i \in 1 .. Len(disputes[s]) :
            /\ disputes[s][i].status \notin TerminalDispute
            /\ Begin(w, [op |-> "respond", r |-> s, i |-> i,
                         next |-> IF disputes[s][i].status = "OPEN"
                                  THEN "WAITING_RESPONSE" ELSE "UNDER_REVIEW"])
      BY <2>2 DEF RespondRead, NotClosed
    <3> DEFINE q == [op |-> "respond", r |-> s, i |-> i,
                     next |-> IF disputes[s][i].status = "OPEN"
                              THEN "WAITING_RESPONSE" ELSE "UNDER_REVIEW"]
    <3>2. i \in ActiveDisputes(s)
      BY <2>d, <3>1 DEF ActiveDisputes, DisputeStatus
    <3>3. Fresh(q)
      BY <3>2 DEF Fresh
    <3>4. Begin(w, q) /\ UNCHANGED tables
      BY <2>2, <3>1 DEF RespondRead
    <3> HIDE DEF q
    <3> QED
      BY <3>3, <3>4, <1>b
  <2>3. CASE AssignRead(w, s)
    <3>1. PICK i \in 1 .. Len(disputes[s]) :
            Begin(w, [op |-> "assign", r |-> s, i |-> i,
                      next |-> IF disputes[s][i].status \in {"OPEN", "WAITING_RESPONSE"}
                               THEN "UNDER_REVIEW" ELSE disputes[s][i].status])
      BY <2>3 DEF AssignRead
    <3> DEFINE q == [op |-> "assign", r |-> s, i |-> i,
                     next |-> IF disputes[s][i].status \in {"OPEN", "WAITING_RESPONSE"}
                              THEN "UNDER_REVIEW" ELSE disputes[s][i].status]
    <3>2. q.next \in ActiveDispute => i \in ActiveDisputes(s)
      BY DEF ActiveDisputes, ActiveDispute
    <3>3. Fresh(q)
      BY <3>2 DEF Fresh
    <3>4. Begin(w, q) /\ UNCHANGED tables
      BY <2>3, <3>1 DEF AssignRead
    <3> HIDE DEF q
    <3> QED
      BY <3>3, <3>4, <1>b
  <2>4. CASE AcceptDamageRead(w, s)
    <3>1. PICK i \in 1 .. Len(disputes[s]) :
            /\ disputes[s][i].status \notin TerminalDispute
            /\ Begin(w, [op |-> "close", r |-> s, i |-> i, next |-> "CLOSED",
                         completes |-> TRUE, restores |-> payout[s] = "BLOCKED"])
      BY <2>4 DEF AcceptDamageRead, Claims, NotClosed
    <3> DEFINE q == [op |-> "close", r |-> s, i |-> i, next |-> "CLOSED",
                     completes |-> TRUE, restores |-> payout[s] = "BLOCKED"]
    <3>2. i \in ActiveDisputes(s)
      BY <2>d, <3>1 DEF ActiveDisputes, DisputeStatus
    <3>3. Fresh(q)
      BY <3>2 DEF Fresh, ActiveDispute
    <3>4. Begin(w, q) /\ UNCHANGED tables
      BY <2>4, <3>1 DEF AcceptDamageRead
    <3> HIDE DEF q
    <3> QED
      BY <3>3, <3>4, <1>b
  <2>5. CASE UpdateDisputeRead(w, s)
    <3> DEFINE completes(next) == next \in TerminalDispute /\ Handed(s, "RETURN")
    <3>1. PICK i \in 1 .. Len(disputes[s]) :
          \E next \in AllowedTransitions(disputes[s][i].status) :
            Begin(w, [op |-> "close", r |-> s, i |-> i, next |-> next,
                      completes |-> completes(next),
                      restores |-> completes(next) /\ payout[s] = "BLOCKED"])
      BY <2>5 DEF UpdateDisputeRead
    <3>2. PICK next \in AllowedTransitions(disputes[s][i].status) :
            Begin(w, [op |-> "close", r |-> s, i |-> i, next |-> next,
                      completes |-> completes(next),
                      restores |-> completes(next) /\ payout[s] = "BLOCKED"])
      BY <3>1
    <3>3. i \in ActiveDisputes(s)
      BY <2>d, <3>2 DEF ActiveDisputes, ActiveDispute, AllowedTransitions
    <3>4. completes(next) => next \notin ActiveDispute
      BY DEF TerminalDispute, ActiveDispute
    <3> HIDE DEF completes
    <3> DEFINE q == [op |-> "close", r |-> s, i |-> i, next |-> next,
                     completes |-> completes(next),
                     restores |-> completes(next) /\ payout[s] = "BLOCKED"]
    <3>5. Fresh(q)
      BY <3>3, <3>4 DEF Fresh
    <3>6. Begin(w, q) /\ UNCHANGED tables
      BY <2>5, <3>2 DEF UpdateDisputeRead
    <3> HIDE DEF q
    <3> QED
      BY <3>5, <3>6, <1>b
  <2> QED
    BY <1>17, <2>1, <2>2, <2>3, <2>4, <2>5 DEF Disputing
<1> QED
  BY <1>1, <1>2, <1>3, <1>4, <1>5, <1>6, <1>7, <1>8, <1>9, <1>10, <1>11, <1>12,
     <1>13, <1>14, <1>15, <1>16, <1>17 DEF Booking, Paying, Lending, Finance

\* A request in flight writes what it has read the support of.
LEMMA ProgressSerial ==
    ASSUME Inv, SerialInv, OneWorker, NEW w \in Workers, Progress(w), DisputeInv'
    PROVE  SerialInv' /\ \A r \in Rentals : StepOK(r)
<1>q. PICK q : q = req[w]
  OBVIOUS
<1>0. /\ TypeOK /\ q \in Requests /\ IndexFits(q) /\ Fresh(q)
      /\ q.op # "idle" => q.r \in Rentals /\ Agrees(q.r)
      /\ status \in [Rentals -> RentalStatus \cup {NoRow}]
      /\ payout \in [Rentals -> PayoutStatus \cup {NoRow}]
      /\ contract \in [Rentals -> ContractStatus \cup {NoRow}]
      /\ DisputeInv
  BY <1>q, RequestTarget DEF Inv, TypeOK, SerialInv
<1>d. ASSUME Done(w)
      PROVE  req'[w] = Idle /\ req' = [req EXCEPT ![w] = Idle]
  BY <1>d DEF Done, Inv, TypeOK
<1>n. ASSUME Done(w), UNCHANGED tables
      PROVE  SerialInv' /\ \A r \in Rentals : StepOK(r)
  <2>1. Fresh(Idle)
    BY DEF Fresh, Idle
  <2> QED
    BY <1>0, <1>d, <1>n, <2>1, SerialRead DEF tables, money, agreement
\* only the status of the rental
<1>s. ASSUME q.op # "idle", NEW new, SetStatus(q.r, new), Done(w),
             UNCHANGED <<contract, disputes>>,
             \A r \in Rentals \ {q.r} : payout'[r] = payout[r],
             status[q.r] \notin {"DISPUTED", "COMPLETED", "CANCELLED"},
             status[q.r] \notin Final, new # "CANCELLED",
             payout'[q.r] # "PAID"
      PROVE  SerialInv' /\ \A r \in Rentals : StepOK(r)
  <2>1. status'[q.r] = new /\ \A r \in Rentals \ {q.r} : status'[r] = status[r]
    BY <1>0, <1>s DEF SetStatus
  <2>2. StaysFinished(q.r)
    BY <1>s DEF StaysFinished
  <2> QED
    BY <1>0, <1>d, <1>s, <2>1, <2>2, SerialTrade
<1>1. CASE ApproveCommit(w)
  <2>1. /\ q.op = "approve"
        /\ status' = [r \in Rentals |->
                        IF r = q.r THEN "AWAITING_PAYMENT"
                        ELSE IF r \in q.expired THEN "EXPIRED" ELSE status[r]]
        /\ UNCHANGED <<payout, contract, disputes>>
        /\ Done(w)
    BY <1>1, <1>q DEF ApproveCommit, money, agreement
  <2>2. /\ status[q.r] = "PENDING_OWNER"
        /\ \A r \in q.expired : status[r] = "AWAITING_PAYMENT"
    BY <1>0, <2>1 DEF Fresh
  <2>3. \A r \in Rentals :
           \/ status'[r] = status[r]
           \/ /\ status[r] \in {"PENDING_OWNER", "AWAITING_PAYMENT"}
              /\ status'[r] \in {"EXPIRED", "AWAITING_PAYMENT"}
    BY <2>1, <2>2
  <2>4. \A r \in Rentals : Agrees(r)'
    <3> TAKE r \in Rentals
    <3>1. Agrees(r)
      BY DEF SerialInv
    <3>2. ActiveDisputes(r)' = ActiveDisputes(r)
      BY <2>1 DEF ActiveDisputes
    <3> QED
      BY <2>1, <2>3, <3>1, <3>2 DEF Agrees
  <2>5. \A r \in Rentals : StepOK(r)
    BY <2>1, <2>3 DEF StepOK, StaysFinished, StaysClosed, Final
  <2>6. \A v \in Workers : Fresh(req[v])'
    BY <1>d, <2>1 DEF OneWorker, Fresh, Idle
  <2> QED
    BY <2>4, <2>5, <2>6 DEF SerialInv
<1>2. CASE DeclineCommit(w)
  <2>1. /\ q.op = "decline" /\ SetStatus(q.r, "DECLINED") /\ Done(w)
        /\ UNCHANGED <<payout, contract, disputes>>
    BY <1>2, <1>q DEF DeclineCommit, money, agreement
  <2>2. status[q.r] = "PENDING_OWNER"
    BY <1>0, <2>1 DEF Fresh
  <2>3. payout'[q.r] # "PAID" /\ status[q.r] \notin Final
    BY <1>0, <2>1, <2>2 DEF Agrees, Final
  <2> QED
    BY <2>1, <2>2, <2>3, <1>s
<1>3. CASE CancelCommit(w)
  <2>1. /\ q.op = "cancel" /\ SetStatus(q.r, "CANCELLED") /\ Done(w)
        /\ payout' = [payout EXCEPT ![q.r] = IF q.hasPayout THEN q.payout ELSE @]
        /\ contract' = [contract EXCEPT ![q.r] = IF q.hasContract THEN "CANCELLED" ELSE @]
        /\ UNCHANGED disputes
    BY <1>3, <1>q DEF CancelCommit
  <2>2. q.r \in Rentals /\ q \in CancelRequest
    BY <1>0, <2>1, OpTellsKind
  <2>3. status[q.r] \in Cancellable /\ q.hasContract = (contract[q.r] # NoRow)
    BY <1>0, <2>1 DEF Fresh
  <2>4. payout'[q.r] # "PAID"
    BY <1>0, <2>1, <2>2, <2>3 DEF Agrees, Cancellable, CancelRequest
  <2>5. contract'[q.r] \in {NoRow, "CANCELLED"}
    BY <1>0, <2>1, <2>2, <2>3
  <2>6. \A r \in Rentals \ {q.r} :
           /\ status'[r] = status[r] /\ payout'[r] = payout[r]
           /\ contract'[r] = contract[r]
    BY <1>0, <2>1, <2>2 DEF SetStatus
  <2>7. StaysFinished(q.r)
    BY <2>3 DEF StaysFinished, Cancellable, Final
  <2>8. status[q.r] # "DISPUTED"
    BY <2>3 DEF Cancellable
  <2> QED
    BY <1>0, <1>d, <2>1, <2>2, <2>4, <2>5, <2>6, <2>7, <2>8, SerialTrade
<1>4. CASE FlagForReview(w)
  <2>1. Done(w) /\ UNCHANGED <<status, payout, contract, disputes>>
    BY <1>4 DEF FlagForReview, agreement
  <2>2. Fresh(Idle)
    BY DEF Fresh, Idle
  <2> QED
    BY <1>0, <1>d, <2>1, <2>2, SerialRead
<1>5. CASE SettleLock(w)
  <2> DEFINE p == [op |-> "settle", r |-> q.r]
  <2>1. status[q.r] = "AWAITING_PAYMENT" /\ UNCHANGED tables
        /\ req' = [req EXCEPT ![w] = p]
    BY <1>5, <1>q DEF SettleLock, Continue
  <2>2. Fresh(p)
    BY <2>1 DEF Fresh
  <2> HIDE DEF p
  <2> QED
    BY <1>0, <2>1, <2>2, SerialRead DEF tables, money, agreement
<1>6. CASE SettleSkip(w)
  BY <1>6, <1>n DEF SettleSkip
<1>7. CASE SettleCommit(w)
  <2>1. /\ q.op = "settle" /\ SetStatus(q.r, "AWAITING_SIGNATURE") /\ Done(w)
        /\ payout' = [payout EXCEPT ![q.r] = "PENDING"]
        /\ contract' = [contract EXCEPT ![q.r] = "PENDING_SIGNATURE"]
        /\ UNCHANGED disputes
    BY <1>7, <1>q DEF SettleCommit
  <2>2. q.r \in Rentals /\ status[q.r] = "AWAITING_PAYMENT"
    BY <1>0, <2>1 DEF Fresh
  <2>3. /\ status'[q.r] = "AWAITING_SIGNATURE" /\ payout'[q.r] = "PENDING"
        /\ \A r \in Rentals \ {q.r} :
              /\ status'[r] = status[r] /\ payout'[r] = payout[r]
              /\ contract'[r] = contract[r]
    BY <1>0, <2>1, <2>2 DEF SetStatus
  <2>4. StaysFinished(q.r)
    BY <2>2 DEF StaysFinished, Final
  <2> QED
    BY <1>0, <1>d, <2>1, <2>2, <2>3, <2>4, SerialTrade
<1>8. CASE SignUpsert(w)
  <2> DEFINE p == [op |-> "signed", r |-> q.r]
  <2>1. /\ q.op = "sign" /\ req' = [req EXCEPT ![w] = p]
        /\ UNCHANGED <<status, payout, contract, disputes>>
    BY <1>8, <1>q DEF SignUpsert, Continue, money
  <2>2. Fresh(p)
    BY <1>0, <2>1 DEF Fresh
  <2> HIDE DEF p
  <2> QED
    BY <1>0, <2>1, <2>2, SerialRead
<1>9. CASE SignCount(w)
  <2> DEFINE p == [op |-> "activate", r |-> q.r, bothSigned |-> signed[q.r] = Parties]
  <2>1. /\ q.op = "signed" /\ req' = [req EXCEPT ![w] = p]
        /\ UNCHANGED <<status, payout, contract, disputes>>
    BY <1>9, <1>q DEF SignCount, Continue, tables, money, agreement
  <2>2. Fresh(p)
    BY <1>0, <2>1 DEF Fresh
  <2> HIDE DEF p
  <2> QED
    BY <1>0, <2>1, <2>2, SerialRead
<1>10. CASE SignCommit(w)
  <2> DEFINE new == IF q.bothSigned THEN "CONFIRMED" ELSE "AWAITING_SIGNATURE"
  <2>1. /\ q.op = "activate" /\ SetStatus(q.r, new) /\ Done(w)
        /\ contract' = [contract EXCEPT ![q.r] = IF q.bothSigned THEN "ACTIVE" ELSE @]
        /\ UNCHANGED <<payout, disputes>>
    BY <1>10, <1>q DEF SignCommit, money
  <2>2. q.r \in Rentals /\ status[q.r] = "AWAITING_SIGNATURE" /\ new # "CANCELLED"
    BY <1>0, <2>1 DEF Fresh
  <2> HIDE DEF new
  <2>3. /\ status'[q.r] = new
        /\ \A r \in Rentals \ {q.r} :
              /\ status'[r] = status[r] /\ payout'[r] = payout[r]
              /\ contract'[r] = contract[r]
    BY <1>0, <2>1, <2>2 DEF SetStatus
  <2>4. StaysFinished(q.r) /\ payout'[q.r] # "PAID"
    BY <1>0, <2>1, <2>2 DEF StaysFinished, Final, Agrees
  <2> QED
    BY <1>0, <1>d, <2>1, <2>2, <2>3, <2>4, SerialTrade
<1>11. CASE StartHandoverCommit(w)
  <2> DEFINE new == IF q.type = "DELIVERY" THEN "READY_FOR_HANDOVER" ELSE "RETURN_PENDING"
  <2>1. /\ q.op = "startHandover" /\ SetStatus(q.r, new) /\ Done(w)
        /\ UNCHANGED <<payout, contract, disputes>>
    BY <1>11, <1>q DEF StartHandoverCommit, money, agreement
  <2>2. status[q.r] \in {"CONFIRMED", "READY_FOR_HANDOVER", "RETURN_PENDING"}
    BY <1>0, <2>1 DEF Fresh, MayStart
  <2>3. payout'[q.r] # "PAID" /\ status[q.r] \notin Final /\ new # "CANCELLED"
    BY <1>0, <2>1, <2>2 DEF Agrees, Final
  <2> HIDE DEF new
  <2> QED
    BY <2>1, <2>2, <2>3, <1>s
<1>12. CASE ConfirmHandoverCommit(w)
  <2> DEFINE new == IF q.type = "DELIVERY" THEN "ONGOING" ELSE "COMPLETED"
  <2>1. /\ q.op = "confirm" /\ SetStatus(q.r, new) /\ Done(w)
        /\ payout' = [payout EXCEPT ![q.r] =
                        IF q.type = "RETURN" /\ q.hasPayout THEN "PENDING" ELSE @]
        /\ UNCHANGED <<contract, disputes>>
    BY <1>12, <1>q DEF ConfirmHandoverCommit, agreement
  <2>2. status[q.r] \in {"READY_FOR_HANDOVER", "RETURN_PENDING"}
    BY <1>0, <2>1 DEF Fresh, MayConfirm
  <2>3. /\ payout'[q.r] # "PAID" /\ status[q.r] \notin Final /\ new # "CANCELLED"
        /\ \A r \in Rentals \ {q.r} : payout'[r] = payout[r]
    BY <1>0, <2>1, <2>2 DEF Agrees, Final
  <2> HIDE DEF new
  <2> QED
    BY <2>1, <2>2, <2>3, <1>s
<1>13. CASE ConfirmHandoverConflict(w)
  BY <1>13, <1>n DEF ConfirmHandoverConflict
<1>14. CASE RequestReturnCommit(w)
  <2>1. /\ q.op = "requestReturn" /\ SetStatus(q.r, "RETURN_PENDING") /\ Done(w)
        /\ UNCHANGED <<payout, contract, disputes>>
    BY <1>14, <1>q DEF RequestReturnCommit, money, agreement
  <2>2. status[q.r] \in {"ONGOING", "OVERDUE"}
    BY <1>0, <2>1 DEF Fresh
  <2>3. payout'[q.r] # "PAID" /\ status[q.r] \notin Final
    BY <1>0, <2>1, <2>2 DEF Agrees, Final
  <2> QED
    BY <2>1, <2>2, <2>3, <1>s
<1>15. CASE OverdueCommit(w)
  <2>1. /\ q.op = "overdue" /\ SetStatus(q.r, "OVERDUE") /\ Done(w)
        /\ UNCHANGED <<payout, contract, disputes>>
    BY <1>15, <1>q DEF OverdueCommit, money, agreement
  <2>2. status[q.r] \in {"ONGOING", "RETURN_PENDING"}
    BY <1>0, <2>1 DEF Fresh
  <2>3. payout'[q.r] # "PAID" /\ status[q.r] \notin Final
    BY <1>0, <2>1, <2>2 DEF Agrees, Final
  <2> QED
    BY <2>1, <2>2, <2>3, <1>s
<1>16. CASE RefundCommit(w)
  <2>1. /\ q.op = "refund" /\ Done(w)
        /\ payout' = [payout EXCEPT ![q.r] =
                        IF q.hasPayout THEN PayoutAfterRefund(q.outcome, @) ELSE @]
        /\ UNCHANGED <<status, contract, disputes>>
    BY <1>16, <1>q DEF RefundCommit, agreement
  <2>2. q.r \in Rentals /\ q \in RefundRequest
    BY <1>0, <2>1, OpTellsKind
  <2>3. q.outcome \in {"REFUNDED", "PARTIALLY_REFUNDED", "RELEASED", "HELD"}
    BY <2>2 DEF RefundRequest
  <2>4. PayoutAfterRefund(q.outcome, payout[q.r]) # "PAID" \/ payout[q.r] = "PAID"
    BY <2>3 DEF PayoutAfterRefund
  <2>5. /\ payout'[q.r] = "PAID" => payout[q.r] = "PAID"
        /\ \A r \in Rentals \ {q.r} : payout'[r] = payout[r]
    BY <1>0, <2>1, <2>2, <2>4
  <2>6. StaysFinished(q.r)
    BY <2>1 DEF StaysFinished
  <2> QED
    BY <1>0, <1>d, <2>1, <2>2, <2>5, <2>6, SerialTrade DEF Agrees
<1>17. CASE PayoutCommit(w)
  <2>1. /\ q.op = "payout" /\ Done(w)
        /\ payout' = [payout EXCEPT ![q.r] = q.next]
        /\ UNCHANGED <<status, contract, disputes>>
    BY <1>17, <1>q DEF PayoutCommit, agreement
  <2>2. q.r \in Rentals /\ (q.next = "PAID" => status[q.r] = "COMPLETED")
    BY <1>0, <2>1 DEF Fresh
  <2>3. /\ payout'[q.r] = q.next
        /\ \A r \in Rentals \ {q.r} : payout'[r] = payout[r]
    BY <1>0, <2>1, <2>2
  <2>4. StaysFinished(q.r)
    BY <2>1 DEF StaysFinished
  <2> QED
    BY <1>0, <1>d, <2>1, <2>2, <2>3, <2>4, SerialTrade DEF Agrees
<1>18. CASE OpenDisputeCommit(w)
  <2> DEFINE row == [status |-> q.first, damage |-> q.damage]
  <2>1. /\ q.op = "open" /\ SetStatus(q.r, "DISPUTED") /\ Done(w)
        /\ payout' = [payout EXCEPT ![q.r] = IF q.hasPayout THEN "BLOCKED" ELSE @]
        /\ disputes' = [disputes EXCEPT ![q.r] = Append(@, row)]
        /\ UNCHANGED contract
    BY <1>18, <1>q DEF OpenDisputeCommit, agreement
  <2>2. q \in OpenRequest /\ q.hasPayout = (payout[q.r] # NoRow)
    BY <1>0, <2>1, OpTellsKind DEF Fresh
  <2>3. q.r \in Rentals /\ row \in Dispute
    BY <2>2 DEF OpenRequest, Dispute, DisputeStatus, ActiveDispute
  <2> HIDE DEF row
  <2>4. /\ \A r \in Rentals \ {q.r} : disputes'[r] = disputes[r]
        /\ \A k \in 1 .. Len(disputes[q.r]) : disputes'[q.r][k] = disputes[q.r][k]
    BY <1>0, <2>1, <2>3, DisputeAdded
  <2>5. /\ status'[q.r] = "DISPUTED" /\ payout'[q.r] # "PAID"
        /\ \A r \in Rentals \ {q.r} :
              /\ status'[r] = status[r] /\ payout'[r] = payout[r]
              /\ contract'[r] = contract[r]
    BY <1>0, <2>1, <2>2, <2>3 DEF SetStatus, NoRow
  <2>6. Agrees(q.r)' /\ StepOK(q.r)
    BY <2>4, <2>5 DEF Agrees, StepOK, StaysFinished, StaysClosed
  <2> QED
    BY <1>0, <1>d, <2>1, <2>3, <2>4, <2>5, <2>6, SerialWrite
<1>19. CASE TrackCommit(w)
  <2>1. /\ q.op \in {"respond", "assign"} /\ Done(w)
        /\ disputes' = [disputes EXCEPT ![q.r][q.i].status = q.next]
        /\ UNCHANGED <<status, payout, contract>>
    BY <1>19, <1>q DEF TrackCommit, money, agreement
  <2>2. /\ q.r \in Rentals /\ q.i \in 1 .. Len(disputes[q.r])
        /\ q.next \in DisputeStatus
        /\ q.next \in ActiveDispute => q.i \in ActiveDisputes(q.r)
    BY <1>0, <2>1, OpTellsKind DEF TrackRequest, IndexFits, Fresh
  <2>3. /\ \A r \in Rentals \ {q.r} : disputes'[r] = disputes[r]
        /\ \A m \in 1 .. Len(disputes[q.r]) :
              disputes'[q.r][m].status = IF m = q.i THEN q.next
                                                    ELSE disputes[q.r][m].status
    BY <1>0, <2>1, <2>2, DisputeRewritten
  <2>4. \A m \in ActiveDisputes(q.r)' :
           \/ m \in ActiveDisputes(q.r) /\ m # q.i
           \/ m = q.i /\ q.next \in ActiveDispute
    BY <1>0, <2>1, <2>2, ActiveRewritten
  <2>5. ActiveDisputes(q.r)' \subseteq ActiveDisputes(q.r)
    BY <2>2, <2>4
  <2>6. Agrees(q.r)'
    BY <1>0, <2>1, <2>2, <2>5 DEF Agrees
  <2>7. StepOK(q.r)
    BY <2>1, <2>2, <2>3 DEF StepOK, StaysFinished, StaysClosed, ActiveDisputes,
                            DisputeStatus, ActiveDispute, TerminalDispute
  <2> QED
    BY <1>0, <1>d, <2>1, <2>2, <2>3, <2>6, <2>7, SerialWrite
<1>20. CASE CloseCommit(w)
  <2>1. /\ q.op = "close" /\ Done(w)
        /\ disputes' = [disputes EXCEPT ![q.r][q.i].status = q.next]
        /\ SetStatus(q.r, IF q.completes THEN "COMPLETED" ELSE "DISPUTED")
        /\ payout' = [payout EXCEPT ![q.r] = IF q.restores THEN "PENDING" ELSE @]
        /\ UNCHANGED contract
    BY <1>20, <1>q DEF CloseCommit, agreement
  <2>2. /\ q.r \in Rentals /\ q.i \in 1 .. Len(disputes[q.r])
        /\ q.next \in DisputeStatus
        /\ q.i \in ActiveDisputes(q.r)
        /\ q.completes => q.next \notin ActiveDispute
    BY <1>0, <2>1, OpTellsKind DEF CloseRequest, IndexFits, Fresh
  <2>3. /\ \A r \in Rentals \ {q.r} : disputes'[r] = disputes[r]
        /\ \A m \in 1 .. Len(disputes[q.r]) :
              disputes'[q.r][m].status = IF m = q.i THEN q.next
                                                    ELSE disputes[q.r][m].status
    BY <1>0, <2>1, <2>2, DisputeRewritten
  <2>4. \A m \in ActiveDisputes(q.r)' :
           \/ m \in ActiveDisputes(q.r) /\ m # q.i
           \/ m = q.i /\ q.next \in ActiveDispute
    BY <1>0, <2>1, <2>2, ActiveRewritten
  <2>5. q.completes => ActiveDisputes(q.r)' = {}
    BY <1>0, <2>2, <2>4 DEF DisputeInv, SameDispute
  <2>6. status[q.r] = "DISPUTED" /\ payout[q.r] # "PAID"
    BY <1>0, <2>1, <2>2 DEF Agrees
  <2>7. /\ status'[q.r] = IF q.completes THEN "COMPLETED" ELSE "DISPUTED"
        /\ payout'[q.r] # "PAID"
        /\ \A r \in Rentals \ {q.r} :
              /\ status'[r] = status[r] /\ payout'[r] = payout[r]
              /\ contract'[r] = contract[r]
    BY <1>0, <2>1, <2>2, <2>6 DEF SetStatus
  <2>8. Agrees(q.r)'
    BY <2>5, <2>7 DEF Agrees
  <2>9. StepOK(q.r)
    BY <2>2, <2>3, <2>6 DEF StepOK, StaysFinished, StaysClosed, ActiveDisputes,
                            Final, ActiveDispute, TerminalDispute
  <2> QED
    BY <1>0, <1>d, <2>1, <2>2, <2>3, <2>7, <2>8, <2>9, SerialWrite
<1>21. CASE DisputeConflict(w)
  BY <1>21, <1>n DEF DisputeConflict
<1> QED
  BY <1>1, <1>2, <1>3, <1>4, <1>5, <1>6, <1>7, <1>8, <1>9, <1>10, <1>11, <1>12,
     <1>13, <1>14, <1>15, <1>16, <1>17, <1>18, <1>19, <1>20, <1>21
     DEF Progress

\* Every step keeps what the handlers have read, and the agreement.
LEMMA SerialStep ==
    ASSUME OneWorker
    PROVE  Inv /\ SerialInv /\ [Next]_vars
              => SerialInv' /\ \A r \in Rentals : StepOK(r)
<1> SUFFICES ASSUME Inv, SerialInv, [Next]_vars
             PROVE  SerialInv' /\ \A r \in Rentals : StepOK(r)
  OBVIOUS
<1>0. DisputeInv'
  BY DisputeStep DEF SerialInv
<1>1. CASE UNCHANGED vars
  <2>1. UNCHANGED <<status, payout, contract, disputes, req>>
    BY <1>1 DEF vars, tables, money, agreement
  <2>2. SerialInv'
    BY <2>1 DEF SerialInv, DisputeInv, SameDispute, Agrees, ActiveDisputes, Fresh
  <2> QED
    BY <2>1, <2>2 DEF StepOK, StaysFinished, StaysClosed
<1>2. ASSUME NEW w \in Workers, Abort(w)
      PROVE  SerialInv' /\ \A r \in Rentals : StepOK(r)
  <2>1. Fresh(Idle)
    BY DEF Fresh, Idle
  <2>2. req' = [req EXCEPT ![w] = Idle] /\ UNCHANGED <<status, payout, contract, disputes>>
    BY <1>2 DEF Abort, Done, tables, money, agreement
  <2>3. TypeOK
    BY DEF Inv
  <2> QED
    BY <2>1, <2>2, <2>3, SerialRead
<1> QED
  BY <1>0, <1>1, <1>2, ArrivalSerial, ProgressSerial DEF Next

LEMMA InitSerial == Init => Inv /\ SerialInv
<1>1. Init => SerialInv
  BY DEF Init, SerialInv, DisputeInv, SameDispute, ActiveDisputes, Fresh, Agrees,
         Idle, NoRow
<1> QED
  BY <1>1, InitInv

\* The serial invariant holds when one request is served at a time.
LEMMA SerialInvariance ==
    ASSUME OneWorker
    PROVE  Spec => [](Inv /\ SerialInv)
<1>2. Inv /\ SerialInv /\ [Next]_vars => (Inv /\ SerialInv)'
  BY SerialStep, NextInv
<1> QED
  BY InitSerial, <1>2, PTL DEF Spec

----------------------------------------------------------------------------
\* As long as requests are served one at a time, an active dispute keeps the
\* rental DISPUTED.
THEOREM DisputeHolds ==
    ASSUME OneWorker
    PROVE  Spec => []ActiveDisputeHoldsRental
<1>1. SerialInv => ActiveDisputeHoldsRental
  BY DEF SerialInv, Agrees, ActiveDisputeHoldsRental
<1> QED
  BY <1>1, SerialInvariance, PTL

\* Then the owner's payout is PAID only while the rental is completed.
THEOREM PayoutWaits ==
    ASSUME OneWorker
    PROVE  Spec => []PaidOnlyWhenCompleted
<1>1. SerialInv => PaidOnlyWhenCompleted
  BY DEF SerialInv, Agrees, PaidOnlyWhenCompleted
<1> QED
  BY <1>1, SerialInvariance, PTL

\* Then a cancelled rental has no live contract.
THEOREM CancellationVoids ==
    ASSUME OneWorker
    PROVE  Spec => []CancelledContract
<1>1. SerialInv => CancelledContract
  BY DEF SerialInv, Agrees, CancelledContract
<1> QED
  BY <1>1, SerialInvariance, PTL

\* Then a rental that is over changes only by a dispute.
THEOREM Finishing ==
    ASSUME OneWorker
    PROVE  Spec => FinishedStaysFinished
<1>1. Inv /\ SerialInv /\ [Next]_vars => [\A r \in Rentals : StaysFinished(r)]_vars
  BY SerialStep DEF StepOK
<1>2. Spec => [][\A r \in Rentals : StaysFinished(r)]_vars
  BY <1>1, SerialInvariance, PTL DEF Spec
<1> QED
  BY <1>2, PTL DEF FinishedStaysFinished, StaysFinished, Final

\* And no late answer, assignment or update makes a closed dispute active.
THEOREM Closing ==
    ASSUME OneWorker
    PROVE  Spec => ClosedStaysClosed
<1>1. Inv /\ SerialInv /\ [Next]_vars => [\A r \in Rentals : StaysClosed(r)]_vars
  BY SerialStep DEF StepOK
<1>2. Spec => [][\A r \in Rentals : StaysClosed(r)]_vars
  BY <1>1, SerialInvariance, PTL DEF Spec
<1> QED
  BY <1>2, PTL DEF ClosedStaysClosed, StaysClosed

----------------------------------------------------------------------------
(* Sums of refunds.  The code adds amounts up one by one; to reason about  *)
(* the result, count the units of money instead: an amount is a set of     *)
(* units, and a sum the number of units in the union.                      *)
Units(rows, I) == {u \in I \X (1 .. Total) : u[2] <= rows[u[1]].amount}

Amounts(rows, I) == \A i \in I : rows[i].amount \in 1 .. Total

\* One more row gives its amount of units more.
LEMMA OneMoreRow ==
    ASSUME NEW rows, NEW I, IsFiniteSet(I), Amounts(rows, I), NEW x \in I
    PROVE  /\ IsFiniteSet(Units(rows, I)) /\ Cardinality(Units(rows, I)) \in Nat
           /\ Cardinality(Units(rows, I)) =
                 rows[x].amount + Cardinality(Units(rows, I \ {x}))
<1> DEFINE own == {x} \X (1 .. rows[x].amount)
           rest == Units(rows, I \ {x})
<1>0. Total \in Nat /\ rows[x].amount \in 1 .. Total
  BY AmountAssumption DEF Amounts
<1>1. IsFiniteSet(I \X (1 .. Total))
  <2> DEFINE unit == 1 .. Total
  <2>1. IsFiniteSet(unit)
    <3>1. 1 \in Int /\ Total \in Int
      BY <1>0
    <3> QED
      BY <3>1, FS_Interval
  <2> HIDE DEF unit
  <2>2. IsFiniteSet(I \X unit)
    BY <2>1, FS_Product
  <2> QED
    BY <2>2 DEF unit
<1>2. IsFiniteSet(Units(rows, I)) /\ Cardinality(Units(rows, I)) \in Nat
  BY <1>1, FS_Subset, FS_CardinalityType DEF Units
<1>3. IsFiniteSet(rest) /\ Cardinality(rest) \in Nat
  <2>1. rest \subseteq Units(rows, I)
    BY DEF Units
  <2> QED
    BY <1>2, <2>1, FS_Subset, FS_CardinalityType
<1>4. IsFiniteSet(own) /\ Cardinality(own) = rows[x].amount
  <2>1. IsFiniteSet({x}) /\ Cardinality({x}) = 1
    BY FS_Singleton
  <2>2. /\ IsFiniteSet(1 .. rows[x].amount)
        /\ Cardinality(1 .. rows[x].amount) = rows[x].amount
    <3>1. 1 \in Int /\ rows[x].amount \in Int /\ rows[x].amount - 1 + 1 = rows[x].amount
      BY <1>0
    <3>2. ~(1 > rows[x].amount)
      BY <1>0
    <3> DEFINE a == rows[x].amount
    <3>3. 1 \in Int /\ a \in Int /\ ~(1 > a) /\ a - 1 + 1 = a
      BY <3>1, <3>2
    <3> HIDE DEF a
    <3>4. IsFiniteSet(1 .. a) /\ Cardinality(1 .. a) = IF 1 > a THEN 0 ELSE a - 1 + 1
      BY <3>3, FS_Interval
    <3>5. IsFiniteSet(1 .. a) /\ Cardinality(1 .. a) = a
      BY <3>3, <3>4
    <3> QED
      BY <3>5 DEF a
  <2> DEFINE b == 1 .. rows[x].amount
             o == {x}
  <2>3. IsFiniteSet(b) /\ IsFiniteSet(o) /\ Cardinality(o) * Cardinality(b) = rows[x].amount
    BY <1>0, <2>1, <2>2
  <2> HIDE DEF b, o
  <2>4. IsFiniteSet(o \X b) /\ Cardinality(o \X b) = rows[x].amount
    BY <2>3, FS_Product
  <2> QED
    BY <2>4 DEF b, o
<1>5. Units(rows, I) = own \cup rest
  BY <1>0 DEF Units
<1>6. own \cap rest = {}
  BY DEF Units
<1>7. Cardinality(Units(rows, I)) = rows[x].amount + Cardinality(rest)
  <2> HIDE DEF own, rest
  <2>1. Cardinality(own \cap rest) = 0
    BY <1>6, FS_EmptySet
  <2>2. Cardinality(own \cup rest) =
          Cardinality(own) + Cardinality(rest) - Cardinality(own \cap rest)
    BY <1>3, <1>4, FS_Union
  <2> QED
    BY <1>0, <1>3, <1>4, <1>5, <2>1, <2>2
<1> QED
  BY <1>2, <1>7

\* What the recursion adds up is the number of units, for any set of rows.
\* A smallest set for which it is not would have a smaller one.
LEMMA SumCounts ==
    ASSUME NEW rows, NEW I, IsFiniteSet(I), Amounts(rows, I)
    PROVE  MapThenSumSet(LAMBDA i : rows[i].amount, I) = Cardinality(Units(rows, I))
<1> DEFINE step(g, s) == IF s = {} THEN 0
                         ELSE LET x == CHOOSE x \in s : TRUE
                              IN  rows[x].amount + g[s \ {x}]
           count == [s \in SUBSET I |-> Cardinality(Units(rows, s))]
<1>1. ASSUME NEW s \in SUBSET I
      PROVE  IsFiniteSet(s) /\ Amounts(rows, s)
  BY <1>1, FS_Subset DEF Amounts
<1>2. ASSUME NEW s \in SUBSET I PROVE count[s] = step(count, s)
  <2>1. CASE s = {}
    <3>1. Units(rows, s) = {}
      BY <2>1 DEF Units
    <3> QED
      BY <2>1, <3>1, FS_EmptySet
  <2>2. CASE s # {}
    <3> DEFINE x == CHOOSE x \in s : TRUE
    <3>1. x \in s
      BY <2>2
    <3> HIDE DEF x
    <3>2. Cardinality(Units(rows, s)) = rows[x].amount + Cardinality(Units(rows, s \ {x}))
      BY <1>1, <3>1, OneMoreRow
    <3>3. count[s] = rows[x].amount + count[s \ {x}]
      BY <3>2
    <3> QED
      BY <2>2, <3>3 DEF x
  <2> QED
    BY <2>1, <2>2
<1>3. count = [s \in SUBSET I |-> step(count, s)]
  BY <1>2
<1>4. ASSUME NEW h, h = [s \in SUBSET I |-> step(h, s)]
      PROVE  h = count
  <2> DEFINE Wrong == {s \in SUBSET I : h[s] # count[s]}
  <2>0. ASSUME NEW s \in SUBSET I PROVE h[s] = step(h, s)
    BY <1>4
  <2>1. CASE Wrong # {}
    <3>1. Wrong \subseteq FiniteSubsetsOf(I)
      BY <1>1 DEF FiniteSubsetsOf
    <3>2. PICK s \in Wrong : \A u \in Wrong : ~(<<u, s>> \in StrictSubsetOrdering(I))
      <4> HIDE DEF Wrong
      <4> QED
        BY <2>1, <3>1, WFMin, FS_StrictSubsetOrderingWellFounded
    <3>3. s # {}
      BY <1>2, <2>0
    <3> DEFINE x == CHOOSE x \in s : TRUE
    <3>4. x \in s
      BY <3>3
    <3>5. s \ {x} \in SUBSET I /\ s \ {x} # s
      BY <3>4
    <3> HIDE DEF x
    <3>6. <<s \ {x}, s>> \in StrictSubsetOrdering(I)
      BY <3>5 DEF StrictSubsetOrdering
    <3>7. h[s \ {x}] = count[s \ {x}]
      BY <3>2, <3>5, <3>6
    <3>8. h[s] = rows[x].amount + h[s \ {x}] /\ count[s] = rows[x].amount + count[s \ {x}]
      <4> HIDE DEF count
      <4> QED
        BY <1>2, <2>0, <3>3 DEF x
    <3> QED
      BY <3>7, <3>8
  <2>2. CASE Wrong = {}
    <3>1. \A s \in SUBSET I : h[s] = count[s]
      BY <2>2
    <3> QED
      BY <1>4, <3>1
  <2> QED
    BY <2>1, <2>2
<1>5. MapThenSumSet(LAMBDA i : rows[i].amount, I) = count[I]
  <2> HIDE DEF count
  <2> QED
    BY <1>3, <1>4 DEF MapThenSumSet, MapThenFoldSet
<1> QED
  BY <1>5

\* The rows of a payment's refunds that are completed, and their money.
CompletedRows(rows) == {i \in 1 .. Len(rows) : rows[i].status \in {"COMPLETED"}}
Refunded(rows) == Cardinality(Units(rows, CompletedRows(rows)))

LEMMA RefundedRows ==
    ASSUME NEW rows \in Seq(Refund)
    PROVE  /\ IsFiniteSet(CompletedRows(rows)) /\ Amounts(rows, CompletedRows(rows))
           /\ Refunded(rows) \in Nat
<1>1. IsFiniteSet(1 .. Len(rows))
  <2>1. 1 \in Int /\ Len(rows) \in Int
    OBVIOUS
  <2> QED
    BY <2>1, FS_Interval
<1>2. IsFiniteSet(CompletedRows(rows)) /\ CompletedRows(rows) \subseteq 1 .. Len(rows)
  BY <1>1, FS_Subset DEF CompletedRows
<1>3. \A i \in 1 .. Len(rows) : rows[i] \in Refund
  OBVIOUS
<1>4. Amounts(rows, CompletedRows(rows))
  BY <1>2, <1>3 DEF Amounts, Refund
<1>5. IsFiniteSet(Units(rows, CompletedRows(rows)))
  <2> DEFINE unit == 1 .. Total
  <2>1. 1 \in Int /\ Total \in Int
    BY AmountAssumption
  <2>2. IsFiniteSet(unit)
    BY <2>1, FS_Interval
  <2> HIDE DEF unit
  <2>3. IsFiniteSet(CompletedRows(rows) \X unit)
    BY <1>2, <2>2, FS_Product
  <2>4. Units(rows, CompletedRows(rows)) \subseteq CompletedRows(rows) \X unit
    BY DEF Units, unit
  <2> QED
    BY <2>3, <2>4, FS_Subset
<1> QED
  BY <1>2, <1>4, <1>5, FS_CardinalityType DEF Refunded

\* The sum the handlers take is that number.
LEMMA RefundedCounts ==
    ASSUME NEW rows \in Seq(Refund)
    PROVE  MapThenSumSet(LAMBDA i : rows[i].amount,
                         {i \in 1 .. Len(rows) : rows[i].status \in {"COMPLETED"}})
              = Refunded(rows)
  BY RefundedRows, SumCounts DEF Refunded, CompletedRows

LEMMA RefundSumCounts ==
    ASSUME NEW r \in Rentals, refunds[r] \in Seq(Refund), refunds'[r] \in Seq(Refund)
    PROVE  /\ RefundSum(r, {"COMPLETED"}) = Refunded(refunds[r])
           /\ RefundSum(r, {"COMPLETED"})' = Refunded(refunds'[r])
  BY RefundedCounts DEF RefundSum, MapThenSumSet, MapThenFoldSet

\* A refund asked for leaves the sum alone; so does one that is rejected, and
\* one that completes adds its amount.
LEMMA RefundedAdded ==
    ASSUME NEW rows \in Seq(Refund), NEW row \in Refund, row.status = "PENDING"
    PROVE  Refunded(Append(rows, row)) = Refunded(rows)
<1> DEFINE more == Append(rows, row)
<1>1. /\ Len(more) = Len(rows) + 1 /\ more[Len(rows) + 1] = row
      /\ \A i \in 1 .. Len(rows) : more[i] = rows[i]
  OBVIOUS
<1> HIDE DEF more
<1>2. CompletedRows(more) = CompletedRows(rows)
  BY <1>1 DEF CompletedRows
<1>3. Units(more, CompletedRows(more)) = Units(rows, CompletedRows(rows))
  BY <1>1, <1>2 DEF Units, CompletedRows
<1> QED
  BY <1>3 DEF Refunded, more

\* A refund that is recorded as completed at once adds its amount.
LEMMA RefundedAtOnce ==
    ASSUME NEW rows \in Seq(Refund), NEW row \in Refund, row.status = "COMPLETED"
    PROVE  Refunded(Append(rows, row)) = Refunded(rows) + row.amount
<1> DEFINE more == Append(rows, row)
           last == Len(rows) + 1
<1>1. /\ Len(more) = last /\ more[last] = row /\ more \in Seq(Refund)
      /\ \A i \in 1 .. Len(rows) : more[i] = rows[i]
      /\ last \in Nat /\ last \notin 1 .. Len(rows) /\ 1 .. last = 1 .. Len(rows) \cup {last}
  OBVIOUS
<1> HIDE DEF more, last
<1>2. CompletedRows(more) = CompletedRows(rows) \cup {last}
  BY <1>1 DEF CompletedRows
<1>3. last \in CompletedRows(more) /\ CompletedRows(more) \ {last} = CompletedRows(rows)
  BY <1>1, <1>2 DEF CompletedRows
<1>4. Units(more, CompletedRows(rows)) = Units(rows, CompletedRows(rows))
  BY <1>1 DEF Units, CompletedRows
<1>5. Refunded(more) = row.amount + Cardinality(Units(more, CompletedRows(rows)))
  BY <1>1, <1>3, RefundedRows, OneMoreRow DEF Refunded
<1>6. row.amount \in Nat /\ Refunded(rows) \in Nat
  <2>1. row.amount \in 1 .. Total
    BY DEF Refund
  <2> QED
    BY <2>1, RefundedRows, AmountAssumption
<1> QED
  BY <1>4, <1>5, <1>6 DEF Refunded, more

LEMMA RefundedAnswered ==
    ASSUME NEW rows \in Seq(Refund), NEW i \in 1 .. Len(rows),
           rows[i].status = "PENDING", NEW next \in {"COMPLETED", "REJECTED"}
    PROVE  /\ Refunded([rows EXCEPT ![i].status = next]) =
                 Refunded(rows) + IF next = "COMPLETED" THEN rows[i].amount ELSE 0
           /\ [rows EXCEPT ![i].status = next] \in Seq(Refund)
<1> DEFINE new == [rows EXCEPT ![i].status = next]
<1>0. \A j \in 1 .. Len(rows) : rows[j] \in Refund
  OBVIOUS
<1>1. /\ Len(new) = Len(rows) /\ new \in Seq(Refund)
      /\ new[i].status = next
      /\ \A j \in 1 .. Len(rows) : new[j].amount = rows[j].amount
      /\ \A j \in 1 .. Len(rows) \ {i} : new[j].status = rows[j].status
  BY <1>0 DEF Refund, RefundStatus
<1> HIDE DEF new
<1>2. CompletedRows(new) =
        IF next = "COMPLETED" THEN CompletedRows(rows) \cup {i} ELSE CompletedRows(rows)
  BY <1>1 DEF CompletedRows
<1>3. i \notin CompletedRows(rows)
  BY DEF CompletedRows
<1>4. Units(new, CompletedRows(rows)) = Units(rows, CompletedRows(rows))
  BY <1>1 DEF Units, CompletedRows
<1>5. CASE next = "REJECTED"
  BY <1>1, <1>2, <1>4, <1>5, RefundedRows DEF Refunded, new
<1>6. CASE next = "COMPLETED"
  <2>1. i \in CompletedRows(new) /\ CompletedRows(new) \ {i} = CompletedRows(rows)
    BY <1>2, <1>3, <1>6
  <2>2. IsFiniteSet(CompletedRows(new)) /\ Amounts(new, CompletedRows(new))
    BY <1>1, RefundedRows
  <2>3. Cardinality(Units(new, CompletedRows(new))) =
          new[i].amount + Cardinality(Units(new, CompletedRows(rows)))
    BY <2>1, <2>2, OneMoreRow
  <2>4. rows[i].amount \in Nat /\ new[i].amount = rows[i].amount
    BY <1>0, <1>1, AmountAssumption DEF Refund
  <2>5. Refunded(new) = rows[i].amount + Refunded(rows) /\ Refunded(rows) \in Nat
    BY <1>4, <2>3, <2>4, RefundedRows DEF Refunded
  <2> QED
    BY <1>1, <1>6, <2>4, <2>5 DEF new
<1> QED
  BY <1>5, <1>6

LEMMA RefundedNone == Refunded(<<>>) = 0
<1>1. Units(<<>>, CompletedRows(<<>>)) = {}
  BY DEF Units, CompletedRows
<1> QED
  BY <1>1, FS_EmptySet DEF Refunded

----------------------------------------------------------------------------
\* What a payment's refunds say of it.
Due(sum) == CASE sum = 0      -> "SUCCESS"
              [] sum >= Total -> "REFUNDED"
              [] OTHER        -> "PARTIALLY_REFUNDED"
BeforeMoney == {NoRow, "PENDING_OWNER", "AWAITING_PAYMENT"}

Received == Refundable \cup {"REFUNDED"}

RefundsKept(r) ==
    /\ paidAt[r] => contract[r] # NoRow /\ payment[r] \in Received
    /\ payment[r] = "REFUNDED" => Refunded(refunds[r]) >= Total
    /\ paidAt[r] /\ contract[r] # "CANCELLED" => payment[r] = Due(Refunded(refunds[r]))
    /\ status[r] \in BeforeMoney =>
          /\ ~paidAt[r] /\ refunds[r] = <<>>
          /\ payment[r] \in {NoRow, "PENDING", "PROCESSING"}
    /\ status[r] = "AWAITING_SIGNATURE" => contract[r] # "CANCELLED"

\* What the answer to a refund has read is still so.
RefundFresh(q) ==
    q.op = "refund" =>
        /\ refunds[q.r][q.i].status = "PENDING"
        /\ q.next = "COMPLETED" =>
              q.outcome = Due(Refunded(refunds[q.r]) + refunds[q.r][q.i].amount)

RefundInv ==
    /\ \A w \in Workers : RefundFresh(req[w])
    /\ \A r \in Rentals : RefundsKept(r)

\* A rental whose money and contract stay.
LEMMA RefundsQuiet ==
    ASSUME NEW r \in Rentals, RefundsKept(r),
           payment'[r] = payment[r], paidAt'[r] = paidAt[r],
           refunds'[r] = refunds[r], contract'[r] = contract[r],
           \/ status'[r] = status[r]
           \/ status'[r] \notin BeforeMoney \cup {"AWAITING_SIGNATURE"}
    PROVE  RefundsKept(r)'
  BY DEF RefundsKept

\* The request that begins, or goes on, while the tables stay as they are.
LEMMA RefundsRead ==
    ASSUME TypeOK, RefundInv, OneWorker, NEW w \in Workers, NEW q,
           req' = [req EXCEPT ![w] = q],
           UNCHANGED tables,
           RefundFresh(q)
    PROVE  RefundInv'
<1>1. \A v \in Workers : req'[v] = q
  BY DEF TypeOK, OneWorker
<1>2. \A v \in Workers : RefundFresh(req[v])'
  BY <1>1 DEF RefundFresh, tables, money
<1>3. \A r \in Rentals : RefundsKept(r)'
  BY RefundsQuiet DEF RefundInv, tables, money, agreement
<1> QED
  BY <1>2, <1>3 DEF RefundInv

\* The request that ends by writing one rental.
LEMMA RefundsWrite ==
    ASSUME RefundInv, OneWorker, NEW w \in Workers, NEW s \in Rentals,
           req'[w] = Idle,
           \A r \in Rentals \ {s} :
              /\ status'[r] = status[r] /\ contract'[r] = contract[r]
              /\ payment'[r] = payment[r] /\ paidAt'[r] = paidAt[r]
              /\ refunds'[r] = refunds[r],
           RefundsKept(s)'
    PROVE  RefundInv'
<1>1. \A v \in Workers : RefundFresh(req[v])'
  BY DEF OneWorker, RefundFresh, Idle
<1>2. \A r \in Rentals : RefundsKept(r)'
  BY RefundsQuiet DEF RefundInv
<1> QED
  BY <1>1, <1>2 DEF RefundInv

\* The same where it writes only the status and neither money nor contract.
LEMMA RefundsTrade ==
    ASSUME TypeOK, RefundInv, OneWorker, NEW w \in Workers, NEW s \in Rentals, NEW new,
           SetStatus(s, new), req'[w] = Idle,
           UNCHANGED <<payment, paidAt, refunds, contract>>,
           new = status[s] \/ new \notin BeforeMoney \cup {"AWAITING_SIGNATURE"}
    PROVE  RefundInv'
<1>1. status'[s] = new /\ \A r \in Rentals \ {s} : status'[r] = status[r]
  BY DEF SetStatus, TypeOK
<1>2. RefundsKept(s)'
  BY <1>1, RefundsQuiet DEF RefundInv
<1> QED
  BY <1>1, <1>2, RefundsWrite

LEMMA ArrivalRefunds ==
    ASSUME Inv, SerialInv, RefundInv, OneWorker, NEW w \in Workers, NEW s \in Rentals,
           Booking(w, s) \/ Paying(w, s) \/ Lending(w, s) \/ Finance(w, s)
              \/ Disputing(w, s)
    PROVE  RefundInv'
<1>0. /\ TypeOK /\ RefundsKept(s)
      /\ status \in [Rentals -> RentalStatus \cup {NoRow}]
      /\ payment \in [Rentals -> PaymentStatus \cup {NoRow}]
      /\ refunds \in [Rentals -> Seq(Refund)]
  BY DEF Inv, TypeOK, RefundInv
<1>b. ASSUME NEW q, Begin(w, q), UNCHANGED tables, RefundFresh(q)
      PROVE  RefundInv'
  BY <1>0, <1>b, RefundsRead DEF Begin
<1>a. ASSUME AtOnce(w)
      PROVE  req'[w] = Idle
  BY <1>a DEF AtOnce
<1>1. CASE CreateRental(w, s)
  <2>1. /\ AtOnce(w) /\ status[s] = NoRow
        /\ status' = [status EXCEPT ![s] = "PENDING_OWNER"]
        /\ UNCHANGED <<payment, paidAt, refunds, contract>>
    BY <1>1 DEF CreateRental, SetStatus, money, agreement
  <2>2. status'[s] = "PENDING_OWNER" /\ \A r \in Rentals \ {s} : status'[r] = status[r]
    BY <1>0, <2>1
  <2>3. RefundsKept(s)'
    BY <1>0, <2>1, <2>2 DEF RefundsKept, BeforeMoney
  <2> QED
    BY <1>a, <2>1, <2>2, <2>3, RefundsWrite
<1>2. CASE WindowElapses(s)
  <2>1. UNCHANGED <<status, payment, paidAt, refunds, contract, req>>
    BY <1>2 DEF WindowElapses, money, agreement
  <2>2. \A r \in Rentals : RefundsKept(r)'
    BY <2>1, RefundsQuiet DEF RefundInv
  <2> QED
    BY <2>1, <2>2 DEF RefundInv, RefundFresh
<1>3. CASE OpenIntent(w, s)
  <2>1. /\ AtOnce(w) /\ status[s] = "AWAITING_PAYMENT"
        /\ payment' = [payment EXCEPT ![s] = "PENDING"]
        /\ UNCHANGED <<status, paidAt, refunds, contract>>
    BY <1>3 DEF OpenIntent, agreement, MayOpenIntent
  <2>2. payment'[s] = "PENDING" /\ \A r \in Rentals \ {s} : payment'[r] = payment[r]
    BY <1>0, <2>1
  <2>3. RefundsKept(s)'
    BY <1>0, <2>1, <2>2 DEF RefundsKept, BeforeMoney
  <2> QED
    BY <1>a, <2>1, <2>2, <2>3, RefundsWrite
<1>4. CASE ExpireIntent(w, s)
  <2>1. /\ AtOnce(w) /\ SetStatus(s, "EXPIRED")
        /\ UNCHANGED <<payment, paidAt, refunds, contract>>
    BY <1>4 DEF ExpireIntent, money, agreement
  <2>2. "EXPIRED" \notin BeforeMoney \cup {"AWAITING_SIGNATURE"}
    BY DEF BeforeMoney, NoRow
  <2> QED
    BY <1>0, <1>a, <2>1, <2>2, RefundsTrade
<1>5. CASE CreateRefund(w, s)
  <2>1. /\ AtOnce(w) /\ payment[s] \in Refundable
        /\ UNCHANGED <<status, payment, paidAt, contract>>
    BY <1>5 DEF CreateRefund, agreement, MayRefund
  <2>2. PICK amount \in 1 .. Total :
          refunds' = [refunds EXCEPT ![s] =
                        Append(@, [amount |-> amount, status |-> "PENDING"])]
    BY <1>5 DEF CreateRefund
  <2> DEFINE row == [amount |-> amount, status |-> "PENDING"]
  <2>3. row \in Refund /\ row.status = "PENDING"
    BY DEF Refund, RefundStatus
  <2> HIDE DEF row
  <2>4. /\ refunds'[s] = Append(refunds[s], row)
        /\ \A r \in Rentals \ {s} : refunds'[r] = refunds[r]
    BY <1>0, <2>2 DEF row
  <2>5. Refunded(refunds'[s]) = Refunded(refunds[s])
    BY <1>0, <2>3, <2>4, RefundedAdded
  <2>6. RefundsKept(s)'
    BY <1>0, <2>1, <2>5 DEF RefundsKept, Refundable, NoRow
  <2> QED
    BY <1>a, <2>1, <2>4, <2>6, RefundsWrite
<1>6. CASE RefundRead(w, s)
  <2>1. PICK i \in 1 .. Len(refunds[s]), next \in RefundStatus \ {"PENDING"} :
          /\ refunds[s][i].status = "PENDING"
          /\ Begin(w, [op |-> "refund", r |-> s, i |-> i, next |-> next,
                       outcome |-> RefundOutcome(s, i, next),
                       hasPayout |-> payout[s] # NoRow])
    BY <1>6 DEF RefundRead, Endable
  <2> DEFINE q == [op |-> "refund", r |-> s, i |-> i, next |-> next,
                   outcome |-> RefundOutcome(s, i, next),
                   hasPayout |-> payout[s] # NoRow]
  <2>2. UNCHANGED tables /\ refunds'[s] = refunds[s]
    BY <1>6 DEF RefundRead, tables, money
  <2>3. /\ RefundSum(s, {"COMPLETED"}) = Refunded(refunds[s])
        /\ Refunded(refunds[s]) \in Nat /\ refunds[s][i].amount \in 1 .. Total
    <3>1. refunds[s][i] \in Refund
      BY <1>0
    <3> QED
      BY <1>0, <2>2, <3>1, RefundSumCounts, RefundedRows DEF Refund
  <2>4. next = "COMPLETED" =>
          RefundOutcome(s, i, next) = Due(Refunded(refunds[s]) + refunds[s][i].amount)
    BY <2>3, AmountAssumption DEF RefundOutcome, Due
  <2>5. RefundFresh(q)
    BY <2>1, <2>4 DEF RefundFresh
  <2> HIDE DEF q
  <2> QED
    BY <2>1, <2>2, <2>5, <1>b DEF q
\* every other request reads, and is no answer to a refund
<1>7. CASE \/ ApproveRead(w, s) \/ DeclineRead(w, s) \/ CancelRead(w, s)
           \/ FindPayment(w, s)
           \/ SignRead(w, s) \/ StartHandoverRead(w, s) \/ ConfirmHandoverRead(w, s)
           \/ RequestReturnRead(w, s) \/ OverdueRead(w, s) \/ PayoutRead(w, s)
           \/ Disputing(w, s)
  <2>1. UNCHANGED tables /\ \E q : Begin(w, q) /\ q.op # "refund"
    <3>1. CASE ApproveRead(w, s)
      BY <3>1 DEF ApproveRead
    <3>2. CASE DeclineRead(w, s)
      BY <3>2 DEF DeclineRead
    <3>3. CASE CancelRead(w, s)
      <4>1. PICK outcome \in CancellationOutcomes(s) :
              Begin(w, [op |-> "cancel", r |-> s,
                        refund |-> outcome.refund, payout |-> outcome.payout,
                        hasPayout |-> payout[s] # NoRow,
                        hasContract |-> contract[s] # NoRow])
        BY <3>3 DEF CancelRead
      <4> QED
        BY <3>3, <4>1 DEF CancelRead
    <3>4. CASE FindPayment(w, s)
      BY <3>4 DEF FindPayment
    <3>5. CASE SignRead(w, s)
      BY <3>5 DEF SignRead
    <3>6. CASE StartHandoverRead(w, s)
      BY <3>6 DEF StartHandoverRead
    <3>7. CASE ConfirmHandoverRead(w, s)
      BY <3>7 DEF ConfirmHandoverRead
    <3>8. CASE RequestReturnRead(w, s)
      BY <3>8 DEF RequestReturnRead
    <3>9. CASE OverdueRead(w, s)
      BY <3>9 DEF OverdueRead
    <3>10. CASE PayoutRead(w, s)
      BY <3>10 DEF PayoutRead
    <3>11. CASE OpenDisputeRead(w, s)
      BY <3>11 DEF OpenDisputeRead
    <3>12. CASE RespondRead(w, s)
      BY <3>12 DEF RespondRead
    <3>13. CASE AssignRead(w, s)
      BY <3>13 DEF AssignRead
    <3>14. CASE AcceptDamageRead(w, s)
      BY <3>14 DEF AcceptDamageRead
    <3>15. CASE UpdateDisputeRead(w, s)
      BY <3>15 DEF UpdateDisputeRead
    <3> QED
      BY <1>7, <3>1, <3>2, <3>3, <3>4, <3>5, <3>6, <3>7, <3>8, <3>9, <3>10,
         <3>11, <3>12, <3>13, <3>14, <3>15 DEF Disputing
  <2>2. PICK q : Begin(w, q) /\ q.op # "refund"
    BY <2>1
  <2>3. RefundFresh(q)
    BY <2>2 DEF RefundFresh
  <2> QED
    BY <1>b, <2>1, <2>2, <2>3
<1> QED
  BY <1>1, <1>2, <1>3, <1>4, <1>5, <1>6, <1>7
     DEF Booking, Paying, Lending, Finance

LEMMA ProgressRefunds ==
    ASSUME Inv, SerialInv, RefundInv, OneWorker, NEW w \in Workers, Progress(w)
    PROVE  RefundInv'
<1>q. PICK q : q = req[w]
  OBVIOUS
<1>0. /\ TypeOK /\ Fresh(q) /\ RefundFresh(q) /\ IndexFits(q) /\ q \in Requests
      /\ q.op # "idle" => q.r \in Rentals /\ RefundsKept(q.r)
      /\ status \in [Rentals -> RentalStatus \cup {NoRow}]
      /\ payment \in [Rentals -> PaymentStatus \cup {NoRow}]
      /\ paidAt \in [Rentals -> BOOLEAN]
      /\ contract \in [Rentals -> ContractStatus \cup {NoRow}]
      /\ refunds \in [Rentals -> Seq(Refund)]
  BY <1>q, RequestTarget DEF Inv, TypeOK, SerialInv, RefundInv
<1>d. ASSUME Done(w)
      PROVE  req'[w] = Idle /\ req' = [req EXCEPT ![w] = Idle]
  BY <1>d DEF Done, Inv, TypeOK
<1>n. ASSUME UNCHANGED tables, NEW p, req' = [req EXCEPT ![w] = p], p.op # "refund"
      PROVE  RefundInv'
  <2>1. RefundFresh(p)
    BY <1>n DEF RefundFresh
  <2> QED
    BY <1>0, <1>n, <2>1, RefundsRead
<1>i. Idle.op # "refund"
  BY DEF Idle
\* only the status of the rental, and not back to a stage before signing
<1>s. ASSUME q.op # "idle", NEW new, SetStatus(q.r, new), Done(w),
             UNCHANGED <<payment, paidAt, refunds, contract>>,
             new \notin BeforeMoney \cup {"AWAITING_SIGNATURE"}
      PROVE  RefundInv'
  BY <1>0, <1>d, <1>s, RefundsTrade
\* nothing of what the refunds depend on
<1>k. ASSUME q.op # "idle", Done(w),
             UNCHANGED <<status, payment, paidAt, refunds, contract>>
      PROVE  RefundInv'
  <2>1. RefundsKept(q.r)'
    BY <1>0, <1>k, RefundsQuiet
  <2> QED
    BY <1>0, <1>d, <1>k, <2>1, RefundsWrite
<1>1. CASE ApproveCommit(w)
  <2>1. /\ q.op = "approve"
        /\ status' = [r \in Rentals |->
                        IF r = q.r THEN "AWAITING_PAYMENT"
                        ELSE IF r \in q.expired THEN "EXPIRED" ELSE status[r]]
        /\ UNCHANGED <<payment, paidAt, refunds, contract>>
        /\ Done(w)
    BY <1>1, <1>q DEF ApproveCommit, money, agreement
  <2>2. status[q.r] = "PENDING_OWNER"
    BY <1>0, <2>1 DEF Fresh
  <2>3. RefundsKept(q.r)'
    BY <1>0, <2>1, <2>2 DEF RefundsKept, BeforeMoney
  <2>4. ASSUME NEW r \in Rentals \ {q.r} PROVE RefundsKept(r)'
    <3>1. status'[r] = status[r] \/ status'[r] = "EXPIRED"
      BY <2>1
    <3> QED
      BY <2>1, <3>1, RefundsQuiet DEF RefundInv, BeforeMoney, NoRow
  <2>5. \A v \in Workers : RefundFresh(req[v])'
    BY <1>d, <2>1 DEF OneWorker, RefundFresh, Idle
  <2> QED
    BY <2>3, <2>4, <2>5 DEF RefundInv
<1>2. CASE DeclineCommit(w)
  <2>1. /\ q.op = "decline" /\ SetStatus(q.r, "DECLINED") /\ Done(w)
        /\ UNCHANGED <<payment, paidAt, refunds, contract>>
    BY <1>2, <1>q DEF DeclineCommit, money, agreement
  <2> QED
    BY <2>1, <1>s DEF BeforeMoney, NoRow
<1>3. CASE CancelCommit(w)
  <2>1. /\ q.op = "cancel" /\ SetStatus(q.r, "CANCELLED") /\ Done(w)
        /\ CancelRefund(q)
        /\ contract' = [contract EXCEPT ![q.r] = IF q.hasContract THEN "CANCELLED" ELSE @]
        /\ UNCHANGED paidAt
    BY <1>3, <1>q DEF CancelCommit
  <2>2. q.r \in Rentals /\ q.hasContract = (contract[q.r] # NoRow)
    BY <1>0, <2>1 DEF Fresh
  <2>3. \A r \in Rentals \ {q.r} : payment'[r] = payment[r] /\ refunds'[r] = refunds[r]
    BY <1>0, <2>1 DEF CancelRefund
  <2>4. /\ status'[q.r] = "CANCELLED"
        /\ contract'[q.r] \in {NoRow, "CANCELLED"}
        /\ contract'[q.r] = NoRow => contract[q.r] = NoRow
        /\ \A r \in Rentals \ {q.r} : status'[r] = status[r] /\ contract'[r] = contract[r]
    BY <1>0, <2>1, <2>2 DEF SetStatus, NoRow
  <2>5. \/ UNCHANGED <<payment, refunds>>
        \/ /\ payment'[q.r] \in Received
           /\ payment'[q.r] = "REFUNDED" => Refunded(refunds'[q.r]) >= Total
    <3> DEFINE row == [amount |-> q.refund, status |-> "COMPLETED"]
    <3>1. q.refund \in 0 .. Total
      BY <1>0, <2>1, OpTellsKind DEF CancelRequest
    <3>2. CASE q.refund = 0
      BY <2>1, <3>2 DEF CancelRefund
    <3>3. CASE q.refund # 0
      <4>1. row \in Refund /\ row.status = "COMPLETED" /\ row.amount = q.refund
        BY <3>1, <3>3, AmountAssumption DEF Refund, RefundStatus
      <4>2. /\ refunds'[q.r] = Append(refunds[q.r], row)
            /\ payment'[q.r] = IF q.refund >= Total THEN "REFUNDED" ELSE "PARTIALLY_REFUNDED"
        BY <1>0, <2>1, <2>2, <3>3 DEF CancelRefund
      <4> HIDE DEF row
      <4>3. /\ Refunded(refunds'[q.r]) = Refunded(refunds[q.r]) + q.refund
            /\ Refunded(refunds[q.r]) \in Nat
        BY <1>0, <2>2, <4>1, <4>2, RefundedAtOnce, RefundedRows
      <4>4. payment'[q.r] = "REFUNDED" => Refunded(refunds'[q.r]) >= Total
        BY <3>1, <4>2, <4>3, AmountAssumption
      <4> QED
        BY <4>2, <4>4 DEF Received, Refundable
    <3> QED
      BY <3>2, <3>3
  <2>6. RefundsKept(q.r)'
    BY <1>0, <2>1, <2>4, <2>5 DEF RefundsKept, BeforeMoney, NoRow
  <2> QED
    BY <1>d, <2>1, <2>2, <2>3, <2>4, <2>6, RefundsWrite
<1>4. CASE FlagForReview(w)
  <2>1. /\ q.op = "found" /\ Done(w)
        /\ payment' = [payment EXCEPT ![q.r] =
                         IF @ \in {"PENDING", "PROCESSING"} THEN "PROCESSING" ELSE @]
        /\ UNCHANGED <<status, paidAt, refunds, contract>>
    BY <1>4, <1>q DEF FlagForReview, agreement
  <2>2. /\ payment'[q.r] = IF payment[q.r] \in {"PENDING", "PROCESSING"}
                           THEN "PROCESSING" ELSE payment[q.r]
        /\ \A r \in Rentals \ {q.r} : payment'[r] = payment[r]
    BY <1>0, <2>1
  <2>3. RefundsKept(q.r)'
    BY <1>0, <2>1, <2>2 DEF RefundsKept, Due, Received, Refundable
  <2> QED
    BY <1>0, <1>d, <2>1, <2>2, <2>3, RefundsWrite
<1>5. CASE SettleLock(w)
  <2> DEFINE p == [op |-> "settle", r |-> q.r]
  <2>1. UNCHANGED tables /\ req' = [req EXCEPT ![w] = p] /\ p.op # "refund"
    BY <1>5, <1>q DEF SettleLock, Continue
  <2> HIDE DEF p
  <2> QED
    BY <2>1, <1>n
<1>6. CASE SettleSkip(w)
  BY <1>6, <1>n, <1>i DEF SettleSkip, Done
<1>7. CASE SettleCommit(w)
  <2>1. /\ q.op = "settle" /\ SetStatus(q.r, "AWAITING_SIGNATURE") /\ Done(w)
        /\ payment' = [payment EXCEPT ![q.r] = "SUCCESS"]
        /\ paidAt' = [paidAt EXCEPT ![q.r] = TRUE]
        /\ contract' = [contract EXCEPT ![q.r] = "PENDING_SIGNATURE"]
        /\ UNCHANGED refunds
    BY <1>7, <1>q DEF SettleCommit
  <2>2. q.r \in Rentals /\ status[q.r] = "AWAITING_PAYMENT"
    BY <1>0, <2>1 DEF Fresh
  <2>3. /\ status'[q.r] = "AWAITING_SIGNATURE" /\ payment'[q.r] = "SUCCESS"
        /\ contract'[q.r] = "PENDING_SIGNATURE"
        /\ \A r \in Rentals \ {q.r} :
              /\ status'[r] = status[r] /\ payment'[r] = payment[r]
              /\ paidAt'[r] = paidAt[r] /\ contract'[r] = contract[r]
    BY <1>0, <2>1, <2>2 DEF SetStatus
  <2>4. Refunded(refunds'[q.r]) = 0
    BY <1>0, <2>1, <2>2, RefundedNone DEF RefundsKept, BeforeMoney
  <2>5. RefundsKept(q.r)'
    BY <2>3, <2>4, AmountAssumption DEF RefundsKept, BeforeMoney, Due, NoRow, Received, Refundable
  <2> QED
    BY <1>d, <2>1, <2>2, <2>3, <2>5, RefundsWrite
<1>8. CASE SignUpsert(w)
  <2> DEFINE p == [op |-> "signed", r |-> q.r]
  <2>1. /\ req' = [req EXCEPT ![w] = p]
        /\ UNCHANGED <<status, payment, paidAt, refunds, contract>>
    BY <1>8, <1>q DEF SignUpsert, Continue, money
  <2>2. \A v \in Workers : RefundFresh(req[v])'
    BY <1>0, <2>1 DEF TypeOK, OneWorker, RefundFresh
  <2>3. \A r \in Rentals : RefundsKept(r)'
    BY <2>1, RefundsQuiet DEF RefundInv
  <2> QED
    BY <2>2, <2>3 DEF RefundInv
<1>9. CASE SignCount(w)
  <2> DEFINE p == [op |-> "activate", r |-> q.r, bothSigned |-> signed[q.r] = Parties]
  <2>1. UNCHANGED tables /\ req' = [req EXCEPT ![w] = p] /\ p.op # "refund"
    BY <1>9, <1>q DEF SignCount, Continue
  <2> HIDE DEF p
  <2> QED
    BY <2>1, <1>n
<1>10. CASE SignCommit(w)
  <2> DEFINE new == IF q.bothSigned THEN "CONFIRMED" ELSE "AWAITING_SIGNATURE"
  <2>1. /\ q.op = "activate" /\ SetStatus(q.r, new) /\ Done(w)
        /\ contract' = [contract EXCEPT ![q.r] = IF q.bothSigned THEN "ACTIVE" ELSE @]
        /\ UNCHANGED <<payment, paidAt, refunds>>
    BY <1>10, <1>q DEF SignCommit, money
  <2>2. q.r \in Rentals /\ status[q.r] = "AWAITING_SIGNATURE"
    BY <1>0, <2>1 DEF Fresh
  <2>3. new \in {"CONFIRMED", "AWAITING_SIGNATURE"}
    OBVIOUS
  <2> HIDE DEF new
  <2>4. /\ status'[q.r] = new
        /\ contract'[q.r] \in {"ACTIVE", contract[q.r]}
        /\ \A r \in Rentals \ {q.r} : status'[r] = status[r] /\ contract'[r] = contract[r]
    BY <1>0, <2>1, <2>2 DEF SetStatus
  <2>5. RefundsKept(q.r)'
    BY <1>0, <2>1, <2>2, <2>3, <2>4 DEF RefundsKept, BeforeMoney, NoRow
  <2> QED
    BY <1>d, <2>1, <2>2, <2>4, <2>5, RefundsWrite
<1>11. CASE StartHandoverCommit(w)
  <2> DEFINE new == IF q.type = "DELIVERY" THEN "READY_FOR_HANDOVER" ELSE "RETURN_PENDING"
  <2>1. /\ q.op = "startHandover" /\ SetStatus(q.r, new) /\ Done(w)
        /\ UNCHANGED <<payment, paidAt, refunds, contract>>
    BY <1>11, <1>q DEF StartHandoverCommit, money, agreement
  <2> QED
    BY <2>1, <1>s DEF BeforeMoney, NoRow
<1>12. CASE ConfirmHandoverCommit(w)
  <2> DEFINE new == IF q.type = "DELIVERY" THEN "ONGOING" ELSE "COMPLETED"
  <2>1. /\ q.op = "confirm" /\ SetStatus(q.r, new) /\ Done(w)
        /\ UNCHANGED <<payment, paidAt, refunds, contract>>
    BY <1>12, <1>q DEF ConfirmHandoverCommit, agreement
  <2> QED
    BY <2>1, <1>s DEF BeforeMoney, NoRow
<1>13. CASE ConfirmHandoverConflict(w)
  BY <1>13, <1>n, <1>i DEF ConfirmHandoverConflict, Done
<1>14. CASE RequestReturnCommit(w)
  <2>1. /\ q.op = "requestReturn" /\ SetStatus(q.r, "RETURN_PENDING") /\ Done(w)
        /\ UNCHANGED <<payment, paidAt, refunds, contract>>
    BY <1>14, <1>q DEF RequestReturnCommit, money, agreement
  <2> QED
    BY <2>1, <1>s DEF BeforeMoney, NoRow
<1>15. CASE OverdueCommit(w)
  <2>1. /\ q.op = "overdue" /\ SetStatus(q.r, "OVERDUE") /\ Done(w)
        /\ UNCHANGED <<payment, paidAt, refunds, contract>>
    BY <1>15, <1>q DEF OverdueCommit, money, agreement
  <2> QED
    BY <2>1, <1>s DEF BeforeMoney, NoRow
<1>16. CASE RefundCommit(w)
  <2>1. /\ q.op = "refund" /\ Done(w)
        /\ refunds' = [refunds EXCEPT ![q.r][q.i].status = q.next]
        /\ payment' = [payment EXCEPT ![q.r] =
                         IF q.next = "COMPLETED" THEN q.outcome ELSE @]
        /\ UNCHANGED <<status, paidAt, contract>>
    BY <1>16, <1>q DEF RefundCommit, agreement
  <2>2. q.r \in Rentals /\ q \in RefundRequest /\ q.i \in 1 .. Len(refunds[q.r])
    BY <1>0, <2>1, OpTellsKind DEF IndexFits
  <2>3. q.next \in {"COMPLETED", "REJECTED"}
    BY <2>2 DEF RefundRequest
  <2>4. /\ refunds'[q.r] = [refunds[q.r] EXCEPT ![q.i].status = q.next]
        /\ payment'[q.r] = IF q.next = "COMPLETED" THEN q.outcome ELSE payment[q.r]
        /\ \A r \in Rentals \ {q.r} : refunds'[r] = refunds[r] /\ payment'[r] = payment[r]
    BY <1>0, <2>1, <2>2
  <2>5. /\ refunds[q.r] \in Seq(Refund) /\ refunds[q.r] # <<>>
        /\ refunds[q.r][q.i].status = "PENDING"
        /\ q.next = "COMPLETED" =>
              q.outcome = Due(Refunded(refunds[q.r]) + refunds[q.r][q.i].amount)
    BY <1>0, <2>1, <2>2 DEF RefundFresh
  <2>6. /\ q.next = "COMPLETED" =>
              Refunded(refunds'[q.r]) = Refunded(refunds[q.r]) + refunds[q.r][q.i].amount
        /\ q.next = "REJECTED" => Refunded(refunds'[q.r]) = Refunded(refunds[q.r])
    <3> DEFINE rows == refunds[q.r]
    <3>0. rows \in Seq(Refund) /\ q.i \in 1 .. Len(rows) /\ rows[q.i].status = "PENDING"
      BY <2>2, <2>5
    <3> HIDE DEF rows
    <3>1. Refunded([rows EXCEPT ![q.i].status = q.next]) = Refunded(rows)
             + IF q.next = "COMPLETED" THEN rows[q.i].amount ELSE 0
      BY <2>3, <3>0, RefundedAnswered
    <3>2. Refunded(refunds[q.r]) \in Nat
      BY <2>5, RefundedRows
    <3>3. rows[q.i].amount \in Int
      <4>1. rows[q.i] \in Refund
        BY <3>0
      <4> QED
        BY <4>1, AmountAssumption DEF Refund
    <3> QED
      BY <2>4, <3>1, <3>2, <3>3 DEF rows
  <2>7. ASSUME q.next = "COMPLETED"
        PROVE  /\ payment'[q.r] = Due(Refunded(refunds'[q.r]))
               /\ payment'[q.r] \in Received
               /\ payment'[q.r] = "REFUNDED" => Refunded(refunds'[q.r]) >= Total
    <3>1. payment'[q.r] = Due(Refunded(refunds'[q.r]))
      BY <2>4, <2>5, <2>6, <2>7
    <3> QED
      BY <3>1 DEF Due, Received, Refundable
  <2>8. RefundsKept(q.r)'
    BY <1>0, <2>1, <2>2, <2>3, <2>4, <2>5, <2>6, <2>7 DEF RefundsKept
  <2> QED
    BY <1>d, <2>1, <2>2, <2>4, <2>8, RefundsWrite
<1>17. CASE PayoutCommit(w)
  BY <1>17, <1>q, <1>k DEF PayoutCommit, agreement
<1>18. CASE OpenDisputeCommit(w)
  <2>1. /\ q.op = "open" /\ SetStatus(q.r, "DISPUTED") /\ Done(w)
        /\ UNCHANGED <<payment, paidAt, refunds, contract>>
    BY <1>18, <1>q DEF OpenDisputeCommit, agreement
  <2> QED
    BY <2>1, <1>s DEF BeforeMoney, NoRow
<1>19. CASE TrackCommit(w)
  BY <1>19, <1>q, <1>k DEF TrackCommit, money, agreement
<1>20. CASE CloseCommit(w)
  <2> DEFINE new == IF q.completes THEN "COMPLETED" ELSE "DISPUTED"
  <2>1. /\ q.op = "close" /\ SetStatus(q.r, new) /\ Done(w)
        /\ UNCHANGED <<payment, paidAt, refunds, contract>>
    BY <1>20, <1>q DEF CloseCommit, agreement
  <2> QED
    BY <2>1, <1>s DEF BeforeMoney, NoRow
<1>21. CASE DisputeConflict(w)
  BY <1>21, <1>n, <1>i DEF DisputeConflict, Done
<1> QED
  BY <1>1, <1>2, <1>3, <1>4, <1>5, <1>6, <1>7, <1>8, <1>9, <1>10, <1>11, <1>12,
     <1>13, <1>14, <1>15, <1>16, <1>17, <1>18, <1>19, <1>20, <1>21
     DEF Progress

LEMMA RefundStep ==
    ASSUME OneWorker
    PROVE  Inv /\ SerialInv /\ RefundInv /\ [Next]_vars => RefundInv'
<1> SUFFICES ASSUME Inv, SerialInv, RefundInv, [Next]_vars PROVE RefundInv'
  OBVIOUS
<1>1. CASE UNCHANGED vars
  <2>1. UNCHANGED <<status, payment, paidAt, refunds, contract, req>>
    BY <1>1 DEF vars, tables, money, agreement
  <2>2. \A r \in Rentals : RefundsKept(r)'
    BY <2>1, RefundsQuiet DEF RefundInv
  <2> QED
    BY <2>1, <2>2 DEF RefundInv, RefundFresh
<1>2. ASSUME NEW w \in Workers, Abort(w)
      PROVE  RefundInv'
  <2>1. RefundFresh(Idle)
    BY DEF RefundFresh, Idle
  <2> QED
    BY <1>2, <2>1, RefundsRead DEF Abort, Done, Inv
<1> QED
  BY <1>1, <1>2, ArrivalRefunds, ProgressRefunds DEF Next

\* As long as requests are served one at a time, the status of a received
\* payment says how much of it has been given back, until a cancellation.
THEOREM Refunding ==
    ASSUME OneWorker
    PROVE  Spec => []RefundsMatchPayment
<1>1. Init => RefundInv
  BY DEF Init, RefundInv, RefundFresh, RefundsKept, Idle, NoRow
<1>2. Inv /\ RefundInv => RefundsMatchPayment
  <2> SUFFICES ASSUME Inv, RefundInv, NEW r \in Rentals,
                      paidAt[r], contract[r] # "CANCELLED"
               PROVE  payment[r] = CASE RefundSum(r, {"COMPLETED"}) = 0 -> "SUCCESS"
                                     [] RefundSum(r, {"COMPLETED"}) >= Total -> "REFUNDED"
                                     [] OTHER -> "PARTIALLY_REFUNDED"
    BY DEF RefundsMatchPayment
  <2>1. payment[r] = Due(Refunded(refunds[r]))
    BY DEF RefundInv, RefundsKept
  <2>2. RefundSum(r, {"COMPLETED"}) = Refunded(refunds[r])
    BY RefundedCounts DEF RefundSum, MapThenSumSet, MapThenFoldSet, Inv, TypeOK
  <2> QED
    BY <2>1, <2>2 DEF Due
<1>3. Inv /\ SerialInv /\ RefundInv /\ [Next]_vars => (Inv /\ SerialInv /\ RefundInv)'
  BY SerialStep, RefundStep, NextInv
<1> QED
  BY <1>1, <1>2, <1>3, InitSerial, PTL DEF Spec

----------------------------------------------------------------------------
(* The life of a rental.  Its sessions follow its stages: none before the  *)
(* signatures, no confirmed delivery before it goes out, no confirmed      *)
(* return before it is over.                                               *)
BeforeSessions == BeforeMoney \cup {"AWAITING_SIGNATURE", "CONFIRMED"}
BeforeOut == BeforeSessions \cup {"READY_FOR_HANDOVER"}
BeforeBack == BeforeOut \cup {"ONGOING", "OVERDUE", "RETURN_PENDING"}

Sessions(r) ==
    /\ status[r] \in BeforeSessions => handovers[r] = <<>>
    /\ status[r] \in BeforeOut => ~Handed(r, "DELIVERY")
    /\ status[r] \in BeforeBack => ~Handed(r, "RETURN")

Lives(r) == Life!LifeStep(r) /\ Sessions(r)'

\* A rental whose row, papers and sessions stay.
LEMMA LifeRests ==
    ASSUME NEW r \in Rentals, Sessions(r),
           status'[r] = status[r], paidAt'[r] = paidAt[r],
           signed'[r] = signed[r], handovers'[r] = handovers[r]
    PROVE  Lives(r)
<1>1. \A type : Handed(r, type)' = Handed(r, type)
  BY DEF Handed
<1>2. Sessions(r)'
  BY <1>1 DEF Sessions
<1>3. Life!Rest(r)
  BY <1>1 DEF Life!Rest, Life!SamePapers, Life!SameHands
<1> QED
  BY <1>2, <1>3 DEF Lives, Life!LifeStep

\* A rental that turns to another stage without evidence.
LEMMA LifeTurns ==
    ASSUME NEW r \in Rentals, Sessions(r),
           paidAt'[r] = paidAt[r], signed'[r] = signed[r],
           \A type \in HandoverType : Handed(r, type)' = Handed(r, type),
           status'[r] \in BeforeSessions => handovers'[r] = handovers[r],
           \/ status[r] = NoRow /\ status'[r] = "PENDING_OWNER"
           \/ status[r] = "PENDING_OWNER" /\ status'[r] \in {"AWAITING_PAYMENT", "DECLINED"}
           \/ status[r] = "AWAITING_PAYMENT" /\ status'[r] = "EXPIRED"
           \/ status[r] = "CONFIRMED" /\ status'[r] = "READY_FOR_HANDOVER"
           \/ status[r] \in {"ONGOING", "OVERDUE"} /\ status'[r] = "RETURN_PENDING"
           \/ status[r] \in {"ONGOING", "RETURN_PENDING"} /\ status'[r] = "OVERDUE"
           \/ status[r] \in Cancellable /\ status'[r] = "CANCELLED"
    PROVE  Lives(r)
<1>1. /\ Handed(r, "DELIVERY")' = Handed(r, "DELIVERY")
      /\ Handed(r, "RETURN")' = Handed(r, "RETURN")
  BY DEF HandoverType
<1>2. Life!Moves(r) \in Life!Agreeing \cup Life!Using \cup Life!Cancelling
  BY DEF Life!Moves, Life!Agreeing, Life!Using, Life!Cancelling, Life!BeforeDelivery,
         Life!Unborn, Cancellable, NoRow
<1>3. Life!Turn(r)
  BY <1>1, <1>2 DEF Life!Turn, Life!SamePapers, Life!SameHands
<1>4. Sessions(r)'
  BY <1>1 DEF Sessions, BeforeSessions, BeforeOut, BeforeBack, BeforeMoney, Cancellable, NoRow
<1> QED
  BY <1>3, <1>4 DEF Lives, Life!LifeStep

\* A session that begins leaves the confirmed ones as they are.
LEMMA SessionBegun ==
    ASSUME TypeOK, NEW s \in Rentals, NEW row \in Handover, row.status = "PENDING",
           handovers' = [handovers EXCEPT ![s] = Append(@, row)]
    PROVE  /\ \A r \in Rentals \ {s} : handovers'[r] = handovers[r]
           /\ \A type : Handed(s, type)' = Handed(s, type)
<1>1. handovers[s] \in Seq(Handover)
  BY DEF TypeOK
<1>2. /\ handovers'[s] = Append(handovers[s], row)
      /\ \A r \in Rentals \ {s} : handovers'[r] = handovers[r]
  BY DEF TypeOK
<1>3. /\ Len(handovers'[s]) = Len(handovers[s]) + 1
      /\ \A i \in 1 .. Len(handovers[s]) : handovers'[s][i] = handovers[s][i]
      /\ handovers'[s][Len(handovers[s]) + 1] = row
  BY <1>1, <1>2
<1>4. ASSUME NEW type
      PROVE  Handed(s, type)' = Handed(s, type)
  <2>1. row # [type |-> type, status |-> "CONFIRMED"]
    OBVIOUS
  <2> QED
    BY <1>1, <1>3, <2>1 DEF Handed
<1> QED
  BY <1>2, <1>4

\* The session that is confirmed hands the asset over, its own way only.
LEMMA SessionEnds ==
    ASSUME TypeOK, NEW s \in Rentals, NEW k \in 1 .. Len(handovers[s]),
           handovers' = [handovers EXCEPT ![s][k].status = "CONFIRMED"]
    PROVE  /\ \A r \in Rentals \ {s} : handovers'[r] = handovers[r]
           /\ \A type : Handed(s, type)' <=>
                 Handed(s, type) \/ type = handovers[s][k].type
<1> DEFINE row == [handovers[s][k] EXCEPT !.status = "CONFIRMED"]
<1>1. handovers[s] \in Seq(Handover) /\ handovers[s][k] \in Handover
  BY DEF TypeOK
<1>2. row \in Handover /\ row = [type |-> handovers[s][k].type, status |-> "CONFIRMED"]
  BY <1>1 DEF Handover
<1>3. /\ handovers'[s] = [handovers[s] EXCEPT ![k] = row]
      /\ \A r \in Rentals \ {s} : handovers'[r] = handovers[r]
  BY DEF TypeOK
<1> HIDE DEF row
<1>4. /\ Len(handovers'[s]) = Len(handovers[s])
      /\ \A i \in 1 .. Len(handovers[s]) :
            handovers'[s][i] = IF i = k THEN row ELSE handovers[s][i]
  BY <1>1, <1>2, <1>3, UpdateRow
<1>5. ASSUME NEW type, type = handovers[s][k].type
      PROVE  Handed(s, type)'
  BY <1>2, <1>4, <1>5 DEF Handed
<1>6. ASSUME NEW type, type # handovers[s][k].type
      PROVE  (Handed(s, type)' <=> Handed(s, type))
  <2>1. /\ row # [type |-> type, status |-> "CONFIRMED"]
        /\ handovers[s][k] # [type |-> type, status |-> "CONFIRMED"]
    BY <1>2, <1>6
  <2> QED
    BY <1>4, <2>1 DEF Handed
<1> QED
  BY <1>3, <1>5, <1>6

\* An arriving request leaves the rental where it is, but for a booking and the
\* end of an unpaid one.
LEMMA ArrivalLives ==
    ASSUME Inv, \A r \in Rentals : Sessions(r), NEW w \in Workers, NEW s \in Rentals,
           Booking(w, s) \/ Paying(w, s) \/ Lending(w, s) \/ Finance(w, s)
              \/ Disputing(w, s)
    PROVE  \A r \in Rentals : Lives(r)
<1>0. status \in [Rentals -> RentalStatus \cup {NoRow}]
  BY DEF Inv, TypeOK
<1>t. ASSUME UNCHANGED <<paidAt, signed, handovers>>,
             \A r \in Rentals \ {s} : status'[r] = status[r],
             \/ status[s] = NoRow /\ status'[s] = "PENDING_OWNER"
             \/ status[s] = "AWAITING_PAYMENT" /\ status'[s] = "EXPIRED"
      PROVE  \A r \in Rentals : Lives(r)
  <2>1. \A type : Handed(s, type)' = Handed(s, type)
    BY <1>t DEF Handed
  <2>2. Lives(s)
    BY <1>t, <2>1, LifeTurns
  <2> QED
    BY <1>t, <2>2, LifeRests
<1>1. CASE CreateRental(w, s)
  <2>1. /\ status[s] = NoRow /\ status' = [status EXCEPT ![s] = "PENDING_OWNER"]
        /\ UNCHANGED <<paidAt, signed, handovers>>
    BY <1>1 DEF CreateRental, SetStatus, money, agreement
  <2> QED
    BY <1>0, <1>t, <2>1
<1>2. CASE ExpireIntent(w, s)
  <2>1. /\ status[s] = "AWAITING_PAYMENT" /\ status' = [status EXCEPT ![s] = "EXPIRED"]
        /\ UNCHANGED <<paidAt, signed, handovers>>
    BY <1>2 DEF ExpireIntent, MayExpireIntent, SetStatus, money, agreement
  <2> QED
    BY <1>0, <1>t, <2>1
<1>3. CASE ~CreateRental(w, s) /\ ~ExpireIntent(w, s)
  <2>1. UNCHANGED <<status, paidAt, signed, handovers>>
    BY <1>3
       DEF Booking, ApproveRead, DeclineRead, CancelRead,
           Paying, WindowElapses, OpenIntent, FindPayment,
           Lending, SignRead, StartHandoverRead, ConfirmHandoverRead,
           RequestReturnRead, OverdueRead,
           Finance, CreateRefund, RefundRead, PayoutRead,
           Disputing, OpenDisputeRead, RespondRead, AssignRead,
           AcceptDamageRead, UpdateDisputeRead, tables, money, agreement
  <2> QED
    BY <2>1, LifeRests
<1> QED
  BY <1>1, <1>2, <1>3

\* A request in flight takes its rental one stage on, with what it has read.
LEMMA ProgressLives ==
    ASSUME Inv, SerialInv, RefundInv, \A r \in Rentals : Sessions(r),
           NEW w \in Workers, Progress(w)
    PROVE  \A r \in Rentals : Lives(r)
<1>q. PICK q : q = req[w]
  OBVIOUS
<1>0. /\ TypeOK /\ Fresh(q) /\ IndexFits(q) /\ Supported(q) /\ q \in Requests
      /\ q.op # "idle" => q.r \in Rentals /\ StageOK(q.r) /\ Agrees(q.r)
                          /\ RefundsKept(q.r) /\ Sessions(q.r)
      /\ status \in [Rentals -> RentalStatus \cup {NoRow}]
      /\ paidAt \in [Rentals -> BOOLEAN]
      /\ signed \in [Rentals -> SUBSET Parties]
      /\ handovers \in [Rentals -> Seq(Handover)]
  BY <1>q, RequestTarget DEF Inv, TypeOK, SerialInv, RefundInv
<1>o. ASSUME q.r \in Rentals, Lives(q.r),
             \A r \in Rentals \ {q.r} :
                /\ status'[r] = status[r] /\ paidAt'[r] = paidAt[r]
                /\ signed'[r] = signed[r] /\ handovers'[r] = handovers[r]
      PROVE  \A r \in Rentals : Lives(r)
  BY <1>o, LifeRests
<1>s. ASSUME q.op # "idle", NEW new, SetStatus(q.r, new)
      PROVE  /\ status'[q.r] = new
             /\ \A r \in Rentals \ {q.r} : status'[r] = status[r]
  BY <1>0, <1>s DEF SetStatus
\* only the stage, and no evidence
<1>t. ASSUME q.op # "idle", NEW new, SetStatus(q.r, new),
             UNCHANGED <<paidAt, signed, handovers>>,
             \/ status[q.r] = "PENDING_OWNER" /\ new = "DECLINED"
             \/ status[q.r] \in {"ONGOING", "OVERDUE"} /\ new = "RETURN_PENDING"
             \/ status[q.r] \in {"ONGOING", "RETURN_PENDING"} /\ new = "OVERDUE"
             \/ status[q.r] \in Cancellable /\ new = "CANCELLED"
      PROVE  \A r \in Rentals : Lives(r)
  <2>1. \A type : Handed(q.r, type)' = Handed(q.r, type)
    BY <1>t DEF Handed
  <2>2. Lives(q.r)
    BY <1>0, <1>s, <1>t, <2>1, LifeTurns
  <2> QED
    BY <1>0, <1>o, <1>s, <1>t, <2>2
<1>1. CASE ApproveCommit(w)
  <2>1. /\ q.op = "approve"
        /\ status' = [r \in Rentals |->
                        IF r = q.r THEN "AWAITING_PAYMENT"
                        ELSE IF r \in q.expired THEN "EXPIRED" ELSE status[r]]
        /\ UNCHANGED <<paidAt, signed, handovers>>
    BY <1>1, <1>q DEF ApproveCommit, money, agreement
  <2>2. status[q.r] = "PENDING_OWNER" /\ \A s \in q.expired : status[s] = "AWAITING_PAYMENT"
    BY <1>0, <2>1 DEF Fresh
  <2> SUFFICES ASSUME NEW r \in Rentals PROVE Lives(r)
    OBVIOUS
  <2>3. \/ status'[r] = status[r]
        \/ status[r] = "PENDING_OWNER" /\ status'[r] = "AWAITING_PAYMENT"
        \/ status[r] = "AWAITING_PAYMENT" /\ status'[r] = "EXPIRED"
    BY <2>1, <2>2
  <2>4. \A type : Handed(r, type)' = Handed(r, type)
    BY <2>1 DEF Handed
  <2>5. CASE status'[r] = status[r]
    BY <2>1, <2>5, LifeRests
  <2>6. CASE status'[r] # status[r]
    BY <2>1, <2>3, <2>4, <2>6, LifeTurns
  <2> QED
    BY <2>5, <2>6
<1>2. CASE DeclineCommit(w)
  <2>1. /\ q.op = "decline" /\ SetStatus(q.r, "DECLINED")
        /\ UNCHANGED <<paidAt, signed, handovers>>
    BY <1>2, <1>q DEF DeclineCommit, money, agreement
  <2> QED
    BY <1>0, <1>t, <2>1 DEF Fresh
<1>3. CASE CancelCommit(w)
  <2>1. /\ q.op = "cancel" /\ SetStatus(q.r, "CANCELLED")
        /\ UNCHANGED <<paidAt, signed, handovers>>
    BY <1>3, <1>q DEF CancelCommit
  <2> QED
    BY <1>0, <1>t, <2>1 DEF Fresh
<1>4. CASE SettleCommit(w)
  <2>1. /\ q.op = "settle" /\ SetStatus(q.r, "AWAITING_SIGNATURE")
        /\ paidAt' = [paidAt EXCEPT ![q.r] = TRUE]
        /\ UNCHANGED <<signed, handovers>>
    BY <1>4, <1>q DEF SettleCommit
  <2>2. q.r \in Rentals /\ status[q.r] = "AWAITING_PAYMENT" /\ ~paidAt[q.r]
    BY <1>0, <2>1 DEF Fresh, RefundsKept, BeforeMoney
  <2>3. /\ status'[q.r] = "AWAITING_SIGNATURE" /\ paidAt'[q.r]
        /\ \A r \in Rentals \ {q.r} : status'[r] = status[r] /\ paidAt'[r] = paidAt[r]
    BY <1>0, <1>s, <2>1, <2>2
  <2>4. \A type : Handed(q.r, type)' = Handed(q.r, type)
    BY <2>1 DEF Handed
  <2>5. Life!Pay(q.r)
    BY <2>1, <2>2, <2>3, <2>4 DEF Life!Pay, Life!Moves, Life!SameHands
  <2>6. Sessions(q.r)'
    BY <1>0, <2>1, <2>2, <2>3, <2>4
       DEF Sessions, BeforeSessions, BeforeOut, BeforeBack, BeforeMoney
  <2> QED
    BY <1>o, <2>1, <2>2, <2>3, <2>5, <2>6 DEF Lives, Life!LifeStep
<1>5. CASE SignUpsert(w)
  <2>1. /\ q.op = "sign" /\ signed' = [signed EXCEPT ![q.r] = @ \cup {q.party}]
        /\ UNCHANGED <<status, paidAt, handovers>>
    BY <1>5, <1>q DEF SignUpsert, money
  <2>2. q.r \in Rentals /\ status[q.r] = "AWAITING_SIGNATURE" /\ q.party \in Parties
    BY <1>0, <2>1, OpTellsKind DEF Fresh, SignRequest
  <2>3. /\ signed'[q.r] = signed[q.r] \cup {q.party}
        /\ \A r \in Rentals \ {q.r} : signed'[r] = signed[r]
    BY <1>0, <2>1, <2>2
  <2>4. \A type : Handed(q.r, type)' = Handed(q.r, type)
    BY <2>1 DEF Handed
  <2>5. Life!Sign(q.r)
    BY <2>1, <2>2, <2>3, <2>4 DEF Life!Sign, Life!Moves, Life!SameHands
  <2>6. Sessions(q.r)'
    BY <1>0, <2>1, <2>2, <2>4 DEF Sessions
  <2> QED
    BY <1>o, <2>1, <2>2, <2>3, <2>5, <2>6 DEF Lives, Life!LifeStep
<1>6. CASE SignCommit(w)
  <2> DEFINE new == IF q.bothSigned THEN "CONFIRMED" ELSE "AWAITING_SIGNATURE"
  <2>1. /\ q.op = "activate" /\ SetStatus(q.r, new)
        /\ UNCHANGED <<paidAt, signed, handovers>>
    BY <1>6, <1>q DEF SignCommit, money
  <2>2. q.r \in Rentals /\ status[q.r] = "AWAITING_SIGNATURE"
    BY <1>0, <2>1 DEF Fresh
  <2>3. \A r \in Rentals \ {q.r} : status'[r] = status[r]
    BY <1>s, <2>1
  <2>4. \A type : Handed(q.r, type)' = Handed(q.r, type)
    BY <2>1 DEF Handed
  <2>5. CASE q.bothSigned
    <3>1. status'[q.r] = "CONFIRMED"
      BY <1>s, <2>1, <2>5
    <3>2. paidAt[q.r] /\ signed[q.r] = Parties
      BY <1>0, <2>1, <2>5 DEF Supported, BothSigned, Paid
    <3>3. Life!Confirm(q.r)
      BY <2>1, <2>2, <2>4, <3>1, <3>2
         DEF Life!Confirm, Life!Moves, Life!SamePapers, Life!SameHands
    <3>4. Sessions(q.r)'
      BY <1>0, <2>1, <2>2, <2>4, <3>1
         DEF Sessions, BeforeSessions, BeforeOut, BeforeBack, BeforeMoney
    <3> QED
      BY <1>o, <2>1, <2>2, <2>3, <3>3, <3>4 DEF Lives, Life!LifeStep
  <2>6. CASE ~q.bothSigned
    <3>1. status'[q.r] = status[q.r]
      BY <1>s, <2>1, <2>2, <2>6
    <3> QED
      BY <2>1, <2>2, <2>3, <3>1, LifeRests
  <2> QED
    BY <2>5, <2>6
<1>7. CASE StartHandoverCommit(w)
  <2> DEFINE new == IF q.type = "DELIVERY" THEN "READY_FOR_HANDOVER" ELSE "RETURN_PENDING"
             row == [type |-> q.type, status |-> "PENDING"]
  <2>1. /\ q.op = "startHandover" /\ SetStatus(q.r, new)
        /\ handovers' = [handovers EXCEPT ![q.r] = Append(@, row)]
        /\ UNCHANGED <<paidAt, signed>>
    BY <1>7, <1>q DEF StartHandoverCommit, money, agreement
  <2>2. q.r \in Rentals /\ row \in Handover /\ row.status = "PENDING"
    BY <1>0, <2>1, OpTellsKind DEF StartRequest, Handover
  <2>3. \/ status[q.r] \in {"CONFIRMED", "READY_FOR_HANDOVER"} /\ new = "READY_FOR_HANDOVER"
        \/ status[q.r] = "RETURN_PENDING" /\ new = "RETURN_PENDING"
    BY <1>0, <2>1, OpTellsKind DEF Fresh, MayStart
  <2> HIDE DEF row, new
  <2>4. status'[q.r] = new /\ \A r \in Rentals \ {q.r} : status'[r] = status[r]
    BY <1>s, <2>1
  <2>5. /\ \A r \in Rentals \ {q.r} : handovers'[r] = handovers[r]
        /\ \A type : Handed(q.r, type)' = Handed(q.r, type)
    BY <1>0, <2>1, <2>2, SessionBegun
  <2>6. CASE status[q.r] = "CONFIRMED"
    <3>1. new = "READY_FOR_HANDOVER" /\ new \notin BeforeSessions
      BY <2>3, <2>6 DEF BeforeSessions, BeforeMoney, NoRow
    <3>2. Lives(q.r)
      BY <1>0, <2>1, <2>2, <2>4, <2>5, <2>6, <3>1, LifeTurns
    <3> QED
      BY <1>o, <2>1, <2>2, <2>4, <2>5, <3>2
  <2>7. CASE status[q.r] # "CONFIRMED"
    <3>1. status'[q.r] = status[q.r] /\ status[q.r] \notin BeforeSessions
      BY <2>3, <2>4, <2>7 DEF BeforeSessions, BeforeMoney, NoRow
    <3>2. Life!Rest(q.r)
      BY <2>1, <2>2, <2>5, <3>1 DEF Life!Rest, Life!SamePapers, Life!SameHands
    <3>3. Sessions(q.r)'
      BY <1>0, <2>1, <2>5, <3>1 DEF Sessions
    <3> QED
      BY <1>o, <2>1, <2>2, <2>4, <2>5, <3>2, <3>3 DEF Lives, Life!LifeStep
  <2> QED
    BY <2>6, <2>7
<1>8. CASE ConfirmHandoverCommit(w)
  <2> DEFINE new == IF q.type = "DELIVERY" THEN "ONGOING" ELSE "COMPLETED"
  <2>1. /\ q.op = "confirm" /\ SetStatus(q.r, new)
        /\ handovers' = [handovers EXCEPT ![q.r][q.i].status = "CONFIRMED"]
        /\ UNCHANGED <<paidAt, signed>>
    BY <1>8, <1>q DEF ConfirmHandoverCommit, agreement
  <2>2. /\ q.r \in Rentals /\ q.i \in 1 .. Len(handovers[q.r])
        /\ handovers[q.r][q.i].type = q.type
        /\ q.type \in {"DELIVERY", "RETURN"}
    BY <1>0, <2>1, OpTellsKind DEF IndexFits, ConfirmRequest, HandoverType
  <2>3. /\ \A r \in Rentals \ {q.r} : handovers'[r] = handovers[r]
        /\ \A type : Handed(q.r, type)' <=> Handed(q.r, type) \/ type = q.type
    <3>1. PICK s \in Rentals : s = q.r
      BY <2>2
    <3>0. PICK k \in 1 .. Len(handovers[s]) : k = q.i
      BY <2>2, <3>1
    <3>2. handovers' = [handovers EXCEPT ![s][k].status = "CONFIRMED"]
      BY <2>1, <3>0, <3>1
    <3>3. /\ \A r \in Rentals \ {s} : handovers'[r] = handovers[r]
          /\ \A type : Handed(s, type)' <=>
                Handed(s, type) \/ type = handovers[s][k].type
      BY <1>0, <3>2, SessionEnds
    <3> QED
      BY <2>2, <3>0, <3>1, <3>3
  <2>4. status'[q.r] = new /\ \A r \in Rentals \ {q.r} : status'[r] = status[r]
    BY <1>s, <2>1
  <2>5. CASE q.type = "DELIVERY"
    <3>1. status[q.r] = "READY_FOR_HANDOVER" /\ status'[q.r] = "ONGOING"
      BY <1>0, <2>1, <2>4, <2>5 DEF Fresh, MayConfirm
    <3>2. paidAt[q.r] /\ signed[q.r] = Parties
      BY <1>0, <2>1, <2>5 DEF Supported, BothSigned, Paid
    <3>3. /\ ~Handed(q.r, "DELIVERY") /\ Handed(q.r, "DELIVERY")'
          /\ ~Handed(q.r, "RETURN") /\ ~Handed(q.r, "RETURN")'
      BY <1>0, <2>1, <2>3, <2>5, <3>1 DEF Sessions, BeforeOut, BeforeBack
    <3>b. Handed(q.r, "RETURN")' = Handed(q.r, "RETURN")
      BY <3>3 DEF Handed
    <3>4. Life!Deliver(q.r)
      BY <2>1, <2>2, <3>1, <3>2, <3>3, <3>b DEF Life!Deliver, Life!Moves, Life!SamePapers
    <3>5. Sessions(q.r)'
      BY <3>1, <3>3 DEF Sessions, BeforeSessions, BeforeOut, BeforeBack, BeforeMoney, NoRow
    <3> QED
      BY <1>o, <2>1, <2>2, <2>3, <2>4, <3>4, <3>5 DEF Lives, Life!LifeStep
  <2>6. CASE q.type = "RETURN"
    <3>1. status[q.r] = "RETURN_PENDING" /\ status'[q.r] = "COMPLETED"
      BY <1>0, <2>1, <2>4, <2>6 DEF Fresh, MayConfirm
    <3>2. /\ Handed(q.r, "DELIVERY") /\ Handed(q.r, "DELIVERY")'
          /\ ~Handed(q.r, "RETURN") /\ Handed(q.r, "RETURN")'
      BY <1>0, <2>1, <2>3, <2>6, <3>1
         DEF Sessions, BeforeBack, StageOK, AfterDelivery, Delivered
    <3>3. Life!Return(q.r)
      BY <2>1, <2>2, <3>1, <3>2 DEF Life!Return, Life!Moves, Life!SamePapers
    <3>4. Sessions(q.r)'
      BY <3>1 DEF Sessions, BeforeSessions, BeforeOut, BeforeBack, BeforeMoney, NoRow
    <3> QED
      BY <1>o, <2>1, <2>2, <2>3, <2>4, <3>3, <3>4 DEF Lives, Life!LifeStep
  <2> QED
    BY <2>2, <2>5, <2>6
<1>9. CASE RequestReturnCommit(w)
  <2>1. /\ q.op = "requestReturn" /\ SetStatus(q.r, "RETURN_PENDING")
        /\ UNCHANGED <<paidAt, signed, handovers>>
    BY <1>9, <1>q DEF RequestReturnCommit, money, agreement
  <2> QED
    BY <1>0, <1>t, <2>1 DEF Fresh
<1>10. CASE OverdueCommit(w)
  <2>1. /\ q.op = "overdue" /\ SetStatus(q.r, "OVERDUE")
        /\ UNCHANGED <<paidAt, signed, handovers>>
    BY <1>10, <1>q DEF OverdueCommit, money, agreement
  <2> QED
    BY <1>0, <1>t, <2>1 DEF Fresh
<1>11. CASE OpenDisputeCommit(w)
  <2>1. /\ q.op = "open" /\ SetStatus(q.r, "DISPUTED")
        /\ UNCHANGED <<paidAt, signed, handovers>>
    BY <1>11, <1>q DEF OpenDisputeCommit, agreement
  <2>2. q.r \in Rentals /\ status[q.r] # NoRow
    BY <1>0, <2>1 DEF Fresh
  <2>3. status'[q.r] = "DISPUTED" /\ \A r \in Rentals \ {q.r} : status'[r] = status[r]
    BY <1>s, <2>1
  <2>4. \A type : Handed(q.r, type)' = Handed(q.r, type)
    BY <2>1 DEF Handed
  <2>5. Life!Dispute(q.r)
    BY <2>1, <2>2, <2>3, <2>4
       DEF Life!Dispute, Life!SamePapers, Life!SameHands, Life!Unborn, NoRow
  <2>6. Sessions(q.r)'
    BY <2>3 DEF Sessions, BeforeSessions, BeforeOut, BeforeBack, BeforeMoney, NoRow
  <2> QED
    BY <1>o, <2>1, <2>2, <2>3, <2>5, <2>6 DEF Lives, Life!LifeStep
<1>12. CASE CloseCommit(w)
  <2> DEFINE new == IF q.completes THEN "COMPLETED" ELSE "DISPUTED"
  <2>1. /\ q.op = "close" /\ SetStatus(q.r, new)
        /\ UNCHANGED <<paidAt, signed, handovers>>
    BY <1>12, <1>q DEF CloseCommit, agreement
  <2>2. q.r \in Rentals /\ status[q.r] = "DISPUTED" /\ new \in {"COMPLETED", "DISPUTED"}
    BY <1>0, <2>1 DEF Fresh, Agrees
  <2> HIDE DEF new
  <2>3. status'[q.r] = new /\ \A r \in Rentals \ {q.r} : status'[r] = status[r]
    BY <1>s, <2>1
  <2>4. \A type : Handed(q.r, type)' = Handed(q.r, type)
    BY <2>1 DEF Handed
  <2>5. Life!Resolve(q.r) \/ Life!Dispute(q.r)
    BY <2>1, <2>2, <2>3, <2>4
       DEF Life!Resolve, Life!Dispute, Life!Moves, Life!SamePapers, Life!SameHands,
           Life!Unborn
  <2>6. Sessions(q.r)'
    BY <2>2, <2>3 DEF Sessions, BeforeSessions, BeforeOut, BeforeBack, BeforeMoney, NoRow
  <2> QED
    BY <1>o, <2>1, <2>2, <2>3, <2>5, <2>6 DEF Lives, Life!LifeStep
<1>13. CASE ~\/ ApproveCommit(w) \/ DeclineCommit(w) \/ CancelCommit(w)
             \/ SettleCommit(w) \/ SignUpsert(w) \/ SignCommit(w)
             \/ StartHandoverCommit(w) \/ ConfirmHandoverCommit(w)
             \/ RequestReturnCommit(w) \/ OverdueCommit(w)
             \/ OpenDisputeCommit(w) \/ CloseCommit(w)
  <2>1. UNCHANGED <<status, paidAt, signed, handovers>>
    BY <1>13
       DEF Progress, FlagForReview, SettleLock, SettleSkip, SignCount,
           ConfirmHandoverConflict, RefundCommit, PayoutCommit, TrackCommit,
           DisputeConflict, tables, money, agreement
  <2> QED
    BY <2>1, LifeRests
<1> QED
  BY <1>1, <1>2, <1>3, <1>4, <1>5, <1>6, <1>7, <1>8, <1>9, <1>10, <1>11, <1>12, <1>13

LEMMA LivesOn ==
    Inv /\ SerialInv /\ RefundInv /\ (\A r \in Rentals : Sessions(r)) /\ [Next]_vars
        => \A r \in Rentals : Lives(r)
<1> SUFFICES ASSUME Inv, SerialInv, RefundInv, \A r \in Rentals : Sessions(r), [Next]_vars
             PROVE  \A r \in Rentals : Lives(r)
  OBVIOUS
<1>1. ASSUME UNCHANGED tables
      PROVE  \A r \in Rentals : Lives(r)
  BY <1>1, LifeRests DEF tables, money, agreement
<1> QED
  BY <1>1, ArrivalLives, ProgressLives DEF Next, vars, Abort

\* The invariant of everything that holds while requests are served one at a time.
QuietInv == Inv /\ SerialInv /\ RefundInv /\ \A r \in Rentals : Sessions(r)

LEMMA QuietInvariance ==
    ASSUME OneWorker
    PROVE  Spec => []QuietInv
<1>1. Init => QuietInv
  <2>1. Init => RefundInv
    BY DEF Init, RefundInv, RefundFresh, RefundsKept, Idle, NoRow
  <2>2. Init => \A r \in Rentals : Sessions(r)
    BY DEF Init, Sessions, Handed
  <2> QED
    BY <2>1, <2>2, InitSerial DEF QuietInv
<1>2. QuietInv /\ [Next]_vars => QuietInv'
  BY SerialStep, RefundStep, NextInv, LivesOn DEF QuietInv, Lives
<1> QED
  BY <1>1, <1>2, PTL DEF Spec

\* As long as requests are served one at a time, the services implement the
\* life of rentals: every step takes every rental one stage on, or leaves it.
THEOREM Living ==
    ASSUME OneWorker
    PROVE  Spec => LivesByStages
<1>1. Init => Life!LifeInit
  BY DEF Init, Life!LifeInit, Life!Unborn, NoRow, Handed
<1>2. QuietInv /\ [Next]_vars => [Life!LifeNext]_(Life!lifeVars)
  <2>1. ASSUME QuietInv, [Next]_vars PROVE Life!LifeNext
    <3>1. TypeOK'
      BY <2>1, NextInv DEF QuietInv, Inv
    <3>2. \A r \in Rentals : Life!LifeStep(r)
      BY <2>1, LivesOn DEF QuietInv, Lives
    <3> QED
      BY <3>1, <3>2 DEF Life!LifeNext, TypeOK
  <2> QED
    BY <2>1
<1>3. Spec => [][Life!LifeNext]_(Life!lifeVars)
  BY <1>2, QuietInvariance, PTL DEF Spec
<1> QED
  BY <1>1, <1>3, PTL DEF Spec, LivesByStages, Life!LifeSpec

----------------------------------------------------------------------------
(* The screens.  The dispute screen shows the newest dispute; while handlers  *)
(* do not interleave, every older one is closed, since a dispute is opened    *)
(* only when none is active and none is opened again.                         *)
OlderClosed(r) ==
    \A i \in 1 .. Len(disputes[r]) :
        i < Len(disputes[r]) => disputes[r][i].status \in TerminalDispute

\* A step leaves a rental as many disputes as it had, or adds one to a rental
\* without an active one.
LEMMA DisputesCounted ==
    ASSUME Inv, [Next]_vars, NEW r \in Rentals
    PROVE  /\ Len(disputes[r]) \in Nat
           /\ \/ Len(disputes'[r]) = Len(disputes[r])
              \/ /\ Len(disputes'[r]) = Len(disputes[r]) + 1
                 /\ ActiveDisputes(r) = {}
<1>0. TypeOK /\ disputes \in [Rentals -> Seq(Dispute)] /\ Len(disputes[r]) \in Nat
  BY DEF Inv, TypeOK
<1>k. ASSUME disputes' = disputes
      PROVE  Len(disputes'[r]) = Len(disputes[r])
  BY <1>k
<1>1. CASE UNCHANGED vars
  BY <1>0, <1>1, <1>k DEF vars, tables
<1>2. ASSUME NEW w \in Workers, NEW s \in Rentals,
             Booking(w, s) \/ Paying(w, s) \/ Lending(w, s) \/ Finance(w, s)
                \/ Disputing(w, s)
      PROVE  disputes' = disputes
  BY <1>2
     DEF Booking, CreateRental, ApproveRead, DeclineRead, CancelRead,
         Paying, WindowElapses, OpenIntent, ExpireIntent, FindPayment,
         Lending, SignRead, StartHandoverRead, ConfirmHandoverRead,
         RequestReturnRead, OverdueRead,
         Finance, CreateRefund, RefundRead, PayoutRead,
         Disputing, OpenDisputeRead, RespondRead, AssignRead,
         AcceptDamageRead, UpdateDisputeRead, tables
<1>3. ASSUME NEW w \in Workers, Progress(w)
      PROVE  \/ Len(disputes'[r]) = Len(disputes[r])
             \/ /\ Len(disputes'[r]) = Len(disputes[r]) + 1
                /\ ActiveDisputes(r) = {}
  <2> DEFINE q == req[w]
  <2>0. q \in Requests
    BY <1>0 DEF TypeOK
  <2> HIDE DEF q
  <2>1. CASE OpenDisputeCommit(w)
    <3> DEFINE row == [status |-> q.first, damage |-> q.damage]
    <3>1. q \in OpenRequest
      BY <2>0, <2>1, OpTellsKind DEF OpenDisputeCommit, q
    <3>2. q.r \in Rentals /\ row \in Dispute /\ q.first \in ActiveDispute
      BY <3>1 DEF OpenRequest, Dispute, DisputeStatus, ActiveDispute
    <3>3. /\ IndexAdmits(q.r, 0, q.first)
          /\ disputes' = [disputes EXCEPT ![q.r] = Append(@, row)]
      BY <2>1 DEF OpenDisputeCommit, q
    <3>4. ActiveDisputes(q.r) \subseteq {0}
      BY <3>2, <3>3 DEF IndexAdmits
    <3>5. ActiveDisputes(q.r) = {}
      BY <1>0, <3>2, <3>4 DEF ActiveDisputes
    <3> HIDE DEF row
    <3> QED
      BY <1>0, <3>2, <3>3, <3>5, DisputeAdded
  <2>2. CASE TrackCommit(w) \/ CloseCommit(w)
    <3>1. disputes' = [disputes EXCEPT ![q.r][q.i].status = q.next]
      BY <2>2 DEF TrackCommit, CloseCommit, q
    <3> QED
      BY <1>0, <3>1
  <2>3. CASE ~(OpenDisputeCommit(w) \/ TrackCommit(w) \/ CloseCommit(w))
    <3>1. disputes' = disputes
      BY <1>3, <2>3
         DEF Progress, ApproveCommit, DeclineCommit, CancelCommit, FlagForReview,
             SettleLock, SettleSkip, SettleCommit, SignUpsert, SignCount, SignCommit,
             StartHandoverCommit, ConfirmHandoverCommit, ConfirmHandoverConflict,
             RequestReturnCommit, OverdueCommit, RefundCommit, PayoutCommit,
             DisputeConflict, tables
    <3> QED
      BY <3>1
  <2> QED
    BY <2>1, <2>2, <2>3
<1>4. ASSUME NEW w \in Workers, Abort(w)
      PROVE  disputes' = disputes
  BY <1>4 DEF Abort, tables
<1> QED
  BY <1>0, <1>k, <1>1, <1>2, <1>3, <1>4 DEF Next

\* So the older disputes stay closed when no step opens one again.
LEMMA OlderStayClosed ==
    ASSUME Inv, [Next]_vars, NEW r \in Rentals, OlderClosed(r), StaysClosed(r)
    PROVE  OlderClosed(r)'
<1>1. CASE Len(disputes'[r]) = Len(disputes[r])
  BY <1>1, DisputesCounted DEF OlderClosed, StaysClosed
<1>2. CASE /\ Len(disputes'[r]) = Len(disputes[r]) + 1
           /\ ActiveDisputes(r) = {}
  <2>1. \A i \in 1 .. Len(disputes[r]) : disputes[r][i].status \in TerminalDispute
    <3> SUFFICES ASSUME NEW i \in 1 .. Len(disputes[r])
                 PROVE  disputes[r][i].status \in TerminalDispute
      OBVIOUS
    <3>1. disputes[r][i] \in Dispute
      BY DEF Inv, TypeOK
    <3> QED
      BY <1>2, <3>1 DEF ActiveDisputes, Dispute, DisputeStatus
  <2> QED
    BY <1>2, <2>1, DisputesCounted DEF OlderClosed, StaysClosed
<1> QED
  BY <1>1, <1>2, DisputesCounted

\* The button of a screen a party is led to makes a call.
LEMMA ScreenOffers ==
    ASSUME NEW r, NEW p, NEW screen \in Opens(r, p), NEW call,
           call \in CASE screen = "payment"  -> PaymentCalls(r)
                      [] screen = "contract" -> ContractCalls(r, p)
                      [] screen = "handover" -> HandoverCalls(r, p)
                      [] screen = "return"   -> ReturnCalls
                      [] screen = "dispute"  -> DisputeCalls(r, p)
                      [] OTHER               -> {screen}
    PROVE  Calls(r, p) # {}
<1>1. call \in Calls(r, p)
  BY DEF Calls
<1> QED
  BY <1>1

\* In every stage a rental goes on from, one of the parties has a button.
LEMMA StageOffers ==
    ASSUME Inv, SerialInv, NEW r \in Rentals, OlderClosed(r),
           status[r] \notin {NoRow, "COMPLETED", "DECLINED", "CANCELLED", "EXPIRED"},
           ~LeftBehind(r)
    PROVE  \E p \in Parties : Calls(r, p) # {}
<1>0. /\ status[r] \in RentalStatus \cup {NoRow}
      /\ signed[r] \subseteq Parties
      /\ disputes[r] \in Seq(Dispute)
  BY DEF Inv, TypeOK
<1>p. "owner" \in Parties /\ "renter" \in Parties
  BY DEF Parties
<1>1. CASE status[r] = "PENDING_OWNER"
  <2>1. "approve" \in Opens(r, "owner")
    BY <1>1 DEF Opens, DetailButtons
  <2> QED
    BY <1>p, <2>1, ScreenOffers
<1>2. CASE status[r] = "AWAITING_PAYMENT"
  <2>1. "payment" \in Opens(r, "renter")
    BY <1>2 DEF Opens, DetailButtons
  <2>2. "intent" \in PaymentCalls(r)
    BY DEF PaymentCalls
  <2> QED
    BY <1>p, <2>1, <2>2, ScreenOffers
<1>3. CASE status[r] = "AWAITING_SIGNATURE"
  <2>1. PICK p \in Parties : p \notin signed[r]
    BY <1>0, <1>3 DEF LeftBehind
  <2>2. contract[r] # NoRow
    BY <1>3 DEF Inv, StageOK, Paid, AfterPayment
  <2>3. "sign" \in ContractCalls(r, p)
    BY <2>1, <2>2 DEF ContractCalls
  <2>4. "contract" \in Opens(r, p)
    BY <1>3, <2>1 DEF Opens, DetailButtons
  <2> QED
    BY <2>1, <2>3, <2>4, ScreenOffers
<1>4. CASE status[r] \in {"CONFIRMED", "READY_FOR_HANDOVER", "RETURN_PENDING"}
  <2>1. "handover" \in Opens(r, "owner")
    BY <1>4, <1>p DEF Opens, DetailButtons
  <2>2. "start" \in HandoverCalls(r, "owner")
    BY DEF HandoverCalls
  <2> QED
    BY <1>p, <2>1, <2>2, ScreenOffers
<1>5. CASE status[r] = "ONGOING"
  <2>1. "return" \in Opens(r, "renter")
    BY <1>5 DEF Opens, DetailButtons
  <2>2. "requestReturn" \in ReturnCalls
    BY DEF ReturnCalls
  <2> QED
    BY <1>p, <2>1, <2>2, ScreenOffers
<1>6. CASE status[r] = "OVERDUE"
  <2>1. "notReturned" \in Opens(r, "owner")
    BY <1>6 DEF Opens, ProblemButtons
  <2> QED
    BY <1>p, <2>1, ScreenOffers
<1>7. CASE status[r] = "DISPUTED"
  <2>1. PICK i \in ActiveDisputes(r) : TRUE
    BY <1>7 DEF LeftBehind
  <2>2. i \in 1 .. Len(disputes[r]) /\ disputes[r][i].status \notin TerminalDispute
    BY <2>1 DEF ActiveDisputes, ActiveDispute, TerminalDispute
  <2>3. i = Len(disputes[r]) /\ disputes[r] # <<>>
    BY <1>0, <2>2 DEF OlderClosed
  <2>4. "respond" \in DisputeCalls(r, "renter")
    BY <2>2, <2>3 DEF DisputeCalls, ShownDispute
  <2>5. "dispute" \in Opens(r, "renter")
    BY <1>7, <1>p DEF Opens, ProblemButtons
  <2> QED
    BY <1>p, <2>4, <2>5, ScreenOffers
<1> QED
  BY <1>0, <1>1, <1>2, <1>3, <1>4, <1>5, <1>6, <1>7 DEF RentalStatus

\* As long as requests are served one at a time, the screens show somebody a
\* next step of every rental in progress, but for the rentals LeftBehind names.
THEOREM NextStepShown ==
    ASSUME OneWorker
    PROVE  Spec => []SomebodyCanAct
<1> DEFINE ScreenInv == Inv /\ SerialInv /\ \A r \in Rentals : OlderClosed(r)
<1>1. Init => ScreenInv
  <2>1. Init => Inv /\ SerialInv
    BY InitInv DEF Init, SerialInv, DisputeInv, SameDispute, ActiveDisputes, Fresh,
                   Agrees, Idle, NoRow
  <2>2. Init => \A r \in Rentals : OlderClosed(r)
    BY DEF Init, OlderClosed
  <2> QED
    BY <2>1, <2>2
<1>2. ScreenInv /\ [Next]_vars => ScreenInv'
  <2> SUFFICES ASSUME ScreenInv, [Next]_vars
               PROVE  ScreenInv'
    OBVIOUS
  <2>1. Inv' /\ SerialInv' /\ \A r \in Rentals : StepOK(r)
    BY SerialStep, NextInv
  <2>2. \A r \in Rentals : OlderClosed(r)'
    BY <2>1, OlderStayClosed DEF StepOK
  <2> QED
    BY <2>1, <2>2
<1>3. ScreenInv => SomebodyCanAct
  BY StageOffers DEF SomebodyCanAct
<1> QED
  BY <1>1, <1>2, <1>3, PTL DEF Spec

----------------------------------------------------------------------------
(* The calls.  A screen decides from the rows it has loaded; with nothing  *)
(* in flight those are the rows the handler reads, and the invariants of   *)
(* the stages make up for what the screen does not look at.                *)

\* With no request in flight no row is locked.
LEMMA NothingLocked ==
    ASSUME \A w \in Workers : req[w] = Idle
    PROVE  /\ \A a : AssetFree(a)
           /\ \A r : RentalFree(r) /\ PaymentFree(r)
  BY DEF AssetFree, RentalFree, PaymentFree, Idle

\* The money reserved for refunds is a number, and holds what was refunded.
LEMMA ReservedHoldsRefunded ==
    ASSUME NEW r \in Rentals, refunds[r] \in Seq(Refund)
    PROVE  ReservedAmount(r) \in Nat /\ Refunded(refunds[r]) <= ReservedAmount(r)
<1> DEFINE held == {i \in 1 .. Len(refunds[r]) :
                      refunds[r][i].status \in {"PENDING", "COMPLETED"}}
           rows == refunds[r]
<1>1. IsFiniteSet(1 .. Len(refunds[r]))
  <2>1. 1 \in Int /\ Len(refunds[r]) \in Int
    OBVIOUS
  <2> QED
    BY <2>1, FS_Interval
<1>2. IsFiniteSet(held)
  BY <1>1, FS_Subset
<1>3. \A i \in 1 .. Len(refunds[r]) : refunds[r][i] \in Refund
  OBVIOUS
<1>4. Amounts(rows, held) /\ CompletedRows(rows) \subseteq held
  BY <1>3 DEF Amounts, Refund, CompletedRows
<1>5. ReservedAmount(r) = MapThenSumSet(LAMBDA i : rows[i].amount, held)
  BY DEF ReservedAmount, RefundSum, MapThenSumSet, MapThenFoldSet
<1>6. Units(rows, CompletedRows(rows)) \subseteq Units(rows, held)
  BY <1>4 DEF Units
<1> HIDE DEF held, rows
<1>7. ReservedAmount(r) = Cardinality(Units(rows, held))
  BY <1>2, <1>4, <1>5, SumCounts
<1>8. IsFiniteSet(Units(rows, held))
  <2> DEFINE unit == 1 .. Total
  <2>1. 1 \in Int /\ Total \in Int
    BY AmountAssumption
  <2>2. IsFiniteSet(unit)
    BY <2>1, FS_Interval
  <2> HIDE DEF unit
  <2>3. IsFiniteSet(held \X unit)
    BY <1>2, <2>2, FS_Product
  <2>4. Units(rows, held) \subseteq held \X unit
    BY DEF Units, unit
  <2> QED
    BY <2>3, <2>4, FS_Subset
<1>9. Refunded(rows) <= Cardinality(Units(rows, held))
  BY <1>6, <1>8, FS_Subset DEF Refunded
<1> QED
  BY <1>7, <1>8, <1>9, FS_CardinalityType DEF rows

\* The screens of a rental that is being agreed on, and their calls.
LEMMA AgreeingAccepted ==
    ASSUME QuietInv, \A w \in Workers : req[w] = Idle,
           NEW r \in Rentals, NEW p \in Parties, NEW screen \in Opens(r, p),
           screen \in {"approve", "decline", "cancel"}
    PROVE  p \in CallableBy(screen) /\ (Admits(r, screen) <=> ~TooLate(r, screen))
<1>1. status[r] = "PENDING_OWNER"
  BY DEF Opens, DetailButtons, ProblemButtons
<1>2. CASE screen = "approve"
  <2>1. p = "owner"
    BY <1>2 DEF Opens, DetailButtons, ProblemButtons
  <2>2. Approvable(r) <=> ~GivenAway(r)
    BY <1>1, NothingLocked DEF Approvable, GivenAway, Lapsed, Overlapping
  <2> QED
    BY <1>2, <2>1, <2>2 DEF CallableBy, Admits, TooLate
<1>3. CASE screen = "decline"
  <2>1. p = "owner"
    BY <1>3 DEF Opens, DetailButtons, ProblemButtons
  <2> QED
    BY <1>1, <1>3, <2>1 DEF CallableBy, Admits, TooLate, Declinable
<1>4. CASE screen = "cancel"
  BY <1>1, <1>4 DEF CallableBy, Admits, TooLate, Cancellable
<1> QED
  BY <1>2, <1>3, <1>4

\* The payment screen: a booking that waits for its money has a payment that
\* is open, or none.
LEMMA PaymentAccepted ==
    ASSUME QuietInv, \A w \in Workers : req[w] = Idle,
           NEW r \in Rentals, NEW p \in Parties, "payment" \in Opens(r, p),
           NEW call \in PaymentCalls(r)
    PROVE  p \in CallableBy(call) /\ (Admits(r, call) <=> ~TooLate(r, call))
<1>1. status[r] = "AWAITING_PAYMENT" /\ p = "renter"
  BY DEF Opens, DetailButtons, ProblemButtons
<1>2. payment[r] \in {NoRow, "PENDING", "PROCESSING"} /\ elapsed[r] \in BOOLEAN
  BY <1>1 DEF QuietInv, RefundInv, RefundsKept, BeforeMoney, Inv, TypeOK
<1>3. CASE call = "intent"
  <2>1. IntentAnswered(r) <=> ~elapsed[r]
    BY <1>1, <1>2, NothingLocked DEF IntentAnswered, MayOpenIntent, Payable, NoRow
  <2> QED
    BY <1>1, <1>3, <2>1 DEF CallableBy, Admits, TooLate
<1>4. CASE call = "pay"
  <2>1. payment[r] = "PENDING"
    BY <1>4 DEF PaymentCalls
  <2> QED
    BY <1>1, <1>4, <2>1 DEF CallableBy, Admits, TooLate, Payable, Findable
<1> QED
  BY <1>3, <1>4 DEF PaymentCalls

\* The contract and the handover: a code is on the owner's screen only in the
\* stage in which it can be confirmed.
LEMMA LendingAccepted ==
    ASSUME QuietInv,
           NEW r \in Rentals, NEW p \in Parties, NEW call,
           \/ "contract" \in Opens(r, p) /\ call \in ContractCalls(r, p)
           \/ "handover" \in Opens(r, p) /\ call \in HandoverCalls(r, p)
           \/ "return" \in Opens(r, p) /\ call \in ReturnCalls
    PROVE  p \in CallableBy(call) /\ Admits(r, call) /\ ~TooLate(r, call)
<1>0. handovers[r] \in Seq(Handover)
  BY DEF QuietInv, Inv, TypeOK
<1>1. CASE "contract" \in Opens(r, p) /\ call \in ContractCalls(r, p)
  <2>1. status[r] = "AWAITING_SIGNATURE" /\ call = "sign" /\ contract[r] # NoRow
    BY <1>1 DEF Opens, DetailButtons, ProblemButtons, ContractCalls
  <2> QED
    BY <2>1 DEF CallableBy, TooLate, Admits, Signable
<1>2. CASE "handover" \in Opens(r, p) /\ call \in HandoverCalls(r, p)
  <2>1. status[r] \in {"CONFIRMED", "READY_FOR_HANDOVER", "RETURN_PENDING"}
    BY <1>2 DEF Opens, DetailButtons, ProblemButtons
  <2>2. CASE p = "owner"
    BY <1>2, <2>1, <2>2 DEF HandoverCalls, CallableBy, TooLate, Admits, MayStart, HandoverKind
  <2>3. CASE p # "owner"
    <3>1. call = "scan" /\ CodeShown(r) /\ p = "renter"
      BY <1>2, <2>3 DEF HandoverCalls, Parties
    <3>2. status[r] # "CONFIRMED"
      BY <3>1 DEF CodeShown, QuietInv, Sessions, BeforeSessions
    <3>3. Len(handovers[r]) \in Confirmable(r)
      BY <1>0, <2>1, <3>1, <3>2 DEF CodeShown, Confirmable, MayConfirm, HandoverKind
    <3> QED
      BY <3>1, <3>3 DEF CallableBy, TooLate, Admits
  <2> QED
    BY <2>2, <2>3
<1>3. CASE "return" \in Opens(r, p) /\ call \in ReturnCalls
  <2>1. status[r] = "ONGOING" /\ p = "renter" /\ call = "requestReturn"
    BY <1>3 DEF Opens, DetailButtons, ProblemButtons, ReturnCalls
  <2> QED
    BY <2>1 DEF CallableBy, TooLate, Admits, Returnable
<1> QED
  BY <1>1, <1>2, <1>3

\* The problems: a report is offered in stages without an active dispute, an
\* answer while the newest dispute is not closed.
LEMMA ProblemsAccepted ==
    ASSUME QuietInv,
           NEW r \in Rentals, NEW p \in Parties, NEW call,
           \/ call \in {"damage", "notReturned"} /\ call \in Opens(r, p)
           \/ "dispute" \in Opens(r, p) /\ call \in DisputeCalls(r, p)
    PROVE  p \in CallableBy(call) /\ Admits(r, call) /\ ~TooLate(r, call)
<1>0. disputes[r] \in Seq(Dispute) /\ Agrees(r)
  BY DEF QuietInv, Inv, TypeOK, SerialInv
<1>1. CASE call = "damage" /\ call \in Opens(r, p)
  <2>1. status[r] = "RETURN_PENDING" /\ p = "owner"
    BY <1>1 DEF Opens, DetailButtons, ProblemButtons
  <2>2. [damage |-> TRUE, first |-> "WAITING_RESPONSE"] \in Openings(r)
    BY <2>1 DEF Openings
  <2>3. \E opening \in Openings(r) : opening.first = "WAITING_RESPONSE"
    BY <2>2
  <2> QED
    BY <1>0, <1>1, <2>1, <2>3 DEF CallableBy, TooLate, Admits, Agrees
<1>2. CASE call = "notReturned" /\ call \in Opens(r, p)
  <2>1. status[r] = "OVERDUE" /\ p = "owner"
    BY <1>2 DEF Opens, DetailButtons, ProblemButtons
  <2> QED
    BY <1>0, <1>2, <2>1 DEF CallableBy, TooLate, Admits, Agrees
<1>3. CASE "dispute" \in Opens(r, p) /\ call \in DisputeCalls(r, p)
  <2>1. Len(disputes[r]) \in NotClosed(r)
    BY <1>0, <1>3 DEF DisputeCalls, ShownDispute, NotClosed
  <2>2. CASE call = "respond"
    BY <2>1, <2>2 DEF CallableBy, TooLate, Admits
  <2>3. CASE call = "accept"
    <3>1. p = "renter" /\ Len(disputes[r]) \in Claims(r)
      BY <1>3, <2>1, <2>3 DEF DisputeCalls, ShownDispute, Claims
    <3> QED
      BY <2>3, <3>1 DEF CallableBy, TooLate, Admits
  <2> QED
    BY <1>3, <2>2, <2>3 DEF DisputeCalls
<1> QED
  BY <1>1, <1>2, <1>3

\* The card of a payment: while there is a balance, a payment that was received
\* can be refunded, and only an intent nobody paid cannot.
LEMMA RefundAccepted ==
    ASSUME QuietInv, \A w \in Workers : req[w] = Idle,
           NEW r \in Rentals, NEW call \in FinanceDesk(r)
    PROVE  Admits(r, call) <=> ~(call = "refund" /\ NothingReceived(r))
<1>0. /\ refunds[r] \in Seq(Refund) /\ payment[r] \in PaymentStatus
      /\ RefundsKept(r)
  BY DEF QuietInv, Inv, TypeOK, RefundInv, FinanceDesk, FinanceShows
<1>1. CASE call = "refund"
  <2>1. Total - ReservedAmount(r) > 0
    BY <1>1 DEF FinanceDesk, RefundableBalance
  <2>2. ReservedAmount(r) \in Nat /\ Refunded(refunds[r]) <= ReservedAmount(r)
    BY <1>0, ReservedHoldsRefunded
  <2>3. Refunded(refunds[r]) \in Nat
    BY <1>0, RefundedRows
  <2>4. payment[r] # "REFUNDED"
    BY <1>0, <2>1, <2>2, <2>3, AmountAssumption DEF RefundsKept
  <2>5. payment[r] \in Refundable <=> ~NothingReceived(r)
    BY <1>0, <2>4 DEF Refundable, NothingReceived, PaymentStatus
  <2>6. MayRefund(r, 1) <=> ~NothingReceived(r)
    BY <2>1, <2>2, <2>5, NothingLocked, AmountAssumption DEF MayRefund
  <2>7. \A amount \in 1 .. Total : MayRefund(r, amount) => ~NothingReceived(r)
    BY <2>5 DEF MayRefund
  <2>8. 1 \in 1 .. Total
    BY AmountAssumption
  <2> QED
    BY <1>1, <2>6, <2>7, <2>8 DEF Admits
<1>2. CASE call = "endRefund"
  <2>1. PICK i \in 1 .. Len(refunds[r]) : refunds[r][i].status = "PENDING"
    BY <1>2 DEF FinanceDesk
  <2>2. i \in Endable(r)
    BY <2>1 DEF Endable, Idle
  <2> QED
    BY <1>2, <2>2 DEF Admits
<1> QED
  BY <1>1, <1>2 DEF FinanceDesk

\* The card of a payout: a rental with an active dispute is not COMPLETED, so
\* what the service checks is what its message says.
LEMMA PayoutAccepted ==
    ASSUME QuietInv, NEW r \in Rentals, NEW next \in PayoutDesk(r)
    PROVE  AdmitsPayout(r, next) <=> ~(next = "PAID" /\ ~PayoutDue(r))
<1>1. ActiveDisputes(r) # {} => status[r] = "DISPUTED"
  BY DEF QuietInv, SerialInv, Agrees
<1> QED
  BY <1>1 DEF AdmitsPayout, MayPay, PayoutDue

\* The desk of a dispute: a dispute that is not closed can be answered, and moved
\* to any status that is offered but its own.
LEMMA VerdictAccepted ==
    ASSUME QuietInv, NEW r \in Rentals, NEW i \in DisputeDesk(r)
    PROVE  /\ Admits(r, "respond")
           /\ \A next \in VerdictButtons :
                 AdmitsVerdict(r, i, next) <=> next # disputes[r][i].status
<1>1. disputes[r] \in Seq(Dispute)
  BY DEF QuietInv, Inv, TypeOK
<1>2. i \in 1 .. Len(disputes[r]) /\ disputes[r][i].status \in ActiveDispute
  <2>1. i \in 1 .. Len(disputes[r]) /\ disputes[r][i].status \notin TerminalDispute
    BY DEF DisputeDesk
  <2>2. disputes[r][i] \in Dispute
    BY <1>1, <2>1
  <2> QED
    BY <2>1, <2>2 DEF Dispute, DisputeStatus
<1>3. i \in NotClosed(r)
  BY DEF DisputeDesk, NotClosed
<1>4. Admits(r, "respond")
  BY <1>3 DEF Admits
<1>5. \A next \in VerdictButtons :
         AdmitsVerdict(r, i, next) <=> next # disputes[r][i].status
  BY <1>2 DEF AdmitsVerdict, AllowedTransitions, VerdictButtons, ActiveDispute,
              TerminalDispute, DisputeStatus
<1> QED
  BY <1>4, <1>5

\* As long as requests are served one at a time, what the screens and the desks
\* offer is refused in the cases CallsAccepted names, and in no other.
THEOREM Accepting ==
    ASSUME OneWorker
    PROVE  Spec => []CallsAccepted
<1>1. QuietInv => CallsAccepted
  <2> SUFFICES ASSUME QuietInv, \A w \in Workers : req[w] = Idle, NEW r \in Rentals
               PROVE  \A p \in Parties : \A call \in Calls(r, p) :
                          p \in CallableBy(call) /\ (Admits(r, call) <=> ~TooLate(r, call))
    BY RefundAccepted, PayoutAccepted, VerdictAccepted DEF CallsAccepted
  <2>1. ASSUME NEW p \in Parties, NEW call \in Calls(r, p)
        PROVE  p \in CallableBy(call) /\ (Admits(r, call) <=> ~TooLate(r, call))
    <3>1. PICK screen \in Opens(r, p) :
            call \in CASE screen = "payment"  -> PaymentCalls(r)
                       [] screen = "contract" -> ContractCalls(r, p)
                       [] screen = "handover" -> HandoverCalls(r, p)
                       [] screen = "return"   -> ReturnCalls
                       [] screen = "dispute"  -> DisputeCalls(r, p)
                       [] OTHER               -> {screen}
      BY <2>1 DEF Calls
    <3>2. CASE screen = "payment"
      BY <3>1, <3>2, PaymentAccepted
    <3>3. CASE screen \in {"contract", "handover", "return"}
      <4>1. \/ "contract" \in Opens(r, p) /\ call \in ContractCalls(r, p)
            \/ "handover" \in Opens(r, p) /\ call \in HandoverCalls(r, p)
            \/ "return" \in Opens(r, p) /\ call \in ReturnCalls
        BY <3>1, <3>3
      <4> QED
        BY <4>1, LendingAccepted
    <3>4. CASE screen \in {"damage", "notReturned", "dispute"}
      <4>1. \/ call \in {"damage", "notReturned"} /\ call \in Opens(r, p)
            \/ "dispute" \in Opens(r, p) /\ call \in DisputeCalls(r, p)
        BY <3>1, <3>4
      <4> QED
        BY <4>1, ProblemsAccepted
    <3>5. CASE screen \in {"approve", "decline", "cancel"}
      <4>1. call = screen
        BY <3>1, <3>5
      <4> QED
        BY <3>5, <4>1, AgreeingAccepted
    <3> QED
      BY <3>2, <3>3, <3>4, <3>5 DEF Opens
  <2> QED
    BY <2>1
<1> QED
  BY <1>1, QuietInvariance, PTL

============================================================================
