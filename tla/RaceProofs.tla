----------------------------- MODULE RaceProofs -----------------------------
(***************************************************************************)
(* Proofs about the races the database settles: the unique index of the    *)
(* active disputes, the row locks of the settlement and of the approval.   *)
(* Each lock protects what its holder has read until it writes; the proofs *)
(* say what else nobody may write meanwhile.                               *)
(***************************************************************************)
EXTENDS MarketplaceProofs, FiniteSetTheorems

----------------------------------------------------------------------------
(* The unique index: two active disputes of a rental are the same one.     *)
SameDispute(r) == \A i, j \in ActiveDisputes(r) : i = j
DisputeInv == \A r \in Rentals : SameDispute(r)

\* Two elements that are always the same are at most one.
LEMMA AtMostOne ==
    ASSUME NEW S, \A i, j \in S : i = j
    PROVE  Cardinality(S) <= 1
<1>1. CASE S = {}
  BY <1>1, FS_EmptySet
<1>2. CASE S # {}
  <2>1. PICK x \in S : TRUE
    BY <1>2
  <2>2. S = {x}
    BY <2>1
  <2> QED
    BY <2>2, FS_Singleton
<1> QED
  BY <1>1, <1>2

\* A new dispute row comes last; a written one changes nothing but itself.
LEMMA DisputeAdded ==
    ASSUME TypeOK, NEW s \in Rentals, NEW row \in Dispute,
           disputes' = [disputes EXCEPT ![s] = Append(@, row)]
    PROVE  /\ \A r \in Rentals \ {s} : disputes'[r] = disputes[r]
           /\ Len(disputes[s]) \in Nat
           /\ Len(disputes'[s]) = Len(disputes[s]) + 1
           /\ disputes'[s][Len(disputes[s]) + 1] = row
           /\ \A k \in 1 .. Len(disputes[s]) : disputes'[s][k] = disputes[s][k]
<1>1. disputes \in [Rentals -> Seq(Dispute)]
  BY DEF TypeOK
<1>2. disputes[s] \in Seq(Dispute) /\ disputes'[s] = Append(disputes[s], row)
  BY <1>1
<1>3. \A r \in Rentals \ {s} : disputes'[r] = disputes[r]
  BY <1>1
<1> QED
  BY <1>2, <1>3

LEMMA DisputeRewritten ==
    ASSUME TypeOK, NEW s \in Rentals,
           NEW k \in 1 .. Len(disputes[s]), NEW next \in DisputeStatus,
           disputes' = [disputes EXCEPT ![s][k].status = next]
    PROVE  /\ \A r \in Rentals \ {s} : disputes'[r] = disputes[r]
           /\ Len(disputes'[s]) = Len(disputes[s])
           /\ \A m \in 1 .. Len(disputes[s]) :
                 disputes'[s][m].status = IF m = k THEN next
                                                   ELSE disputes[s][m].status
<1> DEFINE row == [disputes[s][k] EXCEPT !.status = next]
<1>1. disputes \in [Rentals -> Seq(Dispute)]
  BY DEF TypeOK
<1>2. disputes[s] \in Seq(Dispute) /\ disputes[s][k] \in Dispute
  BY <1>1
<1>3. row \in Dispute /\ row.status = next
  BY <1>2 DEF Dispute
<1>4. disputes'[s] = [disputes[s] EXCEPT ![k] = row]
  BY <1>1
<1>5. \A r \in Rentals \ {s} : disputes'[r] = disputes[r]
  BY <1>1
<1> HIDE DEF row
<1> QED
  BY <1>2, <1>3, <1>4, <1>5, UpdateRow

\* What is active after a row was added or written.
LEMMA ActiveAdded ==
    ASSUME TypeOK, NEW s \in Rentals, NEW row \in Dispute,
           disputes' = [disputes EXCEPT ![s] = Append(@, row)]
    PROVE  \A k \in ActiveDisputes(s)' :
              \/ k \in ActiveDisputes(s)
              \/ k = Len(disputes[s]) + 1 /\ row.status \in ActiveDispute
  BY DisputeAdded DEF ActiveDisputes

LEMMA ActiveRewritten ==
    ASSUME TypeOK, NEW s \in Rentals,
           NEW k \in 1 .. Len(disputes[s]), NEW next \in DisputeStatus,
           disputes' = [disputes EXCEPT ![s][k].status = next]
    PROVE  \A m \in ActiveDisputes(s)' :
              \/ m \in ActiveDisputes(s) /\ m # k
              \/ m = k /\ next \in ActiveDispute
<1>1. /\ Len(disputes'[s]) = Len(disputes[s])
      /\ \A m \in 1 .. Len(disputes[s]) :
            disputes'[s][m].status = IF m = k THEN next ELSE disputes[s][m].status
  BY DisputeRewritten
<1> QED
  BY <1>1 DEF ActiveDisputes

\* A dispute row written with the consent of the index leaves one active
\* dispute, whether it is a new row or an old one.
LEMMA IndexedAppend ==
    ASSUME TypeOK, DisputeInv, NEW s \in Rentals, NEW row \in Dispute,
           IndexAdmits(s, 0, row.status),
           disputes' = [disputes EXCEPT ![s] = Append(@, row)]
    PROVE  DisputeInv'
<1> SUFFICES ASSUME NEW r \in Rentals,
                    NEW i \in ActiveDisputes(r)', NEW j \in ActiveDisputes(r)'
             PROVE  i = j
  BY DEF DisputeInv, SameDispute
<1>1. CASE r # s
  BY <1>1, DisputeAdded DEF DisputeInv, SameDispute, ActiveDisputes
<1>2. CASE r = s
  <2>0. \A k \in ActiveDisputes(s)' :
           \/ k \in ActiveDisputes(s)
           \/ k = Len(disputes[s]) + 1 /\ row.status \in ActiveDispute
    BY ActiveAdded
  <2>1. CASE row.status \in ActiveDispute
    <3>1. ActiveDisputes(s) \subseteq {0}
      BY <2>1 DEF IndexAdmits
    <3>2. ActiveDisputes(s) = {}
      BY <3>1, DisputeAdded DEF ActiveDisputes
    <3> QED
      BY <1>2, <2>0, <3>2
  <2>2. CASE row.status \notin ActiveDispute
    BY <1>2, <2>0, <2>2 DEF DisputeInv, SameDispute
  <2> QED
    BY <2>1, <2>2
<1> QED
  BY <1>1, <1>2

LEMMA IndexedUpdate ==
    ASSUME TypeOK, DisputeInv, NEW s \in Rentals,
           NEW k \in 1 .. Len(disputes[s]), NEW next \in DisputeStatus,
           IndexAdmits(s, k, next),
           disputes' = [disputes EXCEPT ![s][k].status = next]
    PROVE  DisputeInv'
<1> SUFFICES ASSUME NEW r \in Rentals,
                    NEW i \in ActiveDisputes(r)', NEW j \in ActiveDisputes(r)'
             PROVE  i = j
  BY DEF DisputeInv, SameDispute
<1>1. CASE r # s
  BY <1>1, DisputeRewritten DEF DisputeInv, SameDispute, ActiveDisputes
<1>2. CASE r = s
  <2>0. \A m \in ActiveDisputes(s)' :
           \/ m \in ActiveDisputes(s) /\ m # k
           \/ m = k /\ next \in ActiveDispute
    BY ActiveRewritten
  <2>1. CASE next \in ActiveDispute
    <3>1. ActiveDisputes(s) \subseteq {k}
      BY <2>1 DEF IndexAdmits
    <3> QED
      BY <1>2, <2>0, <3>1
  <2>2. CASE next \notin ActiveDispute
    BY <1>2, <2>0, <2>2 DEF DisputeInv, SameDispute
  <2> QED
    BY <2>1, <2>2
<1> QED
  BY <1>1, <1>2

\* Every step keeps the index: the handlers that write a dispute ask it.
LEMMA DisputeStep ==
    ASSUME Inv, DisputeInv, [Next]_vars
    PROVE  DisputeInv'
<1>k. ASSUME disputes' = disputes
      PROVE  DisputeInv'
  BY <1>k DEF DisputeInv, SameDispute, ActiveDisputes
<1>1. CASE UNCHANGED vars
  BY <1>1, <1>k DEF vars, tables
<1>2. ASSUME NEW w \in Workers, NEW s \in Rentals,
             Booking(w, s) \/ Paying(w, s) \/ Lending(w, s) \/ Finance(w, s)
                \/ Disputing(w, s)
      PROVE  disputes' = disputes
  BY <1>2
     DEF Booking, CreateRental, ApproveRead, DeclineRead, CancelRead,
         Paying, WindowElapses, OpenIntent, ExpireIntent, FindPayment,
         Lending, SignRead, StartHandoverRead, ConfirmHandoverRead,
         RequestReturnRead, OverdueRead,
         Finance, CreateRefund, RefundRead, PayoutRead,
         Disputing, OpenDisputeRead, RespondRead, AssignRead,
         AcceptDamageRead, UpdateDisputeRead, tables
<1>3. ASSUME NEW w \in Workers, Progress(w)
      PROVE  DisputeInv'
  <2> DEFINE q == req[w]
  <2>0. TypeOK /\ q \in Requests /\ IndexFits(q)
    BY DEF Inv, TypeOK
  <2> HIDE DEF q
  <2>1. CASE OpenDisputeCommit(w)
    <3> DEFINE row == [status |-> q.first, damage |-> q.damage]
    <3>1. q \in OpenRequest
      BY <2>0, <2>1, OpTellsKind DEF OpenDisputeCommit, q
    <3>2. q.r \in Rentals /\ row \in Dispute /\ row.status = q.first
      BY <3>1 DEF OpenRequest, Dispute, DisputeStatus, ActiveDispute
    <3>3. /\ IndexAdmits(q.r, 0, q.first)
          /\ disputes' = [disputes EXCEPT ![q.r] = Append(@, row)]
      BY <2>1 DEF OpenDisputeCommit, q
    <3> HIDE DEF row
    <3> QED
      BY <2>0, <3>2, <3>3, IndexedAppend
  <2>2. CASE TrackCommit(w) \/ CloseCommit(w)
    <3>1. q.op \in {"respond", "assign", "close"}
      BY <2>2 DEF TrackCommit, CloseCommit, q
    <3>2. q.r \in Rentals /\ q.next \in DisputeStatus
      BY <2>0, <3>1, OpTellsKind DEF TrackRequest, CloseRequest
    <3>3. q.i \in 1 .. Len(disputes[q.r])
      BY <2>0, <3>1 DEF IndexFits
    <3>4. /\ IndexAdmits(q.r, q.i, q.next)
          /\ disputes' = [disputes EXCEPT ![q.r][q.i].status = q.next]
      BY <2>2 DEF TrackCommit, CloseCommit, q
    <3> QED
      BY <2>0, <3>2, <3>3, <3>4, IndexedUpdate
  <2>3. CASE ~(OpenDisputeCommit(w) \/ TrackCommit(w) \/ CloseCommit(w))
    <3>1. disputes' = disputes
      BY <1>3, <2>3
         DEF Progress, ApproveCommit, DeclineCommit, CancelCommit, FlagForReview,
             SettleLock, SettleSkip, SettleCommit, SignUpsert, SignCount, SignCommit,
             StartHandoverCommit, ConfirmHandoverCommit, ConfirmHandoverConflict,
             RequestReturnCommit, OverdueCommit, RefundCommit, PayoutCommit,
             DisputeConflict, tables
    <3> QED
      BY <3>1, <1>k
  <2> QED
    BY <2>1, <2>2, <2>3
<1>4. ASSUME NEW w \in Workers, Abort(w)
      PROVE  disputes' = disputes
  BY <1>4 DEF Abort, tables
<1> QED
  BY <1>1, <1>2, <1>3, <1>4, <1>k DEF Next

\* A rental has at most one active dispute, however late an answer or an
\* assignment is and however many handlers open a dispute at once.
THEOREM Disputes == Spec => []OneActiveDispute
<1>1. Init => DisputeInv
  BY DEF Init, DisputeInv, SameDispute, ActiveDisputes
<1>2. DisputeInv => OneActiveDispute
  BY AtMostOne DEF DisputeInv, SameDispute, OneActiveDispute
<1> QED
  BY <1>1, <1>2, DisputeStep, Invariance, PTL DEF Spec

----------------------------------------------------------------------------
(* The settlement.  A rental that may still be approved has no payment     *)
(* row, and one that awaits its payment has not received it; the requests  *)
(* in flight against a payment found its row.                              *)
Unpaid(r) == payment[r] = NoRow /\ ~paidAt[r]

RentalOK(r) ==
    /\ status[r] \in {NoRow, "PENDING_OWNER"} => Unpaid(r)
    /\ status[r] = "AWAITING_PAYMENT" => ~paidAt[r]
    /\ refunds[r] # <<>> => payment[r] # NoRow

RequestOK(q) ==
    /\ q.op = "approve" => Unpaid(q.r) /\ status[q.r] # "AWAITING_PAYMENT"
    /\ q.op = "cancel" => (q.refund # 0 => payment[q.r] # NoRow)
    /\ q.op \in {"found", "settle", "refund"} => payment[q.r] # NoRow
    /\ q.op = "settle" => ~paidAt[q.r]

\* the asset lock of an approval, the payment lock of a settlement
Apart(p, q) ==
    /\ p.op = "approve" /\ q.op = "approve" => AssetOf[p.r] # AssetOf[q.r]
    /\ p.op = "settle" /\ q.op = "settle" => p.r # q.r

SettleInv ==
    /\ \A r \in Rentals : RentalOK(r)
    /\ \A w \in Workers : RequestOK(req[w])
    /\ \A w, v \in Workers : w # v => Apart(req[w], req[v])

\* A step of worker w that writes no table of the settlement begins, or ends,
\* a request; the new one must fit the tables and the other requests.
LEMMA TurnSettles ==
    ASSUME TypeOK, SettleInv, NEW w \in Workers, NEW q,
           req' = [req EXCEPT ![w] = q],
           UNCHANGED <<status, payment, paidAt, refunds>>,
           RequestOK(q),
           \A v \in Workers \ {w} : Apart(q, req[v]) /\ Apart(req[v], q)
    PROVE  SettleInv'
<1>1. \A v \in Workers : req'[v] = IF v = w THEN q ELSE req[v]
  BY DEF TypeOK
<1>2. \A r \in Rentals : RentalOK(r)'
  BY DEF SettleInv, RentalOK, Unpaid
<1>3. \A v \in Workers : RequestOK(req[v])'
  <2> TAKE v \in Workers
  <2>1. RequestOK(req'[v])
    BY <1>1 DEF SettleInv
  <2> QED
    BY <2>1 DEF RequestOK, Unpaid
<1>4. \A u, v \in Workers : u # v => Apart(req[u], req[v])'
  BY <1>1 DEF SettleInv, Apart
<1> QED
  BY <1>2, <1>3, <1>4 DEF SettleInv

\* The requests the settlement does not care about.
Elsewhere(q) == q.op \notin {"approve", "cancel", "found", "settle", "refund"}

LEMMA ElsewhereFits ==
    ASSUME NEW q, Elsewhere(q)
    PROVE  RequestOK(q) /\ \A p : Apart(p, q) /\ Apart(q, p)
  BY DEF Elsewhere, RequestOK, Apart

\* A step that writes: its own request ends or no longer concerns the
\* settlement, and every rental and every other request is still right.
LEMMA WriteSettles ==
    ASSUME TypeOK, SettleInv, NEW w \in Workers, NEW q, Elsewhere(q),
           req' = [req EXCEPT ![w] = q],
           \A r \in Rentals : RentalOK(r)',
           \A v \in Workers \ {w} : RequestOK(req[v])'
    PROVE  SettleInv'
<1>1. \A v \in Workers : req'[v] = IF v = w THEN q ELSE req[v]
  BY DEF TypeOK
<1>2. \A v \in Workers : RequestOK(req[v])'
  BY <1>1 DEF Elsewhere, RequestOK
<1>3. \A u, v \in Workers : u # v => Apart(req[u], req[v])'
  BY <1>1 DEF SettleInv, Apart, Elsewhere
<1> QED
  BY <1>2, <1>3 DEF SettleInv

\* A step that writes no payment, and no status a payment can start from.
LEMMA StatusSettles ==
    ASSUME TypeOK, SettleInv, NEW w \in Workers, NEW q, Elsewhere(q),
           req' = [req EXCEPT ![w] = q],
           UNCHANGED <<payment, paidAt, refunds>>,
           \A r \in Rentals :
              status'[r] = status[r]
                 \/ status'[r] \notin {NoRow, "PENDING_OWNER", "AWAITING_PAYMENT"}
    PROVE  SettleInv'
<1>1. \A r \in Rentals : RentalOK(r)'
  <2> TAKE r \in Rentals
  <2>1. RentalOK(r)
    BY DEF SettleInv
  <2> QED
    BY <2>1 DEF RentalOK, Unpaid
<1>2. \A v \in Workers \ {w} : RequestOK(req[v])'
  <2> TAKE v \in Workers \ {w}
  <2>1. req'[v] = req[v] /\ req[v] \in Requests /\ RequestOK(req[v])
    BY DEF TypeOK, SettleInv
  <2>2. req[v].op = "approve" => req[v].r \in Rentals
    BY <2>1, RequestTarget
  <2> QED
    BY <2>1, <2>2 DEF RequestOK, Unpaid
<1> QED
  BY <1>1, <1>2, WriteSettles

\* A new request, or a handler of one transaction.
LEMMA ArrivalSettles ==
    ASSUME TypeOK, SettleInv, NEW w \in Workers, NEW s \in Rentals,
           Booking(w, s) \/ Paying(w, s) \/ Lending(w, s) \/ Finance(w, s)
              \/ Disputing(w, s)
    PROVE  SettleInv'
<1>0. /\ status \in [Rentals -> RentalStatus \cup {NoRow}]
      /\ payment \in [Rentals -> PaymentStatus \cup {NoRow}]
      /\ RentalOK(s)
      /\ req \in [Workers -> Requests]
  BY DEF TypeOK, SettleInv
<1>b. ASSUME NEW q, Begin(w, q), UNCHANGED tables, RequestOK(q),
             \A v \in Workers \ {w} : Apart(q, req[v]) /\ Apart(req[v], q)
      PROVE  SettleInv'
  BY <1>b, TurnSettles DEF Begin, tables, money
<1>e. ASSUME NEW q, Begin(w, q), UNCHANGED tables, Elsewhere(q)
      PROVE  SettleInv'
  BY <1>e, <1>b, ElsewhereFits
<1>h. ASSUME UNCHANGED req,
             \A r \in Rentals : RentalOK(r)',
             \A v \in Workers : RequestOK(req[v])'
      PROVE  SettleInv'
  BY <1>h DEF SettleInv, Apart
<1>1. CASE CreateRental(w, s)
  <2>1. /\ status[s] = NoRow /\ status' = [status EXCEPT ![s] = "PENDING_OWNER"]
        /\ UNCHANGED <<payment, paidAt, refunds, req>>
    BY <1>1 DEF CreateRental, SetStatus, AtOnce, money
  <2>2. \A r \in Rentals : RentalOK(r)'
    BY <1>0, <2>1 DEF SettleInv, RentalOK, Unpaid
  <2>3. \A v \in Workers : RequestOK(req[v])'
    BY <1>0, <2>1 DEF SettleInv, RequestOK, Unpaid
  <2> QED
    BY <2>1, <2>2, <2>3, <1>h
<1>2. CASE ApproveRead(w, s)
  <2> DEFINE q == [op |-> "approve", r |-> s, expired |-> Lapsed(AssetOf[s])]
  <2>1. /\ AssetFree(AssetOf[s]) /\ status[s] = "PENDING_OWNER"
        /\ Begin(w, q) /\ UNCHANGED tables
    BY <1>2 DEF ApproveRead, Approvable
  <2>2. q.op = "approve" /\ q.r = s
    OBVIOUS
  <2> HIDE DEF q
  <2>3. RequestOK(q)
    BY <1>0, <2>1, <2>2 DEF RequestOK, RentalOK
  <2>4. \A v \in Workers \ {w} : Apart(q, req[v]) /\ Apart(req[v], q)
    BY <2>1, <2>2 DEF AssetFree, Apart
  <2> QED
    BY <2>1, <2>3, <2>4, <1>b
<1>3. CASE DeclineRead(w, s)
  BY <1>3, <1>e DEF DeclineRead, Elsewhere
<1>4. CASE CancelRead(w, s)
  <2>1. PICK outcome \in CancellationOutcomes(s) :
          Begin(w, [op |-> "cancel", r |-> s,
                    refund |-> outcome.refund, payout |-> outcome.payout,
                    hasPayout |-> payout[s] # NoRow,
                    hasContract |-> contract[s] # NoRow])
    BY <1>4 DEF CancelRead
  <2> DEFINE q == [op |-> "cancel", r |-> s,
                   refund |-> outcome.refund, payout |-> outcome.payout,
                   hasPayout |-> payout[s] # NoRow,
                   hasContract |-> contract[s] # NoRow]
  <2>2. q.op = "cancel" /\ q.r = s /\ (q.refund # 0 => payment[s] # NoRow)
    BY DEF CancellationOutcomes
  <2>3. Begin(w, q) /\ UNCHANGED tables
    BY <1>4, <2>1 DEF CancelRead
  <2> HIDE DEF q
  <2>4. RequestOK(q) /\ \A v \in Workers : Apart(q, req[v]) /\ Apart(req[v], q)
    BY <2>2 DEF RequestOK, Apart
  <2> QED
    BY <2>3, <2>4, <1>b
<1>5. CASE WindowElapses(s)
  BY <1>5, <1>h DEF WindowElapses, money, SettleInv, RentalOK, RequestOK, Unpaid
<1>6. CASE OpenIntent(w, s)
  <2>1. /\ status[s] = "AWAITING_PAYMENT"
        /\ payment' = [payment EXCEPT ![s] = "PENDING"]
        /\ UNCHANGED <<status, paidAt, refunds, req>>
    BY <1>6 DEF OpenIntent, AtOnce, MayOpenIntent
  <2>2. \A r \in Rentals : RentalOK(r)'
    BY <1>0, <2>1 DEF SettleInv, RentalOK, Unpaid, NoRow
  <2>3. \A v \in Workers : RequestOK(req[v])'
    BY <1>0, <2>1 DEF SettleInv, RequestOK, Unpaid, NoRow
  <2> QED
    BY <2>1, <2>2, <2>3, <1>h
<1>7. CASE ExpireIntent(w, s)
  <2>1. /\ status' = [status EXCEPT ![s] = "EXPIRED"]
        /\ UNCHANGED <<payment, paidAt, refunds, req>>
    BY <1>7 DEF ExpireIntent, SetStatus, AtOnce, money
  <2>2. \A r \in Rentals : RentalOK(r)'
    BY <1>0, <2>1 DEF SettleInv, RentalOK, Unpaid, NoRow
  <2>3. \A v \in Workers : RequestOK(req[v])'
    BY <1>0, <2>1 DEF SettleInv, RequestOK, Unpaid
  <2> QED
    BY <2>1, <2>2, <2>3, <1>h
<1>8. CASE FindPayment(w, s)
  <2>1. RequestOK([op |-> "found", r |-> s])
    BY <1>8 DEF FindPayment, RequestOK, NoRow, Findable
  <2>2. \A p : Apart([op |-> "found", r |-> s], p) /\ Apart(p, [op |-> "found", r |-> s])
    BY DEF Apart
  <2> QED
    BY <1>8, <2>1, <2>2, <1>b DEF FindPayment
<1>9. CASE Lending(w, s)
  BY <1>9, <1>e
     DEF Lending, SignRead, StartHandoverRead, ConfirmHandoverRead,
         RequestReturnRead, OverdueRead, Elsewhere
<1>10. CASE CreateRefund(w, s)
  <2>1. PICK row :
          /\ payment[s] \in Refundable
          /\ refunds' = [refunds EXCEPT ![s] = Append(@, row)]
          /\ UNCHANGED <<status, payment, paidAt, req>>
    BY <1>10 DEF CreateRefund, AtOnce, MayRefund
  <2>2. \A r \in Rentals : RentalOK(r)'
    BY <1>0, <2>1 DEF SettleInv, RentalOK, Unpaid, NoRow, Refundable, TypeOK
  <2>3. \A v \in Workers : RequestOK(req[v])'
    BY <1>0, <2>1 DEF SettleInv, RequestOK, Unpaid
  <2> QED
    BY <2>1, <2>2, <2>3, <1>h
<1>11. CASE RefundRead(w, s)
  <2>1. PICK i \in 1 .. Len(refunds[s]), next \in RefundStatus \ {"PENDING"} :
          Begin(w, [op |-> "refund", r |-> s, i |-> i, next |-> next,
                    outcome |-> RefundOutcome(s, i, next),
                    hasPayout |-> payout[s] # NoRow])
    BY <1>11 DEF RefundRead, Endable
  <2> DEFINE q == [op |-> "refund", r |-> s, i |-> i, next |-> next,
                   outcome |-> RefundOutcome(s, i, next),
                   hasPayout |-> payout[s] # NoRow]
  <2>2. q.op = "refund" /\ q.r = s
    OBVIOUS
  <2>3. Begin(w, q) /\ UNCHANGED tables
    BY <1>11, <2>1 DEF RefundRead
  <2> HIDE DEF q
  <2>4. refunds[s] # <<>>
    BY <2>1
  <2>5. RequestOK(q) /\ \A v \in Workers : Apart(q, req[v]) /\ Apart(req[v], q)
    BY <1>0, <2>2, <2>4 DEF RequestOK, Apart, RentalOK
  <2> QED
    BY <2>3, <2>5, <1>b
<1>12. CASE PayoutRead(w, s)
  BY <1>12, <1>e DEF PayoutRead, Elsewhere
<1>13. CASE Disputing(w, s)
  BY <1>13, <1>e
     DEF Disputing, OpenDisputeRead, RespondRead, AssignRead, AcceptDamageRead,
         UpdateDisputeRead, Elsewhere
<1> QED
  BY <1>1, <1>2, <1>3, <1>4, <1>5, <1>6, <1>7, <1>8, <1>9, <1>10, <1>11, <1>12,
     <1>13 DEF Booking, Paying, Finance

\* A payment row that is there stays there.  A step on the payment of one
\* rental, by a request that found its row, leaves the rest right.
LEMMA PaymentSettles ==
    ASSUME TypeOK, SettleInv, NEW w \in Workers, NEW s \in Rentals,
           payment[s] # NoRow, NEW new, new # NoRow, NEW rows,
           req' = [req EXCEPT ![w] = Idle],
           payment' = [payment EXCEPT ![s] = new],
           refunds' = [refunds EXCEPT ![s] = rows],
           UNCHANGED paidAt,
           status' = status \/ status' = [status EXCEPT ![s] = "CANCELLED"]
    PROVE  SettleInv'
<1>0. /\ status \in [Rentals -> RentalStatus \cup {NoRow}]
      /\ payment \in [Rentals -> PaymentStatus \cup {NoRow}]
      /\ refunds \in [Rentals -> Seq(Refund)]
  BY DEF TypeOK
<1>1. \A r \in Rentals : RentalOK(r)'
  <2> TAKE r \in Rentals
  <2>1. RentalOK(r) /\ RentalOK(s)
    BY DEF SettleInv
  <2> QED
    BY <1>0, <2>1 DEF RentalOK, Unpaid, NoRow
<1>2. \A v \in Workers \ {w} : RequestOK(req[v])'
  <2> TAKE v \in Workers \ {w}
  <2>1. req'[v] = req[v] /\ req[v] \in Requests /\ RequestOK(req[v])
    BY DEF TypeOK, SettleInv
  <2>2. req[v].op # "idle" => req[v].r \in Rentals
    BY <2>1, RequestTarget
  <2>3. req[v].op = "approve" =>
           status'[req[v].r] # "AWAITING_PAYMENT" /\ req[v].r # s
    BY <1>0, <2>1, <2>2 DEF RequestOK, Unpaid
  <2> QED
    BY <1>0, <2>1, <2>2, <2>3 DEF RequestOK, Unpaid
<1>3. Elsewhere(Idle)
  BY DEF Elsewhere, Idle
<1> QED
  BY <1>1, <1>2, <1>3, WriteSettles

\* A request in flight goes on.
LEMMA ProgressSettles ==
    ASSUME TypeOK, SettleInv, NEW w \in Workers, IndexFits(req[w]), Progress(w)
    PROVE  SettleInv'
<1> DEFINE q == req[w]
<1>0. /\ q \in Requests /\ RequestOK(q)
      /\ q.op # "idle" => q.r \in Rentals /\ RentalOK(q.r)
      /\ status \in [Rentals -> RentalStatus \cup {NoRow}]
      /\ payment \in [Rentals -> PaymentStatus \cup {NoRow}]
      /\ refunds \in [Rentals -> Seq(Refund)]
      /\ paidAt \in [Rentals -> BOOLEAN]
      /\ Elsewhere(Idle)
  BY RequestTarget DEF TypeOK, SettleInv, Elsewhere, Idle
<1>i. \A v \in Workers \ {w} :
         /\ req[v] \in Requests
         /\ RequestOK(req[v])
         /\ Apart(req[v], q)
         /\ req[v].op # "idle" => req[v].r \in Rentals
  BY RequestTarget DEF TypeOK, SettleInv
<1> HIDE DEF q
<1>s. ASSUME NEW new \in RentalStatus \ {"PENDING_OWNER", "AWAITING_PAYMENT"},
             q.op # "idle", SetStatus(q.r, new), Done(w),
             UNCHANGED <<payment, paidAt, refunds>>
      PROVE  SettleInv'
  <2>1. \A r \in Rentals :
           status'[r] = status[r]
              \/ status'[r] \notin {NoRow, "PENDING_OWNER", "AWAITING_PAYMENT"}
    BY <1>s, <1>0 DEF SetStatus, NoRow, RentalStatus
  <2> QED
    BY <1>0, <1>s, <2>1, StatusSettles DEF Done
<1>d. ASSUME Done(w), UNCHANGED <<status, payment, paidAt, refunds>>
      PROVE  SettleInv'
  BY <1>0, <1>d, TurnSettles, ElsewhereFits DEF Done
<1>1. CASE ApproveCommit(w)
  <2>1. /\ q.op = "approve"
        /\ status' = [r \in Rentals |->
                        IF r = q.r THEN "AWAITING_PAYMENT"
                        ELSE IF r \in q.expired THEN "EXPIRED" ELSE status[r]]
        /\ UNCHANGED <<payment, paidAt, refunds>>
        /\ req' = [req EXCEPT ![w] = Idle]
    BY <1>1 DEF ApproveCommit, money, Done, q
  <2>2. Unpaid(q.r) /\ q.r \in Rentals
    BY <1>0, <2>1 DEF RequestOK
  <2>3. \A r \in Rentals : RentalOK(r)'
    BY <2>1, <2>2 DEF SettleInv, RentalOK, Unpaid, NoRow
  <2>4. \A v \in Workers \ {w} : RequestOK(req[v])'
    <3> TAKE v \in Workers \ {w}
    <3>1. req'[v] = req[v] /\ RequestOK(req[v])
      BY <2>1, <1>i
    <3>2. req[v].op = "approve" => req[v].r \in Rentals /\ req[v].r # q.r
      BY <2>1, <1>i DEF Apart
    <3>3. req[v].op = "approve" => status'[req[v].r] # "AWAITING_PAYMENT"
      BY <2>1, <3>1, <3>2 DEF RequestOK
    <3> QED
      BY <2>1, <3>1, <3>3 DEF RequestOK, Unpaid
  <2> QED
    BY <1>0, <2>1, <2>3, <2>4, WriteSettles
<1>2. CASE DeclineCommit(w)
  BY <1>2, <1>s DEF DeclineCommit, RentalStatus, money, q
<1>3. CASE CancelCommit(w)
  <2>1. /\ q.op = "cancel" /\ CancelRefund(q) /\ SetStatus(q.r, "CANCELLED")
        /\ Done(w) /\ UNCHANGED paidAt
    BY <1>3 DEF CancelCommit, q
  <2>2. CASE q.refund = 0
    BY <1>s, <2>1, <2>2 DEF CancelRefund, RentalStatus
  <2>3. CASE q.refund # 0
    <3> DEFINE new == IF q.refund >= Total THEN "REFUNDED" ELSE "PARTIALLY_REFUNDED"
               rows == Append(refunds[q.r], [amount |-> q.refund, status |-> "COMPLETED"])
    <3>1. payment' = [payment EXCEPT ![q.r] = new] /\ new # NoRow
      BY <2>1, <2>3 DEF CancelRefund, NoRow
    <3>2. refunds' = [refunds EXCEPT ![q.r] = rows]
      BY <2>1, <2>3 DEF CancelRefund
    <3>3. payment[q.r] # NoRow /\ q.r \in Rentals
      BY <1>0, <2>1, <2>3 DEF RequestOK
    <3>4. status' = [status EXCEPT ![q.r] = "CANCELLED"]
      BY <2>1 DEF SetStatus
    <3> HIDE DEF new, rows
    <3> QED
      BY <2>1, <3>1, <3>2, <3>3, <3>4, PaymentSettles DEF Done
  <2> QED
    BY <2>2, <2>3
<1>4. CASE FlagForReview(w)
  <2> DEFINE new == IF payment[q.r] \in {"PENDING", "PROCESSING"} THEN "PROCESSING"
                                                                   ELSE payment[q.r]
  <2>1. q.op = "found" /\ q.r \in Rentals /\ payment[q.r] # NoRow
    BY <1>0, <1>4 DEF FlagForReview, q, RequestOK
  <2>2. payment' = [payment EXCEPT ![q.r] = new] /\ new # NoRow
    BY <1>4, <2>1 DEF FlagForReview, q, NoRow
  <2>3. UNCHANGED <<status, refunds, paidAt>> /\ Done(w)
    BY <1>4 DEF FlagForReview
  <2>4. refunds' = [refunds EXCEPT ![q.r] = refunds[q.r]]
    BY <1>0, <2>1, <2>3
  <2> HIDE DEF new
  <2> QED
    BY <2>1, <2>2, <2>3, <2>4, PaymentSettles DEF Done
<1>5. CASE SettleLock(w)
  <2> DEFINE p == [op |-> "settle", r |-> q.r]
  <2>1. /\ q.op = "found" /\ PaymentFree(q.r)
        /\ status[q.r] = "AWAITING_PAYMENT"
        /\ req' = [req EXCEPT ![w] = p]
        /\ UNCHANGED <<status, payment, paidAt, refunds>>
    BY <1>5 DEF SettleLock, Continue, tables, money, q
  <2>2. p.op = "settle" /\ p.r = q.r
    OBVIOUS
  <2> HIDE DEF p
  <2>3. RequestOK(p)
    BY <1>0, <2>1, <2>2 DEF RequestOK, RentalOK
  <2>4. \A v \in Workers \ {w} : Apart(p, req[v]) /\ Apart(req[v], p)
    BY <2>1, <2>2 DEF Apart, PaymentFree
  <2> QED
    BY <2>1, <2>3, <2>4, TurnSettles
<1>6. CASE SettleSkip(w)
  BY <1>6, <1>d DEF SettleSkip, tables, money
<1>7. CASE SettleCommit(w)
  <2>1. /\ q.op = "settle"
        /\ payment' = [payment EXCEPT ![q.r] = "SUCCESS"]
        /\ paidAt' = [paidAt EXCEPT ![q.r] = TRUE]
        /\ status' = [status EXCEPT ![q.r] = "AWAITING_SIGNATURE"]
        /\ UNCHANGED refunds
        /\ req' = [req EXCEPT ![w] = Idle]
    BY <1>7 DEF SettleCommit, SetStatus, Done, q
  <2>2. q.r \in Rentals /\ payment[q.r] # NoRow
    BY <1>0, <2>1 DEF RequestOK
  <2>3. \A r \in Rentals : RentalOK(r)'
    BY <1>0, <2>1, <2>2 DEF SettleInv, RentalOK, Unpaid, NoRow
  <2>4. \A v \in Workers \ {w} : RequestOK(req[v])'
    <3> TAKE v \in Workers \ {w}
    <3>1. req'[v] = req[v] /\ RequestOK(req[v])
      BY <2>1, <1>i
    <3>2. req[v].op = "approve" => req[v].r \in Rentals /\ req[v].r # q.r
      BY <2>2, <3>1, <1>i DEF RequestOK, Unpaid
    <3>3. req[v].op = "settle" => req[v].r \in Rentals /\ req[v].r # q.r
      BY <2>1, <1>i DEF Apart
    <3>4. req[v].op \in {"cancel", "found", "refund"} => req[v].r \in Rentals
      BY <1>i
    <3>5. req[v].op = "approve" => Unpaid(req[v].r)' /\ status'[req[v].r] # "AWAITING_PAYMENT"
      BY <1>0, <2>1, <3>1, <3>2 DEF RequestOK, Unpaid
    <3>6. req[v].op = "settle" => ~paidAt'[req[v].r]
      BY <1>0, <2>1, <3>1, <3>3 DEF RequestOK
    <3>7. req[v].op \in {"found", "settle", "refund"} => payment'[req[v].r] # NoRow
      BY <1>0, <2>1, <3>1, <3>3, <3>4 DEF RequestOK, NoRow
    <3>8. req[v].op = "cancel" => (req[v].refund # 0 => payment'[req[v].r] # NoRow)
      BY <1>0, <2>1, <3>1, <3>4 DEF RequestOK, NoRow
    <3> QED
      BY <3>1, <3>5, <3>6, <3>7, <3>8 DEF RequestOK, Unpaid
  <2> QED
    BY <1>0, <2>1, <2>3, <2>4, WriteSettles
<1>8. CASE SignUpsert(w)
  <2> DEFINE p == [op |-> "signed", r |-> q.r]
  <2>1. Elsewhere(p)
    BY DEF Elsewhere
  <2>2. req' = [req EXCEPT ![w] = p] /\ UNCHANGED <<status, payment, paidAt, refunds>>
    BY <1>8 DEF SignUpsert, Continue, money, q
  <2> HIDE DEF p
  <2> QED
    BY <2>1, <2>2, TurnSettles, ElsewhereFits
<1>9. CASE SignCount(w)
  <2> DEFINE p == [op |-> "activate", r |-> q.r, bothSigned |-> signed[q.r] = Parties]
  <2>1. Elsewhere(p)
    BY DEF Elsewhere
  <2>2. req' = [req EXCEPT ![w] = p] /\ UNCHANGED <<status, payment, paidAt, refunds>>
    BY <1>9 DEF SignCount, Continue, tables, money, q
  <2> HIDE DEF p
  <2> QED
    BY <2>1, <2>2, TurnSettles, ElsewhereFits
<1>10. CASE SignCommit(w)
  <2>1. q.bothSigned \in BOOLEAN /\ q.op = "activate"
    BY <1>0, <1>10, OpTellsKind DEF SignCommit, ActivateRequest, q
  <2> QED
    BY <1>10, <1>s, <2>1 DEF SignCommit, RentalStatus, money, q
<1>11. CASE StartHandoverCommit(w)
  BY <1>11, <1>s DEF StartHandoverCommit, RentalStatus, money, q
<1>12. CASE ConfirmHandoverCommit(w)
  BY <1>12, <1>s DEF ConfirmHandoverCommit, RentalStatus, q
<1>13. CASE ConfirmHandoverConflict(w)
  BY <1>13, <1>d DEF ConfirmHandoverConflict, tables, money
<1>14. CASE RequestReturnCommit(w)
  BY <1>14, <1>s DEF RequestReturnCommit, RentalStatus, money, q
<1>15. CASE OverdueCommit(w)
  BY <1>15, <1>s DEF OverdueCommit, RentalStatus, money, q
<1>16. CASE RefundCommit(w)
  <2> DEFINE new == IF q.next = "COMPLETED" THEN q.outcome ELSE payment[q.r]
             rows == [refunds[q.r] EXCEPT ![q.i].status = q.next]
  <2>1. q.op = "refund" /\ q.r \in Rentals /\ payment[q.r] # NoRow
    BY <1>0, <1>16 DEF RefundCommit, q, RequestOK
  <2>2. new # NoRow
    BY <1>0, <2>1, OpTellsKind DEF RefundRequest, NoRow
  <2>3. payment' = [payment EXCEPT ![q.r] = new]
    BY <1>16 DEF RefundCommit, q
  <2>4. refunds' = [refunds EXCEPT ![q.r] = rows]
    BY <1>16 DEF RefundCommit, q
  <2>5. UNCHANGED <<status, paidAt>> /\ Done(w)
    BY <1>16 DEF RefundCommit
  <2> HIDE DEF new, rows
  <2> QED
    BY <2>1, <2>2, <2>3, <2>4, <2>5, PaymentSettles DEF Done
<1>17. CASE PayoutCommit(w)
  BY <1>17, <1>d DEF PayoutCommit
<1>18. CASE OpenDisputeCommit(w)
  BY <1>18, <1>s DEF OpenDisputeCommit, RentalStatus, q
<1>19. CASE TrackCommit(w)
  BY <1>19, <1>d DEF TrackCommit, money
<1>20. CASE CloseCommit(w)
  BY <1>20, <1>s DEF CloseCommit, RentalStatus, q
<1>21. CASE DisputeConflict(w)
  BY <1>21, <1>d DEF DisputeConflict, tables, money
<1> QED
  BY <1>1, <1>2, <1>3, <1>4, <1>5, <1>6, <1>7, <1>8, <1>9, <1>10, <1>11, <1>12,
     <1>13, <1>14, <1>15, <1>16, <1>17, <1>18, <1>19, <1>20, <1>21
     DEF Progress

\* Every step keeps the locks and what they protect.
LEMMA SettleStep == Inv /\ SettleInv /\ [Next]_vars => SettleInv'
<1> SUFFICES ASSUME Inv, SettleInv, [Next]_vars PROVE SettleInv'
  OBVIOUS
<1>1. CASE UNCHANGED vars
  BY <1>1 DEF vars, tables, money, SettleInv, RentalOK, RequestOK, Unpaid, Apart
<1>2. ASSUME NEW w \in Workers, Abort(w)
      PROVE  SettleInv'
  <2>1. Elsewhere(Idle)
    BY DEF Elsewhere, Idle
  <2> QED
    BY <1>2, <2>1, TurnSettles, ElsewhereFits DEF Abort, Done, tables, money, Inv
<1> QED
  BY <1>1, <1>2, ArrivalSettles, ProgressSettles DEF Next, Inv

\* No step resets the contract of a rental that has been paid, however often
\* and to however many workers its transfer is announced.
THEOREM Settlement == Spec => SettledOnce
<1> DEFINE kept(r) ==
             paidAt[r] => contract'[r] \in {contract[r], "ACTIVE", "CANCELLED"}
<1>1. Init => SettleInv
  BY DEF Init, SettleInv, RentalOK, RequestOK, Unpaid, Apart, Idle
<1>2. ASSUME Inv, NEW w \in Workers, NEW s \in Rentals, NEW r \in Rentals,
             Booking(w, s) \/ Paying(w, s) \/ Lending(w, s) \/ Finance(w, s)
                \/ Disputing(w, s)
      PROVE  kept(r)
  <2>1. contract' = contract
    BY <1>2
       DEF Booking, CreateRental, ApproveRead, DeclineRead, CancelRead,
           Paying, WindowElapses, OpenIntent, ExpireIntent, FindPayment,
           Lending, SignRead, StartHandoverRead, ConfirmHandoverRead,
           RequestReturnRead, OverdueRead,
           Finance, CreateRefund, RefundRead, PayoutRead,
           Disputing, OpenDisputeRead, RespondRead, AssignRead,
           AcceptDamageRead, UpdateDisputeRead, tables, agreement
  <2> QED
    BY <2>1
<1>3. ASSUME Inv, SettleInv, NEW w \in Workers, NEW r \in Rentals, Progress(w)
      PROVE  kept(r)
  <2>0. contract \in [Rentals -> ContractStatus \cup {NoRow}] /\ RequestOK(req[w])
    BY <1>3 DEF Inv, TypeOK, SettleInv
  <2>1. CASE SettleCommit(w)
    BY <2>0, <2>1 DEF SettleCommit, RequestOK
  <2>2. CASE CancelCommit(w)
    BY <2>0, <2>2 DEF CancelCommit
  <2>3. CASE SignCommit(w)
    BY <2>0, <2>3 DEF SignCommit
  <2>4. CASE ~(SettleCommit(w) \/ CancelCommit(w) \/ SignCommit(w))
    <3>1. contract' = contract
      BY <1>3, <2>4
         DEF Progress, ApproveCommit, DeclineCommit, FlagForReview, SettleLock,
             SettleSkip, SignUpsert, SignCount, StartHandoverCommit,
             ConfirmHandoverCommit, ConfirmHandoverConflict, RequestReturnCommit,
             OverdueCommit, RefundCommit, PayoutCommit, OpenDisputeCommit,
             TrackCommit, CloseCommit, DisputeConflict, tables, agreement
    <3> QED
      BY <3>1
  <2> QED
    BY <2>1, <2>2, <2>3, <2>4
<1>4. ASSUME NEW w \in Workers, NEW r \in Rentals, Abort(w)
      PROVE  kept(r)
  BY <1>4 DEF Abort, tables, agreement
<1>5. Inv /\ SettleInv /\ [Next]_vars => [\A r \in Rentals : kept(r)]_vars
  <2> HIDE DEF kept
  <2> QED
    BY <1>2, <1>3, <1>4 DEF Next
<1> QED
  BY <1>1, <1>5, SettleStep, Invariance, PTL DEF Spec, SettledOnce

----------------------------------------------------------------------------
(* The approval.  What it checked under the asset lock stays true until it *)
(* writes, because every other way to reserve the asset needs the lock.    *)
Checked(q) ==
    q.op = "approve" =>
        \A s \in Rentals \ (q.expired \cup {q.r}) :
            status[s] \in Reserved => ~Overlapping(q.r, s)

BookingInv ==
    /\ NoDoubleBooking
    /\ \A w \in Workers :
          /\ req[w].op \in {"idle", "approve", "decline", "cancel"}
          /\ Checked(req[w])
    /\ \A w, v \in Workers : w # v => Apart(req[w], req[v])

\* The calls that reserve and release assets are among those of the system.
LEMMA BookingIsNext == [BookingNext]_vars => [Next]_vars
  BY DEF BookingNext, Next, Progress, Paying

\* A step that reserves nothing, and whose request, if any, holds no lock.
LEMMA NothingReserved ==
    ASSUME BookingInv,
           \A v \in Workers :
              req'[v] = req[v] \/ req'[v].op \in {"idle", "decline", "cancel"},
           \A r \in Rentals : status'[r] \in Reserved => status[r] \in Reserved
    PROVE  BookingInv'
<1>1. \A v \in Workers :
         req'[v] = req[v] \/ req'[v].op \in {"idle", "decline", "cancel"}
  OBVIOUS
<1>2. NoDoubleBooking'
  BY DEF BookingInv, NoDoubleBooking, Overlapping
<1>3. \A v \in Workers : Checked(req[v])'
  <2> TAKE v \in Workers
  <2>1. Checked(req[v])
    BY DEF BookingInv
  <2> QED
    BY <1>1, <2>1 DEF Checked, Overlapping
<1>4. \A v \in Workers : req'[v].op \in {"idle", "approve", "decline", "cancel"}
  BY <1>1 DEF BookingInv
<1>5. \A u, v \in Workers : u # v => Apart(req[u], req[v])'
  <2> TAKE u, v \in Workers
  <2>1. u # v => Apart(req[u], req[v])
    BY DEF BookingInv
  <2>2. req[u].op # "settle" /\ req'[u].op # "settle"
    BY <1>1 DEF BookingInv
  <2> QED
    BY <1>1, <2>1, <2>2 DEF Apart
<1> QED
  BY <1>2, <1>3, <1>4, <1>5 DEF BookingInv

\* Every step keeps what an approval has checked, and no asset booked twice.
LEMMA BookingStep == TypeOK /\ BookingInv /\ [BookingNext]_vars => BookingInv'
<1> SUFFICES ASSUME TypeOK, BookingInv, [BookingNext]_vars PROVE BookingInv'
  OBVIOUS
<1>0. /\ status \in [Rentals -> RentalStatus \cup {NoRow}]
      /\ req \in [Workers -> Requests]
      /\ Idle.op = "idle"
  BY DEF TypeOK, Idle
<1>1. CASE UNCHANGED vars
  BY <1>1 DEF vars, tables, BookingInv, NoDoubleBooking, Checked, Apart, Overlapping
<1>2. ASSUME NEW w \in Workers, ApproveCommit(w)
      PROVE  BookingInv'
  <2> DEFINE q == req[w]
  <2>1. /\ q.op = "approve"
        /\ status' = [r \in Rentals |->
                        IF r = q.r THEN "AWAITING_PAYMENT"
                        ELSE IF r \in q.expired THEN "EXPIRED" ELSE status[r]]
        /\ req' = [req EXCEPT ![w] = Idle]
    BY <1>2 DEF ApproveCommit, Done
  <2>2. q.r \in Rentals /\ Checked(q)
    BY <1>0, <2>1, RequestTarget DEF BookingInv
  <2> HIDE DEF q
  <2>3. \A r \in Rentals \ {q.r} :
           status'[r] \in Reserved => status[r] \in Reserved /\ r \notin q.expired
    BY <2>1 DEF Reserved
  <2>4. \A r \in Rentals \ {q.r} :
           status'[r] \in Reserved => ~Overlapping(q.r, r) /\ ~Overlapping(r, q.r)
    <3> TAKE r \in Rentals \ {q.r}
    <3>1. StartAt[r] \in Nat /\ EndAt[r] \in Nat /\ StartAt[q.r] \in Nat /\ EndAt[q.r] \in Nat
      BY <2>2, PeriodAssumption
    <3>2. status'[r] \in Reserved => ~Overlapping(q.r, r)
      BY <2>1, <2>2, <2>3 DEF Checked
    <3> QED
      BY <3>1, <3>2 DEF Overlapping
  <2>5. NoDoubleBooking'
    <3> SUFFICES ASSUME NEW r \in Rentals, NEW s \in Rentals, r # s,
                        status'[r] \in Reserved, status'[s] \in Reserved
                 PROVE  ~Overlapping(r, s)
      BY DEF NoDoubleBooking, Overlapping
    <3>1. CASE r = q.r \/ s = q.r
      BY <2>4, <3>1
    <3>2. CASE r # q.r /\ s # q.r
      BY <2>3, <3>2 DEF BookingInv, NoDoubleBooking
    <3> QED
      BY <3>1, <3>2
  <2>6. \A v \in Workers \ {w} : Checked(req[v])'
    <3> SUFFICES ASSUME NEW v \in Workers \ {w}, req[v].op = "approve",
                        NEW s \in Rentals \ (req[v].expired \cup {req[v].r}),
                        status'[s] \in Reserved
                 PROVE  ~Overlapping(req[v].r, s)
      BY <1>0, <2>1 DEF Checked, Overlapping
    <3>1. AssetOf[req[v].r] # AssetOf[q.r]
      BY <2>1 DEF BookingInv, Apart, q
    <3>2. CASE s = q.r
      BY <3>1, <3>2 DEF Overlapping
    <3>3. CASE s # q.r
      BY <2>3, <3>3 DEF BookingInv, Checked
    <3> QED
      BY <3>2, <3>3
  <2>7. req'[w] = Idle /\ \A v \in Workers \ {w} : req'[v] = req[v]
    BY <1>0, <2>1
  <2>8. \A v \in Workers :
           req'[v].op \in {"idle", "approve", "decline", "cancel"} /\ Checked(req[v])'
    BY <1>0, <2>6, <2>7 DEF BookingInv, Checked
  <2>9. \A u, v \in Workers : u # v => Apart(req[u], req[v])'
    BY <1>0, <2>7 DEF BookingInv, Apart
  <2> QED
    BY <2>5, <2>8, <2>9 DEF BookingInv
<1>3. ASSUME NEW w \in Workers, NEW s \in Rentals, ApproveRead(w, s)
      PROVE  BookingInv'
  <2> DEFINE q == [op |-> "approve", r |-> s, expired |-> Lapsed(AssetOf[s])]
  <2>1. /\ AssetFree(AssetOf[s])
        /\ \A p \in Rentals \ (q.expired \cup {s}) :
              status[p] \in Reserved => ~Overlapping(s, p)
        /\ req' = [req EXCEPT ![w] = q]
        /\ status' = status
    BY <1>3 DEF ApproveRead, Begin, tables, Approvable
  <2>2. q.op = "approve" /\ q.r = s
    OBVIOUS
  <2> HIDE DEF q
  <2>3. req'[w] = q /\ \A v \in Workers \ {w} : req'[v] = req[v]
    BY <1>0, <2>1
  <2>4. NoDoubleBooking'
    BY <2>1 DEF BookingInv, NoDoubleBooking, Overlapping
  <2>5. \A v \in Workers : Checked(req[v])'
    BY <2>1, <2>2, <2>3 DEF BookingInv, Checked, Overlapping
  <2>6. \A v \in Workers : req'[v].op \in {"idle", "approve", "decline", "cancel"}
    BY <2>2, <2>3 DEF BookingInv
  <2>7. \A u, v \in Workers : u # v => Apart(req[u], req[v])'
    BY <2>1, <2>2, <2>3 DEF BookingInv, Apart, AssetFree
  <2> QED
    BY <2>4, <2>5, <2>6, <2>7 DEF BookingInv
<1>4. ASSUME NEW w \in Workers, DeclineCommit(w) \/ CancelCommit(w) \/ Abort(w)
      PROVE  BookingInv'
  <2>1. req' = [req EXCEPT ![w] = Idle]
    BY <1>4 DEF DeclineCommit, CancelCommit, Abort, Done
  <2>2. \/ status' = status
        \/ status' = [status EXCEPT ![req[w].r] = "DECLINED"]
        \/ status' = [status EXCEPT ![req[w].r] = "CANCELLED"]
    BY <1>4 DEF DeclineCommit, CancelCommit, Abort, SetStatus, tables
  <2>3. \A r \in Rentals : status'[r] \in Reserved => status[r] \in Reserved
    BY <1>0, <2>2 DEF Reserved
  <2>4. \A v \in Workers :
           req'[v] = req[v] \/ req'[v].op \in {"idle", "decline", "cancel"}
    BY <1>0, <2>1
  <2> QED
    BY <2>3, <2>4, NothingReserved
<1>5. ASSUME NEW w \in Workers, NEW s \in Rentals,
             CreateRental(w, s) \/ WindowElapses(s) \/ OpenIntent(w, s)
                \/ ExpireIntent(w, s)
      PROVE  BookingInv'
  <2>1. req' = req
    BY <1>5 DEF CreateRental, WindowElapses, OpenIntent, ExpireIntent, AtOnce
  <2>2. \/ status' = status
        \/ status' = [status EXCEPT ![s] = "PENDING_OWNER"]
        \/ status' = [status EXCEPT ![s] = "EXPIRED"]
    BY <1>5 DEF CreateRental, WindowElapses, OpenIntent, ExpireIntent, SetStatus
  <2>3. \A r \in Rentals : status'[r] \in Reserved => status[r] \in Reserved
    BY <1>0, <2>2 DEF Reserved
  <2> QED
    BY <2>1, <2>3, NothingReserved
<1>6. ASSUME NEW w \in Workers, NEW s \in Rentals, DeclineRead(w, s) \/ CancelRead(w, s)
      PROVE  BookingInv'
  <2>1. PICK q : q.op \in {"decline", "cancel"} /\ Begin(w, q)
    <3>1. CASE DeclineRead(w, s)
      <4> DEFINE d == [op |-> "decline", r |-> s]
      <4>1. d.op = "decline" /\ Begin(w, d)
        BY <3>1 DEF DeclineRead
      <4> QED
        BY <4>1
    <3>2. CASE CancelRead(w, s)
      <4>1. PICK outcome \in CancellationOutcomes(s) :
              Begin(w, [op |-> "cancel", r |-> s,
                        refund |-> outcome.refund, payout |-> outcome.payout,
                        hasPayout |-> payout[s] # NoRow,
                        hasContract |-> contract[s] # NoRow])
        BY <3>2 DEF CancelRead
      <4> DEFINE c == [op |-> "cancel", r |-> s,
                       refund |-> outcome.refund, payout |-> outcome.payout,
                       hasPayout |-> payout[s] # NoRow,
                       hasContract |-> contract[s] # NoRow]
      <4>2. c.op = "cancel" /\ Begin(w, c)
        BY <4>1
      <4> QED
        BY <4>2
    <3> QED
      BY <1>6, <3>1, <3>2
  <2>2. status' = status
    BY <1>6 DEF DeclineRead, CancelRead, tables
  <2>3. \A v \in Workers :
           req'[v] = req[v] \/ req'[v].op \in {"idle", "decline", "cancel"}
    BY <1>0, <2>1 DEF Begin
  <2>4. \A r \in Rentals : status'[r] \in Reserved => status[r] \in Reserved
    BY <2>2
  <2> QED
    BY <2>3, <2>4, NothingReserved
<1> QED
  BY <1>1, <1>2, <1>3, <1>4, <1>5, <1>6 DEF BookingNext, Booking

\* Two rentals never hold one asset for overlapping periods, as long as only
\* the calls that book, approve, decline, cancel and expire are made: all of
\* them that reserve an asset check the others under its lock.
THEOREM Reservation == BookingSpec => []NoDoubleBooking
<1>1. Init => BookingInv
  BY DEF Init, BookingInv, NoDoubleBooking, Checked, Apart, Idle, NoRow, Reserved
<1>2. Inv => TypeOK
  BY DEF Inv
<1>3. BookingInv => NoDoubleBooking
  BY DEF BookingInv
<1>4. Inv /\ BookingInv /\ [BookingNext]_vars => Inv' /\ BookingInv'
  BY <1>2, BookingIsNext, BookingStep, NextInv
<1>5. Init => Inv
  BY InitInv
<1> QED
  BY <1>1, <1>3, <1>4, <1>5, PTL DEF BookingSpec

============================================================================
