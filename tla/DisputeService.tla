--------------------------- MODULE DisputeService --------------------------
(***************************************************************************)
(* Disputes: disputes.service.ts, and the two ways rentals.service.ts      *)
(* opens one.  A partial unique index admits one active dispute per rental *)
(* and aborts any transaction that would make a second one active.         *)
(***************************************************************************)
EXTENDS RentalStore

\* wrong variant: the unique index is missing
NoIndex(r, i, new) == TRUE

IndexAdmits(r, i, new) ==
    new \in ActiveDispute => ActiveDisputes(r) \subseteq {i}

(* reportIssue, markAssetNotReturned and disputes.create: who may open a   *)
(* dispute, from which status, with which first status.  disputes.create   *)
(* takes any rental and any reason, RETURN_ISSUE included.                 *)
Openings(r) ==
    {[damage |-> d, first |-> "OPEN"] : d \in BOOLEAN}
    \cup (IF status[r] = "RETURN_PENDING"
          THEN {[damage |-> TRUE, first |-> "WAITING_RESPONSE"]} ELSE {})

OpenDisputeRead(w, r) ==
    /\ status[r] # NoRow
    /\ Len(disputes[r]) < MaxDisputes
    /\ ActiveDisputes(r) = {}
    /\ \E opening \in Openings(r) :
          Begin(w, [op |-> "open", r |-> r, damage |-> opening.damage,
                    first |-> opening.first,
                    hasPayout |-> payout[r] # NoRow])
    /\ UNCHANGED tables

\* wrong variant: the payout is not blocked
OpenDisputeKeepingPayout(w) ==
    LET q == req[w]
    IN  /\ q.op = "open"
        /\ IndexAdmits(q.r, 0, q.first)
        /\ disputes' = [disputes EXCEPT ![q.r] =
                          Append(@, [status |-> q.first, damage |-> q.damage])]
        /\ SetStatus(q.r, "DISPUTED")
        /\ Done(w)
        /\ UNCHANGED <<money, agreement, handovers>>

OpenDisputeCommit(w) ==
    LET q == req[w]
    IN  /\ q.op = "open"
        /\ IndexAdmits(q.r, 0, q.first)
        /\ disputes' = [disputes EXCEPT ![q.r] =
                          Append(@, [status |-> q.first, damage |-> q.damage])]
        /\ payout' = [payout EXCEPT ![q.r] = IF q.hasPayout THEN "BLOCKED" ELSE @]
        /\ SetStatus(q.r, "DISPUTED")
        /\ Done(w)
        /\ UNCHANGED <<payment, paidAt, refunds, agreement, handovers>>

----------------------------------------------------------------------------
(* The handlers of one dispute.  next is computed from the status read.    *)
NotClosed(r) ==
    {i \in 1 .. Len(disputes[r]) : disputes[r][i].status \notin TerminalDispute}

RespondRead(w, r) ==
    /\ \E i \in NotClosed(r) :
          Begin(w, [op |-> "respond", r |-> r, i |-> i,
                    next |-> IF disputes[r][i].status = "OPEN"
                             THEN "WAITING_RESPONSE" ELSE "UNDER_REVIEW"])
    /\ UNCHANGED tables

\* wrong variant: every assignment puts the dispute under review
AssignReopening(w, r) ==
    /\ \E i \in 1 .. Len(disputes[r]) :
          Begin(w, [op |-> "assign", r |-> r, i |-> i,
                    next |-> "UNDER_REVIEW"])
    /\ UNCHANGED tables

AssignRead(w, r) ==
    /\ \E i \in 1 .. Len(disputes[r]) :
          Begin(w, [op |-> "assign", r |-> r, i |-> i,
                    next |-> IF disputes[r][i].status \in {"OPEN", "WAITING_RESPONSE"}
                             THEN "UNDER_REVIEW" ELSE disputes[r][i].status])
    /\ UNCHANGED tables

\* respond and assign write the dispute only
TrackCommit(w) ==
    LET q == req[w]
    IN  /\ q.op \in {"respond", "assign"}
        /\ IndexAdmits(q.r, q.i, q.next)
        /\ disputes' = [disputes EXCEPT ![q.r][q.i].status = q.next]
        /\ Done(w)
        /\ UNCHANGED <<status, elapsed, money, agreement, handovers>>

Claims(r) == {i \in NotClosed(r) : disputes[r][i].damage}

AcceptDamageRead(w, r) ==
    /\ \E i \in Claims(r) :
          Begin(w, [op |-> "close", r |-> r, i |-> i, next |-> "CLOSED",
                    completes |-> TRUE, restores |-> payout[r] = "BLOCKED"])
    /\ UNCHANGED tables

AllowedTransitions(current) ==
    CASE current = "OPEN"             -> DisputeStatus \ {"OPEN"}
      [] current = "WAITING_RESPONSE" -> {"UNDER_REVIEW"} \cup TerminalDispute
      [] current = "UNDER_REVIEW"     -> {"WAITING_RESPONSE"} \cup TerminalDispute
      [] OTHER                        -> {}

(* updateStatus: a closed dispute completes the rental when the return has *)
(* been confirmed; every other change leaves the rental disputed.          *)
\* wrong variant: any change completes a rental that has been returned
UpdateDisputeCompleting(w, r) ==
    /\ \E i \in 1 .. Len(disputes[r]) :
       \E next \in AllowedTransitions(disputes[r][i].status) :
          LET completes == Handed(r, "RETURN")
          IN  Begin(w, [op |-> "close", r |-> r, i |-> i, next |-> next,
                        completes |-> completes,
                        restores |-> completes /\ payout[r] = "BLOCKED"])
    /\ UNCHANGED tables

UpdateDisputeRead(w, r) ==
    /\ \E i \in 1 .. Len(disputes[r]) :
       \E next \in AllowedTransitions(disputes[r][i].status) :
          LET completes == next \in TerminalDispute /\ Handed(r, "RETURN")
          IN  Begin(w, [op |-> "close", r |-> r, i |-> i, next |-> next,
                        completes |-> completes,
                        restores |-> completes /\ payout[r] = "BLOCKED"])
    /\ UNCHANGED tables

\* acceptDamageReport and updateStatus write the rental and the payout too
CloseCommit(w) ==
    LET q == req[w]
    IN  /\ q.op = "close"
        /\ IndexAdmits(q.r, q.i, q.next)
        /\ disputes' = [disputes EXCEPT ![q.r][q.i].status = q.next]
        /\ SetStatus(q.r, IF q.completes THEN "COMPLETED" ELSE "DISPUTED")
        /\ payout' = [payout EXCEPT ![q.r] = IF q.restores THEN "PENDING" ELSE @]
        /\ Done(w)
        /\ UNCHANGED <<payment, paidAt, refunds, agreement, handovers>>

\* the unique index aborts the transaction
DisputeConflict(w) ==
    LET q == req[w]
    IN  /\ \/ q.op = "open" /\ ~IndexAdmits(q.r, 0, q.first)
           \/ /\ q.op \in {"respond", "assign", "close"}
              /\ ~IndexAdmits(q.r, q.i, q.next)
        /\ Done(w)
        /\ UNCHANGED tables

============================================================================
