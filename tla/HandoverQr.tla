----------------------------- MODULE HandoverQr ----------------------------
(***************************************************************************)
(* QR confirmation of a handover, rentals.service.ts: the owner shows a    *)
(* code that lives a minute, the renter's scan claims it, confirms the     *)
(* session with what it read before the claim, and gives the code back     *)
(* when that fails.  Three statements, no transaction around them.         *)
(***************************************************************************)
EXTENDS RentalService

CONSTANT MaxCodes   \* bound: codes generated for a rental

VARIABLES
    codes,      \* handover_qr_sessions of each rental, oldest first
    stranded    \* history: rentals with a claim whose request was cut off

qrVars == <<codes, stranded>>

QrInit ==
    /\ codes = [r \in Rentals |-> <<>>]
    /\ stranded = {}

\* generateHandoverQr: the owner's check, then the two statements
GenerateRead(w, r) ==
    /\ Len(codes[r]) < MaxCodes
    /\ \E i \in 1 .. Len(handovers[r]) :
          /\ handovers[r][i].status = "PENDING"
          /\ Begin(w, [op |-> "retire", r |-> r, i |-> i])
    /\ UNCHANGED <<tables, qrVars>>

GenerateRetire(w) ==
    LET q == req[w]
    IN  /\ q.op = "retire"
        /\ codes' = [codes EXCEPT ![q.r] =
                       [c \in DOMAIN @ |->
                          IF @[c].session = q.i /\ ~@[c].used
                          THEN [@[c] EXCEPT !.live = FALSE] ELSE @[c]]]
        /\ Continue(w, [q EXCEPT !.op = "generate"])
        /\ UNCHANGED <<tables, stranded>>

GenerateCreate(w) ==
    LET q == req[w]
    IN  /\ q.op = "generate"
        /\ codes' = [codes EXCEPT ![q.r] =
                       Append(@, [session |-> q.i, live |-> TRUE, used |-> FALSE])]
        /\ Done(w)
        /\ UNCHANGED <<tables, stranded>>

\* sixty seconds are over
CodeExpires(r) ==
    /\ \E c \in DOMAIN codes[r] :
          /\ codes[r][c].live
          /\ codes' = [codes EXCEPT ![r][c].live = FALSE]
    /\ UNCHANGED <<tables, stranded, req>>

----------------------------------------------------------------------------
\* confirmHandoverByQr reads the code with its session and its rental
ScanRead(w, r) ==
    /\ \E c \in DOMAIN codes[r] :
          /\ codes[r][c].live
          /\ ~codes[r][c].used
          /\ LET i == codes[r][c].session
             IN  Begin(w, [op |-> "claim", r |-> r, c |-> c, i |-> i,
                           type |-> handovers[r][i].type, status |-> status[r],
                           hasPayout |-> payout[r] # NoRow])
    /\ UNCHANGED <<tables, qrVars>>

\* the conditional update: one scan gets the code
ScanClaim(w) ==
    LET q == req[w]
    IN  /\ q.op = "claim"
        /\ codes[q.r][q.c].live
        /\ ~codes[q.r][q.c].used
        /\ codes' = [codes EXCEPT ![q.r][q.c].used = TRUE]
        /\ Continue(w, [q EXCEPT !.op = "scan"])
        /\ UNCHANGED <<tables, stranded>>

ScanTooLate(w) ==
    LET q == req[w]
    IN  /\ q.op = "claim"
        /\ codes[q.r][q.c].used \/ ~codes[q.r][q.c].live
        /\ Done(w)
        /\ UNCHANGED <<tables, qrVars>>

\* finalizeHandoverConfirmation, on the status and the session read before
ScanConfirm(w) ==
    LET q == req[w]
    IN  /\ q.op = "scan"
        /\ q.status = MayConfirm(q.type)
        /\ handovers[q.r][q.i].status = "PENDING"
        /\ handovers' = [handovers EXCEPT ![q.r][q.i].status = "CONFIRMED"]
        /\ payout' = [payout EXCEPT ![q.r] =
                        IF q.type = "RETURN" /\ q.hasPayout THEN "PENDING" ELSE @]
        /\ SetStatus(q.r, IF q.type = "DELIVERY" THEN "ONGOING" ELSE "COMPLETED")
        /\ Done(w)
        /\ UNCHANGED <<payment, paidAt, refunds, agreement, disputes, qrVars>>

\* wrong variant: the code stays used although nothing was confirmed
ScanKeepsCode(w) ==
    /\ req[w].op = "scan"
    /\ \/ req[w].status # MayConfirm(req[w].type)
       \/ handovers[req[w].r][req[w].i].status # "PENDING"
    /\ Done(w)
    /\ UNCHANGED <<tables, qrVars>>

\* the confirmation throws, and the handler makes the code usable again
ScanRelease(w) ==
    LET q == req[w]
    IN  /\ q.op = "scan"
        /\ \/ q.status # MayConfirm(q.type)
           \/ handovers[q.r][q.i].status # "PENDING"
        /\ codes' = [codes EXCEPT ![q.r][q.c].used = FALSE]
        /\ Done(w)
        /\ UNCHANGED <<tables, stranded>>

\* the process stops between two statements; a claim already made stays
ScanAbort(w) ==
    /\ req[w] # Idle
    /\ stranded' = stranded \cup {r \in Rentals : req[w].op = "scan" /\ req[w].r = r}
    /\ Done(w)
    /\ UNCHANGED <<tables, codes>>

----------------------------------------------------------------------------
QrNext ==
    \E w \in Workers :
        \/ GenerateRetire(w) \/ GenerateCreate(w)
        \/ ScanClaim(w) \/ ScanTooLate(w) \/ ScanConfirm(w) \/ ScanRelease(w)
        \/ ScanAbort(w)
        \/ /\ \/ StartHandoverCommit(w)
              \/ ConfirmHandoverCommit(w)
              \/ ConfirmHandoverConflict(w)
              \/ RequestReturnCommit(w)
              \/ \E r \in Rentals : StartHandoverRead(w, r)
                                    \/ ConfirmHandoverRead(w, r)
                                    \/ RequestReturnRead(w, r)
           /\ UNCHANGED qrVars
        \/ \E r \in Rentals :
              GenerateRead(w, r) \/ ScanRead(w, r) \/ CodeExpires(r)

\* no code was generated yet, for whatever sessions there are
QrSpec ==
    /\ status \in [Rentals -> RentalStatus \cup {NoRow}]
    /\ handovers \in [Rentals -> Seq(Handover)]
    /\ QrInit
    /\ req = [w \in Workers |-> Idle]
    /\ [][QrNext]_<<tables, qrVars, req>>

\* At rest, and unless a process stopped between a claim and its confirmation,
\* a used code stands for a confirmed session, and each session was confirmed
\* by one code at most: a failed scan, a button pressed meanwhile or a second
\* code of the same session leaves no code spent for nothing.
Spent(r, i) ==
    {c \in DOMAIN codes[r] : codes[r][c].used /\ codes[r][c].session = i}

CodeSpentOnce ==
    \A r \in Rentals \ stranded :
        (\A w \in Workers : req[w].op # "scan") =>
            \A i \in DOMAIN handovers[r] :
                /\ Cardinality(Spent(r, i)) <= 1
                /\ Spent(r, i) # {} => handovers[r][i].status = "CONFIRMED"

============================================================================
