--------------------------- MODULE SupportService --------------------------
(***************************************************************************)
(* support.service.ts: the tickets of the help desk.  A change of status   *)
(* and its event are one statement; an assignment writes back the status   *)
(* it read, unless that was OPEN.                                          *)
(***************************************************************************)
EXTENDS Api

CONSTANTS
    Tickets,    \* ids of the tickets that may be opened
    MaxEvents   \* bound: events of a ticket

VARIABLES
    tickets,    \* support_tickets, NoTicket before the row is created
    history     \* support_ticket_events of each ticket, oldest first

supportVars == <<tickets, history>>

SupportTicketStatus ==
    {"OPEN", "IN_PROGRESS", "WAITING_USER", "RESOLVED", "CLOSED"}
ResolvedSupport == {"RESOLVED", "CLOSED"}

NoTicket == [status |-> NoRow]

SupportInit ==
    /\ tickets = [k \in Tickets |-> NoTicket]
    /\ history = [k \in Tickets |-> <<>>]

\* a requester may link a rental, a dispute and a report of their own
CreateTicket(w, k) ==
    /\ AtOnce(w)
    /\ tickets[k] = NoTicket
    /\ tickets' = [tickets EXCEPT ![k] = [status |-> "OPEN", resolved |-> FALSE]]
    /\ history' = [history EXCEPT ![k] = <<[type |-> "CREATED"]>>]

\* findAccessibleTicket: what assign and updateStatus read
TicketRead(w, k) ==
    /\ tickets[k] # NoTicket
    /\ Len(history[k]) < MaxEvents
    /\ \E op \in {"assignTicket", "ticketStatus"} :
          Begin(w, [op |-> op, k |-> k, before |-> tickets[k].status])
    /\ UNCHANGED supportVars

Logged(k, event) == history' = [history EXCEPT ![k] = Append(@, event)]

AssignTicket(w) ==
    LET q == req[w]
    IN  /\ q.op = "assignTicket"
        /\ tickets' = [tickets EXCEPT ![q.k].status =
                         IF q.before = "OPEN" THEN "IN_PROGRESS" ELSE q.before]
        /\ Logged(q.k, [type |-> "ASSIGNED"])
        /\ Done(w)

\* wrong variant: the time of resolution is set only once, and stays
TicketKeepsTime(w) ==
    LET q == req[w]
    IN  /\ q.op = "ticketStatus"
        /\ \E to \in SupportTicketStatus :
              /\ tickets' = [tickets EXCEPT ![q.k] =
                    [status |-> to, resolved |-> @.resolved \/ to \in ResolvedSupport]]
              /\ Logged(q.k, [type |-> "STATUS_CHANGED", from |-> q.before, to |-> to])
        /\ Done(w)

\* any status may follow any other
UpdateTicketStatus(w) ==
    LET q == req[w]
    IN  /\ q.op = "ticketStatus"
        /\ \E to \in SupportTicketStatus :
              /\ tickets' = [tickets EXCEPT ![q.k] =
                    [status |-> to, resolved |-> to \in ResolvedSupport]]
              /\ Logged(q.k, [type |-> "STATUS_CHANGED", from |-> q.before, to |-> to])
        /\ Done(w)

AddNote(w, k) ==
    /\ AtOnce(w)
    /\ tickets[k] # NoTicket
    /\ Len(history[k]) < MaxEvents
    /\ Logged(k, [type |-> "NOTE"])
    /\ UNCHANGED tickets

SupportCall(w, k) == CreateTicket(w, k) \/ TicketRead(w, k) \/ AddNote(w, k)

SupportProgress(w) == AssignTicket(w) \/ UpdateTicketStatus(w)

SupportNext ==
    \E w \in Workers :
        SupportProgress(w) \/ \E k \in Tickets : SupportCall(w, k)

SupportSpec ==
    /\ SupportInit
    /\ req = [w \in Workers |-> Idle]
    /\ [][SupportNext]_<<supportVars, req>>

----------------------------------------------------------------------------
\* A change of status whose event was logged is not lost: the ticket has the
\* status its last change says, unless an assignment came after it, which may
\* write back what it had read; and its time of resolution is set just when
\* that last change resolved it, however often it was reopened.
LastChange(k) ==
    LET changes == {i \in DOMAIN history[k] : history[k][i].type = "STATUS_CHANGED"}
    IN  IF changes = {} THEN 0 ELSE Max(changes)

TicketFollowsHistory ==
    \A k \in Tickets : LET i == LastChange(k) IN
        i # 0 =>
            /\ tickets[k].resolved = (history[k][i].to \in ResolvedSupport)
            /\ \/ tickets[k].status = history[k][i].to
               \/ \E j \in i + 1 .. Len(history[k]) : history[k][j].type = "ASSIGNED"

============================================================================
