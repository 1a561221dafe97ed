---------------------------- MODULE ReminderJobs ---------------------------
(***************************************************************************)
(* notifications.service.ts: the reminder job an administrator starts,     *)
(* for one rental.  The caller may give a reference date, any date: the    *)
(* queries go by it, and each recipient's reminder is looked for among     *)
(* those made since 24 hours before it, then inserted by a second          *)
(* statement, with the time of the clock.  The job's five loops differ in  *)
(* their query; here are the one that writes to the chat and the one with  *)
(* varying recipients.  The overdue one is in Marketplace.                  *)
(***************************************************************************)
EXTENDS Api

CONSTANTS
    Recipients, \* the rental's owner and renter
    Window,     \* 24 hours, in ticks of the clock
    StartsAt,   \* the tick at which the rental is to start
    MaxClock    \* bound: ticks of the clock

\* a rental completed within the bound is no older than the week the review
\* query looks back
ASSUME ReminderAssumption ==
    /\ Window \in Nat \ {0} /\ StartsAt \in Nat
    /\ MaxClock \in Nat /\ MaxClock <= 7 * Window

VARIABLES
    due,        \* the type of reminder the job's queries find the rental for
    now,        \* the clock
    reminded,   \* when each recipient got the last reminder of each type, if any:
                \* the time that tells whether there is one since some time
    reviewed,   \* when each recipient was told of a review, if one was
    line,       \* when the chat got its last line, if it got one
    company     \* history: workers whose job, now or last, overlapped another

reminderVars == <<due, now, reminded, reviewed, line, company>>

ReminderType == {"RENTAL_TOMORROW", "REVIEW_REMINDER"}

Clock == 0 .. MaxClock

ReminderInit ==
    /\ due = "RENTAL_TOMORROW"
    /\ now = 0
    /\ reminded = [u \in Recipients |-> [type \in ReminderType |-> {}]]
    /\ reviewed = [u \in Recipients |-> {}]
    /\ line = {}
    /\ company = {}

\* the rental goes on, from its start to the reviews
RentalGoesOn ==
    /\ due = "RENTAL_TOMORROW"
    /\ due' = "REVIEW_REMINDER"
    /\ UNCHANGED <<now, reminded, reviewed, line, company, req>>

ClockTicks ==
    /\ now < MaxClock
    /\ now' = now + 1
    /\ UNCHANGED <<due, reminded, reviewed, line, company, req>>

\* a review was received: the same type and reference as the reminder to
\* write one; there is one review of each party
ReviewReceived(w, u) ==
    /\ AtOnce(w)
    /\ due = "REVIEW_REMINDER"
    /\ reviewed[u] = {}
    /\ reviewed' = [reviewed EXCEPT ![u] = {now}]
    /\ UNCHANGED <<due, now, reminded, line, company>>

Reminding(w) == req[w].op \in {"remind", "remindCreate", "announce"}

\* whom the queries for this reference date find: both parties of a rental that
\* starts within 24 hours of it, those who are still to write a review
DueBy(reference) ==
    IF due = "REVIEW_REMINDER" THEN (SUBSET Recipients) \ {{}}
    ELSE {to \in {Recipients} : StartsAt \in reference .. reference + Window - 1}

RunReminderJobs(w) ==
    /\ \E reference \in Clock : \E to \in DueBy(reference) :
          Begin(w, [op |-> "remind", type |-> due, since |-> reference - Window,
                    left |-> to, made |-> FALSE])
    /\ LET others == {v \in Workers : Reminding(v)}
       IN  company' = IF others = {} THEN company \ {w}
                                     ELSE company \cup others \cup {w}
    /\ UNCHANGED <<due, now, reminded, reviewed, line>>

\* wrong variant: a reminder is never a duplicate
NeverDuplicate(u, type, since) == FALSE

Duplicate(u, type, since) ==
    \/ \E t \in reminded[u][type] : t >= since
    \/ type = "REVIEW_REMINDER" /\ \E t \in reviewed[u] : t >= since

\* createManyUnique, one recipient after the other
SkipRecipient(w, u) ==
    /\ req[w].op = "remind"
    /\ u \in req[w].left
    /\ Duplicate(u, req[w].type, req[w].since)
    /\ Continue(w, [req[w] EXCEPT !.left = @ \ {u}])
    /\ UNCHANGED reminderVars

NoNoticeYet(w, u) ==
    LET q == req[w]
    IN  /\ q.op = "remind"
        /\ u \in q.left
        /\ ~Duplicate(u, q.type, q.since)
        /\ Continue(w, [op |-> "remindCreate", type |-> q.type, since |-> q.since,
                        u |-> u, left |-> q.left \ {u}, made |-> q.made])
        /\ UNCHANGED reminderVars

CreateReminder(w) ==
    LET q == req[w]
    IN  /\ q.op = "remindCreate"
        /\ reminded' = [reminded EXCEPT ![q.u][q.type] = {now}]
        /\ Continue(w, [op |-> "remind", type |-> q.type, since |-> q.since,
                        left |-> q.left, made |-> TRUE])
        /\ UNCHANGED <<due, now, reviewed, line, company>>

\* whether the chat gets a line
SomeReminded(w) == req[w].made

RecipientsDone(w) ==
    /\ req[w].op = "remind"
    /\ req[w].left = {}
    /\ IF req[w].type = "RENTAL_TOMORROW" /\ SomeReminded(w)
       THEN Continue(w, [op |-> "announce", since |-> req[w].since])
       ELSE Done(w)
    /\ UNCHANGED reminderVars

\* appendSystemMessageForRental finds the line there, or inserts it
Announce(w) ==
    /\ req[w].op = "announce"
    /\ line' = IF \E t \in line : t >= req[w].since THEN line ELSE {now}
    /\ Done(w)
    /\ UNCHANGED <<due, now, reminded, reviewed, company>>

ReminderAbort(w) ==
    /\ Reminding(w)
    /\ Done(w)
    /\ UNCHANGED reminderVars

ReminderCall(w) ==
    \/ RentalGoesOn \/ ClockTicks
    \/ RunReminderJobs(w)
    \/ \E u \in Recipients : ReviewReceived(w, u)

ReminderProgress(w) ==
    \/ \E u \in Recipients : SkipRecipient(w, u) \/ NoNoticeYet(w, u)
    \/ CreateReminder(w) \/ RecipientsDone(w) \/ Announce(w) \/ ReminderAbort(w)

ReminderNext == \E w \in Workers : ReminderCall(w) \/ ReminderProgress(w)

ReminderSpec ==
    /\ ReminderInit
    /\ req = [w \in Workers |-> Idle]
    /\ [][ReminderNext]_<<reminderVars, req>>

----------------------------------------------------------------------------
\* A job beside which no other was at work reminds nobody of what the recipient
\* was reminded of within the time it looks back, whoever made that reminder,
\* wherever an earlier job was cut off and whatever reference dates were given.
\* Two things are not promised, for the code does not keep them: jobs that
\* overlap may both find nothing and both remind, and a job whose reference
\* date lies more than 24 hours ahead looks back to a time still to come, and
\* so reminds again each time it is run.
Reminds(w) == req[w].op = "remindCreate" /\ req'[w].op = "remind"
RemindedOnce ==
    [][\A w \in Workers :
          Reminds(w) /\ w \notin company =>
              \A t \in reminded[req[w].u][req[w].type] : t < req[w].since]_<<reminderVars, req>>

============================================================================
