---------------------------- MODULE Conversations --------------------------
(***************************************************************************)
(* chat.service.ts and chat-timeline.service.ts: one inbox per pair of     *)
(* people.  No key forbids a second thread for a pair's rentals, so the    *)
(* thread is looked for and inserted under the row locks of both people,   *)
(* taken one after the other.  A direct thread has a unique key instead.   *)
(***************************************************************************)
EXTENDS Api

CONSTANTS
    Deals,      \* the rentals people talk about
    OwnerOf,    \* user id of each rental's owner, a number: ids are ordered
    RenterOf,   \* user id of each rental's renter
    StaffId,    \* user id of a member of the staff
    MaxLines    \* bound: messages of a thread

ASSUME DealAssumption ==
    /\ OwnerOf \in [Deals -> Nat] /\ RenterOf \in [Deals -> Nat]
    /\ \A d \in Deals : OwnerOf[d] # RenterOf[d]
    /\ StaffId \in Nat

VARIABLES
    threads,    \* conversations, oldest first
    lines       \* messages of each thread, oldest first

chatVars == <<threads, lines>>

ChatInit == threads = <<>> /\ lines = <<>>

Pair(d) == {OwnerOf[d], RenterOf[d]}

\* wrong variant: owner first, then renter
OwnerThenRenter(d) == <<OwnerOf[d], RenterOf[d]>>

\* SELECT ... ORDER BY id FOR UPDATE
LockOrder(d) == <<Min(Pair(d)), Max(Pair(d))>>

Ensuring(w) == req[w].op \in {"ensure", "insertThread"}
Held(w) == IF Ensuring(w) THEN {LockOrder(req[w].d)[i] : i \in 1 .. req[w].held} ELSE {}
Wanted(w) == LockOrder(req[w].d)[req[w].held + 1]

\* wrong variant: the rows are read without FOR UPDATE
NobodyLocks(w) == TRUE

RowFree(w) == \A v \in Workers \ {w} : Wanted(w) \notin Held(v)

ThreadsOf(pair, kind) ==
    {i \in DOMAIN threads : threads[i].pair = pair /\ threads[i].kind = kind}

----------------------------------------------------------------------------
(* ensureConversationForRental, for a call that opens the thread, or that  *)
(* appends a line to it when it is there.                                  *)
EnsureRead(w, d) ==
    /\ \E then \in {"open", "openStaff", "append"} :
          Begin(w, [op |-> "ensure", d |-> d, held |-> 0, then |-> then])
    /\ UNCHANGED chatVars

LockParticipant(w) ==
    /\ req[w].op = "ensure"
    /\ req[w].held < 2
    /\ RowFree(w)
    /\ Continue(w, [req[w] EXCEPT !.held = @ + 1])
    /\ UNCHANGED chatVars

Afterwards(w, thread) ==
    IF req[w].then = "append"
    THEN Continue(w, [op |-> "line", thread |-> thread])
    ELSE Done(w)

LooksIn(w) == ThreadsOf(Pair(req[w].d), "rental")

FindThread(w) ==
    /\ req[w].op = "ensure"
    /\ req[w].held = 2
    /\ LooksIn(w) # {}
    /\ Afterwards(w, Min(LooksIn(w)))
    /\ UNCHANGED chatVars

NoThread(w) ==
    /\ req[w].op = "ensure"
    /\ req[w].held = 2
    /\ LooksIn(w) = {}
    /\ Continue(w, [req[w] EXCEPT !.op = "insertThread"])
    /\ UNCHANGED chatVars

InsertThread(w) ==
    LET d == req[w].d
    IN  /\ req[w].op = "insertThread"
        /\ threads' = Append(threads,
              [kind |-> "rental", pair |-> Pair(d),
               members |-> Pair(d) \cup IF req[w].then = "openStaff" THEN {StaffId} ELSE {}])
        /\ lines' = Append(lines, <<>>)
        /\ Afterwards(w, Len(threads'))

\* appendSystemMessageForRental after the dedupe lookup, or the message of a
\* participant, with the warning that follows signs of an outside deal
AppendLine(w) ==
    LET thread == req[w].thread
    IN  /\ req[w].op = "line"
        /\ Len(lines[thread]) < MaxLines
        /\ \E added \in {<<"SYSTEM">>, <<"TEXT">>, <<"TEXT", "SYSTEM">>} :
              lines' = [lines EXCEPT ![thread] = @ \o added]
        /\ Done(w)
        /\ UNCHANGED threads

SameLine(w) ==
    /\ req[w].op = "line"
    /\ lines[req[w].thread] # <<>>
    /\ Done(w)
    /\ UNCHANGED chatVars

\* sendMessage, to the oldest thread of the pair; the staff become members
SendMessage(w) ==
    \E i \in DOMAIN threads : \E from \in threads[i].members \cup {StaffId} :
        LET thread == IF threads[i].kind = "direct" THEN i
                      ELSE Min(ThreadsOf(threads[i].pair, "rental"))
        IN  /\ Begin(w, [op |-> "line", thread |-> thread])
            /\ threads' = [threads EXCEPT ![thread].members = @ \cup {from}]
            /\ UNCHANGED lines

----------------------------------------------------------------------------
(* createDirectConversation: an upsert on the key made of both ids.        *)
DirectRead(w, d) ==
    /\ ThreadsOf(Pair(d), "direct") = {}
    /\ Begin(w, [op |-> "direct", d |-> d])
    /\ UNCHANGED chatVars

DirectInsert(w) ==
    /\ req[w].op = "direct"
    /\ ThreadsOf(Pair(req[w].d), "direct") = {}
    /\ threads' = Append(threads, [kind |-> "direct", pair |-> Pair(req[w].d),
                                   members |-> Pair(req[w].d)])
    /\ lines' = Append(lines, <<>>)
    /\ Done(w)

DirectThere(w) ==
    /\ req[w].op = "direct"
    /\ ThreadsOf(Pair(req[w].d), "direct") # {}
    /\ Done(w)
    /\ UNCHANGED chatVars

ChatCall(w) ==
    SendMessage(w) \/ \E d \in Deals : EnsureRead(w, d) \/ DirectRead(w, d)

ChatProgress(w) ==
    \/ LockParticipant(w) \/ FindThread(w) \/ NoThread(w) \/ InsertThread(w)
    \/ AppendLine(w) \/ SameLine(w) \/ DirectInsert(w) \/ DirectThere(w)

ChatAbort(w) ==
    /\ req[w] # Idle
    /\ Done(w)
    /\ UNCHANGED chatVars

ChatNext == \E w \in Workers : ChatCall(w) \/ ChatProgress(w) \/ ChatAbort(w)

ChatSpec ==
    /\ ChatInit
    /\ req = [w \in Workers |-> Idle]
    /\ [][ChatNext]_<<chatVars, req>>

----------------------------------------------------------------------------
\* The rentals of two people share one thread, whoever of them rents from
\* whom and however many handlers open or write to it at once.
OneThreadPerPair ==
    \A d \in Deals : \A kind \in {"rental", "direct"} :
        Cardinality(ThreadsOf(Pair(d), kind)) <= 1

\* The handlers that lock the rows of two people never wait for each other in
\* a circle (chat-timeline.service.ts: "All chat creation paths lock
\* participants in the same order").
Waiting(w) == req[w].op = "ensure" /\ req[w].held < 2
NoLockCycle ==
    \A stuck \in (SUBSET Workers) \ {{}} :
        \E w \in stuck : Waiting(w) =>
            \A v \in stuck : Wanted(w) \notin Held(v)

============================================================================
