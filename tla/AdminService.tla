--------------------------- MODULE AdminService ----------------------------
(***************************************************************************)
(* admin.service.ts: the status of an account, internal accounts, and the  *)
(* cached lists of the back office.  Who changes whom is in StaffRoles.    *)
(***************************************************************************)
EXTENDS KycService

\* the statuses an account can be set to: any, whatever it has
Settable(u) == IF account[u] = NoRow THEN {} ELSE UserStatus

UpdateStatusRead(w, u) ==
    /\ \E new \in Settable(u) : Begin(w, [op |-> "status", u |-> u, new |-> new])
    /\ UNCHANGED userTables

\* wrong variant: the caches are left as they are
UpdateStatusQuietly(w) ==
    LET q == req[w]
    IN  /\ q.op = "status"
        /\ account' = [account EXCEPT ![q.u] = q.new]
        /\ Done(w)
        /\ UNCHANGED <<password, refresh, reset, deletion, issued, answered, mails,
                       papers, userList>>

\* no condition on the status that was read: a deleted account may be revived
UpdateStatusCommit(w) ==
    LET q == req[w]
    IN  /\ q.op = "status"
        /\ account' = [account EXCEPT ![q.u] = q.new]
        /\ Continue(w, [op |-> "invalidate"])
        /\ UNCHANGED <<password, refresh, reset, deletion, issued, answered, mails,
                       papers, userList>>

\* verified without documents, and without a session
CreateInternalUser(w, u) ==
    /\ account[u] = NoRow
    /\ account' = [account EXCEPT ![u] = "ACTIVE"]
    /\ identity' = [identity EXCEPT ![u] = [status |-> "VERIFIED", files |-> 0]]
    /\ Begin(w, [op |-> "invalidate"])
    /\ UNCHANGED <<password, refresh, reset, deletion, issued, answered, mails,
                   stored, uploads, purged, userList>>

InvalidateAdminReadCache(w) ==
    /\ req[w].op = "invalidate"
    /\ cached' = {}
    /\ unlisted' = (ReadBehind # {})
    /\ Done(w)
    /\ UNCHANGED <<credentials, papers>>

----------------------------------------------------------------------------
\* remember: a miss reads the table, and stores what it read later
ListUsersRead(w) ==
    /\ cached = {}
    /\ Begin(w, [op |-> "remember", value |-> account])
    /\ UNCHANGED userTables

ListUsersStore(w) ==
    /\ req[w].op = "remember"
    /\ cached' = {req[w].value}
    /\ unlisted' = (unlisted /\ (req[w].value # account \/ ReadBehind \ {w} # {}))
    /\ Done(w)
    /\ UNCHANGED <<credentials, papers>>

CacheExpires ==
    /\ cached # {}
    /\ cached' = {}
    /\ unlisted' = (unlisted /\ ReadBehind # {})
    /\ UNCHANGED <<credentials, papers, req>>

============================================================================
