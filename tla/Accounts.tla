------------------------------ MODULE Accounts -----------------------------
(***************************************************************************)
(* The account services over one database: a request of any of them, with  *)
(* the others in flight.                                                   *)
(***************************************************************************)
EXTENDS AdminService, Functions

\* sessions and passwords
SessionCall(w, u) ==
    \/ LoginRead(w, u)
    \/ RefreshRead(w, u)
    \/ Logout(w, u)
    \/ ForgotRead(w, u)
    \/ ResetRead(w, u)
    \/ ResetExpires(u)
    \/ UpdateStatusRead(w, u)

\* the request to delete the account
DeletionCall(w, u) ==
    \/ RequestDeletionRead(w, u)
    \/ DeletionExpires(u)
    \/ LoginRead(w, u)

\* identity documents
IdentityCall(w, u) ==
    \/ SubmitRead(w, u)
    \/ ReviewRead(w, u)

\* the back office's view of the accounts
ListCall(w, u) ==
    \/ CreateInternalUser(w, u)
    \/ UpdateStatusRead(w, u)
    \/ ListUsersRead(w)
    \/ CacheExpires

\* what concerns all of them
AccountCall(w, u) ==
    \/ Register(w, u)
    \/ DeleteRead(w, u)

AccountProgress(w) ==
    \/ SessionCommit(w) \/ RefreshCommit(w) \/ RefreshRefused(w)
    \/ ForgotCommit(w) \/ ResetMailSent(w) \/ ResetMailFailed(w)
    \/ ResetCommit(w) \/ ResetRefused(w)
    \/ RequestDeletionCommit(w) \/ DeletionMail(w)
    \/ DeleteFiles(w) \/ DeleteCommit(w) \/ DeleteRefused(w)
    \/ SubmitUpload(w) \/ SubmitCommit(w) \/ SubmitFails(w) \/ SubmitReplace(w)
    \/ ReviewCommit(w)
    \/ UpdateStatusCommit(w) \/ InvalidateAdminReadCache(w) \/ ListUsersStore(w)

\* the process restarts, or the statement fails; what was committed stays
AccountAbort(w) ==
    /\ req[w] # Idle
    /\ Done(w)
    /\ IF req[w].op = "invalidate" THEN Unannounced ELSE UNCHANGED unlisted
    /\ UNCHANGED <<credentials, papers, cached>>

\* any call of the account services, next to the requests in flight
AccountsNext ==
    \E w \in Workers :
        \/ AccountProgress(w)
        \/ AccountAbort(w)
        \/ \E u \in Users :
              \/ AccountCall(w, u)
              \/ SessionCall(w, u)
              \/ DeletionCall(w, u)
              \/ IdentityCall(w, u)
              \/ ListCall(w, u)

AccountsSpec == UserInit /\ [][AccountsNext]_userVars

----------------------------------------------------------------------------
\* a hash is unseen while the request that made it is in flight
Carried(u) ==
    {req[w].next : w \in {v \in Workers : /\ req[v].op \in {"session", "refresh"}
                                         /\ req[v].u = u}}

Tokens == INSTANCE TokenRotation WITH
    current <- refresh,
    seen <- [u \in Users |-> (1 .. issued[u]) \ Carried(u)],
    answered <- answered

\* The services implement the abstract rotation: what is stored of a token is
\* good once in its life, and is replaced by one successor at most, however the
\* writes of logins, refreshes, resets and deletions fall.  A token is refused
\* for good once it was exchanged, unless it was signed again in its second.
RotatesTokens == Tokens!Rotation

\* A reset that is live has the token and the code of the same mail: neither
\* a mail that fails late nor a deletion leaves half of one.
WholeReset ==
    \A u \in Users :
        reset[u].live => reset[u].token # 0 /\ reset[u].code = reset[u].token

\* The documents a verification row names are in the bucket, whatever
\* submissions and reviews overlap, unless a deletion of the account asked for
\* their removal.
DocumentsKept ==
    \A u \in Users :
        identity[u].files # 0 =>
            identity[u].files \in stored[u] \cup purged[u]

\* The list of users an administrator sees shows every change an administrator
\* made, once that request has cleared the caches: the list it finds was read
\* afterwards.  It may lack a registration, a deletion and the verdict of a
\* report, which clear nothing, a change whose request died before it could,
\* and one that was made between the reading and the storing of the list.
ListShowsChanges ==
    \/ cached \in {{}, {account}}
    \/ unlisted
    \/ \E w \in Workers : req[w].op = "invalidate"

============================================================================
