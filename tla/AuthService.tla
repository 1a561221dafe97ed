---------------------------- MODULE AuthService ----------------------------
(***************************************************************************)
(* auth.service.ts: registration, login, rotation of the refresh token,    *)
(* logout and password reset.                                              *)
(***************************************************************************)
EXTENDS UserStore

Active(u) == account[u] = "ACTIVE"

\* found by an email its owner knows
Known(u) == Active(u) /\ password[u] # Blank

\* createTokens: a hash nobody has stored, of a token that may have been signed
\* before in the same second
Mint(u) ==
    /\ issued[u] < MaxTokens
    /\ issued' = [issued EXCEPT ![u] = @ + 1]

(* The email and the phone are unique keys: the second registration of a   *)
(* user fails.  The session is written by a statement of its own.          *)
Register(w, u) ==
    /\ account[u] = NoRow
    /\ account' = [account EXCEPT ![u] = "ACTIVE"]
    /\ identity' = [identity EXCEPT ![u] = [status |-> "NOT_STARTED", files |-> 0]]
    /\ Mint(u)
    /\ Begin(w, [op |-> "session", u |-> u, next |-> issued[u] + 1])
    /\ Unannounced
    /\ UNCHANGED <<password, refresh, reset, deletion, answered, mails,
                   stored, uploads, purged, cached>>

\* the password is verified against the row as it was read
LoginRead(w, u) ==
    /\ Known(u)
    /\ Mint(u)
    /\ Begin(w, [op |-> "session", u |-> u, next |-> issued[u] + 1])
    /\ UNCHANGED <<account, password, refresh, reset, deletion, answered, mails,
                   papers, userList>>

\* the end of register and login: the row is written without a condition
SessionCommit(w) ==
    LET q == req[w]
    IN  /\ q.op = "session"
        /\ refresh' = [refresh EXCEPT ![q.u] = q.next]
        /\ Done(w)
        /\ UNCHANGED <<account, password, reset, deletion, issued, answered, mails,
                       papers, userList>>

----------------------------------------------------------------------------
(* Rotation.  A token is verified against the stored hash, whenever it was *)
(* signed; then the hash is replaced, on condition that it is still stored. *)
RefreshRead(w, u) ==
    /\ Active(u)
    /\ refresh[u] # 0
    /\ \E presented \in 1 .. issued[u] : Token(presented) = Token(refresh[u])
    /\ Mint(u)
    /\ Begin(w, [op |-> "refresh", u |-> u, previous |-> refresh[u],
                 next |-> issued[u] + 1])
    /\ UNCHANGED <<account, password, refresh, reset, deletion, answered, mails,
                   papers, userList>>

\* wrong variant: the update names only the user
RefreshUnconditional(w) ==
    LET q == req[w]
    IN  /\ q.op = "refresh"
        /\ refresh' = [refresh EXCEPT ![q.u] = q.next]
        /\ answered' = [answered EXCEPT ![q.u] = Append(@, q.previous)]
        /\ Done(w)
        /\ UNCHANGED <<account, password, reset, deletion, issued, mails, papers, userList>>

RefreshCommit(w) ==
    LET q == req[w]
    IN  /\ q.op = "refresh"
        /\ refresh[q.u] = q.previous
        /\ Active(q.u)
        /\ refresh' = [refresh EXCEPT ![q.u] = q.next]
        /\ answered' = [answered EXCEPT ![q.u] = Append(@, q.previous)]
        /\ Done(w)
        /\ UNCHANGED <<account, password, reset, deletion, issued, mails, papers, userList>>

RefreshRefused(w) ==
    LET q == req[w]
    IN  /\ q.op = "refresh"
        /\ refresh[q.u] # q.previous \/ ~Active(q.u)
        /\ Done(w)
        /\ UNCHANGED userTables

\* behind the guard, which reads the user on every call
Logout(w, u) ==
    /\ AtOnce(w)
    /\ Active(u)
    /\ refresh' = [refresh EXCEPT ![u] = 0]
    /\ UNCHANGED <<account, password, reset, deletion, issued, answered, mails,
                   papers, userList>>

----------------------------------------------------------------------------
(* Password reset: one mail carries a token and a code, and either will do. *)
ForgotRead(w, u) ==
    /\ Known(u)
    /\ mails[u] < MaxMails
    /\ mails' = [mails EXCEPT ![u] = @ + 1]
    /\ Begin(w, [op |-> "forgot", u |-> u, mail |-> mails[u] + 1])
    /\ UNCHANGED <<account, password, refresh, reset, deletion, issued, answered,
                   papers, userList>>

ForgotCommit(w) ==
    LET q == req[w]
    IN  /\ q.op = "forgot"
        /\ reset' = [reset EXCEPT ![q.u] =
                       [token |-> q.mail, code |-> q.mail, live |-> TRUE]]
        /\ Continue(w, [q EXCEPT !.op = "resetMail"])
        /\ UNCHANGED <<account, password, refresh, deletion, issued, answered,
                       mails, papers, userList>>

ResetMailSent(w) ==
    /\ req[w].op = "resetMail"
    /\ Done(w)
    /\ UNCHANGED userTables

\* wrong variant: whatever request is stored loses its token
ResetMailFailedBlindly(w) ==
    LET q == req[w]
    IN  /\ q.op = "resetMail"
        /\ reset' = [reset EXCEPT ![q.u].token = 0]
        /\ Done(w)
        /\ UNCHANGED <<account, password, refresh, deletion, issued, answered,
                       mails, papers, userList>>

\* in production the request is withdrawn, but for its code
ResetMailFailed(w) ==
    LET q == req[w]
    IN  /\ q.op = "resetMail"
        /\ reset' = [reset EXCEPT ![q.u] =
                       IF @.token = q.mail
                       THEN [@ EXCEPT !.token = 0, !.live = FALSE]
                       ELSE @]
        /\ Done(w)
        /\ UNCHANGED <<account, password, refresh, deletion, issued, answered,
                       mails, papers, userList>>

Admits(u, by, mail) == reset[u][by] = mail /\ Active(u) /\ reset[u].live

ResetRead(w, u) ==
    \E by \in {"token", "code"} : \E mail \in 1 .. mails[u] :
        /\ Admits(u, by, mail)
        /\ Begin(w, [op |-> "reset", u |-> u, by |-> by, mail |-> mail])
        /\ UNCHANGED userTables

\* a new hash is computed between the read and the conditional update
ResetCommit(w) ==
    LET q == req[w]
    IN  /\ q.op = "reset"
        /\ Admits(q.u, q.by, q.mail)
        /\ password' = [password EXCEPT ![q.u] = @ + 1]
        /\ reset' = [reset EXCEPT ![q.u] = NoReset]
        /\ refresh' = [refresh EXCEPT ![q.u] = 0]
        /\ Done(w)
        /\ UNCHANGED <<account, deletion, issued, answered, mails, papers, userList>>

ResetRefused(w) ==
    LET q == req[w]
    IN  /\ q.op = "reset"
        /\ ~Admits(q.u, q.by, q.mail)
        /\ Done(w)
        /\ UNCHANGED userTables

\* thirty minutes pass
ResetExpires(u) ==
    /\ reset[u].live
    /\ reset' = [reset EXCEPT ![u].live = FALSE]
    /\ UNCHANGED <<account, password, refresh, deletion, issued, answered, mails,
                   papers, userList, req>>

============================================================================
