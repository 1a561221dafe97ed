--------------------------- MODULE UsersService ----------------------------
(***************************************************************************)
(* users.service.ts: deletion of an account, by mail or when signed in.    *)
(* The rentals that forbid a deletion are in other modules: here any       *)
(* deletion may be forbidden, or never asked for.                          *)
(***************************************************************************)
EXTENDS AuthService

RequestDeletionRead(w, u) ==
    /\ Known(u)
    /\ mails[u] < MaxMails
    /\ mails' = [mails EXCEPT ![u] = @ + 1]
    /\ Begin(w, [op |-> "askDeletion", u |-> u, mail |-> mails[u] + 1])
    /\ UNCHANGED <<account, password, refresh, reset, deletion, issued, answered,
                   papers, userList>>

RequestDeletionCommit(w) ==
    LET q == req[w]
    IN  /\ q.op = "askDeletion"
        /\ deletion' = [deletion EXCEPT ![q.u] = [token |-> q.mail, live |-> TRUE]]
        /\ Continue(w, [q EXCEPT !.op = "deletionMail"])
        /\ UNCHANGED <<account, password, refresh, reset, issued, answered, mails,
                       papers, userList>>

\* a mail that fails withdraws its own request only
DeletionMail(w) ==
    LET q == req[w]
    IN  /\ q.op = "deletionMail"
        /\ deletion' \in {deletion,
              [deletion EXCEPT ![q.u] = IF @.token = q.mail THEN NoDeletion ELSE @]}
        /\ Done(w)
        /\ UNCHANGED <<account, password, refresh, reset, issued, answered, mails,
                       papers, userList>>

DeletionExpires(u) ==
    /\ deletion[u].live
    /\ deletion' = [deletion EXCEPT ![u].live = FALSE]
    /\ UNCHANGED <<account, password, refresh, reset, issued, answered, mails,
                   papers, userList, req>>

----------------------------------------------------------------------------
(* deleteAccount: the rows are read, the files removed, and the user row   *)
(* written in a transaction on condition that it is still active and, when *)
(* the deletion came by mail, still holds that mail's token.               *)
DeleteRead(w, u) ==
    /\ Active(u)
    /\ \E mail \in {0} \cup (IF deletion[u].live THEN {deletion[u].token} ELSE {}) :
          Begin(w, [op |-> "deleteFiles", u |-> u, mail |-> mail,
                    files |-> identity[u].files])
    /\ UNCHANGED userTables

DeleteFiles(w) ==
    LET q == req[w]
    IN  /\ q.op = "deleteFiles"
        /\ stored' = [stored EXCEPT ![q.u] = @ \ {q.files}]
        /\ purged' = [purged EXCEPT ![q.u] = @ \cup {q.files}]
        /\ Continue(w, [op |-> "delete", u |-> q.u, mail |-> q.mail])
        /\ UNCHANGED <<credentials, identity, uploads, userList>>

Deletable(q) == Active(q.u) /\ q.mail \in {0, deletion[q.u].token}

DeleteCommit(w) ==
    LET q == req[w]
    IN  /\ q.op = "delete"
        /\ Deletable(q)
        /\ account' = [account EXCEPT ![q.u] = "DELETED"]
        /\ password' = [password EXCEPT ![q.u] = Blank]
        /\ refresh' = [refresh EXCEPT ![q.u] = 0]
        /\ reset' = [reset EXCEPT ![q.u] = NoReset]
        /\ deletion' = [deletion EXCEPT ![q.u] = NoDeletion]
        /\ identity' = [identity EXCEPT ![q.u] = NoIdentity]
        /\ Unannounced
        /\ Done(w)
        /\ UNCHANGED <<issued, answered, mails, stored, uploads, purged, cached>>

DeleteRefused(w) ==
    /\ req[w].op = "delete"
    /\ ~Deletable(req[w])
    /\ Done(w)
    /\ UNCHANGED userTables

============================================================================
