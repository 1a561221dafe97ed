---------------------------- MODULE KycService -----------------------------
(***************************************************************************)
(* kyc.service.ts: a user submits identity documents, a manager reviews    *)
(* them.  The files of one upload are stored and removed together.         *)
(***************************************************************************)
EXTENDS UsersService

SubmitRead(w, u) ==
    /\ Active(u)
    /\ identity[u].status # "VERIFIED"
    /\ uploads[u] < MaxUploads
    /\ uploads' = [uploads EXCEPT ![u] = @ + 1]
    /\ Begin(w, [op |-> "upload", u |-> u, old |-> identity[u].files,
                 new |-> uploads[u] + 1])
    /\ UNCHANGED <<credentials, identity, stored, purged, userList>>

\* wrong variant: the replaced documents are removed before the row is written
SubmitRemovingFirst(w) ==
    LET q == req[w]
    IN  /\ q.op = "upload"
        /\ stored' = [stored EXCEPT ![q.u] = (@ \ {q.old}) \cup {q.new}]
        /\ Continue(w, [q EXCEPT !.op = "submit"])
        /\ UNCHANGED <<credentials, identity, uploads, purged, userList>>

SubmitUpload(w) ==
    LET q == req[w]
    IN  /\ q.op = "upload"
        /\ stored' = [stored EXCEPT ![q.u] = @ \cup {q.new}]
        /\ Continue(w, [q EXCEPT !.op = "submit"])
        /\ UNCHANGED <<credentials, identity, uploads, purged, userList>>

\* the upsert; the row is written whatever it says by now
SubmitCommit(w) ==
    LET q == req[w]
    IN  /\ q.op = "submit"
        /\ identity' = [identity EXCEPT ![q.u] =
                          [status |-> "PENDING", files |-> q.new]]
        /\ Continue(w, [q EXCEPT !.op = "replace"])
        /\ UNCHANGED <<credentials, stored, uploads, purged, userList>>

\* the upsert fails, and what was uploaded is removed
SubmitFails(w) ==
    LET q == req[w]
    IN  /\ q.op = "submit"
        /\ stored' = [stored EXCEPT ![q.u] = @ \ {q.new}]
        /\ Done(w)
        /\ UNCHANGED <<credentials, identity, uploads, purged, userList>>

\* deleteReplacedDocuments; a file the bucket fails to remove stays
SubmitReplace(w) ==
    LET q == req[w]
    IN  /\ q.op = "replace"
        /\ stored' \in {stored, [stored EXCEPT ![q.u] = @ \ {q.old}]}
        /\ Done(w)
        /\ UNCHANGED <<credentials, identity, uploads, purged, userList>>

----------------------------------------------------------------------------
\* any verdict may be given at any time, VERIFIED only on documents
Givable(u) ==
    {verdict \in VerificationStatus :
        /\ identity[u].status # NoRow
        /\ verdict = "VERIFIED" => identity[u].files # 0}

ReviewRead(w, u) ==
    /\ \E verdict \in Givable(u) :
          Begin(w, [op |-> "review", u |-> u, verdict |-> verdict])
    /\ UNCHANGED userTables

\* the row the verdict is written to may have changed, or be gone
ReviewCommit(w) ==
    LET q == req[w]
    IN  /\ q.op = "review"
        /\ identity' = IF identity[q.u].status = NoRow THEN identity
                       ELSE [identity EXCEPT ![q.u].status = q.verdict]
        /\ Done(w)
        /\ UNCHANGED <<credentials, stored, uploads, purged, userList>>

============================================================================
