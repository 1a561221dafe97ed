----------------------------- MODULE UserStore -----------------------------
(***************************************************************************)
(* The user row with its credentials, and the verification row with its    *)
(* files.                                                                  *)
(*                                                                         *)
(* The hash of a refresh token, a mailed credential and an upload are      *)
(* numbers, given out in order and never twice; 0 is a null column.  argon2 *)
(* salts a hash, so the column never holds the same one again, while the   *)
(* token itself is the user's claims and the second it was signed in: two  *)
(* of one second are one text.  A password is known by the number of times *)
(* it was changed, and is Blank, like the email, on a deleted row.         *)
(***************************************************************************)
EXTENDS Api

CONSTANTS
    Users,
    MaxTokens,      \* bound: refresh tokens made for a user
    SignedAt,       \* the second in which the n-th token of a user is signed
    MaxMails,       \* bound: reset and deletion credentials of a user
    MaxUploads      \* bound: identity uploads of a user

ASSUME UserBoundAssumption ==
    /\ MaxTokens \in Nat
    /\ SignedAt \in [1 .. MaxTokens -> Nat]
    /\ MaxMails \in Nat
    /\ MaxUploads \in Nat

VARIABLES
    account,    \* users.status
    password,   \* users.passwordHash
    refresh,    \* users.refreshTokenHash: which of the hashes made
    reset,      \* passwordResetTokenHash, CodeHash and ExpiresAt
    deletion,   \* accountDeletionTokenHash and ExpiresAt
    issued,     \* refresh tokens made and hashed so far
    answered,   \* history: the hashes replaced by one of a successor
    mails,      \* credentials made so far
    identity,   \* the user_verifications row
    stored,     \* uploads whose files are in the private bucket
    uploads,    \* uploads begun so far
    purged,     \* history: the files whose removal a deletion asked for
    cached,     \* the cached list of users, if there is one
    unlisted    \* history: the list may lack a change that invalidates
                \* nothing, or that was made while the list was being read

credentials == <<account, password, refresh, reset, deletion, issued, answered, mails>>
papers == <<identity, stored, uploads, purged>>
userList == <<cached, unlisted>>
userTables == <<credentials, papers, userList>>
userVars == <<userTables, req>>

UserStatus == {"ACTIVE", "SUSPENDED", "BANNED", "DELETED"}
VerificationStatus ==
    {"NOT_STARTED", "PENDING", "VERIFIED", "REJECTED", "REQUIRES_REVIEW"}

Blank == -1
NoReset == [token |-> 0, code |-> 0, live |-> FALSE]
NoDeletion == [token |-> 0, live |-> FALSE]
NoIdentity == [status |-> NoRow, files |-> 0]

\* no credential and no document yet
NothingIssued ==
    /\ password = [u \in Users |-> 0]
    /\ refresh = [u \in Users |-> 0]
    /\ reset = [u \in Users |-> NoReset]
    /\ deletion = [u \in Users |-> NoDeletion]
    /\ issued = [u \in Users |-> 0]
    /\ answered = [u \in Users |-> <<>>]
    /\ mails = [u \in Users |-> 0]
    /\ identity = [u \in Users |-> NoIdentity]
    /\ stored = [u \in Users |-> {}]
    /\ uploads = [u \in Users |-> 0]
    /\ purged = [u \in Users |-> {}]
    /\ cached = {}
    /\ unlisted = FALSE
    /\ req = [w \in Workers |-> Idle]

UserInit == account = [u \in Users |-> NoRow] /\ NothingIssued

\* the text of a refresh token, from the hash that is stored of it
Token(n) == SignedAt[n]

\* reads of the list of users that are not of this moment any more
ReadBehind ==
    {v \in Workers : req[v].op = "remember" /\ req[v].value # account}

\* an account changes and no cache is told
Unannounced ==
    unlisted' = (unlisted \/ cached # {} \/ \E v \in Workers : req[v].op = "remember")

============================================================================
