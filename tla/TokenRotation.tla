--------------------------- MODULE TokenRotation ---------------------------
(***************************************************************************)
(* What a session promises, without requests and rows: a user has at most  *)
(* one hash of a refresh token that is good, a hash is good once in its    *)
(* life, and each is replaced by at most one successor.  The token behind a *)
(* hash is told by the second it was signed in, which two hashes may share. *)
(***************************************************************************)
EXTENDS Naturals, Sequences, Functions

CONSTANTS
    Users,
    SignedAt    \* the token behind each hash of a user

VARIABLES
    current,    \* the hash of a user that is good, 0 if there is none
    seen,       \* hashes that are or have been good, or never will be
    answered    \* hashes that were replaced by a successor's

rotationVars == <<current, seen, answered>>

RotationInit ==
    /\ current = [u \in Users |-> 0]
    /\ seen = [u \in Users |-> {}]
    /\ answered = [u \in Users |-> <<>>]

\* the hash that becomes good has not been seen
Fresh(u) ==
    /\ current'[u] # 0
    /\ current'[u] \notin seen[u]
    /\ current'[u] \in seen'[u]

Grant(u) == Fresh(u) /\ answered'[u] = answered[u]

Rotate(u) ==
    /\ current[u] # 0
    /\ Fresh(u)
    /\ answered'[u] = Append(answered[u], current[u])

Revoke(u) == current'[u] = 0 /\ answered'[u] = answered[u]

Keep(u) == current'[u] = current[u] /\ answered'[u] = answered[u]

RotationNext ==
    /\ DOMAIN current' = Users /\ DOMAIN seen' = Users /\ DOMAIN answered' = Users
    /\ \A u \in Users :
          /\ seen[u] \subseteq seen'[u]
          /\ Grant(u) \/ Rotate(u) \/ Revoke(u) \/ Keep(u)

Rotation == RotationInit /\ [][RotationNext]_rotationVars

\* the token was signed twice, within one second
SignedTwice(u, token) ==
    \E m, n \in seen[u] : m # n /\ SignedAt[m] = token /\ SignedAt[n] = token

\* A token that was exchanged is neither good nor exchanged again, however its
\* calls overlap, unless it was signed twice.
OneSuccessor ==
    \A u \in Users : \A i \in DOMAIN answered[u] :
        LET token == SignedAt[answered[u][i]]
        IN  \/ SignedTwice(u, token)
            \/ /\ current[u] # 0 => SignedAt[current[u]] # token
               /\ \A j \in DOMAIN answered[u] \ {i} : SignedAt[answered[u][j]] # token

============================================================================
