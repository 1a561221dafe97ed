--------------------------- MODULE AccountsProofs --------------------------
(***************************************************************************)
(* The account services rotate tokens as TokenRotation says, mail whole    *)
(* credentials and keep the documents that a verification names.           *)
(***************************************************************************)
EXTENDS Accounts, TLAPS

\* One handler moves.
LEMMA OneMoves ==
    ASSUME req = [v \in Workers |-> req[v]],
           NEW w \in Workers, NEW q, req' = [req EXCEPT ![w] = q]
    PROVE  /\ req' = [v \in Workers |-> req'[v]]
           /\ req'[w] = q
           /\ \A v \in Workers \ {w} : req'[v] = req[v]
  OBVIOUS

----------------------------------------------------------------------------
(* What the handlers turn into.  Most of them end; the others carry what   *)
(* the steps below say.                                                    *)

Moved(w, op) == \E q : q.op = op /\ req' = [req EXCEPT ![w] = q]

LEMMA Begins ==
    ASSUME NEW w \in Workers, NEW q, Begin(w, q) \/ Continue(w, q)
    PROVE  Moved(w, q.op)
  BY DEF Begin, Continue, Moved

LEMMA Ends == ASSUME NEW w \in Workers, Done(w) PROVE Moved(w, "idle")
  BY DEF Done, Idle, Moved

\* A handler goes on with another step.
LEMMA GoesOn ==
    ASSUME NEW w \in Workers
    PROVE  /\ ForgotCommit(w) => Moved(w, "resetMail")
           /\ RequestDeletionCommit(w) => Moved(w, "deletionMail")
           /\ DeleteFiles(w) => Moved(w, "delete")
           /\ SubmitUpload(w) => Moved(w, "submit")
           /\ SubmitCommit(w) => Moved(w, "replace")
           /\ UpdateStatusCommit(w) => Moved(w, "invalidate")
<1>1. ASSUME ForgotCommit(w) PROVE Moved(w, "resetMail")
  <2>q. PICK q : q = [req[w] EXCEPT !.op = "resetMail"]
    OBVIOUS
  <2>1. Continue(w, q)
    BY <1>1, <2>q DEF ForgotCommit
  <2>2. q.op = "resetMail"
    BY <2>q
  <2> QED
    BY <2>1, <2>2, Begins
<1>2. ASSUME RequestDeletionCommit(w) PROVE Moved(w, "deletionMail")
  <2>q. PICK q : q = [req[w] EXCEPT !.op = "deletionMail"]
    OBVIOUS
  <2>1. Continue(w, q)
    BY <1>2, <2>q DEF RequestDeletionCommit
  <2>2. q.op = "deletionMail"
    BY <2>q
  <2> QED
    BY <2>1, <2>2, Begins
<1>3. ASSUME DeleteFiles(w) PROVE Moved(w, "delete")
  <2>q. PICK q : q = [op |-> "delete", u |-> req[w].u, mail |-> req[w].mail]
    OBVIOUS
  <2>1. Continue(w, q)
    BY <1>3, <2>q DEF DeleteFiles
  <2>2. q.op = "delete"
    BY <2>q
  <2> QED
    BY <2>1, <2>2, Begins
<1>4. ASSUME SubmitUpload(w) PROVE Moved(w, "submit")
  <2>q. PICK q : q = [req[w] EXCEPT !.op = "submit"]
    OBVIOUS
  <2>1. Continue(w, q)
    BY <1>4, <2>q DEF SubmitUpload
  <2>2. q.op = "submit"
    BY <2>q
  <2> QED
    BY <2>1, <2>2, Begins
<1>5. ASSUME SubmitCommit(w) PROVE Moved(w, "replace")
  <2>q. PICK q : q = [req[w] EXCEPT !.op = "replace"]
    OBVIOUS
  <2>1. Continue(w, q)
    BY <1>5, <2>q DEF SubmitCommit
  <2>2. q.op = "replace"
    BY <2>q
  <2> QED
    BY <2>1, <2>2, Begins
<1>6. ASSUME UpdateStatusCommit(w) PROVE Moved(w, "invalidate")
  <2>q. PICK q : q = [op |-> "invalidate"]
    OBVIOUS
  <2>1. Continue(w, q)
    BY <1>6, <2>q DEF UpdateStatusCommit
  <2>2. q.op = "invalidate"
    BY <2>q
  <2> QED
    BY <2>1, <2>2, Begins
<1> QED
  BY <1>1, <1>2, <1>3, <1>4, <1>5, <1>6

\* A handler begins.
LEMMA Starts ==
    ASSUME NEW w \in Workers, NEW u \in Users
    PROVE  /\ Register(w, u) => Moved(w, "session")
           /\ LoginRead(w, u) => Moved(w, "session")
           /\ RefreshRead(w, u) => Moved(w, "refresh")
           /\ ForgotRead(w, u) => Moved(w, "forgot")
           /\ ResetRead(w, u) => Moved(w, "reset")
           /\ RequestDeletionRead(w, u) => Moved(w, "askDeletion")
           /\ DeleteRead(w, u) => Moved(w, "deleteFiles")
           /\ SubmitRead(w, u) => Moved(w, "upload")
           /\ ReviewRead(w, u) => Moved(w, "review")
           /\ UpdateStatusRead(w, u) => Moved(w, "status")
           /\ CreateInternalUser(w, u) => Moved(w, "invalidate")
           /\ ListUsersRead(w) => Moved(w, "remember")
<1>1. ASSUME Register(w, u) PROVE Moved(w, "session")
  <2>q. PICK q : q = [op |-> "session", u |-> u, next |-> issued[u] + 1]
    OBVIOUS
  <2>1. Begin(w, q) /\ q.op = "session"
    BY <1>1, <2>q DEF Register
  <2> QED
    BY <2>1, Begins
<1>2. ASSUME LoginRead(w, u) PROVE Moved(w, "session")
  <2>q. PICK q : q = [op |-> "session", u |-> u, next |-> issued[u] + 1]
    OBVIOUS
  <2>1. Begin(w, q) /\ q.op = "session"
    BY <1>2, <2>q DEF LoginRead
  <2> QED
    BY <2>1, Begins
<1>3. ASSUME RefreshRead(w, u) PROVE Moved(w, "refresh")
  <2>q. PICK q : q = [op |-> "refresh", u |-> u, previous |-> refresh[u],
                    next |-> issued[u] + 1]
    OBVIOUS
  <2>1. Begin(w, q) /\ q.op = "refresh"
    BY <1>3, <2>q DEF RefreshRead
  <2> QED
    BY <2>1, Begins
<1>4. ASSUME ForgotRead(w, u) PROVE Moved(w, "forgot")
  <2>q. PICK q : q = [op |-> "forgot", u |-> u, mail |-> mails[u] + 1]
    OBVIOUS
  <2>1. Begin(w, q) /\ q.op = "forgot"
    BY <1>4, <2>q DEF ForgotRead
  <2> QED
    BY <2>1, Begins
<1>5. ASSUME ResetRead(w, u) PROVE Moved(w, "reset")
  <2>1. PICK by \in {"token", "code"}, mail \in 1 .. mails[u] :
           Begin(w, [op |-> "reset", u |-> u, by |-> by, mail |-> mail])
    BY <1>5 DEF ResetRead
  <2>q. PICK q : q = [op |-> "reset", u |-> u, by |-> by, mail |-> mail]
    OBVIOUS
  <2>2. Begin(w, q) /\ q.op = "reset"
    BY <2>1, <2>q
  <2> QED
    BY <2>2, Begins
<1>6. ASSUME RequestDeletionRead(w, u) PROVE Moved(w, "askDeletion")
  <2>q. PICK q : q = [op |-> "askDeletion", u |-> u, mail |-> mails[u] + 1]
    OBVIOUS
  <2>1. Begin(w, q) /\ q.op = "askDeletion"
    BY <1>6, <2>q DEF RequestDeletionRead
  <2> QED
    BY <2>1, Begins
<1>7. ASSUME DeleteRead(w, u) PROVE Moved(w, "deleteFiles")
  <2>1. PICK mail \in {0} \cup (IF deletion[u].live THEN {deletion[u].token} ELSE {}) :
           Begin(w, [op |-> "deleteFiles", u |-> u, mail |-> mail,
                     files |-> identity[u].files])
    BY <1>7 DEF DeleteRead
  <2>q. PICK q : q = [op |-> "deleteFiles", u |-> u, mail |-> mail,
                    files |-> identity[u].files]
    OBVIOUS
  <2>2. Begin(w, q) /\ q.op = "deleteFiles"
    BY <2>1, <2>q
  <2> QED
    BY <2>2, Begins
<1>8. ASSUME SubmitRead(w, u) PROVE Moved(w, "upload")
  <2>q. PICK q : q = [op |-> "upload", u |-> u, old |-> identity[u].files,
                    new |-> uploads[u] + 1]
    OBVIOUS
  <2>1. Begin(w, q) /\ q.op = "upload"
    BY <1>8, <2>q DEF SubmitRead
  <2> QED
    BY <2>1, Begins
<1>9. ASSUME ReviewRead(w, u) PROVE Moved(w, "review")
  <2>1. PICK verdict \in Givable(u) :
           Begin(w, [op |-> "review", u |-> u, verdict |-> verdict])
    BY <1>9 DEF ReviewRead
  <2>q. PICK q : q = [op |-> "review", u |-> u, verdict |-> verdict]
    OBVIOUS
  <2>2. Begin(w, q) /\ q.op = "review"
    BY <2>1, <2>q
  <2> QED
    BY <2>2, Begins
<1>10. ASSUME UpdateStatusRead(w, u) PROVE Moved(w, "status")
  <2>1. PICK new \in Settable(u) :
           Begin(w, [op |-> "status", u |-> u, new |-> new])
    BY <1>10 DEF UpdateStatusRead
  <2>q. PICK q : q = [op |-> "status", u |-> u, new |-> new]
    OBVIOUS
  <2>2. Begin(w, q) /\ q.op = "status"
    BY <2>1, <2>q
  <2> QED
    BY <2>2, Begins
<1>11. ASSUME CreateInternalUser(w, u) PROVE Moved(w, "invalidate")
  <2>q. PICK q : q = [op |-> "invalidate"]
    OBVIOUS
  <2>1. Begin(w, q) /\ q.op = "invalidate"
    BY <1>11, <2>q DEF CreateInternalUser
  <2> QED
    BY <2>1, Begins
<1>12. ASSUME ListUsersRead(w) PROVE Moved(w, "remember")
  <2>q. PICK q : q = [op |-> "remember", value |-> account]
    OBVIOUS
  <2>1. Begin(w, q) /\ q.op = "remember"
    BY <1>12, <2>q DEF ListUsersRead
  <2> QED
    BY <2>1, Begins
<1> QED
  BY <1>1, <1>2, <1>3, <1>4, <1>5, <1>6, <1>7, <1>8, <1>9, <1>10, <1>11, <1>12

----------------------------------------------------------------------------
(* Tokens.  The new hash of a request in flight is known to no one else.   *)

Carries(q, u) == q.op \in {"session", "refresh"} /\ q.u = u

TokenRequest(q) ==
    /\ q.op \in {"session", "refresh"} => q.u \in Users /\ q.next \in 1 .. issued[q.u]
    /\ q.op = "refresh" => q.previous # 0

\* a token is carried by one request
OwnToken ==
    \A u \in Users : \A v, w \in Workers :
        Carries(req[v], u) /\ Carries(req[w], u) /\ req[v].next = req[w].next => v = w

TokenInv ==
    /\ issued \in [Users -> Nat]
    /\ refresh = [u \in Users |-> refresh[u]]
    /\ answered = [u \in Users |-> answered[u]]
    /\ req = [w \in Workers |-> req[w]]
    /\ \A w \in Workers : TokenRequest(req[w])
    /\ OwnToken

\* a token that was good, or never will be
Seen(u) == (1 .. issued[u]) \ Carried(u)

LEMMA CarriedOnes ==
    ASSUME NEW u \in Users, NEW n
    PROVE  n \in Carried(u) <=> \E w \in Workers : Carries(req[w], u) /\ req[w].next = n
  BY DEF Carried, Carries

\* A step that makes no token and writes none: a request may let its own go.
LEMMA TokensQuiet ==
    ASSUME TokenInv, NEW w \in Workers, NEW q, req' = [req EXCEPT ![w] = q],
           q.op \notin {"session", "refresh"}, issued' = issued,
           refresh' = [u \in Users |-> refresh'[u]],
           answered' = [u \in Users |-> answered'[u]]
    PROVE  TokenInv' /\ \A u \in Users : Seen(u) \subseteq Seen(u)'
<1>1. /\ req' = [v \in Workers |-> req'[v]] /\ req'[w] = q
      /\ \A v \in Workers \ {w} : req'[v] = req[v]
  BY OneMoves DEF TokenInv
<1>2. \A v \in Workers, u \in Users : Carries(req'[v], u) => v # w /\ req'[v] = req[v]
  BY <1>1 DEF Carries
<1>3. \A v \in Workers : TokenRequest(req[v])'
  BY <1>1 DEF TokenInv, TokenRequest
<1>4. OwnToken'
  BY <1>2 DEF TokenInv, OwnToken, Carries
<1>5. ASSUME NEW u \in Users PROVE Carried(u)' \subseteq Carried(u)
  BY <1>2 DEF Carried, Carries
<1>6. \A u \in Users : Seen(u) \subseteq Seen(u)'
  BY <1>5 DEF Seen
<1> QED
  BY <1>1, <1>3, <1>4, <1>6 DEF TokenInv

\* A step that leaves the requests alone.
LEMMA TokensStill ==
    ASSUME TokenInv, req' = req, issued' = issued,
           refresh' = [u \in Users |-> refresh'[u]],
           answered' = [u \in Users |-> answered'[u]]
    PROVE  TokenInv' /\ \A u \in Users : Seen(u) \subseteq Seen(u)'
  BY DEF TokenInv, TokenRequest, OwnToken, Carries, Seen, Carried

\* A request makes the token it will write.
LEMMA TokenMade ==
    ASSUME TokenInv, NEW w \in Workers, NEW u \in Users, NEW q,
           issued' = [issued EXCEPT ![u] = @ + 1], refresh' = refresh, answered' = answered,
           req[w] = Idle, req' = [req EXCEPT ![w] = q],
           q.op \in {"session", "refresh"}, q.u = u, q.next = issued[u] + 1,
           q.op = "refresh" => q.previous # 0
    PROVE  TokenInv' /\ \A s \in Users : Seen(s) \subseteq Seen(s)'
<1>1. /\ req' = [v \in Workers |-> req'[v]] /\ req'[w] = q
      /\ \A v \in Workers \ {w} : req'[v] = req[v]
  BY OneMoves DEF TokenInv
<1>2. /\ issued' \in [Users -> Nat] /\ issued'[u] = issued[u] + 1 /\ issued[u] \in Nat
      /\ \A s \in Users \ {u} : issued'[s] = issued[s]
  BY DEF TokenInv
<1>3. \A s \in Users : issued[s] \in Nat /\ issued'[s] \in Nat /\ issued[s] <= issued'[s]
  BY <1>2 DEF TokenInv
<1>4. ASSUME NEW v \in Workers PROVE TokenRequest(req[v])'
  <2>1. CASE v = w
    <3>1. q.next \in 1 .. issued'[q.u]
      BY <1>2
    <3>2. TokenRequest(q)'
      BY <3>1 DEF TokenRequest
    <3> QED
      BY <1>1, <2>1, <3>2 DEF TokenRequest
  <2>2. CASE v # w
    <3>1. TokenRequest(req[v]) /\ req'[v] = req[v]
      BY <1>1, <2>2 DEF TokenInv
    <3> QED
      BY <1>3, <3>1 DEF TokenRequest
  <2> QED
    BY <2>1, <2>2
<1>5. \A v \in Workers, s \in Users : Carries(req[v], s) => req[v].next \in 1 .. issued[s]
  BY DEF TokenInv, TokenRequest, Carries
<1>6. OwnToken'
  <2> SUFFICES ASSUME NEW s \in Users, NEW v \in Workers, NEW x \in Workers,
                      Carries(req'[v], s), Carries(req'[x], s), req'[v].next = req'[x].next
               PROVE  v = x
    BY DEF OwnToken, Carries
  <2>1. CASE v # w /\ x # w
    BY <1>1, <2>1 DEF TokenInv, OwnToken
  <2>2. \A y \in Workers \ {w} : Carries(req'[y], u) => req'[y].next # q.next
    BY <1>1, <1>2, <1>5
  <2>3. CASE v = w /\ x # w
    BY <1>1, <2>2, <2>3 DEF Carries
  <2>4. CASE x = w /\ v # w
    BY <1>1, <2>2, <2>4 DEF Carries
  <2> QED
    BY <2>1, <2>3, <2>4
<1>7. ASSUME NEW s \in Users, NEW n \in Seen(s) PROVE n \in Seen(s)'
  <2>1. n \in 1 .. issued[s] /\ n \notin Carried(s)
    BY <1>7 DEF Seen
  <2>2. n \in 1 .. issued'[s]
    BY <1>3, <2>1
  <2>3. n \notin Carried(s)'
    <3> SUFFICES ASSUME NEW v \in Workers, Carries(req'[v], s), req'[v].next = n
                 PROVE  FALSE
      BY DEF Carried, Carries
    <3>1. CASE v = w
      BY <1>1, <1>2, <2>1, <3>1 DEF Carries
    <3>2. CASE v # w
      BY <1>1, <2>1, <3>2, CarriedOnes
    <3> QED
      BY <3>1, <3>2
  <2> QED
    BY <2>2, <2>3 DEF Seen
<1> QED
  BY <1>1, <1>2, <1>4, <1>6, <1>7 DEF TokenInv

\* A request writes the token it made: nobody had seen it, and now it is good.
LEMMA TokenWritten ==
    ASSUME TokenInv, NEW w \in Workers, NEW u \in Users, Carries(req[w], u),
           issued' = issued, refresh' = [refresh EXCEPT ![u] = req[w].next],
           answered' = [s \in Users |-> answered'[s]],
           req' = [req EXCEPT ![w] = Idle]
    PROVE  /\ TokenInv'
           /\ \A s \in Users : Seen(s) \subseteq Seen(s)'
           /\ refresh'[u] # 0 /\ refresh'[u] \notin Seen(u) /\ refresh'[u] \in Seen(u)'
<1>n. PICK n : n = req[w].next
  OBVIOUS
<1>1. refresh' = [s \in Users |-> refresh'[s]] /\ refresh'[u] = n
  BY <1>n DEF TokenInv
<1>2. Idle.op \notin {"session", "refresh"}
  BY DEF Idle
<1>3. TokenInv' /\ \A s \in Users : Seen(s) \subseteq Seen(s)'
  BY <1>1, <1>2, TokensQuiet
<1>4. n \in 1 .. issued[u] /\ issued[u] \in Nat
  BY <1>n DEF TokenInv, TokenRequest, Carries
<1>5. n \notin Seen(u)
  BY <1>n, CarriedOnes DEF Seen
<1>6. n \notin Carried(u)'
  <2> SUFFICES ASSUME NEW v \in Workers, Carries(req'[v], u), req'[v].next = n
               PROVE  FALSE
    BY DEF Carried, Carries
  <2>1. /\ req'[w] = Idle /\ \A x \in Workers \ {w} : req'[x] = req[x]
    BY OneMoves DEF TokenInv
  <2>2. v # w /\ req'[v] = req[v]
    BY <1>2, <2>1 DEF Carries
  <2> QED
    BY <1>n, <2>2 DEF TokenInv, OwnToken
<1>7. n \in Seen(u)'
  BY <1>4, <1>6 DEF Seen
<1>8. n # 0
  BY <1>4
<1> QED
  BY <1>1, <1>3, <1>5, <1>7, <1>8

\* Nothing good is written, or what was good is erased.
LEMMA Unrotated ==
    ASSUME TokenInv, TokenInv', \A u \in Users : Seen(u) \subseteq Seen(u)',
           answered' = answered,
           \A u \in Users : refresh'[u] = refresh[u] \/ refresh'[u] = 0
    PROVE  Tokens!RotationNext
<1>1. DOMAIN refresh' = Users /\ DOMAIN answered' = Users
  BY DEF TokenInv
<1>2. \A u \in Users : Tokens!Revoke(u) \/ Tokens!Keep(u)
  BY DEF Tokens!Revoke, Tokens!Keep
<1> QED
  BY <1>1, <1>2 DEF Tokens!RotationNext, Seen

\* One user's token is written by the request that made it.
LEMMA Rotated ==
    ASSUME TokenInv, NEW w \in Workers, NEW u \in Users, Carries(req[w], u),
           issued' = issued, refresh' = [refresh EXCEPT ![u] = req[w].next],
           answered' = [s \in Users |-> answered'[s]],
           req' = [req EXCEPT ![w] = Idle],
           \A s \in Users \ {u} : answered'[s] = answered[s],
           \/ answered'[u] = answered[u]
           \/ refresh[u] # 0 /\ answered'[u] = Append(answered[u], refresh[u])
    PROVE  TokenInv' /\ Tokens!RotationNext
<1>1. /\ TokenInv'
      /\ \A s \in Users : Seen(s) \subseteq Seen(s)'
      /\ refresh'[u] # 0 /\ refresh'[u] \notin Seen(u) /\ refresh'[u] \in Seen(u)'
  BY TokenWritten
<1>2. DOMAIN refresh' = Users /\ DOMAIN answered' = Users
  BY <1>1 DEF TokenInv
<1>3. \A s \in Users \ {u} : refresh'[s] = refresh[s]
  BY DEF TokenInv
<1>4. \A s \in Users \ {u} : Tokens!Keep(s)
  BY <1>3 DEF Tokens!Keep
<1>5. Tokens!Fresh(u)
  BY <1>1 DEF Tokens!Fresh, Seen
<1>6. Tokens!Grant(u) \/ Tokens!Rotate(u)
  BY <1>5 DEF Tokens!Grant, Tokens!Rotate
<1>7. \A s \in Users : Tokens!Grant(s) \/ Tokens!Rotate(s) \/ Tokens!Revoke(s) \/ Tokens!Keep(s)
  BY <1>4, <1>6
<1>8. \A s \in Users : [v \in Users |-> (1 .. issued[v]) \ Carried(v)][s]
                         \subseteq [v \in Users |-> (1 .. issued[v]) \ Carried(v)]'[s]
  BY <1>1 DEF Seen
<1> QED
  BY <1>1, <1>2, <1>7, <1>8 DEF Tokens!RotationNext

\* register, login, refresh: the token is made before it is written.
LEMMA MintStep ==
    ASSUME TokenInv, NEW w \in Workers, NEW u \in Users,
           Register(w, u) \/ LoginRead(w, u) \/ RefreshRead(w, u)
    PROVE  TokenInv' /\ Tokens!RotationNext
<1>1. /\ issued' = [issued EXCEPT ![u] = @ + 1] /\ refresh' = refresh /\ answered' = answered
      /\ req[w] = Idle
  BY DEF Register, LoginRead, RefreshRead, Mint, Begin
<1>2. PICK q : /\ req' = [req EXCEPT ![w] = q]
               /\ q.op \in {"session", "refresh"} /\ q.u = u /\ q.next = issued[u] + 1
               /\ q.op = "refresh" => q.previous # 0
  <2>1. CASE RefreshRead(w, u)
    <3>q. PICK q : q = [op |-> "refresh", u |-> u, previous |-> refresh[u],
                        next |-> issued[u] + 1]
      OBVIOUS
    <3>1. req' = [req EXCEPT ![w] = q] /\ refresh[u] # 0
      BY <2>1, <3>q DEF RefreshRead, Begin
    <3>2. q.op = "refresh" /\ q.u = u /\ q.next = issued[u] + 1 /\ q.previous # 0
      BY <3>q, <3>1
    <3> QED
      BY <3>1, <3>2
  <2>2. CASE Register(w, u) \/ LoginRead(w, u)
    <3>q. PICK q : q = [op |-> "session", u |-> u, next |-> issued[u] + 1]
      OBVIOUS
    <3>1. req' = [req EXCEPT ![w] = q]
      BY <2>2, <3>q DEF Register, LoginRead, Begin
    <3>2. q.op = "session" /\ q.u = u /\ q.next = issued[u] + 1
      BY <3>q
    <3> QED
      BY <3>1, <3>2
  <2> QED
    BY <2>1, <2>2
<1>3. TokenInv' /\ \A s \in Users : Seen(s) \subseteq Seen(s)'
  BY <1>1, <1>2, TokenMade
<1>4. \A s \in Users : refresh'[s] = refresh[s] \/ refresh'[s] = 0
  BY <1>1
<1> QED
  BY <1>1, <1>3, <1>4, Unrotated

\* the two writes of a token
LEMMA WriteStep ==
    ASSUME TokenInv, NEW w \in Workers, SessionCommit(w) \/ RefreshCommit(w)
    PROVE  TokenInv' /\ Tokens!RotationNext
<1>u. PICK u : u = req[w].u
  OBVIOUS
<1>1. /\ req[w].op \in {"session", "refresh"} /\ issued' = issued
      /\ refresh' = [refresh EXCEPT ![u] = req[w].next]
      /\ req' = [req EXCEPT ![w] = Idle]
  BY <1>u DEF SessionCommit, RefreshCommit, Done
<1>2. TokenRequest(req[w])
  BY DEF TokenInv
<1>3. u \in Users /\ Carries(req[w], u)
  BY <1>u, <1>1, <1>2 DEF TokenRequest, Carries
<1>4. CASE SessionCommit(w)
  <2>1. answered' = answered
    BY <1>4 DEF SessionCommit
  <2>2. answered' = [s \in Users |-> answered'[s]]
    BY <2>1 DEF TokenInv
  <2> QED
    BY <1>1, <1>3, <2>1, <2>2, Rotated
<1>5. CASE RefreshCommit(w)
  <2>1. /\ answered' = [answered EXCEPT ![u] = Append(@, req[w].previous)]
        /\ refresh[u] = req[w].previous /\ req[w].op = "refresh"
    BY <1>u, <1>5 DEF RefreshCommit
  <2>2. /\ answered' = [s \in Users |-> answered'[s]]
        /\ answered'[u] = Append(answered[u], req[w].previous)
        /\ \A s \in Users \ {u} : answered'[s] = answered[s]
    BY <1>3, <2>1 DEF TokenInv
  <2>3. refresh[u] # 0 /\ answered'[u] = Append(answered[u], refresh[u])
    BY <1>2, <2>1, <2>2 DEF TokenRequest
  <2> QED
    BY <1>1, <1>3, <2>2, <2>3, Rotated
<1> QED
  BY <1>4, <1>5

\* logout, a reset and a deletion
LEMMA EraseStep ==
    ASSUME TokenInv, NEW w \in Workers,
           ResetCommit(w) \/ DeleteCommit(w) \/ \E u \in Users : Logout(w, u)
    PROVE  TokenInv' /\ Tokens!RotationNext
<1>1. PICK u : /\ refresh' = [refresh EXCEPT ![u] = 0]
               /\ issued' = issued /\ answered' = answered
  BY DEF ResetCommit, DeleteCommit, Logout
<1>2. /\ refresh' = [s \in Users |-> refresh'[s]]
      /\ answered' = [s \in Users |-> answered'[s]]
      /\ \A s \in Users : refresh'[s] = refresh[s] \/ refresh'[s] = 0
  BY <1>1 DEF TokenInv
<1>3. CASE ResetCommit(w) \/ DeleteCommit(w)
  <2>1. Moved(w, "idle")
    BY <1>3, Ends DEF ResetCommit, DeleteCommit
  <2>2. TokenInv' /\ \A s \in Users : Seen(s) \subseteq Seen(s)'
    BY <1>1, <1>2, <2>1, TokensQuiet DEF Moved
  <2> QED
    BY <1>1, <1>2, <2>2, Unrotated
<1>4. CASE \E s \in Users : Logout(w, s)
  <2>1. req' = req
    BY <1>4 DEF Logout, AtOnce
  <2>2. TokenInv' /\ \A s \in Users : Seen(s) \subseteq Seen(s)'
    BY <1>1, <1>2, <2>1, TokensStill
  <2> QED
    BY <1>1, <1>2, <2>2, Unrotated
<1> QED
  BY <1>3, <1>4

\* The handlers that have nothing to do with tokens begin, and go on.
Called(w, u) ==
    \/ ForgotRead(w, u) \/ ResetRead(w, u) \/ RequestDeletionRead(w, u) \/ DeleteRead(w, u)
    \/ SubmitRead(w, u) \/ ReviewRead(w, u) \/ UpdateStatusRead(w, u)
    \/ CreateInternalUser(w, u) \/ ListUsersRead(w)

Onward(w) ==
    \/ ForgotCommit(w) \/ RequestDeletionCommit(w) \/ DeleteFiles(w)
    \/ SubmitUpload(w) \/ SubmitCommit(w) \/ UpdateStatusCommit(w)

Ended(w) ==
    \/ RefreshRefused(w) \/ ResetMailSent(w) \/ ResetMailFailed(w) \/ ResetRefused(w)
    \/ DeletionMail(w) \/ DeleteRefused(w) \/ SubmitFails(w) \/ SubmitReplace(w)
    \/ ReviewCommit(w) \/ InvalidateAdminReadCache(w) \/ ListUsersStore(w) \/ AccountAbort(w)

LEMMA ElsewhereStep ==
    ASSUME TokenInv, NEW w \in Workers,
           (\E u \in Users : Called(w, u)) \/ Onward(w) \/ Ended(w)
    PROVE  TokenInv' /\ Tokens!RotationNext
<1>1. issued' = issued /\ refresh' = refresh /\ answered' = answered
  BY DEF Called, ForgotRead, ResetRead, RequestDeletionRead, DeleteRead, SubmitRead,
         ReviewRead, UpdateStatusRead, CreateInternalUser, ListUsersRead, Onward,
         ForgotCommit, RequestDeletionCommit, DeleteFiles, SubmitUpload, SubmitCommit,
         UpdateStatusCommit, Ended, RefreshRefused, ResetMailSent, ResetMailFailed,
         ResetRefused, DeletionMail, DeleteRefused, SubmitFails, SubmitReplace,
         ReviewCommit, InvalidateAdminReadCache, ListUsersStore, AccountAbort,
         userTables, credentials
<1>2. PICK q : q.op \notin {"session", "refresh"} /\ req' = [req EXCEPT ![w] = q]
  <2>1. CASE \E u \in Users : Called(w, u)
    BY <2>1, Starts DEF Called, Moved
  <2>2. CASE Onward(w)
    BY <2>2, GoesOn DEF Onward, Moved
  <2>3. CASE Ended(w)
    <3>1. Done(w)
      BY <2>3 DEF Ended, RefreshRefused, ResetMailSent, ResetMailFailed, ResetRefused,
                  DeletionMail, DeleteRefused, SubmitFails, SubmitReplace, ReviewCommit,
                  InvalidateAdminReadCache, ListUsersStore, AccountAbort
    <3> QED
      BY <3>1, Ends DEF Moved
  <2> QED
    BY <2>1, <2>2, <2>3
<1>3. refresh' = [s \in Users |-> refresh'[s]] /\ answered' = [s \in Users |-> answered'[s]]
  BY <1>1 DEF TokenInv
<1>4. TokenInv' /\ \A s \in Users : Seen(s) \subseteq Seen(s)'
  BY <1>1, <1>2, <1>3, TokensQuiet
<1>5. \A s \in Users : refresh'[s] = refresh[s] \/ refresh'[s] = 0
  BY <1>1
<1> QED
  BY <1>1, <1>4, <1>5, Unrotated

\* time passes, and a step of no handler
LEMMA TimeStep ==
    ASSUME TokenInv, (\E u \in Users : ResetExpires(u) \/ DeletionExpires(u)) \/ CacheExpires
    PROVE  TokenInv' /\ Tokens!RotationNext
<1>1. issued' = issued /\ refresh' = refresh /\ answered' = answered /\ req' = req
  BY DEF ResetExpires, DeletionExpires, CacheExpires, credentials
<1>2. refresh' = [s \in Users |-> refresh'[s]] /\ answered' = [s \in Users |-> answered'[s]]
  BY <1>1 DEF TokenInv
<1>3. TokenInv' /\ \A s \in Users : Seen(s) \subseteq Seen(s)'
  BY <1>1, <1>2, TokensStill
<1>4. \A s \in Users : refresh'[s] = refresh[s] \/ refresh'[s] = 0
  BY <1>1
<1> QED
  BY <1>1, <1>3, <1>4, Unrotated

\* What a step of the services is.
LEMMA AccountSteps ==
    ASSUME AccountsNext
    PROVE  \/ \E w \in Workers : (\E u \in Users : Called(w, u)) \/ Onward(w) \/ Ended(w)
           \/ \E w \in Workers, u \in Users :
                 Register(w, u) \/ LoginRead(w, u) \/ RefreshRead(w, u)
           \/ \E w \in Workers : SessionCommit(w) \/ RefreshCommit(w)
           \/ \E w \in Workers :
                 ResetCommit(w) \/ DeleteCommit(w) \/ \E u \in Users : Logout(w, u)
           \/ (\E u \in Users : ResetExpires(u) \/ DeletionExpires(u)) \/ CacheExpires
<1>1. PICK w \in Workers :
         \/ AccountProgress(w)
         \/ AccountAbort(w)
         \/ \E u \in Users :
               \/ AccountCall(w, u)
               \/ SessionCall(w, u)
               \/ DeletionCall(w, u)
               \/ IdentityCall(w, u)
               \/ ListCall(w, u)
  BY DEF AccountsNext
<1>2. CASE AccountProgress(w) \/ AccountAbort(w)
  BY <1>2 DEF AccountProgress, Onward, Ended
<1>3. ASSUME NEW u \in Users,
             \/ AccountCall(w, u) \/ SessionCall(w, u) \/ DeletionCall(w, u)
             \/ IdentityCall(w, u) \/ ListCall(w, u)
      PROVE  \/ Called(w, u)
             \/ Register(w, u) \/ LoginRead(w, u) \/ RefreshRead(w, u) \/ Logout(w, u)
             \/ ResetExpires(u) \/ DeletionExpires(u) \/ CacheExpires
  BY <1>3 DEF AccountCall, SessionCall, DeletionCall, IdentityCall, ListCall, Called
<1> QED
  BY <1>1, <1>2, <1>3

LEMMA TokenStep ==
    ASSUME TokenInv, [AccountsNext]_userVars
    PROVE  TokenInv' /\ [Tokens!RotationNext]_(Tokens!rotationVars)
<1>1. CASE AccountsNext
  <2>1. TokenInv' /\ Tokens!RotationNext
    BY <1>1, AccountSteps, ElsewhereStep, MintStep, WriteStep, EraseStep, TimeStep
  <2> QED
    BY <2>1
<1>2. CASE UNCHANGED userVars
  <2>1. issued' = issued /\ refresh' = refresh /\ answered' = answered /\ req' = req
    BY <1>2 DEF userVars, userTables, credentials
  <2>2. TokenInv'
    BY <2>1 DEF TokenInv, TokenRequest, OwnToken, Carries
  <2>3. \A u \in Users : Carried(u)' = Carried(u)
    BY <2>1 DEF Carried
  <2>4. UNCHANGED Tokens!rotationVars
    BY <2>1, <2>3 DEF Tokens!rotationVars
  <2> QED
    BY <2>2, <2>4
<1> QED
  BY <1>1, <1>2

LEMMA TokenInit == UserInit => TokenInv /\ Tokens!RotationInit
<1> SUFFICES ASSUME UserInit PROVE TokenInv /\ Tokens!RotationInit
  OBVIOUS
<1>1. \A w \in Workers : req[w].op = "idle"
  BY DEF UserInit, NothingIssued, Idle
<1>2. TokenInv
  BY <1>1 DEF UserInit, NothingIssued, TokenInv, TokenRequest, OwnToken, Carries
<1>3. \A u \in Users : (1 .. issued[u]) \ Carried(u) = {}
  BY DEF UserInit, NothingIssued
<1>4. Tokens!RotationInit
  BY <1>3 DEF UserInit, NothingIssued, Tokens!RotationInit
<1> QED
  BY <1>2, <1>4

\* register, login, refresh, logout, the reset and the deletion implement the
\* abstract rotation of hashes, for any users and workers, whatever tokens share
\* a second, and however the writes fall.
THEOREM Rotating == AccountsSpec => RotatesTokens
<1>1. UserInit => TokenInv /\ Tokens!RotationInit
  BY TokenInit
<1>2. TokenInv /\ [AccountsNext]_userVars =>
         TokenInv' /\ [Tokens!RotationNext]_(Tokens!rotationVars)
  BY TokenStep
<1> QED
  BY <1>1, <1>2, PTL DEF AccountsSpec, RotatesTokens, Tokens!Rotation

Promise == INSTANCE TokenRotationProofs WITH
    current <- refresh,
    seen <- [u \in Users |-> (1 .. issued[u]) \ Carried(u)],
    answered <- answered

\* refresh, auth.service.ts: a token that was exchanged is neither accepted nor
\* exchanged again, which is what the abstract rotation promises, unless the
\* same text was signed twice in one second.
THEOREM Succession == AccountsSpec => []Tokens!OneSuccessor
<1>1. Tokens!RotationInit => Promise!RotationInit
  BY DEF Tokens!RotationInit, Promise!RotationInit
<1>2. [Tokens!RotationNext]_(Tokens!rotationVars) =>
         [Promise!RotationNext]_(Promise!rotationVars)
  BY DEF Tokens!RotationNext, Tokens!rotationVars, Tokens!Grant, Tokens!Rotate,
         Tokens!Revoke, Tokens!Keep, Tokens!Fresh,
         Promise!RotationNext, Promise!rotationVars, Promise!Grant, Promise!Rotate,
         Promise!Revoke, Promise!Keep, Promise!Fresh
<1>3. RotatesTokens => Promise!Rotation
  BY <1>1, <1>2, PTL DEF RotatesTokens, Tokens!Rotation, Promise!Rotation
<1>4. Promise!OneSuccessor => Tokens!OneSuccessor
  BY DEF Promise!OneSuccessor, Tokens!OneSuccessor, Promise!SignedTwice, Tokens!SignedTwice
<1> QED
  BY <1>3, <1>4, Rotating, Promise!SingleSuccessor, PTL

----------------------------------------------------------------------------
(* Password resets.  A credential in flight is a mail's number.            *)
ResetRow == [token : Nat, code : Nat, live : BOOLEAN]
Whole(row) == row.live => row.token # 0 /\ row.code = row.token

ResetInv ==
    /\ mails \in [Users -> Nat]
    /\ reset \in [Users -> ResetRow]
    /\ req = [w \in Workers |-> req[w]]
    /\ \A w \in Workers : req[w].op = "forgot" => req[w].mail \in Nat \ {0}
    /\ WholeReset

\* A handler goes on, whatever it does to the resets.
LEMMA ResetApart ==
    ASSUME ResetInv, NEW w \in Workers, NEW q, req' = [req EXCEPT ![w] = q],
           q.op = "forgot" => q.mail \in Nat \ {0},
           mails' \in [Users -> Nat], reset' \in [Users -> ResetRow], WholeReset'
    PROVE  ResetInv'
<1>1. /\ req' = [v \in Workers |-> req'[v]] /\ req'[w] = q
      /\ \A v \in Workers \ {w} : req'[v] = req[v]
  BY OneMoves DEF ResetInv
<1>2. \A v \in Workers : req'[v].op = "forgot" => req'[v].mail \in Nat \ {0}
  BY <1>1 DEF ResetInv
<1> QED
  BY <1>1, <1>2 DEF ResetInv

LEMMA ResetQuiet ==
    ASSUME ResetInv, NEW w \in Workers, NEW op, op # "forgot", Moved(w, op),
           mails' = mails, reset' = reset
    PROVE  ResetInv'
<1>1. PICK q : q.op = op /\ req' = [req EXCEPT ![w] = q]
  BY DEF Moved
<1>2. mails' \in [Users -> Nat] /\ reset' \in [Users -> ResetRow] /\ WholeReset'
  BY DEF ResetInv, WholeReset
<1> QED
  BY <1>1, <1>2, ResetApart

\* A user's reset is written, whole or not live.
LEMMA ResetWritten ==
    ASSUME ResetInv, NEW u, NEW row \in ResetRow, Whole(row),
           reset' = [reset EXCEPT ![u] = row]
    PROVE  reset' \in [Users -> ResetRow] /\ WholeReset'
<1>1. reset' \in [Users -> ResetRow]
  BY DEF ResetInv
<1>2. ASSUME NEW s \in Users PROVE reset'[s] = row \/ reset'[s] = reset[s]
  BY DEF ResetInv
<1>3. \A s \in Users : Whole(reset[s])
  BY DEF ResetInv, WholeReset, Whole
<1>4. ASSUME NEW s \in Users PROVE Whole(reset'[s])
  <2>1. CASE reset'[s] = row
    BY <2>1 DEF Whole
  <2>2. CASE reset'[s] = reset[s]
    BY <1>3, <2>2 DEF Whole
  <2> QED
    BY <1>2, <2>1, <2>2
<1> QED
  BY <1>1, <1>4 DEF WholeReset, Whole

LEMMA NothingToReset == NoReset \in ResetRow /\ Whole(NoReset)
  BY DEF NoReset, ResetRow, Whole

\* A mail is begun.
LEMMA MailBegun ==
    ASSUME ResetInv, NEW w \in Workers, NEW u \in Users,
           ForgotRead(w, u) \/ RequestDeletionRead(w, u)
    PROVE  ResetInv'
<1>1. mails' = [mails EXCEPT ![u] = @ + 1] /\ reset' = reset /\ mails[u] \in Nat
  BY DEF ForgotRead, RequestDeletionRead, ResetInv
<1>2. PICK q : req' = [req EXCEPT ![w] = q] /\ (q.op = "forgot" => q.mail \in Nat \ {0})
  <2>1. CASE ForgotRead(w, u)
    <3>q. PICK q : q = [op |-> "forgot", u |-> u, mail |-> mails[u] + 1]
      OBVIOUS
    <3>1. req' = [req EXCEPT ![w] = q]
      BY <2>1, <3>q DEF ForgotRead, Begin
    <3>2. q.mail \in Nat \ {0}
      BY <1>1, <3>q
    <3> QED
      BY <3>1, <3>2
  <2>2. CASE RequestDeletionRead(w, u)
    BY <2>2, Starts DEF Moved
  <2> QED
    BY <2>1, <2>2
<1>3. mails' \in [Users -> Nat]
  BY <1>1 DEF ResetInv
<1>4. reset' \in [Users -> ResetRow] /\ WholeReset'
  BY <1>1 DEF ResetInv, WholeReset
<1> QED
  BY <1>2, <1>3, <1>4, ResetApart

\* The reset of the mail is stored, with its token and its code.
LEMMA MailStored ==
    ASSUME ResetInv, NEW w \in Workers, ForgotCommit(w)
    PROVE  ResetInv'
<1>m. PICK mail : mail = req[w].mail
  OBVIOUS
<1>r. PICK row : row = [token |-> mail, code |-> mail, live |-> TRUE]
  OBVIOUS
<1>1. reset' = [reset EXCEPT ![req[w].u] = row] /\ mails' = mails /\ req[w].op = "forgot"
  BY <1>m, <1>r DEF ForgotCommit
<1>2. mail \in Nat \ {0}
  BY <1>1, <1>m DEF ResetInv
<1>3. row \in ResetRow /\ Whole(row)
  BY <1>2, <1>r DEF ResetRow, Whole
<1>4. reset' \in [Users -> ResetRow] /\ WholeReset'
  BY <1>1, <1>3, ResetWritten
<1>5. mails' \in [Users -> Nat]
  BY <1>1 DEF ResetInv
<1>6. PICK q : q.op = "resetMail" /\ req' = [req EXCEPT ![w] = q]
  BY GoesOn DEF Moved
<1> QED
  BY <1>4, <1>5, <1>6, ResetApart

\* A mail that fails withdraws its own reset.
LEMMA MailFailed ==
    ASSUME ResetInv, NEW w \in Workers, ResetMailFailed(w)
    PROVE  ResetInv'
<1>u. PICK u : u = req[w].u
  OBVIOUS
<1>r. PICK row : row = [reset[u] EXCEPT !.token = 0, !.live = FALSE]
  OBVIOUS
<1>1. /\ reset' = [reset EXCEPT ![u] = IF @.token = req[w].mail THEN row ELSE @]
      /\ mails' = mails /\ Done(w)
  BY <1>u, <1>r DEF ResetMailFailed
<1>2. reset' \in [Users -> ResetRow] /\ WholeReset'
  <2>1. CASE u \in Users /\ reset[u].token = req[w].mail
    <3>1. reset[u] \in ResetRow
      BY <2>1 DEF ResetInv
    <3>2. row \in ResetRow /\ Whole(row)
      BY <1>r, <3>1 DEF ResetRow, Whole
    <3>3. reset' = [reset EXCEPT ![u] = row]
      BY <1>1, <2>1
    <3> QED
      BY <3>2, <3>3, ResetWritten
  <2>2. CASE ~(u \in Users /\ reset[u].token = req[w].mail)
    <3>1. reset' = reset
      BY <1>1, <2>2 DEF ResetInv
    <3> QED
      BY <3>1 DEF ResetInv, WholeReset
  <2> QED
    BY <2>1, <2>2
<1>3. mails' \in [Users -> Nat]
  BY <1>1 DEF ResetInv
<1>4. PICK q : q.op = "idle" /\ req' = [req EXCEPT ![w] = q]
  BY <1>1, Ends DEF Moved
<1> QED
  BY <1>2, <1>3, <1>4, ResetApart

\* A reset is used, or goes with the account.
LEMMA ResetUsed ==
    ASSUME ResetInv, NEW w \in Workers, ResetCommit(w) \/ DeleteCommit(w)
    PROVE  ResetInv'
<1>1. reset' = [reset EXCEPT ![req[w].u] = NoReset] /\ mails' = mails /\ Done(w)
  BY DEF ResetCommit, DeleteCommit
<1>2. reset' \in [Users -> ResetRow] /\ WholeReset'
  BY <1>1, NothingToReset, ResetWritten
<1>3. mails' \in [Users -> Nat]
  BY <1>1 DEF ResetInv
<1>4. PICK q : q.op = "idle" /\ req' = [req EXCEPT ![w] = q]
  BY <1>1, Ends DEF Moved
<1> QED
  BY <1>2, <1>3, <1>4, ResetApart

\* Thirty minutes pass.
LEMMA ResetOver ==
    ASSUME ResetInv, NEW u \in Users, ResetExpires(u)
    PROVE  ResetInv'
<1>r. PICK row : row = [reset[u] EXCEPT !.live = FALSE]
  OBVIOUS
<1>1. reset' = [reset EXCEPT ![u] = row] /\ mails' = mails /\ req' = req
  BY <1>r DEF ResetExpires
<1>2. reset[u] \in ResetRow
  BY DEF ResetInv
<1>3. row \in ResetRow /\ Whole(row)
  BY <1>2, <1>r DEF ResetRow, Whole
<1>4. reset' \in [Users -> ResetRow] /\ WholeReset'
  BY <1>1, <1>3, ResetWritten
<1> QED
  BY <1>1, <1>4 DEF ResetInv

\* The other steps leave the resets alone.
LEMMA ResetElsewhere ==
    ASSUME ResetInv, NEW w \in Workers,
           \/ \E u \in Users : Called(w, u) \/ Register(w, u) \/ LoginRead(w, u)
                               \/ RefreshRead(w, u)
           \/ Onward(w) \/ Ended(w) \/ SessionCommit(w) \/ RefreshCommit(w)
    PROVE  ResetInv'
<1>1. CASE \E u \in Users : \/ ResetRead(w, u) \/ DeleteRead(w, u) \/ SubmitRead(w, u)
                            \/ ReviewRead(w, u) \/ UpdateStatusRead(w, u)
                            \/ CreateInternalUser(w, u) \/ ListUsersRead(w)
                            \/ Register(w, u) \/ LoginRead(w, u) \/ RefreshRead(w, u)
  <2>1. mails' = mails /\ reset' = reset
    BY <1>1 DEF ResetRead, DeleteRead, SubmitRead, ReviewRead, UpdateStatusRead,
                CreateInternalUser, ListUsersRead, Register, LoginRead, RefreshRead,
                userTables, credentials
  <2>2. \/ Moved(w, "reset") \/ Moved(w, "deleteFiles") \/ Moved(w, "upload")
        \/ Moved(w, "review") \/ Moved(w, "status") \/ Moved(w, "invalidate")
        \/ Moved(w, "remember") \/ Moved(w, "session") \/ Moved(w, "refresh")
    BY <1>1, Starts
  <2> QED
    BY <2>1, <2>2, ResetQuiet
<1>2. CASE \/ RequestDeletionCommit(w) \/ DeleteFiles(w) \/ SubmitUpload(w)
           \/ SubmitCommit(w) \/ UpdateStatusCommit(w)
  <2>1. mails' = mails /\ reset' = reset
    BY <1>2 DEF RequestDeletionCommit, DeleteFiles, SubmitUpload, SubmitCommit,
                UpdateStatusCommit, credentials
  <2>2. \/ Moved(w, "deletionMail") \/ Moved(w, "delete") \/ Moved(w, "submit")
        \/ Moved(w, "replace") \/ Moved(w, "invalidate")
    BY <1>2, GoesOn
  <2> QED
    BY <2>1, <2>2, ResetQuiet
<1>3. CASE \/ RefreshRefused(w) \/ ResetMailSent(w) \/ ResetRefused(w) \/ DeletionMail(w)
           \/ DeleteRefused(w) \/ SubmitFails(w) \/ SubmitReplace(w) \/ ReviewCommit(w)
           \/ InvalidateAdminReadCache(w) \/ ListUsersStore(w) \/ AccountAbort(w)
           \/ SessionCommit(w) \/ RefreshCommit(w)
  <2>1. mails' = mails /\ reset' = reset /\ Done(w)
    BY <1>3 DEF RefreshRefused, ResetMailSent, ResetRefused, DeletionMail, DeleteRefused,
                SubmitFails, SubmitReplace, ReviewCommit, InvalidateAdminReadCache,
                ListUsersStore, AccountAbort, SessionCommit, RefreshCommit,
                userTables, credentials
  <2> QED
    BY <2>1, Ends, ResetQuiet
<1> QED
  BY <1>1, <1>2, <1>3, MailBegun, MailStored, MailFailed DEF Called, Onward, Ended

LEMMA ResetStepInv == ResetInv /\ [AccountsNext]_userVars => ResetInv'
<1> SUFFICES ASSUME ResetInv, [AccountsNext]_userVars PROVE ResetInv'
  OBVIOUS
<1>1. ASSUME mails' = mails, reset' = reset, req' = req PROVE ResetInv'
  BY <1>1 DEF ResetInv, WholeReset
<1>2. ASSUME NEW w \in Workers, NEW u \in Users, Logout(w, u) PROVE ResetInv'
  BY <1>1, <1>2 DEF Logout, AtOnce
<1>3. ASSUME NEW u \in Users, DeletionExpires(u) PROVE ResetInv'
  BY <1>1, <1>3 DEF DeletionExpires
<1>4. CASE CacheExpires
  BY <1>1, <1>4 DEF CacheExpires, credentials
<1>5. CASE UNCHANGED userVars
  BY <1>1, <1>5 DEF userVars, userTables, credentials
<1>6. CASE AccountsNext
  BY <1>2, <1>3, <1>4, <1>6, AccountSteps, ResetElsewhere, ResetUsed, ResetOver
<1> QED
  BY <1>5, <1>6

\* forgotPassword and resetPassword, auth.service.ts: however mails, failures,
\* resets and deletions overlap, a reset that is live has the token and the
\* code of one mail.
THEOREM Resets == AccountsSpec => []WholeReset
<1>1. UserInit => ResetInv
  <2> SUFFICES ASSUME UserInit PROVE ResetInv
    OBVIOUS
  <2>1. \A w \in Workers : req[w].op # "forgot"
    BY DEF UserInit, NothingIssued, Idle
  <2>2. \A u \in Users : reset[u] = NoReset
    BY DEF UserInit, NothingIssued
  <2>3. WholeReset
    BY <2>2 DEF WholeReset, NoReset
  <2>4. reset \in [Users -> ResetRow]
    BY NothingToReset DEF UserInit, NothingIssued
  <2> QED
    BY <2>1, <2>3, <2>4 DEF UserInit, NothingIssued, ResetInv
<1>2. ResetInv => WholeReset
  BY DEF ResetInv
<1> QED
  BY <1>1, <1>2, ResetStepInv, PTL DEF AccountsSpec

----------------------------------------------------------------------------
(* Documents.  The files of a submission that has not been written yet are *)
(* its own: no row names them and no other request would remove them.      *)

IdentityRow == [status : VerificationStatus \cup {NoRow}, files : Nat]

Unwritten(q, u) == q.op \in {"upload", "submit"} /\ q.u = u
Replacing(q, u) == q.op = "replace" /\ q.u = u

PaperRequest(q) ==
    /\ q.op \in {"upload", "submit", "replace"} =>
          q.u \in Users /\ q.old \in 0 .. uploads[q.u] /\ q.new \in 1 .. uploads[q.u]
    /\ q.op \in {"upload", "submit"} => q.new # identity[q.u].files
    /\ q.op = "submit" => q.new \in stored[q.u] \cup purged[q.u]
    /\ q.op = "replace" => q.old # identity[q.u].files \/ identity[q.u].files = 0
    /\ q.op = "deleteFiles" => q.files \in Nat
    /\ q.op = "review" => q.verdict \in VerificationStatus

OwnFiles ==
    \A u \in Users : \A v, w \in Workers :
        Unwritten(req[v], u) =>
            /\ Unwritten(req[w], u) /\ req[v].new = req[w].new => v = w
            /\ Unwritten(req[w], u) \/ Replacing(req[w], u) => req[w].old # req[v].new

PaperRows ==
    /\ uploads \in [Users -> Nat]
    /\ identity \in [Users -> IdentityRow]
    /\ stored \in [Users -> SUBSET Nat]
    /\ purged \in [Users -> SUBSET Nat]
    /\ \A u \in Users : identity[u].files <= uploads[u]
    /\ DocumentsKept

PaperInv ==
    /\ PaperRows
    /\ req = [w \in Workers |-> req[w]]
    /\ \A w \in Workers : PaperRequest(req[w])
    /\ OwnFiles

\* A handler goes on over the rows as they become.
LEMMA PaperMoves ==
    ASSUME PaperInv, PaperRows', OwnFiles',
           NEW w \in Workers, NEW q, req' = [req EXCEPT ![w] = q], PaperRequest(q)',
           \A v \in Workers \ {w} : \A p : p = req[v] => PaperRequest(p)'
    PROVE  PaperInv'
<1>1. /\ req' = [v \in Workers |-> req'[v]] /\ req'[w] = q
      /\ \A v \in Workers \ {w} : req'[v] = req[v]
  BY OneMoves DEF PaperInv
<1>2. ASSUME NEW v \in Workers PROVE PaperRequest(req[v])'
  <2>p. PICK p : p = req'[v]
    OBVIOUS
  <2>1. PaperRequest(p)'
    BY <1>1, <2>p
  <2> QED
    BY <2>p, <2>1
<1> QED
  BY <1>1, <1>2 DEF PaperInv

\* A handler that holds no submission afterwards.
LEMMA FilesQuiet ==
    ASSUME PaperInv, NEW w \in Workers, NEW q, req' = [req EXCEPT ![w] = q],
           q.op \notin {"upload", "submit", "replace"}
    PROVE  OwnFiles'
<1>1. /\ req'[w] = q /\ \A v \in Workers \ {w} : req'[v] = req[v]
  BY OneMoves DEF PaperInv
<1>2. \A v \in Workers, u \in Users :
         /\ Unwritten(req'[v], u) => Unwritten(req[v], u) /\ req'[v] = req[v]
         /\ Replacing(req'[v], u) => Replacing(req[v], u) /\ req'[v] = req[v]
  BY <1>1 DEF Unwritten, Replacing
<1>3. OwnFiles
  BY DEF PaperInv
<1> QED
  BY <1>2, <1>3 DEF OwnFiles, Unwritten, Replacing

\* A submission that goes on with its files.
LEMMA FilesGoOn ==
    ASSUME PaperInv, NEW w \in Workers, NEW q, req' = [req EXCEPT ![w] = q],
           req[w].op \in {"upload", "submit"}, q.op \in {"submit", "replace"},
           q.u = req[w].u, q.old = req[w].old, q.new = req[w].new
    PROVE  OwnFiles'
<1>1. /\ req'[w] = q /\ \A v \in Workers \ {w} : req'[v] = req[v]
  BY OneMoves DEF PaperInv
<1>2. \A v \in Workers : /\ req'[v].op \in {"upload", "submit", "replace"} =>
                              req'[v].old = req[v].old /\ req'[v].new = req[v].new
  BY <1>1
<1>3. \A v \in Workers, u \in Users :
         /\ Unwritten(req'[v], u) => Unwritten(req[v], u)
         /\ Replacing(req'[v], u) => Unwritten(req[v], u) \/ Replacing(req[v], u)
  BY <1>1 DEF Unwritten, Replacing
<1>4. OwnFiles
  BY DEF PaperInv
<1> SUFFICES ASSUME NEW u \in Users, NEW v \in Workers, NEW x \in Workers,
                    Unwritten(req'[v], u)
             PROVE  /\ Unwritten(req'[x], u) /\ req'[v].new = req'[x].new => v = x
                    /\ Unwritten(req'[x], u) \/ Replacing(req'[x], u) =>
                          req'[x].old # req'[v].new
  BY DEF OwnFiles, Unwritten, Replacing
<1>5. Unwritten(req[v], u) /\ req'[v].new = req[v].new
  BY <1>2, <1>3 DEF Unwritten
<1>6. Unwritten(req'[x], u) \/ Replacing(req'[x], u) =>
         req'[x].old = req[x].old /\ req'[x].new = req[x].new
  BY <1>2 DEF Unwritten, Replacing
<1> QED
  BY <1>3, <1>4, <1>5, <1>6 DEF OwnFiles

LEMMA PaperQuiet ==
    ASSUME PaperInv, NEW w \in Workers, NEW q, req' = [req EXCEPT ![w] = q],
           q.op \notin {"upload", "submit", "replace"}, PaperRequest(q),
           UNCHANGED papers
    PROVE  PaperInv'
<1>1. UNCHANGED <<identity, stored, uploads, purged>>
  BY DEF papers
<1>2. PaperRows'
  BY <1>1 DEF PaperInv, PaperRows, DocumentsKept
<1>3. OwnFiles'
  BY FilesQuiet
<1>4. PaperRequest(q)'
  BY <1>1 DEF PaperRequest
<1>5. \A v \in Workers \ {w} : \A p : p = req[v] => PaperRequest(p)'
  BY <1>1 DEF PaperInv, PaperRequest
<1> QED
  BY <1>2, <1>3, <1>4, <1>5, PaperMoves

\* A row that names no documents is written.
LEMMA RowCleared ==
    ASSUME PaperInv, NEW w \in Workers, NEW q, req' = [req EXCEPT ![w] = q],
           q.op \notin {"upload", "submit", "replace", "deleteFiles", "review"},
           NEW u, NEW row \in IdentityRow, row.files = 0,
           identity' = [identity EXCEPT ![u] = row],
           UNCHANGED <<stored, uploads, purged>>
    PROVE  PaperInv'
<1>1. identity' \in [Users -> IdentityRow]
  BY DEF PaperInv, PaperRows
<1>2. \A s \in Users : identity'[s] = identity[s] \/ identity'[s].files = 0
  BY DEF PaperInv, PaperRows
<1>3. \A s \in Users : identity[s].files \in Nat /\ uploads[s] \in Nat
  BY DEF PaperInv, PaperRows, IdentityRow
<1>4. PaperRows'
  BY <1>1, <1>2, <1>3 DEF PaperInv, PaperRows, DocumentsKept
<1>5. OwnFiles'
  BY FilesQuiet
<1>6. PaperRequest(q)'
  BY DEF PaperRequest
<1>7. ASSUME NEW v \in Workers \ {w}, NEW p, p = req[v] PROVE PaperRequest(p)'
  <2>1. PaperRequest(p)
    BY <1>7 DEF PaperInv
  <2>2. p.op \in {"upload", "submit"} => p.new # identity'[p.u].files
    BY <1>2, <1>3, <2>1 DEF PaperRequest
  <2>3. p.op = "replace" => p.old # identity'[p.u].files \/ identity'[p.u].files = 0
    BY <1>2, <2>1 DEF PaperRequest
  <2> QED
    BY <2>1, <2>2, <2>3 DEF PaperRequest
<1> QED
  BY <1>4, <1>5, <1>6, <1>7, PaperMoves

LEMMA ClearStep ==
    ASSUME PaperInv, NEW w \in Workers,
           \/ \E u \in Users : Register(w, u) \/ CreateInternalUser(w, u)
           \/ DeleteCommit(w)
    PROVE  PaperInv'
<1>1. CASE \E u \in Users : Register(w, u) \/ CreateInternalUser(w, u)
  <2>1. PICK u \in Users : Register(w, u) \/ CreateInternalUser(w, u)
    BY <1>1
  <2>r. PICK row : row = [status |-> IF Register(w, u) THEN "NOT_STARTED" ELSE "VERIFIED",
                          files |-> 0]
    OBVIOUS
  <2>2. row \in IdentityRow /\ row.files = 0
    BY <2>r DEF IdentityRow, VerificationStatus
  <2>3. /\ identity' = [identity EXCEPT ![u] = row]
        /\ UNCHANGED <<stored, uploads, purged>>
    <3>1. CASE Register(w, u)
      BY <2>r, <3>1 DEF Register
    <3>2. CASE ~Register(w, u)
      BY <2>1, <2>r, <3>2 DEF CreateInternalUser
    <3> QED
      BY <3>1, <3>2
  <2>4. PICK q : q.op \in {"session", "invalidate"} /\ req' = [req EXCEPT ![w] = q]
    BY <2>1, Starts DEF Moved
  <2> QED
    BY <2>2, <2>3, <2>4, RowCleared
<1>2. CASE DeleteCommit(w)
  <2>1. /\ identity' = [identity EXCEPT ![req[w].u] = NoIdentity]
        /\ UNCHANGED <<stored, uploads, purged>> /\ Done(w)
    BY <1>2 DEF DeleteCommit
  <2>2. NoIdentity \in IdentityRow /\ NoIdentity.files = 0
    BY DEF NoIdentity, IdentityRow
  <2>3. PICK q : q.op = "idle" /\ req' = [req EXCEPT ![w] = q]
    BY <2>1, Ends DEF Moved
  <2> QED
    BY <2>1, <2>2, <2>3, RowCleared
<1> QED
  BY <1>1, <1>2

\* A submission begins: its files have a number of their own.
LEMMA SubmitStep ==
    ASSUME PaperInv, NEW w \in Workers, NEW u \in Users, SubmitRead(w, u)
    PROVE  PaperInv'
<1>o. PICK old : old = identity[u].files
  OBVIOUS
<1>n. PICK new : new = uploads[u] + 1
  OBVIOUS
<1>q. PICK q : q = [op |-> "upload", u |-> u, old |-> old, new |-> new]
  OBVIOUS
<1>1. /\ req' = [req EXCEPT ![w] = q] /\ uploads' = [uploads EXCEPT ![u] = @ + 1]
      /\ UNCHANGED <<identity, stored, purged>>
  BY <1>o, <1>n, <1>q DEF SubmitRead, Begin
<1>2. /\ uploads' \in [Users -> Nat] /\ uploads'[u] = new
      /\ \A s \in Users : uploads[s] \in Nat /\ uploads[s] <= uploads'[s]
      /\ old \in Nat /\ old <= uploads[u] /\ new \in Nat
  BY <1>1, <1>o, <1>n DEF PaperInv, PaperRows, IdentityRow
<1>3. \A s \in Users : identity[s].files \in Nat /\ identity[s].files <= uploads[s]
  BY DEF PaperInv, PaperRows, IdentityRow
<1>4. PaperRows'
  BY <1>1, <1>2, <1>3 DEF PaperInv, PaperRows, DocumentsKept
<1>5. q.op = "upload" /\ q.u = u /\ q.old = old /\ q.new = new
  BY <1>q
<1>6. old \in 0 .. uploads'[u] /\ new \in 1 .. uploads'[u] /\ new # identity'[u].files
  BY <1>1, <1>2, <1>o, <1>n
<1>7. PaperRequest(q)'
  BY <1>5, <1>6 DEF PaperRequest
<1>8. ASSUME NEW v \in Workers \ {w}, NEW p, p = req[v] PROVE PaperRequest(p)'
  <2>1. PaperRequest(p)
    BY <1>8 DEF PaperInv
  <2>2. p.op \in {"upload", "submit", "replace"} =>
           p.old \in 0 .. uploads'[p.u] /\ p.new \in 1 .. uploads'[p.u]
    BY <1>2, <2>1 DEF PaperRequest
  <2> QED
    BY <1>1, <2>1, <2>2 DEF PaperRequest
<1>9. /\ req'[w] = q /\ \A v \in Workers \ {w} : req'[v] = req[v]
  BY <1>1, OneMoves DEF PaperInv
<1>10. \A v \in Workers :
          /\ Unwritten(req[v], u) => req[v].new # new /\ req[v].new # old
          /\ Unwritten(req[v], u) \/ Replacing(req[v], u) => req[v].old # new
  <2> SUFFICES ASSUME NEW v \in Workers
               PROVE  /\ Unwritten(req[v], u) => req[v].new # new /\ req[v].new # old
                      /\ Unwritten(req[v], u) \/ Replacing(req[v], u) => req[v].old # new
    OBVIOUS
  <2>1. PaperRequest(req[v])
    BY DEF PaperInv
  <2>2. \A n \in 0 .. uploads[u] : n # new
    BY <1>2, <1>n
  <2> QED
    BY <1>o, <2>1, <2>2 DEF PaperRequest, Unwritten, Replacing
<1>11. old # new
  BY <1>2, <1>n
<1>12. OwnFiles'
  <2> SUFFICES ASSUME NEW s \in Users, NEW v \in Workers, NEW x \in Workers,
                      Unwritten(req'[v], s)
               PROVE  /\ Unwritten(req'[x], s) /\ req'[v].new = req'[x].new => v = x
                      /\ Unwritten(req'[x], s) \/ Replacing(req'[x], s) =>
                            req'[x].old # req'[v].new
    BY DEF OwnFiles, Unwritten, Replacing
  <2>1. CASE v # w /\ x # w
    BY <1>9, <2>1 DEF PaperInv, OwnFiles
  <2>2. CASE v = w /\ x # w
    <3>1. s = u /\ req'[v].new = new /\ req'[x] = req[x]
      BY <1>5, <1>9, <2>2 DEF Unwritten
    <3> QED
      BY <1>10, <3>1
  <2>3. CASE v # w /\ x = w
    <3>1. req'[v] = req[v] /\ req'[x] = q
      BY <1>9, <2>3
    <3>2. CASE s = u
      BY <1>5, <1>10, <3>1, <3>2
    <3>3. CASE s # u
      BY <1>5, <3>1, <3>3 DEF Unwritten, Replacing
    <3> QED
      BY <3>2, <3>3
  <2>4. CASE v = w /\ x = w
    BY <1>5, <1>9, <1>11, <2>4
  <2> QED
    BY <2>1, <2>2, <2>3, <2>4
<1> QED
  BY <1>1, <1>4, <1>7, <1>8, <1>12, PaperMoves

\* What a submission in flight knows.
LEMMA Submission ==
    ASSUME PaperInv, NEW w \in Workers, req[w].op \in {"upload", "submit", "replace"},
           NEW u, u = req[w].u, NEW old, old = req[w].old, NEW new, new = req[w].new
    PROVE  /\ u \in Users /\ old \in 0 .. uploads[u] /\ new \in 1 .. uploads[u]
           /\ uploads[u] \in Nat /\ old \in Nat /\ new \in Nat \ {0}
           /\ req[w].op \in {"upload", "submit"} =>
                 /\ new # identity[u].files /\ old # new
                 /\ \A v \in Workers \ {w} :
                       /\ Unwritten(req[v], u) => req[v].new # new
                       /\ Unwritten(req[v], u) \/ Replacing(req[v], u) => req[v].old # new
           /\ \A v \in Workers : Unwritten(req[v], u) => req[v].new # old
<1>1. PaperRequest(req[w]) /\ OwnFiles
  BY DEF PaperInv
<1>2. u \in Users /\ old \in 0 .. uploads[u] /\ new \in 1 .. uploads[u]
  BY <1>1 DEF PaperRequest
<1>3. uploads[u] \in Nat
  BY <1>2 DEF PaperInv, PaperRows
<1>4. /\ req[w].op \in {"upload", "submit"} => Unwritten(req[w], u)
      /\ req[w].op = "replace" => Replacing(req[w], u)
  BY DEF Unwritten, Replacing
<1>5. \A v \in Workers : Unwritten(req[v], u) => req[v].new # old
  BY <1>1, <1>2, <1>4 DEF OwnFiles
<1>6. req[w].op \in {"upload", "submit"} =>
         /\ old # new
         /\ \A v \in Workers \ {w} :
               /\ Unwritten(req[v], u) => req[v].new # new
               /\ Unwritten(req[v], u) \/ Replacing(req[v], u) => req[v].old # new
  BY <1>1, <1>2, <1>4 DEF OwnFiles
<1>7. req[w].op \in {"upload", "submit"} => new # identity[u].files
  BY <1>1 DEF PaperRequest
<1> QED
  BY <1>2, <1>3, <1>5, <1>6, <1>7

\* The files are in the bucket.
LEMMA UploadStep ==
    ASSUME PaperInv, NEW w \in Workers, SubmitUpload(w)
    PROVE  PaperInv'
<1>u. PICK u : u = req[w].u
  OBVIOUS
<1>o. PICK old : old = req[w].old
  OBVIOUS
<1>n. PICK new : new = req[w].new
  OBVIOUS
<1>q. PICK q : q = [req[w] EXCEPT !.op = "submit"]
  OBVIOUS
<1>1. /\ req[w].op = "upload" /\ req' = [req EXCEPT ![w] = q]
      /\ stored' = [stored EXCEPT ![u] = @ \cup {new}]
      /\ UNCHANGED <<identity, uploads, purged>>
  BY <1>u, <1>n, <1>q DEF SubmitUpload, Continue
<1>2. /\ u \in Users /\ old \in 0 .. uploads[u] /\ new \in 1 .. uploads[u] /\ new \in Nat
      /\ new # identity[u].files
  BY <1>1, <1>u, <1>o, <1>n, Submission
<1>3. q.op = "submit" /\ q.u = u /\ q.old = old /\ q.new = new
  BY <1>u, <1>o, <1>n, <1>q, <1>1
<1>4. /\ stored' \in [Users -> SUBSET Nat] /\ new \in stored'[u]
      /\ \A s \in Users : stored[s] \subseteq stored'[s]
  BY <1>1, <1>2 DEF PaperInv, PaperRows
<1>5. PaperRows'
  BY <1>1, <1>4 DEF PaperInv, PaperRows, DocumentsKept
<1>6. OwnFiles'
  BY <1>1, <1>u, <1>o, <1>n, <1>3, FilesGoOn
<1>7. PaperRequest(q)'
  BY <1>1, <1>2, <1>3, <1>4 DEF PaperRequest
<1>8. ASSUME NEW v \in Workers \ {w}, NEW p, p = req[v] PROVE PaperRequest(p)'
  <2>1. PaperRequest(p)
    BY <1>8 DEF PaperInv
  <2> QED
    BY <1>1, <1>4, <2>1 DEF PaperRequest
<1> QED
  BY <1>1, <1>5, <1>6, <1>7, <1>8, PaperMoves

\* The row names the files.
LEMMA UpsertStep ==
    ASSUME PaperInv, NEW w \in Workers, SubmitCommit(w)
    PROVE  PaperInv'
<1>u. PICK u : u = req[w].u
  OBVIOUS
<1>o. PICK old : old = req[w].old
  OBVIOUS
<1>n. PICK new : new = req[w].new
  OBVIOUS
<1>q. PICK q : q = [req[w] EXCEPT !.op = "replace"]
  OBVIOUS
<1>r. PICK row : row = [status |-> "PENDING", files |-> new]
  OBVIOUS
<1>1. /\ req[w].op = "submit" /\ req' = [req EXCEPT ![w] = q]
      /\ identity' = [identity EXCEPT ![u] = row]
      /\ UNCHANGED <<stored, uploads, purged>>
  BY <1>u, <1>n, <1>q, <1>r DEF SubmitCommit, Continue
<1>2. /\ u \in Users /\ old \in 0 .. uploads[u] /\ new \in 1 .. uploads[u]
      /\ new \in Nat \ {0} /\ uploads[u] \in Nat /\ old # new
      /\ \A v \in Workers \ {w} :
            /\ Unwritten(req[v], u) => req[v].new # new
            /\ Unwritten(req[v], u) \/ Replacing(req[v], u) => req[v].old # new
  BY <1>1, <1>u, <1>o, <1>n, Submission
<1>3. q.op = "replace" /\ q.u = u /\ q.old = old /\ q.new = new
  BY <1>u, <1>o, <1>n, <1>q, <1>1
<1>4. row \in IdentityRow /\ row.files = new
  BY <1>r, <1>2 DEF IdentityRow, VerificationStatus
<1>5. /\ identity' \in [Users -> IdentityRow] /\ identity'[u] = row
      /\ \A s \in Users \ {u} : identity'[s] = identity[s]
  BY <1>1, <1>2, <1>4 DEF PaperInv, PaperRows
<1>6. new \in stored[u] \cup purged[u]
  BY <1>1, <1>u, <1>n DEF PaperInv, PaperRequest
<1>7. \A s \in Users : identity'[s].files <= uploads[s]
  BY <1>2, <1>4, <1>5 DEF PaperInv, PaperRows
<1>8. DocumentsKept'
  BY <1>1, <1>4, <1>5, <1>6 DEF PaperInv, PaperRows, DocumentsKept
<1>9. PaperRows'
  BY <1>1, <1>5, <1>7, <1>8 DEF PaperInv, PaperRows
<1>10. OwnFiles'
  BY <1>1, <1>u, <1>o, <1>n, <1>3, FilesGoOn
<1>11. PaperRequest(q)'
  BY <1>1, <1>2, <1>3, <1>4, <1>5 DEF PaperRequest
<1>12. ASSUME NEW v \in Workers \ {w}, NEW p, p = req[v] PROVE PaperRequest(p)'
  <2>1. PaperRequest(p)
    BY <1>12 DEF PaperInv
  <2>2. p.op \in {"upload", "submit"} => p.new # identity'[p.u].files
    BY <1>2, <1>4, <1>5, <1>12, <2>1 DEF PaperRequest, Unwritten
  <2>3. p.op = "replace" => p.old # identity'[p.u].files \/ identity'[p.u].files = 0
    BY <1>2, <1>4, <1>5, <1>12, <2>1 DEF PaperRequest, Replacing
  <2> QED
    BY <1>1, <2>1, <2>2, <2>3 DEF PaperRequest
<1> QED
  BY <1>1, <1>9, <1>10, <1>11, <1>12, PaperMoves

\* Files of one user that no row names and no submission has are removed.
LEMMA FilesRemoved ==
    ASSUME PaperInv, NEW w \in Workers, req' = [req EXCEPT ![w] = Idle],
           NEW u \in Users, NEW f \in Nat,
           stored' = [stored EXCEPT ![u] = @ \ {f}] \/ stored' = stored,
           UNCHANGED <<identity, uploads, purged>>,
           f # identity[u].files \/ identity[u].files = 0,
           \A v \in Workers \ {w} : Unwritten(req[v], u) => req[v].new # f
    PROVE  PaperInv'
<1>1. /\ stored' \in [Users -> SUBSET Nat]
      /\ \A s \in Users \ {u} : stored'[s] = stored[s]
      /\ \A g \in stored[u] : g # f => g \in stored'[u]
  BY DEF PaperInv, PaperRows
<1>2. DocumentsKept'
  BY <1>1 DEF PaperInv, PaperRows, DocumentsKept
<1>3. PaperRows'
  BY <1>1, <1>2 DEF PaperInv, PaperRows
<1>4. Idle.op = "idle"
  BY DEF Idle
<1>5. OwnFiles'
  BY <1>4, FilesQuiet
<1>6. PaperRequest(Idle)'
  BY <1>4 DEF PaperRequest
<1>7. ASSUME NEW v \in Workers \ {w}, NEW p, p = req[v] PROVE PaperRequest(p)'
  <2>1. PaperRequest(p)
    BY <1>7 DEF PaperInv
  <2>2. p.op = "submit" => p.new \in stored'[p.u] \cup purged'[p.u]
    BY <1>1, <1>7, <2>1 DEF PaperRequest, Unwritten
  <2> QED
    BY <2>1, <2>2 DEF PaperRequest
<1> QED
  BY <1>3, <1>5, <1>6, <1>7, PaperMoves

\* The submission ends, and removes what it uploaded or what it replaced.
LEMMA CleanStep ==
    ASSUME PaperInv, NEW w \in Workers, SubmitFails(w) \/ SubmitReplace(w)
    PROVE  PaperInv'
<1>u. PICK u : u = req[w].u
  OBVIOUS
<1>o. PICK old : old = req[w].old
  OBVIOUS
<1>n. PICK new : new = req[w].new
  OBVIOUS
<1>1. /\ req[w].op \in {"submit", "replace"} /\ req' = [req EXCEPT ![w] = Idle]
      /\ UNCHANGED <<identity, uploads, purged>>
  BY DEF SubmitFails, SubmitReplace, Done
<1>2. /\ u \in Users /\ old \in Nat /\ new \in Nat
      /\ req[w].op \in {"upload", "submit"} =>
            /\ new # identity[u].files
            /\ \A v \in Workers \ {w} : Unwritten(req[v], u) => req[v].new # new
      /\ \A v \in Workers : Unwritten(req[v], u) => req[v].new # old
  BY <1>1, <1>u, <1>o, <1>n, Submission
<1>3. CASE SubmitFails(w)
  <2>1. req[w].op = "submit" /\ stored' = [stored EXCEPT ![u] = @ \ {new}]
    BY <1>3, <1>u, <1>n DEF SubmitFails
  <2>2. /\ new # identity[u].files
        /\ \A v \in Workers \ {w} : Unwritten(req[v], u) => req[v].new # new
    BY <1>2, <2>1
  <2> QED
    BY <1>1, <1>2, <2>1, <2>2, FilesRemoved
<1>4. CASE SubmitReplace(w)
  <2>1. /\ req[w].op = "replace"
        /\ stored' = [stored EXCEPT ![u] = @ \ {old}] \/ stored' = stored
    BY <1>4, <1>u, <1>o DEF SubmitReplace
  <2>2. old # identity[u].files \/ identity[u].files = 0
    BY <2>1, <1>u, <1>o DEF PaperInv, PaperRequest
  <2> QED
    BY <1>1, <1>2, <2>1, <2>2, FilesRemoved
<1> QED
  BY <1>3, <1>4

\* A deletion removes the files it has read, and leaves a trace of it.
LEMMA PurgeStep ==
    ASSUME PaperInv, NEW w \in Workers, DeleteFiles(w)
    PROVE  PaperInv'
<1>u. PICK u : u = req[w].u
  OBVIOUS
<1>f. PICK f : f = req[w].files
  OBVIOUS
<1>1. /\ req[w].op = "deleteFiles"
      /\ stored' = [stored EXCEPT ![u] = @ \ {f}]
      /\ purged' = [purged EXCEPT ![u] = @ \cup {f}]
      /\ UNCHANGED <<identity, uploads>>
  BY <1>u, <1>f DEF DeleteFiles
<1>2. f \in Nat
  BY <1>1, <1>f DEF PaperInv, PaperRequest
<1>3. /\ stored' \in [Users -> SUBSET Nat] /\ purged' \in [Users -> SUBSET Nat]
  BY <1>1, <1>2 DEF PaperInv, PaperRows
<1>4. \A s \in Users : stored[s] \cup purged[s] \subseteq stored'[s] \cup purged'[s]
  BY <1>1 DEF PaperInv, PaperRows
<1>5. PaperRows'
  BY <1>1, <1>3, <1>4 DEF PaperInv, PaperRows, DocumentsKept
<1>6. PICK q : q.op = "delete" /\ req' = [req EXCEPT ![w] = q]
  BY GoesOn DEF Moved
<1>7. OwnFiles'
  BY <1>6, FilesQuiet
<1>8. PaperRequest(q)'
  BY <1>6 DEF PaperRequest
<1>9. ASSUME NEW v \in Workers \ {w}, NEW p, p = req[v] PROVE PaperRequest(p)'
  <2>1. PaperRequest(p)
    BY <1>9 DEF PaperInv
  <2>2. p.op = "submit" => p.new \in stored'[p.u] \cup purged'[p.u]
    BY <1>4, <2>1 DEF PaperRequest
  <2> QED
    BY <1>1, <2>1, <2>2 DEF PaperRequest
<1> QED
  BY <1>5, <1>6, <1>7, <1>8, <1>9, PaperMoves

\* The verdict is written to the row as it is by now.
LEMMA VerdictStep ==
    ASSUME PaperInv, NEW w \in Workers, ReviewCommit(w)
    PROVE  PaperInv'
<1>u. PICK u : u = req[w].u
  OBVIOUS
<1>r. PICK row : row = [identity[u] EXCEPT !.status = req[w].verdict]
  OBVIOUS
<1>1. /\ req[w].op = "review" /\ req' = [req EXCEPT ![w] = Idle]
      /\ identity' = identity \/ identity' = [identity EXCEPT ![u] = row]
      /\ UNCHANGED <<stored, uploads, purged>>
  BY <1>u, <1>r DEF ReviewCommit, Done
<1>2. req[w].verdict \in VerificationStatus
  BY <1>1 DEF PaperInv, PaperRequest
<1>3. u \in Users => row \in IdentityRow /\ row.files = identity[u].files
  <2> SUFFICES ASSUME u \in Users
               PROVE  row \in IdentityRow /\ row.files = identity[u].files
    OBVIOUS
  <2>1. identity[u] \in IdentityRow
    BY DEF PaperInv, PaperRows
  <2> QED
    BY <1>r, <1>2, <2>1 DEF IdentityRow
<1>4. /\ identity' \in [Users -> IdentityRow]
      /\ \A s \in Users : identity'[s].files = identity[s].files
  BY <1>1, <1>3 DEF PaperInv, PaperRows
<1>5. PaperRows'
  BY <1>1, <1>4 DEF PaperInv, PaperRows, DocumentsKept
<1>6. Idle.op = "idle"
  BY DEF Idle
<1>7. OwnFiles'
  BY <1>1, <1>6, FilesQuiet
<1>8. PaperRequest(Idle)'
  BY <1>6 DEF PaperRequest
<1>9. ASSUME NEW v \in Workers \ {w}, NEW p, p = req[v] PROVE PaperRequest(p)'
  <2>1. PaperRequest(p)
    BY <1>9 DEF PaperInv
  <2> QED
    BY <1>1, <1>4, <2>1 DEF PaperRequest
<1> QED
  BY <1>1, <1>5, <1>7, <1>8, <1>9, PaperMoves

\* A deletion reads the files it will remove; a reviewer decides.
LEMMA PaperRead ==
    ASSUME PaperInv, NEW w \in Workers, NEW u \in Users, DeleteRead(w, u) \/ ReviewRead(w, u)
    PROVE  PaperInv'
<1>1. UNCHANGED papers
  BY DEF DeleteRead, ReviewRead, userTables
<1>2. PICK q : /\ req' = [req EXCEPT ![w] = q]
               /\ q.op \notin {"upload", "submit", "replace"} /\ PaperRequest(q)
  <2>1. CASE DeleteRead(w, u)
    <3>f. PICK f : f = identity[u].files
      OBVIOUS
    <3>1. PICK mail \in {0} \cup (IF deletion[u].live THEN {deletion[u].token} ELSE {}) :
             Begin(w, [op |-> "deleteFiles", u |-> u, mail |-> mail, files |-> f])
      BY <2>1, <3>f DEF DeleteRead
    <3>q. PICK q : q = [op |-> "deleteFiles", u |-> u, mail |-> mail, files |-> f]
      OBVIOUS
    <3>2. req' = [req EXCEPT ![w] = q]
      BY <3>1, <3>q DEF Begin
    <3>3. q.op = "deleteFiles" /\ q.files = f /\ f \in Nat
      BY <3>f, <3>q DEF PaperInv, PaperRows, IdentityRow
    <3>4. q.op \notin {"upload", "submit", "replace"} /\ PaperRequest(q)
      BY <3>3 DEF PaperRequest
    <3> QED
      BY <3>2, <3>4
  <2>2. CASE ReviewRead(w, u)
    <3>1. PICK verdict \in Givable(u) :
             Begin(w, [op |-> "review", u |-> u, verdict |-> verdict])
      BY <2>2 DEF ReviewRead
    <3>q. PICK q : q = [op |-> "review", u |-> u, verdict |-> verdict]
      OBVIOUS
    <3>2. req' = [req EXCEPT ![w] = q]
      BY <3>1, <3>q DEF Begin
    <3>3. q.op = "review" /\ q.verdict \in VerificationStatus
      BY <3>1, <3>q DEF Givable
    <3>4. q.op \notin {"upload", "submit", "replace"} /\ PaperRequest(q)
      BY <3>3 DEF PaperRequest
    <3> QED
      BY <3>2, <3>4
  <2> QED
    BY <2>1, <2>2
<1> QED
  BY <1>1, <1>2, PaperQuiet

\* The other steps leave the documents alone.
LEMMA PaperElsewhere ==
    ASSUME PaperInv, NEW w \in Workers,
           \/ \E u \in Users : Called(w, u) \/ Register(w, u) \/ LoginRead(w, u)
                               \/ RefreshRead(w, u)
           \/ Onward(w) \/ Ended(w) \/ SessionCommit(w) \/ RefreshCommit(w)
           \/ ResetCommit(w)
    PROVE  PaperInv'
<1>1. ASSUME NEW op \in {"forgot", "reset", "askDeletion", "status", "remember", "session",
                         "refresh", "resetMail", "deletionMail", "invalidate", "idle"},
             Moved(w, op), UNCHANGED papers
      PROVE  PaperInv'
  <2>1. PICK q : q.op = op /\ req' = [req EXCEPT ![w] = q]
    BY <1>1 DEF Moved
  <2>2. q.op \notin {"upload", "submit", "replace"} /\ PaperRequest(q)
    BY <2>1 DEF PaperRequest
  <2> QED
    BY <1>1, <2>1, <2>2, PaperQuiet
<1>2. CASE \E u \in Users : \/ ForgotRead(w, u) \/ ResetRead(w, u)
                            \/ RequestDeletionRead(w, u) \/ UpdateStatusRead(w, u)
                            \/ ListUsersRead(w) \/ LoginRead(w, u) \/ RefreshRead(w, u)
  <2>1. UNCHANGED papers
    BY <1>2 DEF ForgotRead, ResetRead, RequestDeletionRead, UpdateStatusRead,
                ListUsersRead, LoginRead, RefreshRead, userTables
  <2>2. \/ Moved(w, "forgot") \/ Moved(w, "reset") \/ Moved(w, "askDeletion")
        \/ Moved(w, "status") \/ Moved(w, "remember") \/ Moved(w, "session")
        \/ Moved(w, "refresh")
    BY <1>2, Starts
  <2> QED
    BY <1>1, <2>1, <2>2
<1>3. CASE ForgotCommit(w) \/ RequestDeletionCommit(w) \/ UpdateStatusCommit(w)
  <2>1. UNCHANGED papers
    BY <1>3 DEF ForgotCommit, RequestDeletionCommit, UpdateStatusCommit
  <2>2. Moved(w, "resetMail") \/ Moved(w, "deletionMail") \/ Moved(w, "invalidate")
    BY <1>3, GoesOn
  <2> QED
    BY <1>1, <2>1, <2>2
<1>4. CASE \/ RefreshRefused(w) \/ ResetMailSent(w) \/ ResetMailFailed(w)
           \/ ResetRefused(w) \/ DeletionMail(w) \/ DeleteRefused(w)
           \/ InvalidateAdminReadCache(w) \/ ListUsersStore(w) \/ AccountAbort(w)
           \/ SessionCommit(w) \/ RefreshCommit(w) \/ ResetCommit(w)
  <2>1. UNCHANGED papers /\ Done(w)
    BY <1>4 DEF RefreshRefused, ResetMailSent, ResetMailFailed, ResetRefused,
                DeletionMail, DeleteRefused, InvalidateAdminReadCache, ListUsersStore,
                AccountAbort, SessionCommit, RefreshCommit, ResetCommit, userTables
  <2> QED
    BY <1>1, <2>1, Ends
<1> QED
  BY <1>2, <1>3, <1>4, ClearStep, SubmitStep, UploadStep, UpsertStep, CleanStep, PurgeStep,
     VerdictStep, PaperRead
     DEF Called, Onward, Ended

LEMMA PaperStepInv == PaperInv /\ [AccountsNext]_userVars => PaperInv'
<1> SUFFICES ASSUME PaperInv, [AccountsNext]_userVars PROVE PaperInv'
  OBVIOUS
<1>1. ASSUME UNCHANGED papers, req' = req PROVE PaperInv'
  <2>1. UNCHANGED <<identity, stored, uploads, purged>>
    BY <1>1 DEF papers
  <2>2. PaperRows'
    BY <2>1 DEF PaperInv, PaperRows, DocumentsKept
  <2>3. \A w \in Workers : PaperRequest(req[w])'
    BY <1>1, <2>1 DEF PaperInv, PaperRequest
  <2>4. OwnFiles'
    BY <1>1 DEF PaperInv, OwnFiles, Unwritten, Replacing
  <2> QED
    BY <1>1, <2>2, <2>3, <2>4 DEF PaperInv
<1>2. ASSUME NEW w \in Workers, NEW u \in Users, Logout(w, u) PROVE PaperInv'
  BY <1>1, <1>2 DEF Logout, AtOnce
<1>3. ASSUME NEW u \in Users, ResetExpires(u) \/ DeletionExpires(u) PROVE PaperInv'
  BY <1>1, <1>3 DEF ResetExpires, DeletionExpires
<1>4. CASE CacheExpires
  BY <1>1, <1>4 DEF CacheExpires
<1>5. CASE UNCHANGED userVars
  BY <1>1, <1>5 DEF userVars, userTables
<1>6. CASE AccountsNext
  BY <1>2, <1>3, <1>4, <1>6, AccountSteps, PaperElsewhere, ClearStep
<1> QED
  BY <1>5, <1>6

\* submit and reviewRequest, kyc.service.ts, next to deleteAccount: whatever
\* submissions, failures, verdicts and deletions overlap, the documents a
\* verification row names are there, or their removal was asked for.
THEOREM Documents == AccountsSpec => []DocumentsKept
<1>1. UserInit => PaperInv
  <2> SUFFICES ASSUME UserInit PROVE PaperInv
    OBVIOUS
  <2>1. \A w \in Workers : req[w].op = "idle"
    BY DEF UserInit, NothingIssued, Idle
  <2>2. NoIdentity \in IdentityRow /\ NoIdentity.files = 0
    BY DEF NoIdentity, IdentityRow
  <2>3. PaperRows
    BY <2>2 DEF UserInit, NothingIssued, PaperRows, DocumentsKept
  <2> QED
    BY <2>1, <2>3
       DEF UserInit, NothingIssued, PaperInv, PaperRequest, OwnFiles, Unwritten
<1>2. PaperInv => DocumentsKept
  BY DEF PaperInv, PaperRows
<1> QED
  BY <1>1, <1>2, PaperStepInv, PTL DEF AccountsSpec

============================================================================
