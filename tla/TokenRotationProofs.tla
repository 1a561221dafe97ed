------------------------ MODULE TokenRotationProofs ------------------------
(***************************************************************************)
(* What every implementation of TokenRotation promises.  A hash turns good *)
(* only if it was never seen, and is seen from then on, so the hashes that *)
(* were replaced are among the seen ones and no later one is among them.   *)
(***************************************************************************)
EXTENDS TokenRotation, TLAPS

\* The good hash has been seen and has not been replaced.
CurrentUnspent(u) ==
    current[u] # 0 =>
        /\ current[u] \in seen[u]
        /\ \A i \in DOMAIN answered[u] : answered[u][i] # current[u]

RotationInv ==
    \A u \in Users :
        /\ answered[u] \in Seq(seen[u])
        /\ IsInjective(answered[u])
        /\ CurrentUnspent(u)

\* A sequence over a set is one over any larger set.
LEMMA SequencesGrow ==
    ASSUME NEW S, NEW T, S \subseteq T, NEW s \in Seq(S)
    PROVE  s \in Seq(T)
  OBVIOUS

\* A sequence stays one over the set when a member is appended.
LEMMA SequenceExtends ==
    ASSUME NEW S, NEW s \in Seq(S), NEW e \in S
    PROVE  Append(s, e) \in Seq(S)
  OBVIOUS

\* The claims about one user survive a step of that user.
LEMMA UserStep ==
    ASSUME NEW u \in Users,
           answered[u] \in Seq(seen[u]), IsInjective(answered[u]), CurrentUnspent(u),
           seen[u] \subseteq seen'[u],
           Grant(u) \/ Rotate(u) \/ Revoke(u) \/ Keep(u)
    PROVE  /\ answered'[u] \in Seq(seen'[u])
           /\ IsInjective(answered'[u])
           /\ CurrentUnspent(u)'
<1>1. answered[u] \in Seq(seen'[u])
  BY SequencesGrow
<1>2. \A i \in DOMAIN answered[u] : answered[u][i] \in seen[u]
  OBVIOUS
<1>3. CASE Rotate(u)
  <2>1. current[u] \in seen[u] /\ \A i \in DOMAIN answered[u] : answered[u][i] # current[u]
    BY <1>3 DEF Rotate, CurrentUnspent
  <2>2. answered'[u] = Append(answered[u], current[u])
    BY <1>3 DEF Rotate
  <2>3. /\ DOMAIN answered'[u] = 1 .. Len(answered[u]) + 1
        /\ \A i \in 1 .. Len(answered[u]) : answered'[u][i] = answered[u][i]
        /\ answered'[u][Len(answered[u]) + 1] = current[u]
    BY <2>2
  <2>4. answered'[u] \in Seq(seen'[u])
    <3>1. current[u] \in seen'[u]
      BY <2>1
    <3>2. Append(answered[u], current[u]) \in Seq(seen'[u])
      BY <1>1, <3>1, SequenceExtends
    <3> QED BY <2>2, <3>2
  <2>5. IsInjective(answered'[u])
    BY <2>1, <2>3 DEF IsInjective
  <2>6. current'[u] \notin seen[u] /\ current'[u] \in seen'[u]
    BY <1>3 DEF Rotate, Fresh
  <2>7. CurrentUnspent(u)'
    BY <1>2, <2>1, <2>3, <2>6 DEF CurrentUnspent
  <2> QED BY <2>4, <2>5, <2>7
<1>4. CASE Grant(u)
  BY <1>1, <1>2, <1>4 DEF Grant, Fresh, CurrentUnspent
<1>5. CASE Revoke(u)
  BY <1>1, <1>5 DEF Revoke, CurrentUnspent
<1>6. CASE Keep(u)
  BY <1>1, <1>6 DEF Keep, CurrentUnspent
<1> QED BY <1>3, <1>4, <1>5, <1>6

\* Every behaviour that rotates tokens keeps the claims.
THEOREM RotationInvariance == Rotation => []RotationInv
<1>1. RotationInit => RotationInv
  BY DEF RotationInit, RotationInv, CurrentUnspent, IsInjective
<1>2. RotationInv /\ [RotationNext]_rotationVars => RotationInv'
  <2> SUFFICES ASSUME RotationInv, [RotationNext]_rotationVars, NEW u \in Users
               PROVE  /\ answered'[u] \in Seq(seen'[u])
                      /\ IsInjective(answered'[u])
                      /\ CurrentUnspent(u)'
    BY DEF RotationInv
  <2>1. CASE RotationNext
    BY <2>1, UserStep DEF RotationInv, RotationNext
  <2>2. CASE UNCHANGED rotationVars
    BY <2>2 DEF RotationInv, CurrentUnspent, rotationVars
  <2> QED BY <2>1, <2>2
<1> QED BY <1>1, <1>2, PTL DEF Rotation

\* refresh, auth.service.ts: a token is exchanged once, and refused from then on,
\* unless it was signed twice in one second.  AccountsProofs proves that the
\* services implement Rotation, so what is proved here of Rotation holds of them.
THEOREM SingleSuccessor == Rotation => []OneSuccessor
<1>1. RotationInv => OneSuccessor
  <2> SUFFICES ASSUME RotationInv, NEW u \in Users, NEW i \in DOMAIN answered[u],
                      NEW token, token = SignedAt[answered[u][i]],
                      ~SignedTwice(u, token)
               PROVE  /\ current[u] # 0 => SignedAt[current[u]] # token
                      /\ \A j \in DOMAIN answered[u] \ {i} : SignedAt[answered[u][j]] # token
    BY DEF OneSuccessor
  <2>1. answered[u] \in Seq(seen[u]) /\ IsInjective(answered[u]) /\ CurrentUnspent(u)
    BY DEF RotationInv
  <2>2. \A j \in DOMAIN answered[u] : answered[u][j] \in seen[u]
    BY <2>1
  <2>3. current[u] # 0 => current[u] \in seen[u] /\ current[u] # answered[u][i]
    BY <2>1 DEF CurrentUnspent
  <2>4. \A j \in DOMAIN answered[u] \ {i} : answered[u][j] # answered[u][i]
    BY <2>1 DEF IsInjective
  <2> QED
    BY <2>2, <2>3, <2>4 DEF SignedTwice
<1> QED BY <1>1, RotationInvariance, PTL

============================================================================
