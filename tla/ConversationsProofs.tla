------------------------- MODULE ConversationsProofs -----------------------
(***************************************************************************)
(* Proofs about the threads of two people: the locks on both their rows    *)
(* serialise the handlers that look for the thread and insert it, and the  *)
(* order in which the rows are taken rules a circle out.                   *)
(***************************************************************************)
EXTENDS Conversations, TLAPS, FiniteSetTheorems, WellFoundedInduction

Threads == [kind : {"rental", "direct"}, pair : SUBSET Nat, members : SUBSET Nat]

ChatRequest ==
    [op : {"ensure", "insertThread"}, d : Deals, held : 0 .. 2,
     then : {"open", "openStaff", "append"}]
    \cup [op : {"line"}, thread : DOMAIN threads]
    \cup [op : {"direct"}, d : Deals]

ChatTypeOK ==
    /\ threads \in Seq(Threads)
    /\ lines \in Seq(Seq({"SYSTEM", "TEXT"}))
    /\ Len(lines) = Len(threads)
    /\ req \in [Workers -> ChatRequest \cup {Idle}]

\* the handler about to insert holds both rows, and there is still no thread
StillMissing(w) ==
    req[w].op = "insertThread" =>
        req[w].held = 2 /\ ThreadsOf(Pair(req[w].d), "rental") = {}

ChatInv ==
    /\ ChatTypeOK
    /\ \A w \in Workers : StillMissing(w)
    /\ \A v, w \in Workers : v # w => Held(v) \cap Held(w) = {}
    /\ \A i, j \in DOMAIN threads :
          threads[i].pair = threads[j].pair /\ threads[i].kind = threads[j].kind => i = j

----------------------------------------------------------------------------
(* Least and greatest elements.                                            *)

\* A function into the naturals has a least value on a set that is not empty.
LEMMA LeastExists ==
    ASSUME NEW S, S # {}, NEW f \in [S -> Nat]
    PROVE  \E x \in S : \A y \in S : f[x] <= f[y]
<1> DEFINE T == {f[x] : x \in S}
<1>1. T \subseteq Nat /\ T # {}
  OBVIOUS
<1>2. PICK n \in T : \A m \in T : ~ (<<m, n>> \in OpToRel(<, Nat))
  BY <1>1, WFMin, NatLessThanWellFounded
<1>3. \A m \in T : n <= m
  <2> SUFFICES ASSUME NEW m \in T PROVE n <= m
    OBVIOUS
  <2>1. m \in Nat /\ n \in Nat
    BY <1>1
  <2>2. ~ (m < n)
    BY <1>2, <2>1 DEF OpToRel
  <2> QED
    BY <2>1, <2>2
<1>4. PICK x \in S : n = f[x]
  OBVIOUS
<1> QED
  BY <1>3, <1>4

\* A set of naturals that is not empty has its least element as Min.
LEMMA LeastIsMin ==
    ASSUME NEW S \in SUBSET Nat, S # {}
    PROVE  Min(S) \in S /\ \A y \in S : Min(S) <= y
<1> DEFINE f == [x \in S |-> x]
<1>1. f \in [S -> Nat]
  OBVIOUS
<1>2. \E x \in S : \A y \in S : f[x] <= f[y]
  <2> HIDE DEF f
  <2> QED
    BY <1>1, LeastExists
<1>3. \E x \in S : \A y \in S : x =< y
  BY <1>2
<1> QED
  BY <1>3 DEF Min

\* Climbing from one element to a higher one ends in a finite set.
LEMMA NoEndlessClimb ==
    ASSUME NEW S, IsFiniteSet(S), S # {}, NEW f \in [S -> Nat]
    PROVE  \E x \in S : \A y \in S : f[y] <= f[x]
<1> DEFINE Climbs(T) == \A x \in T : \E y \in T : f[x] < f[y]
           Bad == {T \in SUBSET S : T # {} /\ Climbs(T)}
<1> SUFFICES ASSUME Bad # {} PROVE FALSE
  <2>1. S \notin Bad => ~ Climbs(S)
    OBVIOUS
  <2>2. ~ Climbs(S) => \E x \in S : \A y \in S : ~ (f[x] < f[y])
    OBVIOUS
  <2>3. \A x, y \in S : ~ (f[x] < f[y]) => f[y] <= f[x]
    OBVIOUS
  <2> QED
    BY <2>1, <2>2, <2>3
<1>1. Bad \subseteq FiniteSubsetsOf(S)
  BY FS_Subset DEF FiniteSubsetsOf
<1>2. PICK T \in Bad : \A U \in Bad : ~ (<<U, T>> \in StrictSubsetOrdering(S))
  <2> HIDE DEF Bad
  <2> QED
    BY <1>1, WFMin, FS_StrictSubsetOrderingWellFounded
<1>3. PICK x \in T : \A y \in T : f[x] <= f[y]
  <2> DEFINE g == [y \in T |-> f[y]]
  <2>1. g \in [T -> Nat] /\ T # {}
    OBVIOUS
  <2>2. \E z \in T : \A y \in T : g[z] <= g[y]
    <3> HIDE DEF g
    <3> QED
      BY <2>1, LeastExists
  <2> QED
    BY <2>2
<1> DEFINE U == T \ {x}
<1>4. U \in Bad
  <2>1. U # {}
    <3>1. PICK y \in T : f[x] < f[y]
      OBVIOUS
    <3>2. y # x
      BY <3>1
    <3> QED
      BY <3>2
  <2>2. ASSUME NEW z \in U PROVE \E y \in U : f[z] < f[y]
    <3>1. PICK y \in T : f[z] < f[y]
      OBVIOUS
    <3>2. y # x
      BY <1>3, <3>1
    <3> QED
      BY <3>1, <3>2
  <2> QED
    BY <2>1, <2>2
<1>5. <<U, T>> \in StrictSubsetOrdering(S)
  BY DEF StrictSubsetOrdering
<1> QED
  BY <1>2, <1>4, <1>5

\* A finite set of naturals that is not empty has its greatest element as Max.
LEMMA GreatestIsMax ==
    ASSUME NEW S \in SUBSET Nat, IsFiniteSet(S), S # {}
    PROVE  Max(S) \in S /\ \A y \in S : y <= Max(S)
<1> DEFINE f == [x \in S |-> x]
<1>1. f \in [S -> Nat]
  OBVIOUS
<1>2. \E x \in S : \A y \in S : f[y] <= f[x]
  <2> HIDE DEF f
  <2> QED
    BY <1>1, NoEndlessClimb
<1>3. \E x \in S : \A y \in S : x >= y
  BY <1>2
<1>4. Max(S) \in S /\ \A y \in S : Max(S) >= y
  BY <1>3 DEF Max
<1> QED
  BY <1>4

----------------------------------------------------------------------------
(* The rows a handler locks.                                               *)

\* The two rows are those of the pair, the smaller id first.
LEMMA InOrder ==
    ASSUME NEW d \in Deals
    PROVE  /\ Pair(d) \in SUBSET Nat
           /\ LockOrder(d)[1] \in Nat /\ LockOrder(d)[2] \in Nat
           /\ LockOrder(d)[1] < LockOrder(d)[2]
           /\ Pair(d) = {LockOrder(d)[1], LockOrder(d)[2]}
<1>1. PICK a, b \in Nat : Pair(d) = {a, b} /\ a < b
  <2>1. /\ OwnerOf[d] \in Nat /\ RenterOf[d] \in Nat
        /\ OwnerOf[d] # RenterOf[d]
    BY DealAssumption
  <2> QED
    BY <2>1 DEF Pair
<1>2. Min(Pair(d)) = a
  BY <1>1 DEF Min
<1>3. Max(Pair(d)) = b
  BY <1>1 DEF Max
<1> QED
  BY <1>1, <1>2, <1>3 DEF LockOrder

\* A handler with both locks holds the rows of its pair.
LEMMA HoldsBoth ==
    ASSUME NEW w \in Workers, Ensuring(w), req[w].d \in Deals, req[w].held = 2
    PROVE  Held(w) = Pair(req[w].d)
<1>1. Held(w) = {LockOrder(req[w].d)[1], LockOrder(req[w].d)[2]}
  BY DEF Held
<1> QED
  BY <1>1, InOrder

\* Between two locks a handler holds the smaller id and wants the greater one.
LEMMA NextIsGreater ==
    ASSUME NEW w \in Workers, Waiting(w), req[w].d \in Deals, req[w].held \in 0 .. 2
    PROVE  /\ Wanted(w) \in Nat
           /\ \A row \in Held(w) : row < Wanted(w)
<1>1. req[w].held = 0 \/ req[w].held = 1
  BY DEF Waiting
<1>2. CASE req[w].held = 0
  BY <1>2, InOrder DEF Held, Wanted
<1>3. CASE req[w].held = 1
  <2>1. Held(w) = {LockOrder(req[w].d)[1]}
    BY <1>3 DEF Held, Ensuring, Waiting
  <2> QED
    BY <2>1, <1>3, InOrder DEF Wanted
<1> QED
  BY <1>1, <1>2, <1>3

\* The fields of a request in flight.
LEMMA FieldsInFlight ==
    ASSUME ChatTypeOK, NEW w \in Workers
    PROVE  /\ Ensuring(w) => /\ req[w].d \in Deals
                             /\ req[w].held \in 0 .. 2
                             /\ req[w].then \in {"open", "openStaff", "append"}
                             /\ req[w] \in [op : {"ensure", "insertThread"}, d : Deals,
                                            held : 0 .. 2,
                                            then : {"open", "openStaff", "append"}]
           /\ req[w].op = "line" => req[w].thread \in DOMAIN threads
           /\ req[w].op = "direct" => req[w].d \in Deals
<1>1. req[w] \in ChatRequest \cup {Idle}
  BY DEF ChatTypeOK
<1> QED
  BY <1>1 DEF ChatRequest, Idle, Ensuring

----------------------------------------------------------------------------
(* Steps.                                                                  *)

\* A request that changes what it carries leaves the others as they are.
LEMMA OthersKeep ==
    ASSUME ChatTypeOK, NEW w \in Workers, NEW q, req' = [req EXCEPT ![w] = q]
    PROVE  /\ req'[w] = q
           /\ \A v \in Workers \ {w} : req'[v] = req[v] /\ Held(v)' = Held(v)
<1>1. req'[w] = q /\ \A v \in Workers \ {w} : req'[v] = req[v]
  BY DEF ChatTypeOK
<1>2. ASSUME NEW v \in Workers \ {w} PROVE Held(v)' = Held(v)
  BY <1>1 DEF Held, Ensuring
<1> QED
  BY <1>1, <1>2

\* The step of a handler that inserts no thread.
LEMMA NothingInserted ==
    ASSUME ChatInv, NEW w \in Workers, NEW q,
           req' = [req EXCEPT ![w] = q],
           q \in ChatRequest \cup {Idle},
           threads' \in Seq(Threads), Len(threads') = Len(threads),
           \A i \in DOMAIN threads :
              threads'[i].kind = threads[i].kind /\ threads'[i].pair = threads[i].pair,
           lines' \in Seq(Seq({"SYSTEM", "TEXT"})), Len(lines') = Len(lines),
           q.op = "insertThread" => q.held = 2 /\ ThreadsOf(Pair(q.d), "rental") = {},
           \A v \in Workers \ {w} : Held(w)' \cap Held(v) = {}
    PROVE  ChatInv'
<1>1. ChatTypeOK
  BY DEF ChatInv
<1>2. DOMAIN threads' = DOMAIN threads
  BY <1>1 DEF ChatTypeOK
<1>3. \A pair, kind : ThreadsOf(pair, kind)' = ThreadsOf(pair, kind)
  BY <1>2 DEF ThreadsOf
<1>4. ChatRequest' = ChatRequest
  BY <1>2 DEF ChatRequest
<1>5. req' \in [Workers -> ChatRequest' \cup {Idle}]
  BY <1>1, <1>4 DEF ChatTypeOK
<1>6. ChatTypeOK'
  BY <1>1, <1>5 DEF ChatTypeOK
<1>7. /\ req'[w] = q
      /\ \A v \in Workers \ {w} : req'[v] = req[v] /\ Held(v)' = Held(v)
  BY <1>1, OthersKeep
<1>8. ASSUME NEW v \in Workers PROVE StillMissing(v)'
  <2>1. CASE v = w
    <3>1. q.op = "insertThread" => q.held = 2 /\ ThreadsOf(Pair(q.d), "rental")' = {}
      BY <1>3
    <3> QED
      BY <2>1, <3>1, <1>7 DEF StillMissing, Pair, ThreadsOf
  <2>2. CASE v # w
    <3>1. req'[v] = req[v] /\ StillMissing(v)
      BY <2>2, <1>7 DEF ChatInv
    <3> QED
      BY <3>1, <1>2 DEF StillMissing, Pair, ThreadsOf
  <2> QED
    BY <2>1, <2>2
<1>9. \A u, v \in Workers : u # v => Held(u)' \cap Held(v)' = {}
  <2> SUFFICES ASSUME NEW u \in Workers, NEW v \in Workers, u # v
               PROVE  Held(u)' \cap Held(v)' = {}
    OBVIOUS
  <2>1. Held(u) \cap Held(v) = {}
    BY DEF ChatInv
  <2> QED
    BY <2>1, <1>7
<1>10. \A i, j \in DOMAIN threads' :
          threads'[i].pair = threads'[j].pair /\ threads'[i].kind = threads'[j].kind => i = j
  BY <1>2 DEF ChatInv
<1> QED
  BY <1>6, <1>8, <1>9, <1>10 DEF ChatInv

\* The step that inserts a thread, while nobody else is about to insert it.
LEMMA OneInserted ==
    ASSUME ChatInv, NEW w \in Workers, NEW q, NEW row \in Threads,
           req' = [req EXCEPT ![w] = q],
           q = Idle \/ q = [op |-> "line", thread |-> Len(threads')],
           threads' = Append(threads, row),
           lines' = Append(lines, <<>>),
           ThreadsOf(row.pair, row.kind) = {},
           \A v \in Workers \ {w} :
              req[v].op = "insertThread" =>
                  ~ (row.kind = "rental" /\ row.pair = Pair(req[v].d))
    PROVE  ChatInv'
<1>1. ChatTypeOK
  BY DEF ChatInv
<1>2. /\ Len(threads') = Len(threads) + 1
      /\ threads' \in Seq(Threads)
      /\ \A i \in DOMAIN threads : threads'[i] = threads[i]
      /\ threads'[Len(threads) + 1] = row
      /\ DOMAIN threads' = DOMAIN threads \cup {Len(threads) + 1}
      /\ Len(threads') \in DOMAIN threads'
  BY <1>1 DEF ChatTypeOK
<1>3. lines' \in Seq(Seq({"SYSTEM", "TEXT"})) /\ Len(lines') = Len(threads')
  BY <1>1, <1>2 DEF ChatTypeOK
<1>4. ChatRequest \subseteq ChatRequest'
  BY <1>2 DEF ChatRequest
<1>5. q \in ChatRequest' \cup {Idle} /\ q.op \in {"idle", "line"}
  BY <1>2 DEF ChatRequest, Idle
<1>6. req' \in [Workers -> ChatRequest' \cup {Idle}]
  BY <1>1, <1>4, <1>5 DEF ChatTypeOK
<1>7. ChatTypeOK'
  BY <1>2, <1>3, <1>6 DEF ChatTypeOK
<1>8. /\ req'[w] = q
      /\ \A v \in Workers \ {w} : req'[v] = req[v] /\ Held(v)' = Held(v)
  BY <1>1, OthersKeep
<1>9. ASSUME NEW v \in Workers PROVE StillMissing(v)'
  <2>1. CASE v = w
    BY <2>1, <1>5, <1>8 DEF StillMissing
  <2>2. CASE v # w
    <3>1. req'[v] = req[v] /\ StillMissing(v)
      BY <2>2, <1>8 DEF ChatInv
    <3>2. ASSUME req[v].op = "insertThread"
          PROVE  ThreadsOf(Pair(req[v].d), "rental")' = {}
      <4>1. \A i \in DOMAIN threads :
                ~ (threads[i].pair = Pair(req[v].d) /\ threads[i].kind = "rental")
        BY <3>1, <3>2 DEF StillMissing, ThreadsOf
      <4>2. ~ (row.pair = Pair(req[v].d) /\ row.kind = "rental")
        BY <2>2, <3>2
      <4>3. Pair(req[v].d)' = Pair(req[v].d)
        BY <3>1 DEF Pair
      <4> QED
        BY <4>1, <4>2, <4>3, <1>2 DEF ThreadsOf
    <3> QED
      BY <3>1, <3>2 DEF StillMissing, ThreadsOf, Pair
  <2> QED
    BY <2>1, <2>2
<1>10. Held(w)' = {}
  BY <1>5, <1>8 DEF Held, Ensuring
<1>11. \A u, v \in Workers : u # v => Held(u)' \cap Held(v)' = {}
  <2> SUFFICES ASSUME NEW u \in Workers, NEW v \in Workers, u # v
               PROVE  Held(u)' \cap Held(v)' = {}
    OBVIOUS
  <2>1. Held(u) \cap Held(v) = {}
    BY DEF ChatInv
  <2> QED
    BY <2>1, <1>8, <1>10
<1>12. \A i, j \in DOMAIN threads' :
          threads'[i].pair = threads'[j].pair /\ threads'[i].kind = threads'[j].kind => i = j
  <2>1. \A i \in DOMAIN threads :
            ~ (threads[i].pair = row.pair /\ threads[i].kind = row.kind)
    BY DEF ThreadsOf
  <2> QED
    BY <2>1, <1>2 DEF ChatInv
<1> QED
  BY <1>7, <1>9, <1>11, <1>12 DEF ChatInv

\* Least thread of a set of them that is not empty.
LEMMA OldestThread ==
    ASSUME ChatTypeOK, NEW pair, NEW kind, ThreadsOf(pair, kind) # {}
    PROVE  Min(ThreadsOf(pair, kind)) \in DOMAIN threads
<1>1. ThreadsOf(pair, kind) \subseteq DOMAIN threads /\ DOMAIN threads \subseteq Nat
  BY DEF ThreadsOf, ChatTypeOK
<1> QED
  BY <1>1, LeastIsMin

\* A handler that goes on without a lock of its own, and inserts nothing.
LEMMA LocksReleased ==
    ASSUME ChatInv, NEW w \in Workers, NEW q,
           req' = [req EXCEPT ![w] = q],
           q \in ChatRequest \cup {Idle},
           q.op \notin {"ensure", "insertThread"} \/ (q.op = "ensure" /\ q.held = 0),
           threads' \in Seq(Threads), Len(threads') = Len(threads),
           \A i \in DOMAIN threads :
              threads'[i].kind = threads[i].kind /\ threads'[i].pair = threads[i].pair,
           lines' \in Seq(Seq({"SYSTEM", "TEXT"})), Len(lines') = Len(lines)
    PROVE  ChatInv'
<1>1. ChatTypeOK
  BY DEF ChatInv
<1>2. req'[w] = q
  BY <1>1, OthersKeep
<1>3. Held(w)' = {}
  BY <1>2 DEF Held, Ensuring
<1>4. \A v \in Workers \ {w} : Held(w)' \cap Held(v) = {}
  BY <1>3
<1>5. q.op = "insertThread" => q.held = 2 /\ ThreadsOf(Pair(q.d), "rental") = {}
  OBVIOUS
<1> QED
  BY <1>4, <1>5, NothingInserted

\* Every call and every later step of a handler keeps the invariant.
LEMMA ChatStepInv == ChatInv /\ [ChatNext]_<<chatVars, req>> => ChatInv'
<1> SUFFICES ASSUME ChatInv, [ChatNext]_<<chatVars, req>> PROVE ChatInv'
  OBVIOUS
<1>1. ChatTypeOK
  BY DEF ChatInv
<1>2. threads \in Seq(Threads) /\ lines \in Seq(Seq({"SYSTEM", "TEXT"}))
  BY <1>1 DEF ChatTypeOK
<1>3. CASE UNCHANGED <<chatVars, req>>
  <2>1. threads' = threads /\ lines' = lines /\ req' = req
    BY <1>3 DEF chatVars
  <2>2. \A w \in Workers : Held(w)' = Held(w)
    BY <2>1 DEF Held, Ensuring, LockOrder, Pair
  <2>3. ChatTypeOK'
    BY <1>1, <2>1 DEF ChatTypeOK, ChatRequest
  <2>4. \A w \in Workers : StillMissing(w)'
    BY <2>1 DEF ChatInv, StillMissing, ThreadsOf, Pair
  <2> QED
    BY <2>1, <2>2, <2>3, <2>4 DEF ChatInv
<1>4. ASSUME NEW w \in Workers, Done(w), UNCHANGED chatVars PROVE ChatInv'
  <2>1. req' = [req EXCEPT ![w] = Idle] /\ threads' = threads /\ lines' = lines
    BY <1>4 DEF Done, chatVars
  <2>2. Idle \in ChatRequest \cup {Idle} /\ Idle.op = "idle"
    BY DEF Idle
  <2> QED
    BY <1>2, <2>1, <2>2, LocksReleased
<1>5. ASSUME NEW w \in Workers, SendMessage(w) PROVE ChatInv'
  <2>0. PICK i \in DOMAIN threads : \E from \in threads[i].members \cup {StaffId} :
           LET thread == IF threads[i].kind = "direct" THEN i
                         ELSE Min(ThreadsOf(threads[i].pair, "rental"))
           IN  /\ Begin(w, [op |-> "line", thread |-> thread])
               /\ threads' = [threads EXCEPT ![thread].members = @ \cup {from}]
               /\ UNCHANGED lines
    BY <1>5 DEF SendMessage
  <2>1. PICK from \in threads[i].members \cup {StaffId} :
           LET thread == IF threads[i].kind = "direct" THEN i
                         ELSE Min(ThreadsOf(threads[i].pair, "rental"))
           IN  /\ Begin(w, [op |-> "line", thread |-> thread])
               /\ threads' = [threads EXCEPT ![thread].members = @ \cup {from}]
               /\ UNCHANGED lines
    BY <2>0
  <2> DEFINE t == IF threads[i].kind = "direct" THEN i
                  ELSE Min(ThreadsOf(threads[i].pair, "rental"))
             q == [op |-> "line", thread |-> t]
  <2>2. threads[i] \in Threads
    BY <1>2
  <2>3. t \in DOMAIN threads
    <3>1. CASE threads[i].kind = "direct"
      BY <3>1
    <3>2. CASE threads[i].kind # "direct"
      <4>1. threads[i].kind = "rental"
        BY <2>2, <3>2 DEF Threads
      <4>2. ThreadsOf(threads[i].pair, "rental") # {}
        BY <4>1 DEF ThreadsOf
      <4> QED
        BY <1>1, <3>2, <4>2, OldestThread
    <3> QED
      BY <3>1, <3>2
  <2>4. q \in ChatRequest \cup {Idle} /\ q.op = "line"
    BY <2>3 DEF ChatRequest
  <2>5. req' = [req EXCEPT ![w] = q] /\ lines' = lines
    BY <2>1 DEF Begin
  <2>6. threads' = [threads EXCEPT ![t].members = @ \cup {from}]
    BY <2>1
  <2> HIDE DEF t, q
  <2>7. from \in Nat
    BY <2>1, <2>2, DealAssumption DEF Threads
  <2>8. [threads[t] EXCEPT !.members = @ \cup {from}] \in Threads
    <3>1. threads[t] \in Threads
      BY <1>2, <2>3
    <3> QED
      BY <2>7, <3>1 DEF Threads
  <2>9. threads' \in Seq(Threads) /\ Len(threads') = Len(threads)
    BY <1>2, <2>3, <2>6, <2>8
  <2>10. \A j \in DOMAIN threads :
            threads'[j].kind = threads[j].kind /\ threads'[j].pair = threads[j].pair
    <3> SUFFICES ASSUME NEW j \in DOMAIN threads
                 PROVE  threads'[j].kind = threads[j].kind /\ threads'[j].pair = threads[j].pair
      OBVIOUS
    <3>1. threads[j] \in Threads
      BY <1>2
    <3> QED
      BY <2>6, <3>1 DEF Threads
  <2> QED
    BY <1>2, <2>4, <2>5, <2>9, <2>10, LocksReleased
<1>6. ASSUME NEW w \in Workers, NEW d \in Deals, EnsureRead(w, d) PROVE ChatInv'
  <2>1. PICK then \in {"open", "openStaff", "append"} :
           req' = [req EXCEPT ![w] = [op |-> "ensure", d |-> d, held |-> 0, then |-> then]]
    BY <1>6 DEF EnsureRead, Begin
  <2> DEFINE q == [op |-> "ensure", d |-> d, held |-> 0, then |-> then]
  <2>2. q \in ChatRequest \cup {Idle} /\ q.op = "ensure" /\ q.held = 0
    BY DEF ChatRequest
  <2>3. req' = [req EXCEPT ![w] = q] /\ threads' = threads /\ lines' = lines
    BY <1>6, <2>1 DEF EnsureRead, chatVars
  <2> HIDE DEF q
  <2> QED
    BY <1>2, <2>2, <2>3, LocksReleased
<1>7. ASSUME NEW w \in Workers, NEW d \in Deals, DirectRead(w, d) PROVE ChatInv'
  <2> DEFINE q == [op |-> "direct", d |-> d]
  <2>1. q \in ChatRequest \cup {Idle} /\ q.op = "direct"
    BY DEF ChatRequest
  <2>2. req' = [req EXCEPT ![w] = q] /\ threads' = threads /\ lines' = lines
    BY <1>7 DEF DirectRead, Begin, chatVars
  <2> HIDE DEF q
  <2> QED
    BY <1>2, <2>1, <2>2, LocksReleased
<1>8. ASSUME NEW w \in Workers, LockParticipant(w) PROVE ChatInv'
  <2> DEFINE q == [req[w] EXCEPT !.held = @ + 1]
  <2>1. Ensuring(w) /\ req[w].held < 2 /\ req[w].op = "ensure"
    BY <1>8 DEF LockParticipant, Ensuring
  <2>2. /\ req[w].d \in Deals /\ req[w].held \in 0 .. 2
        /\ req[w] \in [op : {"ensure", "insertThread"}, d : Deals, held : 0 .. 2,
                       then : {"open", "openStaff", "append"}]
    BY <1>1, <2>1, FieldsInFlight
  <2>3. /\ q.op = "ensure" /\ q.d = req[w].d /\ q.held = req[w].held + 1
        /\ q.held \in 0 .. 2
        /\ q \in ChatRequest \cup {Idle}
    BY <2>1, <2>2 DEF ChatRequest
  <2>4. req' = [req EXCEPT ![w] = q] /\ threads' = threads /\ lines' = lines
    BY <1>8 DEF LockParticipant, Continue, chatVars
  <2> HIDE DEF q
  <2>5. req'[w] = q
    BY <1>1, <2>4, OthersKeep
  <2>6. Held(w)' = Held(w) \cup {Wanted(w)}
    <3>1. Held(w)' = {LockOrder(q.d)[i] : i \in 1 .. q.held}
      BY <2>3, <2>5 DEF Held, Ensuring, LockOrder, Pair
    <3>2. 1 .. q.held = 1 .. req[w].held \cup {req[w].held + 1}
      BY <2>2, <2>3
    <3> QED
      BY <2>1, <2>3, <3>1, <3>2 DEF Held, Wanted
  <2>7. \A v \in Workers \ {w} : Held(w)' \cap Held(v) = {}
    BY <1>8, <2>6 DEF LockParticipant, RowFree, ChatInv
  <2>8. q.op = "insertThread" => q.held = 2 /\ ThreadsOf(Pair(q.d), "rental") = {}
    BY <2>3
  <2> QED
    BY <1>2, <2>3, <2>4, <2>7, <2>8, NothingInserted
<1>9. ASSUME NEW w \in Workers, FindThread(w) PROVE ChatInv'
  <2>1. /\ threads' = threads /\ lines' = lines
        /\ LooksIn(w) # {} /\ Afterwards(w, Min(LooksIn(w)))
    BY <1>9 DEF FindThread, chatVars
  <2>2. Min(LooksIn(w)) \in DOMAIN threads
    BY <1>1, <2>1, OldestThread DEF LooksIn
  <2>3. PICK q : /\ req' = [req EXCEPT ![w] = q]
                 /\ q = Idle \/ q = [op |-> "line", thread |-> Min(LooksIn(w))]
    BY <2>1 DEF Afterwards, Continue, Done
  <2>4. q \in ChatRequest \cup {Idle} /\ q.op \in {"idle", "line"}
    BY <2>2, <2>3 DEF ChatRequest, Idle
  <2> QED
    BY <1>2, <2>1, <2>3, <2>4, LocksReleased
<1>10. ASSUME NEW w \in Workers, NoThread(w) PROVE ChatInv'
  <2> DEFINE q == [req[w] EXCEPT !.op = "insertThread"]
  <2>1. Ensuring(w) /\ req[w].held = 2
    BY <1>10 DEF NoThread, Ensuring
  <2>2. /\ req[w].d \in Deals
        /\ req[w] \in [op : {"ensure", "insertThread"}, d : Deals, held : 0 .. 2,
                       then : {"open", "openStaff", "append"}]
    BY <1>1, <2>1, FieldsInFlight
  <2>3. /\ q.op = "insertThread" /\ q.d = req[w].d /\ q.held = 2
        /\ q \in ChatRequest \cup {Idle}
    BY <2>1, <2>2 DEF ChatRequest
  <2>4. req' = [req EXCEPT ![w] = q] /\ threads' = threads /\ lines' = lines
    BY <1>10 DEF NoThread, Continue, chatVars
  <2> HIDE DEF q
  <2>5. req'[w] = q
    BY <1>1, <2>4, OthersKeep
  <2>6. Held(w)' = Held(w)
    BY <2>1, <2>3, <2>5 DEF Held, Ensuring, LockOrder, Pair
  <2>7. \A v \in Workers \ {w} : Held(w)' \cap Held(v) = {}
    BY <2>6 DEF ChatInv
  <2>8. ThreadsOf(Pair(q.d), "rental") = {}
    BY <1>10, <2>3 DEF NoThread, LooksIn
  <2> QED
    BY <1>2, <2>3, <2>4, <2>7, <2>8, NothingInserted
<1>11. ASSUME NEW w \in Workers, InsertThread(w) PROVE ChatInv'
  <2> DEFINE row == [kind |-> "rental", pair |-> Pair(req[w].d),
                     members |-> Pair(req[w].d) \cup
                        IF req[w].then = "openStaff" THEN {StaffId} ELSE {}]
  <2>1. /\ threads' = Append(threads, row) /\ lines' = Append(lines, <<>>)
        /\ req[w].op = "insertThread" /\ Afterwards(w, Len(threads'))
    BY <1>11 DEF InsertThread
  <2>2. PICK q : /\ req' = [req EXCEPT ![w] = q]
                 /\ q = Idle \/ q = [op |-> "line", thread |-> Len(threads')]
    BY <2>1 DEF Afterwards, Continue, Done
  <2>3. Ensuring(w)
    BY <2>1 DEF Ensuring
  <2>4. /\ req[w].d \in Deals /\ req[w].held = 2
        /\ ThreadsOf(Pair(req[w].d), "rental") = {}
    BY <1>1, <2>1, <2>3, FieldsInFlight DEF ChatInv, StillMissing
  <2>5. /\ row \in Threads /\ row.kind = "rental" /\ row.pair = Pair(req[w].d)
    BY <2>4, InOrder, DealAssumption DEF Threads
  <2> HIDE DEF row
  <2>6. ASSUME NEW v \in Workers \ {w}, req[v].op = "insertThread"
        PROVE  row.pair # Pair(req[v].d)
    <3>1. Ensuring(v)
      BY <2>6 DEF Ensuring
    <3>2. req[v].d \in Deals /\ req[v].held = 2
      BY <1>1, <2>6, <3>1, FieldsInFlight DEF ChatInv, StillMissing
    <3>3. Held(v) = Pair(req[v].d) /\ Held(w) = Pair(req[w].d)
      BY <2>3, <2>4, <3>1, <3>2, HoldsBoth
    <3>4. Held(v) \cap Held(w) = {}
      BY DEF ChatInv
    <3>5. Pair(req[w].d) # {}
      BY DEF Pair
    <3> QED
      BY <2>5, <3>3, <3>4, <3>5
  <2>7. ThreadsOf(row.pair, row.kind) = {}
    BY <2>4, <2>5
  <2>8. \A v \in Workers \ {w} : req[v].op = "insertThread" =>
            ~ (row.kind = "rental" /\ row.pair = Pair(req[v].d))
    BY <2>6
  <2> QED
    BY <2>1, <2>2, <2>5, <2>7, <2>8, OneInserted
<1>12. ASSUME NEW w \in Workers, AppendLine(w) PROVE ChatInv'
  <2>1. req' = [req EXCEPT ![w] = Idle] /\ threads' = threads
    BY <1>12 DEF AppendLine, Done
  <2>2. req[w].thread \in DOMAIN lines
    BY <1>1, <1>12, FieldsInFlight DEF AppendLine, ChatTypeOK
  <2>3. PICK added \in Seq({"SYSTEM", "TEXT"}) :
           lines' = [lines EXCEPT ![req[w].thread] = @ \o added]
    <3>1. {<<"SYSTEM">>, <<"TEXT">>, <<"TEXT", "SYSTEM">>} \subseteq Seq({"SYSTEM", "TEXT"})
      OBVIOUS
    <3> QED
      BY <1>12, <3>1 DEF AppendLine
  <2>4. lines[req[w].thread] \o added \in Seq({"SYSTEM", "TEXT"})
    BY <1>2, <2>2
  <2>5. lines' \in Seq(Seq({"SYSTEM", "TEXT"})) /\ Len(lines') = Len(lines)
    BY <1>2, <2>2, <2>3, <2>4
  <2>6. Idle \in ChatRequest \cup {Idle} /\ Idle.op = "idle"
    BY DEF Idle
  <2> QED
    BY <1>2, <2>1, <2>5, <2>6, LocksReleased
<1>13. ASSUME NEW w \in Workers, DirectInsert(w) PROVE ChatInv'
  <2> DEFINE row == [kind |-> "direct", pair |-> Pair(req[w].d), members |-> Pair(req[w].d)]
             q == Idle
  <2>1. /\ threads' = Append(threads, row) /\ lines' = Append(lines, <<>>)
        /\ req[w].op = "direct" /\ ThreadsOf(Pair(req[w].d), "direct") = {}
        /\ req' = [req EXCEPT ![w] = q]
    BY <1>13 DEF DirectInsert, Done
  <2>2. row \in Threads /\ row.kind = "direct" /\ row.pair = Pair(req[w].d)
    BY <1>1, <2>1, FieldsInFlight, InOrder DEF Threads
  <2> HIDE DEF row
  <2>3. ThreadsOf(row.pair, row.kind) = {}
    BY <2>1, <2>2
  <2>4. \A v \in Workers \ {w} : req[v].op = "insertThread" =>
            ~ (row.kind = "rental" /\ row.pair = Pair(req[v].d))
    BY <2>2
  <2>5. q = Idle \/ q = [op |-> "line", thread |-> Len(threads')]
    OBVIOUS
  <2> HIDE DEF q
  <2> QED
    BY <2>1, <2>2, <2>3, <2>4, <2>5, OneInserted
<1>14. ASSUME NEW w \in Workers, ChatCall(w) PROVE ChatInv'
  BY <1>5, <1>6, <1>7, <1>14 DEF ChatCall
<1>15. ASSUME NEW w \in Workers, ChatProgress(w) PROVE ChatInv'
  <2>1. SameLine(w) \/ DirectThere(w) => ChatInv'
    BY <1>4 DEF SameLine, DirectThere
  <2> QED
    BY <1>8, <1>9, <1>10, <1>11, <1>12, <1>13, <1>15, <2>1 DEF ChatProgress
<1> QED
  BY <1>3, <1>4, <1>14, <1>15 DEF ChatNext, ChatAbort

\* The invariant of the threads and their locks, for any people and workers.
THEOREM ChatInvariance == ChatSpec => []ChatInv
<1>1. ChatInit /\ req = [w \in Workers |-> Idle] => ChatInv
  BY DEF ChatInit, ChatInv, ChatTypeOK, StillMissing, Held, Ensuring, Idle, ChatRequest
<1> QED
  BY <1>1, ChatStepInv, PTL DEF ChatSpec

\* Two people never get a second thread of a kind (chat-timeline.service.ts
\* ensureConversationForRental, chat.service.ts createDirectConversation),
\* whatever number of handlers look for it and insert it at once.
THEOREM OneThread == ChatSpec => []OneThreadPerPair
<1>1. ChatInv => OneThreadPerPair
  <2> SUFFICES ASSUME ChatInv, NEW d \in Deals, NEW kind \in {"rental", "direct"}
               PROVE  Cardinality(ThreadsOf(Pair(d), kind)) <= 1
    BY DEF OneThreadPerPair
  <2>1. \A i, j \in ThreadsOf(Pair(d), kind) : i = j
    BY DEF ThreadsOf, ChatInv
  <2>2. CASE ThreadsOf(Pair(d), kind) = {}
    BY <2>2, FS_EmptySet
  <2>3. CASE ThreadsOf(Pair(d), kind) # {}
    <3>1. PICK i : ThreadsOf(Pair(d), kind) = {i}
      BY <2>1, <2>3
    <3> QED
      BY <3>1, FS_Singleton
  <2> QED
    BY <2>2, <2>3
<1> QED
  BY <1>1, ChatInvariance, PTL

\* Handlers that wait for the rows of two people never wait in a circle
\* (chat-timeline.service.ts lockParticipants): whoever holds the row another
\* one wants is waiting for a greater id, if it waits at all.
THEOREM NoCircle == ChatSpec => []NoLockCycle
<1>1. ChatInv => NoLockCycle
  <2> SUFFICES ASSUME ChatInv, NEW stuck \in (SUBSET Workers) \ {{}},
                      \A w \in stuck : Waiting(w) /\ \E v \in stuck : Wanted(w) \in Held(v)
               PROVE  FALSE
    BY DEF NoLockCycle
  <2>1. IsFiniteSet(stuck)
    BY WorkersAssumption, FS_Subset
  <2>2. ASSUME NEW w \in stuck
        PROVE  Wanted(w) \in Nat /\ \A row \in Held(w) : row < Wanted(w)
    <3>1. w \in Workers /\ Waiting(w)
      OBVIOUS
    <3>2. Ensuring(w)
      BY <3>1 DEF Waiting, Ensuring
    <3>3. req[w].d \in Deals /\ req[w].held \in 0 .. 2
      BY <3>1, <3>2, FieldsInFlight DEF ChatInv
    <3> QED
      BY <3>1, <3>3, NextIsGreater
  <2> DEFINE f == [w \in stuck |-> Wanted(w)]
  <2>3. f \in [stuck -> Nat] /\ stuck # {}
    BY <2>2
  <2>4. \A w \in stuck : \E v \in stuck : f[w] < f[v]
    BY <2>2
  <2>5. \E x \in stuck : \A y \in stuck : f[y] <= f[x]
    <3> HIDE DEF f
    <3> QED
      BY <2>1, <2>3, NoEndlessClimb
  <2>6. PICK x \in stuck : \A y \in stuck : f[y] <= f[x]
    BY <2>5
  <2>7. PICK y \in stuck : f[x] < f[y]
    BY <2>4
  <2>8. f[x] \in Nat /\ f[y] \in Nat /\ f[y] <= f[x]
    BY <2>3, <2>6
  <2> QED
    BY <2>7, <2>8
<1> QED
  BY <1>1, ChatInvariance, PTL

============================================================================
