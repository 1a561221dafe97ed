---------------------------- MODULE ServiceProofs ---------------------------
(***************************************************************************)
(* Proofs about the services around the rental, each on its own: the staff *)
(* and their roles, the tickets, the reports, the listings with their risk *)
(* assessment, the reviews with their score, the reminder job, and what    *)
(* the desks of the back office offer.                                     *)
(***************************************************************************)
EXTENDS StaffDesks, SupportService, RiskService, ReminderJobs, ConversationsProofs

----------------------------------------------------------------------------
(* Staff.  As long as no two requests that lower a chief were at work at   *)
(* once, some chief is active whom no request in flight may lower.         *)
Roles == {"ADMIN", "SUPER_ADMIN"}

StaffRequest ==
    [op : {"staffStatus"}, o : Officers, enable : BOOLEAN]
    \cup [op : {"staffRoles"}, o : Officers, new : SUBSET Roles, missed : BOOLEAN]
    \cup [op : {"staffInsert"}, o : Officers, new : SUBSET Roles, kept : SUBSET Roles]

StaffTypeOK ==
    /\ enabled \in SUBSET Officers
    /\ roles \in [Officers -> SUBSET Roles]
    /\ feud \in BOOLEAN /\ ousted \in BOOLEAN
    /\ req \in [Workers -> StaffRequest \cup {Idle}]

\* what is left of the request may take the officer's account or role away
Harms(v, o) ==
    \/ req[v].op = "staffStatus" /\ req[v].o = o /\ ~req[v].enable
    \/ /\ req[v].op \in {"staffRoles", "staffInsert"}
       /\ req[v].o = o
       /\ "SUPER_ADMIN" \notin req[v].new

Safe(o) == o \in enabled /\ Chief(o) /\ \A v \in Workers : ~Harms(v, o)

StaffInv == StaffTypeOK /\ (feud \/ ousted \/ \E o \in Officers : Safe(o))

\* A request that lowers somebody begins on the word of a chief, whom nobody
\* is about to lower, or it is aimed at an account that is no chief's.
LEMMA LoweringBegins ==
    ASSUME StaffInv, NEW w \in Workers, NEW q \in StaffRequest,
           NEW actor \in Officers, NEW target \in Officers, NEW lowers \in BOOLEAN,
           req' = [req EXCEPT ![w] = q],
           enabled' = enabled, roles' = roles, ousted' = ousted,
           Feud(w, lowers),
           req[w] = Idle,
           q.o = target,
           q.op = "staffStatus" \/ q.op = "staffRoles",
           lowers <=> (IF q.op = "staffStatus" THEN ~q.enable ELSE "SUPER_ADMIN" \notin q.new),
           actor \in enabled,
           lowers => actor # target,
           Chief(actor) \/ ~Chief(target)
    PROVE  StaffInv'
<1>1. StaffTypeOK'
  BY DEF StaffInv, StaffTypeOK, Feud
<1>2. req'[w] = q /\ \A v \in Workers \ {w} : req'[v] = req[v]
  BY DEF StaffInv, StaffTypeOK
<1>3. \A o : Chief(o)' <=> Chief(o)
  BY DEF Chief
<1>4. \A o : Harms(w, o)' => lowers /\ o = target
  BY <1>2 DEF Harms
<1>5. \A o : \A v \in Workers \ {w} : Harms(v, o)' <=> Harms(v, o)
  BY <1>2 DEF Harms
<1>6. \A o : ~Harms(w, o)
  BY DEF Harms, Idle
<1>7. ASSUME ~feud', ~ousted' PROVE \E o \in Officers : Safe(o)'
  <2>1. ~feud /\ ~ousted /\ (lowers => \A v \in Workers \ {w} : ~Lowering(v))
    BY <1>7 DEF Feud, StaffInv, StaffTypeOK
  <2>2. PICK o \in Officers : Safe(o)
    BY <2>1 DEF StaffInv
  <2>3. CASE ~lowers \/ ~Chief(target)
    <3>1. ~Harms(w, o)'
      BY <1>4, <2>2, <2>3 DEF Safe
    <3>2. \A v \in Workers : ~Harms(v, o)'
      BY <3>1, <1>5, <2>2 DEF Safe
    <3> QED
      BY <1>3, <2>2, <3>2 DEF Safe
  <2>4. CASE lowers /\ Chief(target)
    <3>1. Chief(actor) /\ actor # target
      BY <2>4
    <3>2. \A v \in Workers \ {w} : ~Harms(v, actor)
      <4> SUFFICES ASSUME NEW v \in Workers \ {w}, Harms(v, actor) PROVE FALSE
        OBVIOUS
      <4>1. Lowering(v)
        BY <3>1 DEF Harms, Lowering
      <4> QED
        BY <2>1, <2>4, <4>1
    <3>3. \A v \in Workers : ~Harms(v, actor)'
      BY <1>4, <1>5, <3>1, <3>2
    <3> QED
      BY <1>3, <3>1, <3>3 DEF Safe
  <2> QED
    BY <2>3, <2>4
<1> QED
  BY <1>1, <1>7 DEF StaffInv

\* Every step of the staff's handlers keeps the invariant.
LEMMA StaffStepInv == StaffInv /\ [StaffNext]_<<staffVars, req>> => StaffInv'
<1> SUFFICES ASSUME StaffInv, [StaffNext]_<<staffVars, req>> PROVE StaffInv'
  OBVIOUS
<1>1. StaffTypeOK
  BY DEF StaffInv
<1>2. CASE UNCHANGED <<staffVars, req>>
  BY <1>2 DEF staffVars, StaffInv, StaffTypeOK, Safe, Chief, Harms
<1>3. ASSUME NEW w \in Workers, Done(w), UNCHANGED staffVars PROVE StaffInv'
  <2>1. /\ enabled' = enabled /\ roles' = roles /\ feud' = feud /\ ousted' = ousted
        /\ req'[w] = Idle /\ \A v \in Workers \ {w} : req'[v] = req[v]
        /\ req' \in [Workers -> StaffRequest \cup {Idle}]
    BY <1>1, <1>3 DEF Done, staffVars, StaffTypeOK
  <2>2. \A o : \A v \in Workers : Harms(v, o)' => Harms(v, o)
    BY <2>1 DEF Harms, Idle
  <2>3. \A o : Safe(o) => Safe(o)'
    BY <2>1, <2>2 DEF Safe, Chief
  <2> QED
    BY <2>1, <2>3 DEF StaffInv, StaffTypeOK
<1>4. ASSUME NEW w \in Workers, NEW actor \in Officers, NEW target \in Officers,
             StaffStatusRead(w, actor, target)
      PROVE  StaffInv'
  <2>1. PICK enable \in BOOLEAN :
           /\ enable \/ NotThemselves(actor, target)
           /\ Begin(w, [op |-> "staffStatus", o |-> target, enable |-> enable])
           /\ Feud(w, ~enable)
    BY <1>4 DEF StaffStatusRead
  <2> DEFINE q == [op |-> "staffStatus", o |-> target, enable |-> enable]
  <2>2. q \in StaffRequest /\ q.o = target /\ q.op = "staffStatus" /\ q.enable = enable
    BY DEF StaffRequest
  <2>3. req[w] = Idle /\ req' = [req EXCEPT ![w] = q]
    BY <2>1 DEF Begin
  <2> HIDE DEF q
  <2>4. /\ enabled' = enabled /\ roles' = roles /\ ousted' = ousted /\ actor \in enabled
        /\ Chief(actor) \/ ~Chief(target)
    BY <1>4 DEF StaffStatusRead, Admitted
  <2>5. ~enable => actor # target
    BY <2>1 DEF NotThemselves
  <2>6. /\ (~enable) \in BOOLEAN
        /\ (~enable) <=> (IF q.op = "staffStatus" THEN ~q.enable ELSE "SUPER_ADMIN" \notin q.new)
        /\ q.op = "staffStatus" \/ q.op = "staffRoles"
    BY <2>2
  <2> QED
    BY <2>1, <2>2, <2>3, <2>4, <2>5, <2>6, LoweringBegins
<1>5. ASSUME NEW w \in Workers, NEW actor \in Officers, NEW target \in Officers,
             StaffRolesRead(w, actor, target)
      PROVE  StaffInv'
  <2>1. PICK new \in RoleSets :
           /\ "SUPER_ADMIN" \in new \/ NotThemselves(actor, target)
           /\ Begin(w, [op |-> "staffRoles", o |-> target, new |-> new, missed |-> FALSE])
           /\ Feud(w, "SUPER_ADMIN" \notin new)
    BY <1>5 DEF StaffRolesRead
  <2> DEFINE q == [op |-> "staffRoles", o |-> target, new |-> new, missed |-> FALSE]
  <2>2. q \in StaffRequest /\ q.o = target /\ q.op = "staffRoles" /\ q.new = new
    BY DEF StaffRequest, RoleSets, Roles
  <2>3. req[w] = Idle /\ req' = [req EXCEPT ![w] = q]
    BY <2>1 DEF Begin
  <2> HIDE DEF q
  <2>4. /\ enabled' = enabled /\ roles' = roles /\ ousted' = ousted
        /\ actor \in enabled /\ Chief(actor)
    BY <1>5 DEF StaffRolesRead, Admitted, Chief
  <2>5. "SUPER_ADMIN" \notin new => actor # target
    BY <2>1 DEF NotThemselves
  <2> DEFINE lowers == "SUPER_ADMIN" \notin new
  <2>6. /\ lowers \in BOOLEAN
        /\ lowers <=> (IF q.op = "staffStatus" THEN ~q.enable ELSE "SUPER_ADMIN" \notin q.new)
        /\ q.op = "staffStatus" \/ q.op = "staffRoles"
    BY <2>2
  <2>7. Feud(w, lowers) /\ (lowers => actor # target) /\ (Chief(actor) \/ ~Chief(target))
    BY <2>1, <2>4, <2>5
  <2> HIDE DEF lowers
  <2> QED
    BY <2>2, <2>3, <2>4, <2>6, <2>7, LoweringBegins
<1>6. ASSUME NEW w \in Workers, StaffStatusCommit(w) PROVE StaffInv'
  <2>1. /\ req'[w] = Idle /\ \A v \in Workers \ {w} : req'[v] = req[v]
        /\ req' \in [Workers -> StaffRequest \cup {Idle}]
        /\ roles' = roles /\ feud' = feud /\ ousted' = ousted
        /\ req[w] \in StaffRequest /\ req[w].o \in Officers
    BY <1>1, <1>6 DEF StaffStatusCommit, Done, StaffTypeOK, StaffRequest, Idle
  <2>2. enabled' \in SUBSET Officers
    BY <1>1, <1>6, <2>1 DEF StaffStatusCommit, StaffTypeOK
  <2>3. \A o : \A v \in Workers : Harms(v, o)' => Harms(v, o)
    BY <2>1 DEF Harms, Idle
  <2>4. ASSUME NEW o \in Officers, Safe(o) PROVE o \in enabled'
    <3>1. ~Harms(w, o)
      BY <2>4 DEF Safe
    <3>2. req[w].enable \/ req[w].o # o
      BY <1>6, <3>1 DEF Harms, StaffStatusCommit
    <3> QED
      BY <1>6, <2>4, <3>2 DEF StaffStatusCommit, Safe
  <2>5. \A o \in Officers : Safe(o) => Safe(o)'
    BY <2>1, <2>3, <2>4 DEF Safe, Chief
  <2> QED
    BY <1>1, <2>1, <2>2, <2>5 DEF StaffInv, StaffTypeOK
<1>7. ASSUME NEW w \in Workers, DeleteRoles(w) PROVE StaffInv'
  <2>0. PICK kept \in {{}} \cup (IF req[w].missed THEN {roles[req[w].o]} ELSE {}) :
           Continue(w, [op |-> "staffInsert", o |-> req[w].o, new |-> req[w].new,
                        kept |-> kept])
    BY <1>7 DEF DeleteRoles
  <2> DEFINE q == [op |-> "staffInsert", o |-> req[w].o, new |-> req[w].new, kept |-> kept]
  <2>1. req[w] \in [op : {"staffRoles"}, o : Officers, new : SUBSET Roles, missed : BOOLEAN]
    BY <1>1, <1>7 DEF DeleteRoles, StaffTypeOK, StaffRequest, Idle
  <2>2. /\ q \in StaffRequest
        /\ q.op = "staffInsert" /\ q.o = req[w].o /\ q.new = req[w].new
    <3>1. kept \in SUBSET Roles
      BY <1>1, <2>0, <2>1 DEF StaffTypeOK
    <3> QED
      BY <2>1, <3>1 DEF StaffRequest
  <2>3. /\ req' = [req EXCEPT ![w] = q] /\ req[w].op = "staffRoles"
        /\ enabled' = enabled /\ roles' = roles /\ feud' = feud /\ ousted' = ousted
    BY <1>7, <2>0 DEF DeleteRoles, Continue, staffVars
  <2> HIDE DEF q
  <2>4. /\ req'[w] = q /\ \A v \in Workers \ {w} : req'[v] = req[v]
        /\ req' \in [Workers -> StaffRequest \cup {Idle}]
    BY <1>1, <2>2, <2>3 DEF StaffTypeOK
  <2>5. \A o : \A v \in Workers : Harms(v, o)' => Harms(v, o)
    BY <2>2, <2>3, <2>4 DEF Harms
  <2>6. \A o : Safe(o) => Safe(o)'
    BY <2>3, <2>5 DEF Safe, Chief
  <2> QED
    BY <1>1, <2>3, <2>4, <2>6 DEF StaffInv, StaffTypeOK
<1>8. ASSUME NEW w \in Workers, InsertRoles(w) PROVE StaffInv'
  <2>1. req[w] \in [op : {"staffInsert"}, o : Officers, new : SUBSET Roles, kept : SUBSET Roles]
    BY <1>1, <1>8 DEF InsertRoles, StaffTypeOK, StaffRequest, Idle
  <2>2. /\ enabled' = enabled /\ feud' = feud /\ ousted' = ousted
        /\ roles' = [roles EXCEPT ![req[w].o] = req[w].kept \cup req[w].new]
        /\ req[w].op = "staffInsert"
    BY <1>8 DEF InsertRoles
  <2>3. roles' \in [Officers -> SUBSET Roles]
    BY <1>1, <2>1, <2>2 DEF StaffTypeOK
  <2>4. /\ req'[w] = Idle
        /\ \A v \in Workers \ {w} : req'[v] \in {req[v], [req[v] EXCEPT !.missed = TRUE]}
        /\ \A v \in Workers : req'[v] # req[v] => v = w \/ req[v].op = "staffRoles"
        /\ \E f : req' = [v \in Workers |-> f[v]]
    <3>1. req' = [v \in Workers |->
                     IF v = w THEN Idle
                     ELSE IF req[v].op = "staffRoles" /\ req[v].o = req[w].o
                          THEN [req[v] EXCEPT !.missed = TRUE] ELSE req[v]]
      BY <1>8 DEF InsertRoles
    <3> QED
      BY <3>1
  <2>5. ASSUME NEW v \in Workers \ {w}
        PROVE  /\ req'[v] \in StaffRequest \cup {Idle}
               /\ \A o : Harms(v, o)' => Harms(v, o)
    <3>1. CASE req'[v] = req[v]
      BY <1>1, <3>1 DEF StaffTypeOK, Harms
    <3>2. CASE req'[v] # req[v]
      <4>1. req[v].op = "staffRoles" /\ req'[v] = [req[v] EXCEPT !.missed = TRUE]
        BY <2>4, <3>2
      <4>2. req[v] \in [op : {"staffRoles"}, o : Officers, new : SUBSET Roles, missed : BOOLEAN]
        BY <1>1, <4>1 DEF StaffTypeOK, StaffRequest, Idle
      <4> QED
        BY <4>1, <4>2 DEF StaffRequest, Harms
    <3> QED
      BY <3>1, <3>2
  <2>6. req' \in [Workers -> StaffRequest \cup {Idle}]
    BY <2>4, <2>5
  <2>7. \A o : \A v \in Workers : Harms(v, o)' => Harms(v, o)
    BY <2>4, <2>5 DEF Harms, Idle
  <2>8. ASSUME NEW o \in Officers, Safe(o) PROVE Chief(o)'
    <3>1. ~Harms(w, o) /\ Chief(o)
      BY <2>8 DEF Safe
    <3>2. req[w].o # o \/ "SUPER_ADMIN" \in req[w].new
      BY <2>2, <3>1 DEF Harms
    <3> QED
      BY <1>1, <2>1, <2>2, <3>1, <3>2 DEF Chief, StaffTypeOK
  <2>9. \A o \in Officers : Safe(o) => Safe(o)'
    BY <2>2, <2>7, <2>8 DEF Safe
  <2> QED
    BY <1>1, <2>2, <2>3, <2>6, <2>9 DEF StaffInv, StaffTypeOK
<1>9. ASSUME NEW w \in Workers, StaffProgress(w) \/ StaffAbort(w) PROVE StaffInv'
  BY <1>3, <1>6, <1>7, <1>8, <1>9 DEF StaffProgress, StaffAbort, RolesConflict
<1>10. ASSUME NEW w \in Workers, NEW o \in Officers,
              SuspendReported(w, o) \/ DeleteOwnAccount(w, o)
       PROVE  StaffInv'
  <2>1. /\ req' = req /\ feud' = feud
        /\ enabled' = enabled \ {o}
        /\ ousted' = (ousted \/ (o \in enabled /\ Chief(o)))
        /\ roles' \in {roles, [roles EXCEPT ![o] = {}]}
    BY <1>10 DEF SuspendReported, DeleteOwnAccount, AtOnce
  <2>2. StaffTypeOK'
    BY <1>1, <2>1 DEF StaffTypeOK
  <2>3. ASSUME ~ousted', NEW x \in Officers, Safe(x) PROVE Safe(x)'
    <3>1. x # o
      BY <2>1, <2>3 DEF Safe
    <3>2. roles'[x] = roles[x]
      BY <1>1, <2>1, <3>1 DEF StaffTypeOK
    <3> QED
      BY <2>1, <2>3, <3>1, <3>2 DEF Safe, Chief, Harms
  <2> QED
    BY <2>1, <2>2, <2>3 DEF StaffInv
<1> QED
  BY <1>2, <1>4, <1>5, <1>9, <1>10 DEF StaffNext, StaffCall

\* The back office is never left without a chief whose account is active
\* (admin.service.ts updateUserStatus, updateUserRoles), for any staff and any
\* chain of changes, unless two requests that lower a chief overlapped, or a
\* chief's account went through a report or by its owner's own wish.
THEOREM InCharge == StaffSpec => []SomebodyInCharge
<1>1. StaffInit /\ req = [w \in Workers |-> Idle] => StaffInv
  <2> SUFFICES ASSUME StaffInit, req = [w \in Workers |-> Idle] PROVE StaffInv
    OBVIOUS
  <2>1. StaffTypeOK
    BY DEF StaffInit, StaffTypeOK, Roles
  <2>2. PICK o \in Officers : o \in Chiefs
    BY ChiefAssumption
  <2>3. Safe(o)
    BY <2>2 DEF StaffInit, Safe, Chief, Harms, Idle
  <2> QED
    BY <2>1, <2>3 DEF StaffInv
<1>2. StaffInv => SomebodyInCharge
  BY DEF StaffInv, SomebodyInCharge, Safe
<1> QED
  BY <1>1, <1>2, StaffStepInv, PTL DEF StaffSpec

----------------------------------------------------------------------------
(* Tickets.  What the property says of the last change is kept for every   *)
(* event that no later change follows.                                     *)
Ticket == [status : SupportTicketStatus, resolved : BOOLEAN]

TicketEvent ==
    [type : {"CREATED", "ASSIGNED", "NOTE"}]
    \cup [type : {"STATUS_CHANGED"}, from : SupportTicketStatus, to : SupportTicketStatus]

TicketRequest ==
    [op : {"assignTicket", "ticketStatus"}, k : Tickets, before : SupportTicketStatus]

SupportTypeOK ==
    /\ tickets \in [Tickets -> Ticket \cup {NoTicket}]
    /\ history \in [Tickets -> Seq(TicketEvent)]
    /\ req \in [Workers -> TicketRequest \cup {Idle}]

Changed(k, i) == history[k][i].type = "STATUS_CHANGED"

IsLast(k, i) ==
    i \in DOMAIN history[k] /\ Changed(k, i)
    /\ \A j \in DOMAIN history[k] : j > i => ~Changed(k, j)

Follows(k, i) ==
    /\ tickets[k].resolved = (history[k][i].to \in ResolvedSupport)
    /\ \/ tickets[k].status = history[k][i].to
       \/ \E j \in DOMAIN history[k] : j > i /\ history[k][j].type = "ASSIGNED"

SupportInv ==
    /\ SupportTypeOK
    /\ \A w \in Workers : req[w] # Idle => tickets[req[w].k] # NoTicket
    /\ \A k \in Tickets :
          /\ tickets[k] = NoTicket => history[k] = <<>>
          /\ \A i \in Nat : IsLast(k, i) => Follows(k, i)

\* What an event appended to a history leaves of it.
LEMMA EventAppended ==
    ASSUME SupportTypeOK, NEW k \in Tickets, NEW event \in TicketEvent,
           Logged(k, event)
    PROVE  /\ history' \in [Tickets -> Seq(TicketEvent)]
           /\ \A m \in Tickets \ {k} : history'[m] = history[m]
           /\ DOMAIN history[k] = 1 .. Len(history[k])
           /\ DOMAIN history'[k] = 1 .. Len(history[k]) + 1
           /\ Len(history[k]) \in Nat
           /\ \A i \in DOMAIN history[k] : history'[k][i] = history[k][i]
           /\ history'[k][Len(history[k]) + 1] = event
<1>1. history[k] \in Seq(TicketEvent)
  BY DEF SupportTypeOK
<1>2. history'[k] = Append(history[k], event) /\ \A m \in Tickets \ {k} : history'[m] = history[m]
  BY DEF SupportTypeOK, Logged
<1>3. history' \in [Tickets -> Seq(TicketEvent)]
  BY <1>1 DEF SupportTypeOK, Logged
<1> QED
  BY <1>1, <1>2, <1>3

\* An event on one ticket keeps what is known of all of them, if it does so
\* for that ticket.
LEMMA TicketKept ==
    ASSUME SupportInv, NEW k \in Tickets, NEW event \in TicketEvent,
           NEW row \in Ticket,
           Logged(k, event),
           tickets' = [tickets EXCEPT ![k] = row],
           req' \in [Workers -> TicketRequest \cup {Idle}],
           \A w \in Workers : req'[w] = req[w] \/ req'[w] = Idle,
           event.type = "STATUS_CHANGED" =>
              /\ row.status = event.to
              /\ row.resolved = (event.to \in ResolvedSupport),
           event.type # "STATUS_CHANGED" =>
              \A i \in Nat : IsLast(k, i) =>
                  /\ row.resolved = tickets[k].resolved
                  /\ row.status = tickets[k].status \/ event.type = "ASSIGNED"
    PROVE  SupportInv'
<1>1. SupportTypeOK
  BY DEF SupportInv
<1> DEFINE n == Len(history[k])
<1>2. /\ history' \in [Tickets -> Seq(TicketEvent)]
      /\ \A m \in Tickets \ {k} : history'[m] = history[m]
      /\ DOMAIN history[k] = 1 .. n /\ DOMAIN history'[k] = 1 .. n + 1 /\ n \in Nat
      /\ \A i \in DOMAIN history[k] : history'[k][i] = history[k][i]
      /\ history'[k][n + 1] = event
  BY <1>1, EventAppended
<1> HIDE DEF n
<1>3. /\ tickets' \in [Tickets -> Ticket \cup {NoTicket}]
      /\ tickets'[k] = row /\ \A m \in Tickets \ {k} : tickets'[m] = tickets[m]
  BY <1>1 DEF SupportTypeOK
<1>4. SupportTypeOK'
  BY <1>2, <1>3 DEF SupportTypeOK
<1>5. row # NoTicket
  BY DEF Ticket, NoTicket, SupportTicketStatus, NoRow
<1>6. \A w \in Workers : req'[w] # Idle => tickets'[req'[w].k] # NoTicket
  <2> SUFFICES ASSUME NEW w \in Workers, req'[w] # Idle
               PROVE  tickets'[req'[w].k] # NoTicket
    OBVIOUS
  <2>1. req'[w] = req[w] /\ tickets[req[w].k] # NoTicket
    BY DEF SupportInv
  <2>2. req[w].k \in Tickets
    BY <1>1, <2>1 DEF SupportTypeOK, TicketRequest
  <2> QED
    BY <1>3, <1>5, <2>1, <2>2
<1>7. ASSUME NEW m \in Tickets
      PROVE  /\ tickets'[m] = NoTicket => history'[m] = <<>>
             /\ \A i \in Nat : IsLast(m, i)' => Follows(m, i)'
  <2>1. CASE m # k
    <3>1. tickets'[m] = tickets[m] /\ history'[m] = history[m]
      BY <1>2, <1>3, <2>1
    <3> QED
      BY <3>1 DEF SupportInv, IsLast, Follows, Changed
  <2>2. CASE m = k
    <3>1. CASE event.type = "STATUS_CHANGED"
      <4> SUFFICES ASSUME NEW i \in Nat, IsLast(k, i)' PROVE Follows(k, i)'
        BY <1>3, <1>5, <2>2
      <4>1. i \in 1 .. n + 1 /\ ~(n + 1 > i)
        BY <1>2, <3>1 DEF IsLast, Changed
      <4>2. i = n + 1
        BY <1>2, <4>1
      <4> QED
        BY <1>2, <1>3, <3>1, <4>2 DEF Follows
    <3>2. CASE event.type # "STATUS_CHANGED"
      <4> SUFFICES ASSUME NEW i \in Nat, IsLast(k, i)' PROVE Follows(k, i)'
        BY <1>3, <1>5, <2>2
      <4>1. i \in 1 .. n
        BY <1>2, <3>2 DEF IsLast, Changed
      <4>2. IsLast(k, i)
        <5>1. i \in DOMAIN history[k] /\ Changed(k, i)
          BY <1>2, <4>1 DEF IsLast, Changed
        <5>2. \A j \in DOMAIN history[k] : j \in DOMAIN history'[k] /\ history'[k][j] = history[k][j]
          BY <1>2
        <5>3. \A j \in DOMAIN history[k] : j > i => ~Changed(k, j)
          BY <5>2 DEF IsLast, Changed
        <5> QED
          BY <5>1, <5>3 DEF IsLast
      <4>3. Follows(k, i)
        BY <4>2 DEF SupportInv
      <4>4. /\ row.resolved = tickets[k].resolved
            /\ row.status = tickets[k].status \/ event.type = "ASSIGNED"
        BY <3>2, <4>2
      <4>5. history'[k][i] = history[k][i]
        BY <1>2, <4>1
      <4>6. \A j \in DOMAIN history[k] : j \in DOMAIN history'[k] /\ history'[k][j] = history[k][j]
        BY <1>2
      <4>7. event.type = "ASSIGNED" =>
               \E j \in DOMAIN history'[k] : j > i /\ history'[k][j].type = "ASSIGNED"
        BY <1>2, <4>1
      <4> QED
        BY <1>3, <4>3, <4>4, <4>5, <4>6, <4>7 DEF Follows
    <3> QED
      BY <3>1, <3>2
  <2> QED
    BY <2>1, <2>2
<1> QED
  BY <1>4, <1>6, <1>7 DEF SupportInv

\* Every step of the help desk keeps the invariant.
LEMMA SupportStepInv == SupportInv /\ [SupportNext]_<<supportVars, req>> => SupportInv'
<1> SUFFICES ASSUME SupportInv, [SupportNext]_<<supportVars, req>> PROVE SupportInv'
  OBVIOUS
<1>1. SupportTypeOK
  BY DEF SupportInv
<1>2. CASE UNCHANGED <<supportVars, req>>
  BY <1>2 DEF supportVars, SupportInv, SupportTypeOK, IsLast, Follows, Changed
<1>3. ASSUME NEW w \in Workers, NEW k \in Tickets, CreateTicket(w, k) PROVE SupportInv'
  <2> DEFINE row == [status |-> "OPEN", resolved |-> FALSE]
             event == [type |-> "CREATED"]
  <2>1. row \in Ticket /\ event \in TicketEvent /\ event.type = "CREATED"
    BY DEF Ticket, TicketEvent, SupportTicketStatus
  <2>2. /\ tickets' = [tickets EXCEPT ![k] = row] /\ req' = req
        /\ history' = [history EXCEPT ![k] = <<event>>]
        /\ tickets[k] = NoTicket
    BY <1>3 DEF CreateTicket, AtOnce
  <2> HIDE DEF row, event
  <2>3. history[k] = <<>>
    BY <2>2 DEF SupportInv
  <2>4. Logged(k, event)
    BY <2>2, <2>3 DEF Logged
  <2>5. \A i \in Nat : ~IsLast(k, i)
    BY <2>3 DEF IsLast
  <2>6. /\ req' \in [Workers -> TicketRequest \cup {Idle}]
        /\ \A v \in Workers : req'[v] = req[v] \/ req'[v] = Idle
    BY <1>1, <2>2 DEF SupportTypeOK
  <2> QED
    BY <2>1, <2>2, <2>4, <2>5, <2>6, TicketKept
<1>4. ASSUME NEW w \in Workers, NEW k \in Tickets, TicketRead(w, k) PROVE SupportInv'
  <2>1. PICK op \in {"assignTicket", "ticketStatus"} :
           Begin(w, [op |-> op, k |-> k, before |-> tickets[k].status])
    BY <1>4 DEF TicketRead
  <2> DEFINE q == [op |-> op, k |-> k, before |-> tickets[k].status]
  <2>2. tickets[k] \in Ticket
    BY <1>1, <1>4 DEF TicketRead, SupportTypeOK
  <2>3. q \in TicketRequest /\ q.k = k
    BY <2>2 DEF TicketRequest, Ticket
  <2>4. req' = [req EXCEPT ![w] = q] /\ tickets' = tickets /\ history' = history
    BY <1>4, <2>1 DEF Begin, TicketRead, supportVars
  <2> HIDE DEF q
  <2>5. /\ req'[w] = q /\ \A v \in Workers \ {w} : req'[v] = req[v]
        /\ req' \in [Workers -> TicketRequest \cup {Idle}]
    BY <1>1, <2>3, <2>4 DEF SupportTypeOK
  <2>6. \A v \in Workers : req'[v] # Idle => tickets[req'[v].k] # NoTicket
    BY <1>4, <2>3, <2>5 DEF SupportInv, TicketRead
  <2> QED
    BY <1>1, <2>4, <2>5, <2>6 DEF SupportInv, SupportTypeOK, IsLast, Follows, Changed
<1>5. ASSUME NEW w \in Workers, NEW k \in Tickets, AddNote(w, k) PROVE SupportInv'
  <2> DEFINE row == tickets[k]
             event == [type |-> "NOTE"]
  <2>1. row \in Ticket
    BY <1>1, <1>5 DEF AddNote, SupportTypeOK
  <2>2. event \in TicketEvent /\ event.type = "NOTE"
    BY DEF TicketEvent
  <2>3. /\ tickets' = [tickets EXCEPT ![k] = row] /\ req' = req
    BY <1>1, <1>5 DEF AddNote, AtOnce, SupportTypeOK
  <2>4. Logged(k, event)
    BY <1>5 DEF AddNote
  <2>5. /\ req' \in [Workers -> TicketRequest \cup {Idle}]
        /\ \A v \in Workers : req'[v] = req[v] \/ req'[v] = Idle
    BY <1>1, <2>3 DEF SupportTypeOK
  <2>6. row.resolved = tickets[k].resolved /\ row.status = tickets[k].status
    OBVIOUS
  <2> HIDE DEF row, event
  <2> QED
    BY <2>1, <2>2, <2>3, <2>4, <2>5, <2>6, TicketKept
<1>6. ASSUME NEW w \in Workers, req[w] # Idle
      PROVE  /\ req[w] \in TicketRequest /\ req[w].k \in Tickets
             /\ req[w].before \in SupportTicketStatus
             /\ tickets[req[w].k] \in Ticket
  <2>1. req[w] \in TicketRequest
    BY <1>1, <1>6 DEF SupportTypeOK
  <2>2. req[w].k \in Tickets /\ req[w].before \in SupportTicketStatus
    BY <2>1 DEF TicketRequest
  <2>3. tickets[req[w].k] # NoTicket
    BY <1>6 DEF SupportInv
  <2> QED
    BY <1>1, <2>1, <2>2, <2>3 DEF SupportTypeOK
<1>7. ASSUME NEW w \in Workers, AssignTicket(w) PROVE SupportInv'
  <2>1. req[w] # Idle
    BY <1>7 DEF AssignTicket, Idle
  <2>k. PICK k : k = req[w].k
    OBVIOUS
  <2> DEFINE row == [tickets[k] EXCEPT !.status =
                        IF req[w].before = "OPEN" THEN "IN_PROGRESS" ELSE req[w].before]
             event == [type |-> "ASSIGNED"]
  <2>2. k \in Tickets /\ tickets[k] \in Ticket /\ req[w].before \in SupportTicketStatus
    BY <1>6, <2>1, <2>k
  <2>3. row \in Ticket /\ row.resolved = tickets[k].resolved
    BY <2>2 DEF Ticket, SupportTicketStatus
  <2>4. event \in TicketEvent /\ event.type = "ASSIGNED"
    BY DEF TicketEvent
  <2>5. tickets' = [tickets EXCEPT ![k] = row] /\ Logged(k, event)
        /\ req' = [req EXCEPT ![w] = Idle]
    BY <1>7, <2>k DEF AssignTicket, Done
  <2> HIDE DEF row, event
  <2>6. /\ req' \in [Workers -> TicketRequest \cup {Idle}]
        /\ \A v \in Workers : req'[v] = req[v] \/ req'[v] = Idle
    BY <1>1, <2>5 DEF SupportTypeOK
  <2> QED
    BY <2>2, <2>3, <2>4, <2>5, <2>6, TicketKept
<1>8. ASSUME NEW w \in Workers, UpdateTicketStatus(w) PROVE SupportInv'
  <2>1. req[w] # Idle
    BY <1>8 DEF UpdateTicketStatus, Idle
  <2>k. PICK k : k = req[w].k
    OBVIOUS
  <2>2. PICK to \in SupportTicketStatus :
           /\ tickets' = [tickets EXCEPT ![k] = [status |-> to, resolved |-> to \in ResolvedSupport]]
           /\ Logged(k, [type |-> "STATUS_CHANGED", from |-> req[w].before, to |-> to])
    BY <1>8, <2>k DEF UpdateTicketStatus
  <2> DEFINE row == [status |-> to, resolved |-> to \in ResolvedSupport]
             event == [type |-> "STATUS_CHANGED", from |-> req[w].before, to |-> to]
  <2>3. k \in Tickets /\ req[w].before \in SupportTicketStatus
    BY <1>6, <2>1, <2>k
  <2>4. row \in Ticket /\ row.status = to /\ row.resolved = (to \in ResolvedSupport)
    BY DEF Ticket
  <2>5. event \in TicketEvent /\ event.type = "STATUS_CHANGED" /\ event.to = to
    BY <2>3 DEF TicketEvent
  <2>6. tickets' = [tickets EXCEPT ![k] = row] /\ Logged(k, event)
    BY <2>2
  <2> HIDE DEF row, event
  <2>7. /\ req' \in [Workers -> TicketRequest \cup {Idle}]
        /\ \A v \in Workers : req'[v] = req[v] \/ req'[v] = Idle
    BY <1>1, <1>8 DEF UpdateTicketStatus, Done, SupportTypeOK
  <2> QED
    BY <2>3, <2>4, <2>5, <2>6, <2>7, TicketKept
<1> QED
  BY <1>2, <1>3, <1>4, <1>5, <1>7, <1>8 DEF SupportNext, SupportCall, SupportProgress

\* A ticket has the status its last logged change says, unless an assignment
\* came after it, and counts as resolved just when that change resolved it
\* (support.service.ts assign, updateStatus): for any managers at once.
THEOREM TicketHistory == SupportSpec => []TicketFollowsHistory
<1>1. SupportInit /\ req = [w \in Workers |-> Idle] => SupportInv
  BY DEF SupportInit, SupportInv, SupportTypeOK, IsLast
<1>2. SupportInv => TicketFollowsHistory
  <2> SUFFICES ASSUME SupportInv, NEW k \in Tickets, LastChange(k) # 0
               PROVE  LET i == LastChange(k) IN
                         /\ tickets[k].resolved = (history[k][i].to \in ResolvedSupport)
                         /\ \/ tickets[k].status = history[k][i].to
                            \/ \E j \in i + 1 .. Len(history[k]) : history[k][j].type = "ASSIGNED"
    BY DEF TicketFollowsHistory
  <2> DEFINE changes == {i \in DOMAIN history[k] : history[k][i].type = "STATUS_CHANGED"}
  <2>1. changes # {} /\ LastChange(k) = Max(changes)
    BY DEF LastChange
  <2>2. history[k] \in Seq(TicketEvent)
    BY DEF SupportInv, SupportTypeOK
  <2>3. /\ Len(history[k]) \in Nat
        /\ DOMAIN history[k] = 1 .. Len(history[k])
    BY <2>2
  <2>4. changes \in SUBSET Nat /\ IsFiniteSet(changes)
    <3>1. IsFiniteSet(1 .. Len(history[k]))
      <4>1. 1 \in Int /\ Len(history[k]) \in Int
        BY <2>3
      <4> QED
        BY <4>1, FS_Interval
    <3>2. changes \in SUBSET (1 .. Len(history[k]))
      BY <2>3
    <3>3. IsFiniteSet(changes)
      BY <3>1, <3>2, FS_Subset
    <3> QED
      BY <3>2, <3>3
  <2>5. PICK i \in changes : i = LastChange(k) /\ \A j \in changes : j <= i
    <3> HIDE DEF changes
    <3> QED
      BY <2>1, <2>4, GreatestIsMax
  <2>6. i \in Nat /\ IsLast(k, i)
    BY <2>3, <2>5 DEF IsLast, Changed
  <2>7. Follows(k, i)
    BY <2>6 DEF SupportInv
  <2>8. \A j \in DOMAIN history[k] : j > i => j \in i + 1 .. Len(history[k])
    BY <2>3, <2>6
  <2> QED
    BY <2>5, <2>7, <2>8 DEF Follows
<1> QED
  BY <1>1, <1>2, SupportStepInv, PTL DEF SupportSpec

----------------------------------------------------------------------------
(* Reviews and their score.  Unless a recomputation was overtaken or cut   *)
(* off, whatever score is about to be written is that of the reviews, and  *)
(* some handler is still to write it when the row differs.                 *)
Recomputing(w) ==
    req[w].op \in {"rescore", "writeScore", "sanctionRescore", "sanctionScore"}

Computed(q) == q.op \in {"writeScore", "sanctionScore"} =>
    q.score = TrustScore(q.record)

NoReviews == \A t \in Trips : reviews[t] = <<>>

ScoreInv ==
    /\ behind \in BOOLEAN
    /\ req = [w \in Workers |-> req[w]]
    /\ ~behind =>
          /\ \A w \in Workers : Computed(req[w])
          /\ \/ score = TrustScore(counted) \/ counted = 0 \/ NoReviews
             \/ \E w \in Workers : Recomputing(w)

\* What a record is worth depends on the reviews alone.
LEMMA SameScore ==
    ASSUME reviews' = reviews
    PROVE  \A n : TrustScore(n)' = TrustScore(n)
  BY DEF TrustScore, StandingBonus, RatingBonus, Published

\* The rest of the record may change under a score that is written.
LEMMA RecordKept ==
    ASSUME ScoreInv, reviews' = reviews, counted' = counted, score' = score,
           behind' = behind, req' = req
    PROVE  ScoreInv'
<1>1. \A n : TrustScore(n)' = TrustScore(n)
  BY SameScore
<1> QED
  BY <1>1 DEF ScoreInv, Computed, Recomputing, NoReviews

\* A penalty is remembered until the next recomputation.
LEMMA PenaltyKept == ASSUME ScoreInv, OwnerPenalised PROVE ScoreInv'
<1>1. \A n : TrustScore(n)' = TrustScore(n)
  BY SameScore DEF OwnerPenalised
<1> QED
  BY <1>1 DEF ScoreInv, Computed, OwnerPenalised

\* What the others carry.
LEMMA WorkerMoves ==
    ASSUME req = [w \in Workers |-> req[w]], NEW w \in Workers, NEW q,
           req' = [req EXCEPT ![w] = q]
    PROVE  /\ req' = [v \in Workers |-> req'[v]]
           /\ req'[w] = q
           /\ \A v \in Workers \ {w} : req'[v] = req[v]
  OBVIOUS

\* A handler that has no score to write, and wrote no review.
LEMMA ScoreApart ==
    ASSUME ScoreInv, NEW w \in Workers, NEW q,
           req' = [req EXCEPT ![w] = q],
           reviews' = reviews, counted' = counted, score' = score, behind' = behind,
           ~Recomputing(w) \/ q.op \in {"rescore", "sanctionRescore"},
           q.op \notin {"writeScore", "sanctionScore"}
    PROVE  ScoreInv'
<1>1. \A n : TrustScore(n)' = TrustScore(n)
  BY SameScore
<1>2. /\ req' = [v \in Workers |-> req'[v]]
      /\ req'[w] = q /\ \A v \in Workers \ {w} : req'[v] = req[v]
  BY WorkerMoves DEF ScoreInv
<1>3. NoReviews' <=> NoReviews
  BY DEF NoReviews
<1>4. \A v \in Workers : Recomputing(v) => Recomputing(v)'
  BY <1>2 DEF Recomputing
<1>5. ASSUME ~behind PROVE \A v \in Workers : Computed(req[v])'
  BY <1>1, <1>2, <1>5 DEF ScoreInv, Computed
<1> QED
  BY <1>1, <1>2, <1>3, <1>4, <1>5 DEF ScoreInv

\* A handler that writes a review goes on to recompute the score.
LEMMA ReviewWritten ==
    ASSUME ScoreInv, NEW w \in Workers, NEW q,
           req' = [req EXCEPT ![w] = q],
           q.op \in {"rescore", "sanctionRescore"},
           behind' = (behind \/ Crosses(w))
    PROVE  ScoreInv'
<1>1. /\ req' = [v \in Workers |-> req'[v]]
      /\ req'[w] = q /\ \A v \in Workers \ {w} : req'[v] = req[v]
  BY WorkerMoves DEF ScoreInv
<1>2. behind' \in BOOLEAN
  BY DEF ScoreInv
<1>3. Recomputing(w)'
  BY <1>1 DEF Recomputing
<1>4. ASSUME ~behind' PROVE \A v \in Workers : Computed(req[v])'
  BY <1>1, <1>4 DEF Crosses, Computed
<1> QED
  BY <1>1, <1>2, <1>3, <1>4 DEF ScoreInv

\* The score that is read is that of the reviews.
LEMMA ScoreRead ==
    ASSUME ScoreInv, NEW w \in Workers, NEW q,
           req' = [req EXCEPT ![w] = q],
           reviews' = reviews, counted' = counted, score' = score, behind' = behind,
           q.op \in {"writeScore", "sanctionScore"}, q.score = TrustScore(q.record)
    PROVE  ScoreInv'
<1>1. \A n : TrustScore(n)' = TrustScore(n)
  BY SameScore
<1>2. /\ req' = [v \in Workers |-> req'[v]]
      /\ req'[w] = q /\ \A v \in Workers \ {w} : req'[v] = req[v]
  BY WorkerMoves DEF ScoreInv
<1>3. Recomputing(w)'
  BY <1>2 DEF Recomputing
<1>4. ASSUME ~behind PROVE \A v \in Workers : Computed(req[v])'
  BY <1>1, <1>2, <1>4 DEF ScoreInv, Computed
<1> QED
  BY <1>2, <1>3, <1>4 DEF ScoreInv

\* The score that is written is, if nobody was overtaken, that of the reviews.
LEMMA ScoreWritten ==
    ASSUME ScoreInv, NEW w \in Workers, NEW q,
           req' = [req EXCEPT ![w] = q],
           reviews' = reviews, behind' = behind,
           req[w].op \in {"writeScore", "sanctionScore"}, score' = req[w].score,
           counted' = req[w].record,
           q.op \notin {"writeScore", "sanctionScore"}
    PROVE  ScoreInv'
<1>1. \A n : TrustScore(n)' = TrustScore(n)
  BY SameScore
<1>2. /\ req' = [v \in Workers |-> req'[v]]
      /\ req'[w] = q /\ \A v \in Workers \ {w} : req'[v] = req[v]
  BY WorkerMoves DEF ScoreInv
<1>3. ~behind => score' = TrustScore(counted)'
  BY <1>1 DEF ScoreInv, Computed
<1>4. ASSUME ~behind PROVE \A v \in Workers : Computed(req[v])'
  BY <1>1, <1>2, <1>4 DEF ScoreInv, Computed
<1> QED
  BY <1>1, <1>2, <1>3, <1>4 DEF ScoreInv

\* A handler that stops before its score is written is remembered.
LEMMA ScoreCutOff ==
    ASSUME ScoreInv, NEW w \in Workers, ReputationAbort(w)
    PROVE  ScoreInv'
<1>1. req' = [req EXCEPT ![w] = Idle] /\ reviews' = reviews /\ counted' = counted
      /\ score' = score
  BY DEF ReputationAbort, Done
<1>2. Idle.op \notin {"writeScore", "sanctionScore"}
  BY DEF Idle
<1>3. CASE Recomputing(w)
  <2>1. behind' = TRUE
    BY <1>3 DEF Recomputing, ReputationAbort, ScoreInv
  <2>2. req' = [v \in Workers |-> req'[v]]
    BY <1>1, WorkerMoves DEF ScoreInv
  <2> QED
    BY <2>1, <2>2 DEF ScoreInv
<1>4. CASE ~Recomputing(w)
  <2>1. behind' = behind
    BY <1>4 DEF Recomputing, ReputationAbort, ScoreInv
  <2> QED
    BY <1>1, <1>2, <1>4, <2>1, ScoreApart
<1> QED
  BY <1>3, <1>4

\* Every step of the reviews keeps the invariant.
LEMMA ReputationStepInv ==
    ScoreInv /\ [ReputationNext]_<<reputationVars, req>> => ScoreInv'
<1> SUFFICES ASSUME ScoreInv, [ReputationNext]_<<reputationVars, req>> PROVE ScoreInv'
  OBVIOUS
<1>1. CASE UNCHANGED <<reputationVars, req>>
  <2>1. /\ reviews' = reviews /\ counted' = counted /\ score' = score
        /\ behind' = behind /\ req' = req
    BY <1>1 DEF reputationVars
  <2> QED
    BY <2>1, RecordKept
<1>2. ASSUME NEW w \in Workers, NEW t \in Trips,
             CreateReviewRead(w, t) \/ UpdateReviewRead(w, t) \/ ModerateReviewRead(w, t)
      PROVE  ScoreInv'
  <2>1. PICK q : /\ req' = [req EXCEPT ![w] = q] /\ req[w] = Idle
                 /\ q.op \in {"review", "rewrite", "moderateReview"}
    <3>1. ASSUME NEW q, Begin(w, q), q.op \in {"review", "rewrite", "moderateReview"}
          PROVE  \E p : /\ req' = [req EXCEPT ![w] = p] /\ req[w] = Idle
                        /\ p.op \in {"review", "rewrite", "moderateReview"}
      BY <3>1 DEF Begin
    <3>2. CASE CreateReviewRead(w, t)
      BY <3>1, <3>2 DEF CreateReviewRead
    <3>3. CASE UpdateReviewRead(w, t)
      BY <3>1, <3>3 DEF UpdateReviewRead
    <3>4. CASE ModerateReviewRead(w, t)
      BY <3>1, <3>4 DEF ModerateReviewRead
    <3> QED
      BY <1>2, <3>2, <3>3, <3>4
  <2>2. /\ reviews' = reviews /\ counted' = counted /\ score' = score /\ behind' = behind
    BY <1>2 DEF CreateReviewRead, UpdateReviewRead, ModerateReviewRead, reputationVars
  <2>3. ~Recomputing(w)
    BY <2>1 DEF Recomputing, Idle
  <2> QED
    BY <2>1, <2>2, <2>3, ScoreApart
<1>3. ASSUME NEW w \in Workers, CreateReviewRefused(w) PROVE ScoreInv'
  <2>1. /\ reviews' = reviews /\ counted' = counted /\ score' = score /\ behind' = behind
        /\ req' = [req EXCEPT ![w] = Idle]
    BY <1>3 DEF CreateReviewRefused, Done, reputationVars
  <2>2. ~Recomputing(w) /\ Idle.op \notin {"writeScore", "sanctionScore"}
    BY <1>3 DEF CreateReviewRefused, Recomputing, Idle
  <2> QED
    BY <2>1, <2>2, ScoreApart
<1>4. ASSUME NEW w \in Workers,
             CreateReviewCommit(w) \/ UpdateReviewCommit(w) \/ ModerateReviewCommit(w)
      PROVE  ScoreInv'
  <2> DEFINE q == [op |-> "rescore"]
  <2>1. req' = [req EXCEPT ![w] = q] /\ behind' = (behind \/ Crosses(w))
    BY <1>4 DEF CreateReviewCommit, UpdateReviewCommit, ModerateReviewCommit, Continue
  <2>2. q.op \in {"rescore", "sanctionRescore"}
    OBVIOUS
  <2> HIDE DEF q
  <2> QED
    BY <2>1, <2>2, ReviewWritten
<1>5. ASSUME NEW w \in Workers, RescoreRead(w) PROVE ScoreInv'
  <2> DEFINE q == [op |-> "writeScore", score |-> TrustScore(standing),
                   record |-> standing]
  <2>1. /\ req' = [req EXCEPT ![w] = q]
        /\ q.op \in {"writeScore", "sanctionScore"} /\ q.score = TrustScore(q.record)
    BY <1>5 DEF RescoreRead, Continue
  <2> HIDE DEF q
  <2>2. /\ reviews' = reviews /\ counted' = counted /\ score' = score /\ behind' = behind
    BY <1>5 DEF RescoreRead, reputationVars
  <2> QED
    BY <2>1, <2>2, ScoreRead
<1>6. ASSUME NEW w \in Workers, RescoreWrite(w) PROVE ScoreInv'
  <2>1. /\ reviews' = reviews /\ behind' = behind
        /\ req' = [req EXCEPT ![w] = Idle]
        /\ score' = req[w].score /\ counted' = req[w].record
        /\ req[w].op \in {"writeScore", "sanctionScore"}
    BY <1>6 DEF RescoreWrite, Done
  <2>2. Idle.op \notin {"writeScore", "sanctionScore"}
    BY DEF Idle
  <2> QED
    BY <2>1, <2>2, ScoreWritten
<1>7. ASSUME NEW t \in Trips, EditWindowCloses(t) PROVE ScoreInv'
  <2>1. /\ reviews' = reviews /\ counted' = counted /\ score' = score
        /\ behind' = behind /\ req' = req
    BY <1>7 DEF EditWindowCloses
  <2> QED
    BY <2>1, RecordKept
<1>8. ASSUME RecordChanges PROVE ScoreInv'
  BY <1>8, RecordKept DEF RecordChanges
<1>9. ASSUME NEW w \in Workers, RecordRescored(w) PROVE ScoreInv'
  <2> DEFINE q == [op |-> "rescore"]
  <2>1. req' = [req EXCEPT ![w] = q] /\ req[w] = Idle
    BY <1>9 DEF RecordRescored, Begin
  <2>2. /\ q.op \in {"rescore", "sanctionRescore"}
        /\ q.op \notin {"writeScore", "sanctionScore"}
    OBVIOUS
  <2> HIDE DEF q
  <2>3. /\ reviews' = reviews /\ counted' = counted /\ score' = score /\ behind' = behind
    BY <1>9 DEF RecordRescored
  <2> QED
    BY <2>1, <2>2, <2>3, ScoreApart
<1> QED
  BY <1>1, <1>2, <1>3, <1>4, <1>5, <1>6, <1>7, <1>8, <1>9, ScoreCutOff, PenaltyKept
     DEF ReputationNext

\* When no handler is at work the stored score is that of the reviews as they
\* are (trust-score.service.ts recalculateUserTrustScore, called by every write
\* of reviews.service.ts) and of the rest of the record as the recomputation
\* found it, unless one was cut off or overtaken; since then the record may
\* have changed, or a penalty been taken off.
THEOREM ScoreUpToDate == ReputationSpec => []ScoreFollowsReviews
<1>1. ReputationInit /\ req = [w \in Workers |-> Idle] => ScoreInv
  <2> SUFFICES ASSUME ReputationInit, req = [w \in Workers |-> Idle] PROVE ScoreInv
    OBVIOUS
  <2>1. NoReviews /\ behind = FALSE
    BY DEF ReputationInit, NoReviews
  <2>2. \A w \in Workers : req[w].op = "idle"
    BY DEF Idle
  <2> QED
    BY <2>1, <2>2 DEF ScoreInv, Computed
<1>2. ScoreInv => ScoreFollowsReviews
  BY DEF ScoreInv, ScoreFollowsReviews, NoReviews, Recomputing, Idle
<1> QED
  BY <1>1, <1>2, ReputationStepInv, PTL DEF ReputationSpec

----------------------------------------------------------------------------
(* Reports.  A verdict in flight names no action but those carried out for *)
(* its report, and so does a written one.                                  *)
Target ==
    [kind : {"USER", "CHAT_MESSAGE"}, user : Users]
    \cup [kind : {"ASSET"}, id : Assets, user : Users]
    \cup [kind : {"REVIEW"}, id : Trips, user : Users]

Report ==
    [target : Target, status : ReportStatus, resolved : BOOLEAN,
     summary : SUBSET ReportModerationAction]

OnReport ==
    {"assignReport", "verdict", "sanction", "sanctionWrite", "sanctionRescore",
     "sanctionScore"}

Reporting(q) ==
    q.op \in OnReport =>
        /\ q.p \in Reports
        /\ reports[q.p] # NoReport
        /\ q.op = "assignReport" => q.before \in ReportStatus
        /\ q.op \notin {"assignReport", "verdict"} => q.action \in ReportModerationAction
        /\ q.op = "verdict" =>
              /\ q.to \in ReportStatus
              /\ q.summary \in SUBSET ReportModerationAction
              /\ \A action \in q.summary : <<q.p, action>> \in sanctioned

ReportInv ==
    /\ reports \in [Reports -> Report \cup {NoReport}]
    /\ req = [w \in Workers |-> req[w]]
    /\ \A w \in Workers : Reporting(req[w])
    /\ VerdictCarriedOut

\* A report that was made is no longer missing.
LEMMA ReportMade == \A row \in Report : row # NoReport
<1> SUFFICES ASSUME NEW row \in Report PROVE row # NoReport
  OBVIOUS
<1>1. row.status \in ReportStatus /\ NoReport.status = NoRow
  BY DEF Report, NoReport
<1> QED
  BY <1>1 DEF ReportStatus, NoRow

\* The step of a handler that writes no report.
LEMMA ReportsAlone ==
    ASSUME ReportInv, NEW w \in Workers, NEW q,
           req' = [req EXCEPT ![w] = q],
           reports' = reports, sanctioned \subseteq sanctioned',
           Reporting(q)'
    PROVE  ReportInv'
<1>1. /\ req' = [v \in Workers |-> req'[v]]
      /\ req'[w] = q /\ \A v \in Workers \ {w} : req'[v] = req[v]
  BY WorkerMoves DEF ReportInv
<1>2. \A v \in Workers : Reporting(req[v])'
  BY <1>1 DEF ReportInv, Reporting
<1>3. VerdictCarriedOut'
  BY DEF ReportInv, VerdictCarriedOut
<1> QED
  BY <1>1, <1>2, <1>3 DEF ReportInv

\* The step of a handler that writes one report.
LEMMA ReportWritten ==
    ASSUME ReportInv, NEW w \in Workers, NEW p \in Reports, NEW row \in Report,
           req'[w] = Idle, \A v \in Workers \ {w} : req'[v] = req[v],
           req' = [v \in Workers |-> req'[v]],
           reports' = [reports EXCEPT ![p] = row], sanctioned' = sanctioned,
           \A action \in row.summary : <<p, action>> \in sanctioned
    PROVE  ReportInv'
<1>1. /\ reports' \in [Reports -> Report \cup {NoReport}]
      /\ reports'[p] = row /\ \A m \in Reports \ {p} : reports'[m] = reports[m]
  BY DEF ReportInv
<1>2. ASSUME NEW v \in Workers PROVE Reporting(req[v])'
  <2>1. CASE v = w
    BY <2>1 DEF Reporting, OnReport, Idle
  <2>2. CASE v # w
    <3>1. req'[v] = req[v] /\ Reporting(req[v])
      BY <2>2 DEF ReportInv
    <3>2. req[v].op \in OnReport => reports'[req[v].p] # NoReport
      BY <1>1, <3>1, ReportMade DEF Reporting
    <3> QED
      BY <3>1, <3>2 DEF Reporting
  <2> QED
    BY <2>1, <2>2
<1>3. VerdictCarriedOut'
  BY <1>1 DEF ReportInv, VerdictCarriedOut
<1> QED
  BY <1>1, <1>2, <1>3 DEF ReportInv

\* The actions of a sanction, as one.
Sanction(w) ==
    \/ WarnReportedUser(w) \/ SuspendReportedUser(w) \/ HideReportedAsset(w)
    \/ HideReportedReview(w) \/ HideReviewScored(w) \/ HideReportedChatMessage(w)

\* A sanction ends in a verdict that names it, or goes on to the score.
LEMMA SanctionEnds ==
    ASSUME NEW w \in Workers, Sanction(w)
    PROVE  /\ req[w].op \in {"sanctionWrite", "sanctionScore"}
           /\ reports' = reports
           /\ \/ CarriedOut(w)
              \/ /\ req[w].op = "sanctionWrite"
                 /\ Continue(w, [req[w] EXCEPT !.op = "sanctionRescore"])
                 /\ sanctioned' = sanctioned
                 /\ behind' = (behind \/ Crosses(w))
<1>1. CASE WarnReportedUser(w)
  BY <1>1 DEF WarnReportedUser, Sanctions
<1>2. CASE SuspendReportedUser(w)
  BY <1>2 DEF SuspendReportedUser, Sanctions
<1>3. CASE HideReportedAsset(w)
  BY <1>3 DEF HideReportedAsset, Sanctions
<1>4. CASE HideReportedReview(w)
  BY <1>4 DEF HideReportedReview, Sanctions
<1>5. CASE HideReviewScored(w)
  BY <1>5 DEF HideReviewScored
<1>6. CASE HideReportedChatMessage(w)
  BY <1>6 DEF HideReportedChatMessage, Sanctions
<1> QED
  BY <1>1, <1>2, <1>3, <1>4, <1>5, <1>6 DEF Sanction

\* Every step of the reports keeps the invariant.
LEMMA ReportStepInv ==
    ReportInv /\ [ReportNext]_<<othersReported, reportVars, req>> => ReportInv'
<1> SUFFICES ASSUME ReportInv, [ReportNext]_<<othersReported, reportVars, req>>
             PROVE  ReportInv'
  OBVIOUS
<1>1. CASE UNCHANGED <<othersReported, reportVars, req>>
  BY <1>1 DEF reportVars, ReportInv, Reporting, VerdictCarriedOut
<1>2. ASSUME NEW w \in Workers, Done(w), reports' = reports, sanctioned' = sanctioned
      PROVE  ReportInv'
  <2>1. req' = [req EXCEPT ![w] = Idle] /\ Reporting(Idle)'
    BY <1>2 DEF Done, Reporting, OnReport, Idle
  <2> QED
    BY <1>2, <2>1, ReportsAlone
<1>3. ASSUME NEW w \in Workers, NEW p \in Reports, CreateReport(w, p) PROVE ReportInv'
  <2>1. PICK target \in ReportTargets :
           reports' = [reports EXCEPT ![p] =
             [target |-> target, status |-> "OPEN", resolved |-> FALSE, summary |-> {}]]
    BY <1>3 DEF CreateReport
  <2>2. target \in Target
    BY DEF ReportTargets, Target
  <2> DEFINE row == [target |-> target, status |-> "OPEN", resolved |-> FALSE, summary |-> {}]
  <2>3. row \in Report /\ row.summary = {}
    BY <2>2 DEF Report, ReportStatus
  <2>4. req[w] = Idle /\ req' = req /\ sanctioned' = sanctioned
    BY <1>3 DEF CreateReport, AtOnce
  <2>5. /\ req'[w] = Idle /\ \A v \in Workers \ {w} : req'[v] = req[v]
        /\ req' = [v \in Workers |-> req'[v]]
    BY <2>4 DEF ReportInv
  <2> HIDE DEF row
  <2>6. reports' = [reports EXCEPT ![p] = row]
    BY <2>1 DEF row
  <2> QED
    BY <2>3, <2>4, <2>5, <2>6, ReportWritten
<1>4. ASSUME NEW w \in Workers, NEW p \in Reports, AssignReportRead(w, p) PROVE ReportInv'
  <2>q. PICK q : q = [op |-> "assignReport", p |-> p, before |-> reports[p].status]
    OBVIOUS
  <2>1. reports[p] \in Report /\ reports[p] # NoReport
    BY <1>4 DEF AssignReportRead, ReportInv
  <2>2. reports' = reports /\ sanctioned' = sanctioned /\ req' = [req EXCEPT ![w] = q]
    BY <1>4, <2>q DEF AssignReportRead, reportVars, Begin
  <2>3. q.op = "assignReport" /\ q.p = p /\ q.before \in ReportStatus
    BY <2>1, <2>q DEF Report
  <2>4. Reporting(q)'
    BY <2>1, <2>2, <2>3 DEF Reporting
  <2> QED
    BY <2>2, <2>4, ReportsAlone
<1>5. ASSUME NEW w \in Workers, AssignReportCommit(w) PROVE ReportInv'
  <2>p. PICK p : p = req[w].p
    OBVIOUS
  <2>1. p \in Reports /\ reports[p] # NoReport /\ req[w].before \in ReportStatus
    BY <1>5, <2>p DEF AssignReportCommit, ReportInv, Reporting, OnReport
  <2>2. reports[p] \in Report
    BY <2>1 DEF ReportInv
  <2> DEFINE row == [reports[p] EXCEPT !.status =
                        IF req[w].before = "OPEN" THEN "UNDER_REVIEW" ELSE req[w].before]
  <2>3. row \in Report /\ row.summary = reports[p].summary
    BY <2>1, <2>2 DEF Report, ReportStatus
  <2>4. \A action \in row.summary : <<p, action>> \in sanctioned
    BY <2>1, <2>3 DEF ReportInv, VerdictCarriedOut
  <2>5. reports' = [reports EXCEPT ![p] = row] /\ sanctioned' = sanctioned
    BY <1>5, <2>p DEF AssignReportCommit
  <2> HIDE DEF row
  <2>6. /\ req'[w] = Idle /\ \A v \in Workers \ {w} : req'[v] = req[v]
        /\ req' = [v \in Workers |-> req'[v]]
    BY <1>5, WorkerMoves DEF AssignReportCommit, Done, ReportInv
  <2> QED
    BY <2>1, <2>3, <2>4, <2>5, <2>6, ReportWritten
<1>6. ASSUME NEW w \in Workers, NEW p \in Reports, VerdictRead(w, p) PROVE ReportInv'
  <2>1. reports' = reports /\ sanctioned' = sanctioned /\ reports[p] # NoReport
    BY <1>6 DEF VerdictRead, Decidable, reportVars
  <2>2. ASSUME NEW to \in ReportStatus, NEW rewritten \in BOOLEAN,
               Begin(w, [op |-> "verdict", p |-> p, to |-> to,
                         summary |-> IF rewritten THEN {} ELSE reports[p].summary])
        PROVE  ReportInv'
    <3>q. PICK q : q = [op |-> "verdict", p |-> p, to |-> to,
                        summary |-> IF rewritten THEN {} ELSE reports[p].summary]
      OBVIOUS
    <3>1. req' = [req EXCEPT ![w] = q]
      BY <2>2, <3>q DEF Begin
    <3>2. reports[p] \in Report
      BY <2>1 DEF ReportInv
    <3>3. /\ q.op = "verdict" /\ q.p = p /\ q.to = to
          /\ q.summary \in {{}, reports[p].summary}
          /\ q.summary \in SUBSET ReportModerationAction
      BY <3>2, <3>q DEF Report
    <3>4. \A action \in q.summary : <<p, action>> \in sanctioned
      BY <2>1, <3>3 DEF ReportInv, VerdictCarriedOut
    <3>5. Reporting(q)'
      BY <2>1, <3>3, <3>4 DEF Reporting
    <3> QED
      BY <2>1, <3>1, <3>5, ReportsAlone
  <2>3. ASSUME NEW action \in ReportModerationAction,
               Begin(w, [op |-> "sanction", p |-> p, action |-> action])
        PROVE  ReportInv'
    <3> DEFINE q == [op |-> "sanction", p |-> p, action |-> action]
    <3>1. req' = [req EXCEPT ![w] = q]
      BY <2>3 DEF Begin
    <3>2. q.op = "sanction" /\ q.p = p /\ q.action = action
      OBVIOUS
    <3> HIDE DEF q
    <3>3. Reporting(q)'
      BY <2>1, <3>2 DEF Reporting
    <3> QED
      BY <2>1, <3>1, <3>3, ReportsAlone
  <2> QED
    BY <1>6, <2>2, <2>3 DEF VerdictRead, Decidable
<1>7. ASSUME NEW w \in Workers, req[w].op \in OnReport
      PROVE  /\ req[w].p \in Reports /\ reports[req[w].p] # NoReport
             /\ req[w].op \notin {"assignReport", "verdict"} =>
                   req[w].action \in ReportModerationAction
  BY <1>7 DEF ReportInv, Reporting
<1>8. ASSUME NEW w \in Workers, SanctionRead(w) \/ HideReviewRescore(w) PROVE ReportInv'
  <2>1. /\ req[w].op \in OnReport \ {"assignReport", "verdict"}
        /\ reports' = reports /\ sanctioned' = sanctioned
    BY <1>8 DEF SanctionRead, HideReviewRescore, reportVars, OnReport
  <2>2. PICK q : /\ req' = [req EXCEPT ![w] = q]
                 /\ q.op \in OnReport \ {"assignReport", "verdict"}
                 /\ q.p = req[w].p /\ q.action = req[w].action
    <3>1. ASSUME NEW q, Continue(w, q), q.op \in {"sanctionWrite", "sanctionScore"},
                 q.p = req[w].p, q.action = req[w].action
          PROVE  \E p : /\ req' = [req EXCEPT ![w] = p]
                        /\ p.op \in OnReport \ {"assignReport", "verdict"}
                        /\ p.p = req[w].p /\ p.action = req[w].action
      BY <3>1 DEF Continue, OnReport
    <3>2. CASE SanctionRead(w)
      BY <3>1, <3>2 DEF SanctionRead
    <3>3. CASE HideReviewRescore(w)
      BY <3>1, <3>3 DEF HideReviewRescore
    <3> QED
      BY <1>8, <3>2, <3>3
  <2>3. Reporting(q)'
    BY <1>7, <2>1, <2>2 DEF Reporting
  <2> QED
    BY <2>1, <2>2, <2>3, ReportsAlone
<1>9. ASSUME NEW w \in Workers, Sanction(w) PROVE ReportInv'
  <2>1. /\ req[w].op \in {"sanctionWrite", "sanctionScore"} /\ reports' = reports
        /\ \/ CarriedOut(w)
           \/ /\ req[w].op = "sanctionWrite"
              /\ Continue(w, [req[w] EXCEPT !.op = "sanctionRescore"])
              /\ sanctioned' = sanctioned
    BY <1>9, SanctionEnds
  <2>2. /\ req[w].p \in Reports /\ reports[req[w].p] # NoReport
        /\ req[w].action \in ReportModerationAction
    BY <1>7, <2>1 DEF OnReport
  <2>3. CASE CarriedOut(w)
    <3>q. PICK q : q = [op |-> "verdict", p |-> req[w].p, to |-> "RESOLVED",
                        summary |-> {req[w].action}]
      OBVIOUS
    <3>1. /\ req' = [req EXCEPT ![w] = q]
          /\ sanctioned' = sanctioned \cup {<<req[w].p, req[w].action>>}
      BY <2>3, <3>q DEF CarriedOut, Continue
    <3>2. /\ q.op = "verdict" /\ q.p = req[w].p /\ q.to \in ReportStatus
          /\ q.summary = {req[w].action}
      BY <3>q DEF ReportStatus
    <3>3. Reporting(q)'
      BY <2>1, <2>2, <3>1, <3>2 DEF Reporting
    <3> QED
      BY <2>1, <3>1, <3>3, ReportsAlone
  <2>4. CASE /\ req[w].op = "sanctionWrite"
             /\ Continue(w, [req[w] EXCEPT !.op = "sanctionRescore"])
             /\ sanctioned' = sanctioned
    <3>q. PICK q : q = [req[w] EXCEPT !.op = "sanctionRescore"]
      OBVIOUS
    <3>1. req' = [req EXCEPT ![w] = q]
      BY <2>4, <3>q DEF Continue
    <3>2. q.p = req[w].p /\ q.action = req[w].action
      BY <3>q
    <3>3. q.op \notin {"assignReport", "verdict"}
      BY <3>q
    <3>4. Reporting(q)'
      BY <2>1, <2>2, <2>4, <3>2, <3>3 DEF Reporting
    <3> QED
      BY <2>1, <2>4, <3>1, <3>4, ReportsAlone
  <2> QED
    BY <2>1, <2>3, <2>4
<1>10. ASSUME NEW w \in Workers, VerdictCommit(w) PROVE ReportInv'
  <2>p. PICK p : p = req[w].p
    OBVIOUS
  <2>1. /\ p \in Reports /\ reports[p] # NoReport /\ req[w].to \in ReportStatus
        /\ req[w].summary \in SUBSET ReportModerationAction
        /\ \A action \in req[w].summary : <<p, action>> \in sanctioned
    BY <1>10, <2>p DEF VerdictCommit, ReportInv, Reporting, OnReport
  <2>2. reports[p] \in Report
    BY <2>1 DEF ReportInv
  <2> DEFINE row == [reports[p] EXCEPT !.status = req[w].to, !.summary = req[w].summary,
                                       !.resolved = req[w].to \in TerminalReport]
  <2>3. row \in Report /\ row.summary = req[w].summary
    <3>1. (req[w].to \in TerminalReport) \in BOOLEAN
      OBVIOUS
    <3>2. PICK over \in BOOLEAN : over = (req[w].to \in TerminalReport)
      BY <3>1
    <3>3. row = [reports[p] EXCEPT !.status = req[w].to, !.summary = req[w].summary,
                                   !.resolved = over]
      BY <3>2
    <3> HIDE DEF row
    <3> QED
      BY <2>1, <2>2, <3>3 DEF Report
  <2>4. \A action \in row.summary : <<p, action>> \in sanctioned
    BY <2>1, <2>3
  <2>5. reports' = [reports EXCEPT ![p] = row] /\ sanctioned' = sanctioned
    BY <1>10, <2>p DEF VerdictCommit
  <2> HIDE DEF row
  <2>6. /\ req'[w] = Idle /\ \A v \in Workers \ {w} : req'[v] = req[v]
        /\ req' = [v \in Workers |-> req'[v]]
    BY <1>10, WorkerMoves DEF VerdictCommit, Done, ReportInv
  <2> QED
    BY <2>1, <2>3, <2>4, <2>5, <2>6, ReportWritten
<1>11. ASSUME NEW w \in Workers, SanctionFails(w) PROVE ReportInv'
  BY <1>2, <1>11 DEF SanctionFails, reportVars
<1>12. ASSUME NEW w \in Workers, ReputationAbort(w), UNCHANGED reportVars PROVE ReportInv'
  BY <1>2, <1>12 DEF ReputationAbort, reportVars
<1>13. ASSUME NEW w \in Workers, ReportProgress(w) PROVE ReportInv'
  BY <1>5, <1>8, <1>9, <1>10, <1>11, <1>13 DEF ReportProgress, Sanction
<1>14. ASSUME RecordChanges, UNCHANGED reportVars PROVE ReportInv'
  BY <1>14 DEF RecordChanges, reportVars, ReportInv, Reporting, VerdictCarriedOut
<1> QED
  BY <1>1, <1>3, <1>4, <1>6, <1>12, <1>13, <1>14 DEF ReportNext, ReportCall

\* A report never names an action that was not carried out for it
\* (reports.service.ts updateStatus), whichever of two verdicts comes last and
\* wherever an action fails.
THEOREM Verdict == ReportSpec => []VerdictCarriedOut
<1>1. ReportInit /\ req = [w \in Workers |-> Idle] => ReportInv
  BY DEF ReportInit, ReportInv, Reporting, OnReport, Idle, VerdictCarriedOut
<1>2. ReportInv => VerdictCarriedOut
  BY DEF ReportInv
<1> QED
  BY <1>1, <1>2, ReportStepInv, PTL DEF ReportSpec

\* A request that is about a report, and neither reads nor writes a score.
LEMMA ReportApart ==
    ASSUME ScoreInv, NEW w \in Workers, NEW q,
           req' = [req EXCEPT ![w] = q],
           UNCHANGED reputationVars, ~Recomputing(w),
           q.op \notin {"writeScore", "sanctionScore"}
    PROVE  ScoreInv'
<1>1. reviews' = reviews /\ counted' = counted /\ score' = score /\ behind' = behind
  BY DEF reputationVars
<1> QED
  BY <1>1, ScoreApart

\* The sanctions keep what is known of the score.
LEMMA ReportScoreInv ==
    ScoreInv /\ [ReportNext]_<<othersReported, reportVars, req>> => ScoreInv'
<1> SUFFICES ASSUME ScoreInv, [ReportNext]_<<othersReported, reportVars, req>>
             PROVE  ScoreInv'
  OBVIOUS
<1>1. ASSUME UNCHANGED reputationVars, req' = req PROVE ScoreInv'
  <2>1. reviews' = reviews /\ counted' = counted /\ score' = score /\ behind' = behind
    BY <1>1 DEF reputationVars
  <2> QED
    BY <1>1, <2>1, RecordKept
<1>2. ASSUME NEW w \in Workers, Done(w), UNCHANGED reputationVars, ~Recomputing(w)
      PROVE  ScoreInv'
  <2>1. req' = [req EXCEPT ![w] = Idle] /\ Idle.op \notin {"writeScore", "sanctionScore"}
    BY <1>2 DEF Done, Idle
  <2> QED
    BY <1>2, <2>1, ReportApart
<1>3. ASSUME NEW w \in Workers, NEW q, Begin(w, q), UNCHANGED reputationVars,
             q.op \in {"assignReport", "verdict", "sanction"}
      PROVE  ScoreInv'
  <2>1. req' = [req EXCEPT ![w] = q] /\ ~Recomputing(w)
    BY <1>3 DEF Begin, Recomputing, Idle
  <2> QED
    BY <1>3, <2>1, ReportApart
<1>4. ASSUME NEW w \in Workers, NEW p \in Reports, ReportCall(w, p) PROVE ScoreInv'
  <2>1. CASE CreateReport(w, p)
    BY <1>1, <2>1 DEF CreateReport, AtOnce, othersReported
  <2>2. CASE AssignReportRead(w, p)
    BY <1>3, <2>2 DEF AssignReportRead, othersReported
  <2>3. CASE VerdictRead(w, p)
    <3>1. UNCHANGED reputationVars
      BY <2>3 DEF VerdictRead, othersReported
    <3>2. ASSUME NEW to \in ReportStatus, NEW rewritten \in BOOLEAN,
                 Begin(w, [op |-> "verdict", p |-> p, to |-> to,
                           summary |-> IF rewritten THEN {} ELSE reports[p].summary])
          PROVE  ScoreInv'
      BY <1>3, <3>1, <3>2
    <3>3. ASSUME NEW action \in ReportModerationAction,
                 Begin(w, [op |-> "sanction", p |-> p, action |-> action])
          PROVE  ScoreInv'
      BY <1>3, <3>1, <3>3
    <3> QED
      BY <2>3, <3>2, <3>3 DEF VerdictRead, Decidable
  <2> QED
    BY <1>4, <2>1, <2>2, <2>3 DEF ReportCall
<1>5. ASSUME NEW w \in Workers, CarriedOut(w), UNCHANGED reputationVars,
             req[w].op = "sanctionWrite"
      PROVE  ScoreInv'
  <2> DEFINE q == [op |-> "verdict", p |-> req[w].p, to |-> "RESOLVED",
                   summary |-> {req[w].action}]
  <2>1. req' = [req EXCEPT ![w] = q] /\ q.op \notin {"writeScore", "sanctionScore"}
    BY <1>5 DEF CarriedOut, Continue
  <2>2. ~Recomputing(w)
    BY <1>5 DEF Recomputing
  <2> HIDE DEF q
  <2> QED
    BY <1>5, <2>1, <2>2, ReportApart
<1>6. ASSUME NEW w \in Workers, SanctionRead(w) PROVE ScoreInv'
  <2>1. PICK before :
           req' = [req EXCEPT ![w] = [op |-> "sanctionWrite", p |-> req[w].p,
                                      action |-> req[w].action, before |-> before]]
    BY <1>6 DEF SanctionRead, Continue
  <2>2. ~Recomputing(w) /\ UNCHANGED reputationVars
    BY <1>6 DEF SanctionRead, Recomputing, othersReported
  <2> DEFINE q == [op |-> "sanctionWrite", p |-> req[w].p, action |-> req[w].action,
                   before |-> before]
  <2>3. req' = [req EXCEPT ![w] = q] /\ q.op \notin {"writeScore", "sanctionScore"}
    BY <2>1
  <2> HIDE DEF q
  <2> QED
    BY <2>2, <2>3, ReportApart
<1>7. ASSUME NEW w \in Workers, HideReportedReview(w) PROVE ScoreInv'
  <2>1. req[w].op = "sanctionWrite"
    BY <1>7 DEF HideReportedReview, Sanctions
  <2>2. CASE req[w].before = "HIDDEN"
    BY <1>5, <1>7, <2>1, <2>2 DEF HideReportedReview, reputationVars
  <2>3. CASE req[w].before # "HIDDEN"
    <3> DEFINE q == [req[w] EXCEPT !.op = "sanctionRescore"]
    <3>1. req' = [req EXCEPT ![w] = q] /\ behind' = (behind \/ Crosses(w))
      BY <1>7, <2>3 DEF HideReportedReview, Continue
    <3>2. q.op = "sanctionRescore"
      OBVIOUS
    <3> HIDE DEF q
    <3> QED
      BY <3>1, <3>2, ReviewWritten
  <2> QED
    BY <2>2, <2>3
<1>8. ASSUME NEW w \in Workers, HideReviewRescore(w) PROVE ScoreInv'
  <2> DEFINE q == [op |-> "sanctionScore", p |-> req[w].p, action |-> req[w].action,
                   score |-> TrustScore(standing), record |-> standing]
  <2>1. req' = [req EXCEPT ![w] = q]
    BY <1>8 DEF HideReviewRescore, Continue
  <2>2. q.op \in {"writeScore", "sanctionScore"} /\ q.score = TrustScore(q.record)
    OBVIOUS
  <2> HIDE DEF q
  <2>3. reviews' = reviews /\ counted' = counted /\ score' = score /\ behind' = behind
    BY <1>8 DEF HideReviewRescore, othersReported, reputationVars
  <2> QED
    BY <2>1, <2>2, <2>3, ScoreRead
<1>9. ASSUME NEW w \in Workers, HideReviewScored(w) PROVE ScoreInv'
  <2> DEFINE q == [op |-> "verdict", p |-> req[w].p, to |-> "RESOLVED",
                   summary |-> {req[w].action}]
  <2>1. /\ req' = [req EXCEPT ![w] = q] /\ q.op \notin {"writeScore", "sanctionScore"}
        /\ req[w].op \in {"writeScore", "sanctionScore"} /\ score' = req[w].score
        /\ reviews' = reviews /\ counted' = req[w].record /\ behind' = behind
    BY <1>9 DEF HideReviewScored, CarriedOut, Continue
  <2> HIDE DEF q
  <2> QED
    BY <2>1, ScoreWritten
<1>10. ASSUME NEW w \in Workers,
              AssignReportCommit(w) \/ VerdictCommit(w) \/ SanctionFails(w)
       PROVE  ScoreInv'
  <2>1. Done(w) /\ UNCHANGED reputationVars /\ ~Recomputing(w)
    BY <1>10 DEF AssignReportCommit, VerdictCommit, SanctionFails, othersReported, Recomputing
  <2> QED
    BY <1>2, <2>1
<1>11. ASSUME NEW w \in Workers,
              \/ WarnReportedUser(w) \/ SuspendReportedUser(w) \/ HideReportedAsset(w)
              \/ HideReportedChatMessage(w)
       PROVE  ScoreInv'
  <2>1. CarriedOut(w) /\ req[w].op = "sanctionWrite" /\ UNCHANGED reputationVars
    BY <1>11 DEF WarnReportedUser, SuspendReportedUser, HideReportedAsset,
                 HideReportedChatMessage, Sanctions, othersReported
  <2> QED
    BY <1>5, <2>1
<1>12. ASSUME NEW w \in Workers, ReportProgress(w) PROVE ScoreInv'
  BY <1>6, <1>7, <1>8, <1>9, <1>10, <1>11, <1>12 DEF ReportProgress
<1>13. CASE UNCHANGED <<othersReported, reportVars, req>>
  BY <1>1, <1>13 DEF othersReported
<1>14. ASSUME RecordChanges PROVE ScoreInv'
  BY <1>14, RecordKept DEF RecordChanges
<1> QED
  BY <1>4, <1>12, <1>13, <1>14, ScoreCutOff DEF ReportNext

\* The moderation of a reported review (reports.service.ts hideReportedReview)
\* leaves the score that of the reviews as they are, and of the record as the
\* recomputation found it, unless one was cut off or overtaken.
THEOREM ScoreAfterSanction == ReportSpec => []ScoreFollowsReviews
<1> DEFINE Start == /\ score = TrustScore(counted) /\ behind = FALSE
                    /\ req = [w \in Workers |-> Idle]
<1>1. Start => ScoreInv
  <2> SUFFICES ASSUME Start PROVE ScoreInv
    OBVIOUS
  <2>1. \A w \in Workers : req[w].op = "idle"
    BY DEF Idle
  <2> QED
    BY <2>1 DEF ScoreInv, Computed
<1>2. ScoreInv => ScoreFollowsReviews
  BY DEF ScoreInv, ScoreFollowsReviews, NoReviews, Recomputing, Idle
<1> QED
  BY <1>1, <1>2, ReportScoreInv, PTL DEF ReportSpec

----------------------------------------------------------------------------
(* Listings.  The handlers that write a status look for a removal in the   *)
(* same statement.                                                         *)
ListingRows == listing = [a \in Assets |-> listing[a]]

StaysRemoved ==
    \A a \in Assets : listing[a] = "ARCHIVED" => listing'[a] = "ARCHIVED"

\* The write of one listing.
LEMMA OneListing ==
    ASSUME ListingRows, NEW a, NEW s, listing' = [listing EXCEPT ![a] = s],
           listing[a] # "ARCHIVED" \/ s = "ARCHIVED"
    PROVE  ListingRows' /\ StaysRemoved
  BY DEF ListingRows, StaysRemoved

\* Every step of the owner, the staff and the risk assessment.
LEMMA ListingStep ==
    ASSUME ListingRows, ListingNext \/ RiskNext \/ CancellationNext
    PROVE  ListingRows' /\ StaysRemoved
<1>1. ASSUME listing' = listing PROVE ListingRows' /\ StaysRemoved
  BY <1>1 DEF ListingRows, StaysRemoved
<1>2. ASSUME NEW w \in Workers, NEW a \in Assets, ListingCall(w, a) \/ RiskCall(w, a)
      PROVE  ListingRows' /\ StaysRemoved
  <2>1. CASE SubmitListing(w, a)
    <3>1. listing' = [listing EXCEPT ![a] = "PENDING_REVIEW"] /\ listing[a] = NoRow
      BY <2>1 DEF SubmitListing, CreateListing
    <3>2. listing[a] # "ARCHIVED"
      BY <3>1 DEF NoRow
    <3> QED
      BY <3>1, <3>2, OneListing
  <2>2. CASE ~SubmitListing(w, a)
    <3>1. listing' = listing
      BY <1>2, <2>2 DEF ListingCall, RiskCall, EditRead, RemoveRead, ModerateRead,
                        AddFavoriteRead, RemoveFavorite, UpdateIncident, ChangeRule, listingVars
    <3> QED
      BY <1>1, <3>1
  <2> QED
    BY <2>1, <2>2
<1>3. ASSUME NEW w \in Workers, ListingProgress(w) PROVE ListingRows' /\ StaysRemoved
  <2>1. CASE EditCommit(w)
    BY <2>1, OneListing DEF EditCommit, EditWrites
  <2>2. CASE RemoveCommit(w)
    BY <2>2, OneListing DEF RemoveCommit, SetListing
  <2>3. CASE ModerateCommit(w)
    BY <2>3, OneListing DEF ModerateCommit, SetListing
  <2>4. CASE \/ AssessRead(w) \/ IncidentThere(w) \/ IncidentAbsent(w)
             \/ CreateIncident(w) \/ AssessDone(w) \/ ListingGone(w) \/ AddFavoriteCommit(w)
    <3>1. listing' = listing
      BY <2>4 DEF AssessRead, IncidentThere, IncidentAbsent, CreateIncident, AssessDone,
                  ListingGone, AddFavoriteCommit, listingVars
    <3> QED
      BY <1>1, <3>1
  <2> QED
    BY <1>3, <2>1, <2>2, <2>3, <2>4 DEF ListingProgress
<1>4. ASSUME NEW w \in Workers,
             RentalCancelled(w) \/ CountCancelled(w) \/ NotePattern(w) \/ RiskAbort(w)
      PROVE  ListingRows' /\ StaysRemoved
  <2>1. listing' = listing
    BY <1>4 DEF RentalCancelled, CountCancelled, NotePattern, RiskAbort, listingVars
  <2> QED
    BY <1>1, <2>1
<1> QED
  BY <1>2, <1>3, <1>4 DEF ListingNext, RiskNext, CancellationNext

\* An edit or a verdict that read the listing before its removal does not
\* bring it back, for every number of listings and requests (assets.service.ts
\* update, moderate).
THEOREM Removal == RiskSpec => RemovedStaysRemoved
<1>1. ListingInit => ListingRows
  BY DEF ListingInit, ListingRows
<1>2. ListingRows /\ [ListingNext \/ RiskNext \/ CancellationNext]_<<listingVars, riskVars, req>>
        => ListingRows' /\ [StaysRemoved]_listing
  BY ListingStep DEF listingVars, ListingRows
<1> QED
  BY <1>1, <1>2, PTL DEF RiskSpec, RemovedStaysRemoved, StaysRemoved

----------------------------------------------------------------------------
(* Risk.  For every ground a listing gives there is an incident, or some   *)
(* handler still carries the ground to its assessment.                     *)
Assessing == {"submitted", "assess", "incident"}

AssessRequest(q) ==
    /\ q.op \in Assessing => q.a \in Assets /\ q.grounds \in SUBSET Grounds
    /\ q.op = "incident" => q.grounds # {}
    /\ q.op = "edit" => q.a \in Assets

Carries(q, a, ground) == q.op \in Assessing /\ q.a = a /\ ground \in q.grounds

Owes(a, ground) ==
    /\ a \in Assets \ excused
    /\ ground \in contents[a]
    /\ ground = "prohibited" => ruleActive

Noticed(a, ground) == \E i \in DOMAIN incidents[a] : incidents[a][i].ground = ground

RiskRows ==
    /\ contents \in [Assets -> SUBSET Grounds]
    /\ ruleActive \in BOOLEAN
    /\ incidents \in [Assets -> Seq([ground : Grounds, status : IncidentStatus])]
    /\ excused \in SUBSET Assets

AssessInv ==
    /\ RiskRows
    /\ req = [w \in Workers |-> req[w]]
    /\ \A w \in Workers : AssessRequest(req[w])
    /\ \A a \in Assets, ground \in Grounds : Owes(a, ground) =>
          Noticed(a, ground) \/ \E w \in Workers : Carries(req[w], a, ground)

\* What a step must not lose of the grounds, listing by listing.
LEMMA GroundsKept ==
    ASSUME AssessInv, NEW w \in Workers, NEW q,
           req' = [req EXCEPT ![w] = q],
           RiskRows', AssessRequest(q),
           \A a \in Assets, ground \in Grounds :
              /\ Owes(a, ground)' => Owes(a, ground) \/ Carries(q, a, ground)
              /\ Noticed(a, ground) => Noticed(a, ground)'
              /\ Carries(req[w], a, ground) /\ Owes(a, ground)' =>
                    Carries(q, a, ground) \/ Noticed(a, ground)'
    PROVE  AssessInv'
<1>1. /\ req' = [v \in Workers |-> req'[v]]
      /\ req'[w] = q /\ \A v \in Workers \ {w} : req'[v] = req[v]
  BY WorkerMoves DEF AssessInv
<1>2. \A v \in Workers : AssessRequest(req'[v])
  BY <1>1 DEF AssessInv
<1>3. ASSUME NEW a \in Assets, NEW ground \in Grounds, Owes(a, ground)'
      PROVE  Noticed(a, ground)' \/ \E v \in Workers : Carries(req'[v], a, ground)
  <2>1. CASE Carries(q, a, ground)
    BY <1>1, <2>1
  <2>2. CASE Owes(a, ground) /\ ~Carries(q, a, ground)
    <3>1. CASE Noticed(a, ground)
      BY <3>1
    <3>2. CASE ~Noticed(a, ground)
      <4>1. PICK v \in Workers : Carries(req[v], a, ground)
        BY <2>2, <3>2 DEF AssessInv
      <4>2. CASE v = w
        BY <1>3, <2>2, <4>1, <4>2
      <4>3. CASE v # w
        BY <1>1, <4>1, <4>3
      <4> QED
        BY <4>2, <4>3
    <3> QED
      BY <3>1, <3>2
  <2> QED
    BY <1>3, <2>1, <2>2
<1> QED
  BY <1>1, <1>2, <1>3 DEF AssessInv, AssessRequest, Carries

\* A request that carries no ground, while the listings stay as they are.
LEMMA AssessApart ==
    ASSUME AssessInv, NEW w \in Workers, NEW q,
           req' = [req EXCEPT ![w] = q],
           contents' = contents, ruleActive' = ruleActive, incidents' = incidents,
           excused' = excused,
           AssessRequest(q),
           \A a \in Assets, ground \in Grounds :
              Carries(req[w], a, ground) /\ Owes(a, ground) =>
                  Carries(q, a, ground) \/ Noticed(a, ground)
    PROVE  AssessInv'
<1>1. RiskRows'
  BY DEF AssessInv, RiskRows
<1>2. \A a \in Assets, ground \in Grounds :
         /\ Owes(a, ground)' <=> Owes(a, ground)
         /\ Noticed(a, ground)' <=> Noticed(a, ground)
  BY DEF Owes, Noticed
<1> QED
  BY <1>1, <1>2, GroundsKept

\* The row of a listing and the request that will have it assessed.
LEMMA ListingWritten ==
    ASSUME AssessInv, NEW w \in Workers, NEW a \in Assets, Written(a),
           req' = [req EXCEPT ![w] =
                     [op |-> "submitted", a |-> a, grounds |-> contents'[a]]],
           req[w].op \notin Assessing
    PROVE  AssessInv'
<1>1. PICK grounds \in SUBSET Grounds : contents' = [contents EXCEPT ![a] = grounds]
  BY DEF Written
<1>2. /\ excused' = excused \ {a} /\ ruleActive' = ruleActive /\ incidents' = incidents
  BY DEF Written
<1>3. contents'[a] = grounds /\ \A b \in Assets \ {a} : contents'[b] = contents[b]
  BY <1>1 DEF AssessInv, RiskRows
<1>4. RiskRows'
  BY <1>1, <1>2 DEF AssessInv, RiskRows
<1>q. PICK q : q = [op |-> "submitted", a |-> a, grounds |-> grounds]
  OBVIOUS
<1>5. req' = [req EXCEPT ![w] = q]
  BY <1>3, <1>q
<1>6. AssessRequest(q)
  BY <1>q DEF AssessRequest, Assessing
<1>7. ASSUME NEW b \in Assets, NEW ground \in Grounds
      PROVE  /\ Owes(b, ground)' => Owes(b, ground) \/ Carries(q, b, ground)
             /\ Noticed(b, ground) => Noticed(b, ground)'
             /\ ~Carries(req[w], b, ground)
  <2>1. CASE b = a
    BY <1>2, <1>3, <1>q, <2>1 DEF Owes, Carries, Noticed, Assessing
  <2>2. CASE b # a
    BY <1>2, <1>3, <2>2 DEF Owes, Carries, Noticed
  <2> QED
    BY <2>1, <2>2
<1> QED
  BY <1>4, <1>5, <1>6, <1>7, GroundsKept

\* The handlers of the risk assessment itself.
LEMMA AssessmentStep ==
    ASSUME AssessInv, NEW w \in Workers,
           AssessRead(w) \/ IncidentThere(w) \/ IncidentAbsent(w) \/ CreateIncident(w)
             \/ AssessDone(w)
    PROVE  AssessInv'
<1>1. AssessRequest(req[w])
  BY DEF AssessInv
<1>2. CASE AssessRead(w)
  <2>q. PICK q : q = [op |-> "assess", a |-> req[w].a,
                      grounds |-> IF ruleActive THEN req[w].grounds
                                  ELSE req[w].grounds \ {"prohibited"}]
    OBVIOUS
  <2>1. /\ req' = [req EXCEPT ![w] = q]
        /\ contents' = contents /\ ruleActive' = ruleActive /\ incidents' = incidents
        /\ excused' = excused
    BY <1>2, <2>q DEF AssessRead, Continue, riskVars
  <2>2. req[w].a \in Assets /\ req[w].grounds \in SUBSET Grounds
    BY <1>1, <1>2 DEF AssessRead, AssessRequest, Assessing
  <2>3. AssessRequest(q)
    BY <2>q, <2>2 DEF AssessRequest, Assessing
  <2>4. \A a \in Assets, ground \in Grounds :
           Carries(req[w], a, ground) /\ Owes(a, ground) => Carries(q, a, ground)
    BY <2>q DEF Carries, Owes, Assessing
  <2> QED
    BY <2>1, <2>3, <2>4, AssessApart
<1>3. CASE IncidentThere(w)
  <2>q. PICK q : q = [req[w] EXCEPT !.grounds = @ \ {Ground(req[w])}]
    OBVIOUS
  <2>1. /\ req' = [req EXCEPT ![w] = q]
        /\ contents' = contents /\ ruleActive' = ruleActive /\ incidents' = incidents
        /\ excused' = excused
    BY <1>3, <2>q DEF IncidentThere, Continue, riskVars
  <2>2. /\ req[w].op = "assess" /\ req[w].a \in Assets /\ req[w].grounds \in SUBSET Grounds
        /\ Noticed(req[w].a, Ground(req[w]))
    BY <1>1, <1>3 DEF IncidentThere, AssessRequest, Assessing, Raised, Noticed
  <2>3. q.op = "assess" /\ q.a = req[w].a /\ q.grounds = req[w].grounds \ {Ground(req[w])}
    BY <2>q, <2>2
  <2>4. AssessRequest(q)
    BY <2>2, <2>3 DEF AssessRequest, Assessing
  <2>5. \A a \in Assets, ground \in Grounds :
           Carries(req[w], a, ground) => Carries(q, a, ground) \/ Noticed(a, ground)
    BY <2>2, <2>3 DEF Carries
  <2> QED
    BY <2>1, <2>4, <2>5, AssessApart
<1>4. CASE IncidentAbsent(w)
  <2>q. PICK q : q = [req[w] EXCEPT !.op = "incident"]
    OBVIOUS
  <2>1. /\ req' = [req EXCEPT ![w] = q]
        /\ contents' = contents /\ ruleActive' = ruleActive /\ incidents' = incidents
        /\ excused' = excused
    BY <1>4, <2>q DEF IncidentAbsent, Continue, riskVars
  <2>2. /\ req[w].op = "assess" /\ req[w].a \in Assets /\ req[w].grounds \in SUBSET Grounds
        /\ req[w].grounds # {}
    BY <1>1, <1>4 DEF IncidentAbsent, AssessRequest, Assessing
  <2>3. q.op = "incident" /\ q.a = req[w].a /\ q.grounds = req[w].grounds
    BY <2>q, <2>2
  <2>4. AssessRequest(q)
    BY <2>2, <2>3 DEF AssessRequest, Assessing
  <2>5. \A a \in Assets, ground \in Grounds :
           Carries(req[w], a, ground) => Carries(q, a, ground)
    BY <2>2, <2>3 DEF Carries, Assessing
  <2> QED
    BY <2>1, <2>4, <2>5, AssessApart
<1>5. CASE CreateIncident(w)
  <2>a. PICK a : a = req[w].a
    OBVIOUS
  <2>g. PICK g : g = Ground(req[w])
    OBVIOUS
  <2>q. PICK q : q = [req[w] EXCEPT !.op = "assess", !.grounds = @ \ {g}]
    OBVIOUS
  <2>1. /\ req' = [req EXCEPT ![w] = q]
        /\ contents' = contents /\ ruleActive' = ruleActive /\ excused' = excused
        /\ incidents' = [incidents EXCEPT ![a] = Append(@, [ground |-> g, status |-> "OPEN"])]
    BY <1>5, <2>a, <2>g, <2>q DEF CreateIncident, Continue
  <2>2. /\ req[w].op = "incident" /\ a \in Assets /\ req[w].grounds \in SUBSET Grounds
        /\ req[w].grounds # {}
    BY <1>1, <1>5, <2>a DEF CreateIncident, AssessRequest, Assessing
  <2>3. q.op = "assess" /\ q.a = a /\ q.grounds = req[w].grounds \ {g}
    BY <2>q, <2>a, <2>2
  <2>4. AssessRequest(q)
    BY <2>2, <2>3 DEF AssessRequest, Assessing
  <2>5. g \in Grounds
    BY <2>g DEF Ground, Grounds
  <2> DEFINE row == [ground |-> g, status |-> "OPEN"]
  <2>6. row \in [ground : Grounds, status : IncidentStatus] /\ row.ground = g
    BY <2>5 DEF IncidentStatus
  <2>7. incidents' = [incidents EXCEPT ![a] = Append(@, row)]
    BY <2>1
  <2> HIDE DEF row
  <2>8. incidents[a] \in Seq([ground : Grounds, status : IncidentStatus])
    BY <2>2 DEF AssessInv, RiskRows
  <2>9. /\ incidents'[a] = Append(incidents[a], row)
        /\ \A b \in Assets \ {a} : incidents'[b] = incidents[b]
    BY <2>2, <2>7 DEF AssessInv, RiskRows
  <2>10. RiskRows'
    <3>1. Append(incidents[a], row) \in Seq([ground : Grounds, status : IncidentStatus])
      BY <2>6, <2>8
    <3>2. incidents' \in [Assets -> Seq([ground : Grounds, status : IncidentStatus])]
      BY <2>2, <2>7, <3>1 DEF AssessInv, RiskRows
    <3> QED
      BY <2>1, <3>2 DEF AssessInv, RiskRows
  <2>11. /\ DOMAIN incidents[a] \subseteq DOMAIN incidents'[a]
         /\ \A i \in DOMAIN incidents[a] : incidents'[a][i] = incidents[a][i]
         /\ \E i \in DOMAIN incidents'[a] : incidents'[a][i] = row
    <3>1. /\ Len(incidents[a]) + 1 \in DOMAIN incidents'[a]
          /\ incidents'[a][Len(incidents[a]) + 1] = row
      BY <2>6, <2>8, <2>9
    <3> QED
      BY <2>6, <2>8, <2>9, <3>1
  <2>12. Noticed(a, g)'
    BY <2>6, <2>11 DEF Noticed
  <2>13. ASSUME NEW b \in Assets, NEW ground \in Grounds
         PROVE  /\ Owes(b, ground)' => Owes(b, ground)
                /\ Noticed(b, ground) => Noticed(b, ground)'
                /\ Carries(req[w], b, ground) => Carries(q, b, ground) \/ Noticed(b, ground)'
    <3>1. Owes(b, ground)' => Owes(b, ground)
      BY <2>1 DEF Owes
    <3>2. Noticed(b, ground) => Noticed(b, ground)'
      BY <2>9, <2>11 DEF Noticed
    <3>3. Carries(req[w], b, ground) => Carries(q, b, ground) \/ Noticed(b, ground)'
      BY <2>a, <2>3, <2>12 DEF Carries, Assessing
    <3> QED
      BY <3>1, <3>2, <3>3
  <2> QED
    BY <2>1, <2>4, <2>10, <2>13, GroundsKept
<1>6. CASE AssessDone(w)
  <2>1. /\ req' = [req EXCEPT ![w] = Idle] /\ req[w].grounds = {}
        /\ contents' = contents /\ ruleActive' = ruleActive /\ incidents' = incidents
        /\ excused' = excused
    BY <1>6 DEF AssessDone, Done, riskVars
  <2>2. AssessRequest(Idle)
    BY DEF AssessRequest, Assessing, Idle
  <2>3. \A a \in Assets, ground \in Grounds : ~Carries(req[w], a, ground)
    BY <2>1 DEF Carries
  <2> QED
    BY <2>1, <2>2, <2>3, AssessApart
<1> QED
  BY <1>2, <1>3, <1>4, <1>5, <1>6

\* A handler begins that the assessment knows nothing of, or such a one ends.
Elsewhere == {"idle", "edit", "remove", "moderate", "favorite", "cancelled", "pattern"}

LEMMA OtherRequest ==
    ASSUME AssessInv, NEW w \in Workers, NEW q,
           req' = [req EXCEPT ![w] = q], q.op \in Elsewhere,
           req[w].op \notin Assessing,
           q.op = "edit" => q.a \in Assets,
           contents' = contents, ruleActive' = ruleActive, incidents' = incidents,
           excused' = excused
    PROVE  AssessInv'
<1>1. AssessRequest(q) /\ q.op \notin Assessing
  BY DEF AssessRequest, Assessing, Elsewhere
<1>2. \A a \in Assets, ground \in Grounds : ~Carries(req[w], a, ground)
  BY DEF Carries
<1> QED
  BY <1>1, <1>2, AssessApart

LEMMA NobodyBegins ==
    ASSUME AssessInv, req' = req,
           contents' = contents, ruleActive' = ruleActive, incidents' = incidents,
           excused' = excused
    PROVE  AssessInv'
<1>1. RiskRows' /\ req' = [v \in Workers |-> req'[v]]
  BY DEF AssessInv, RiskRows
<1>2. \A a \in Assets, ground \in Grounds :
         (Owes(a, ground)' <=> Owes(a, ground)) /\ (Noticed(a, ground)' <=> Noticed(a, ground))
  BY DEF Owes, Noticed
<1>3. ASSUME NEW a \in Assets, NEW ground \in Grounds, Owes(a, ground)'
      PROVE  Noticed(a, ground)' \/ \E v \in Workers : Carries(req'[v], a, ground)
  BY <1>2, <1>3 DEF AssessInv
<1> QED
  BY <1>1, <1>3 DEF AssessInv, AssessRequest, Carries

\* The calls that begin or write something else than an assessment.
LEMMA OtherCalls ==
    ASSUME AssessInv, NEW w \in Workers, NEW a \in Assets,
           UNCHANGED <<contents, ruleActive, incidents, excused>>,
           \/ EditRead(w, a) \/ RemoveRead(w, a) \/ ModerateRead(w, a)
           \/ AddFavoriteRead(w, a) \/ RemoveFavorite(w, a)
           \/ RemoveCommit(w) \/ ModerateCommit(w) \/ ListingGone(w) \/ AddFavoriteCommit(w)
    PROVE  AssessInv'
<1>1. /\ contents' = contents /\ ruleActive' = ruleActive /\ incidents' = incidents
      /\ excused' = excused
  OBVIOUS
<1>i. Idle.op \notin Assessing
  BY DEF Idle, Assessing
<1>2. CASE RemoveFavorite(w, a)
  BY <1>1, <1>2, NobodyBegins DEF RemoveFavorite, AtOnce
<1>3. CASE EditRead(w, a)
  <2>q. PICK q : q = [op |-> "edit", a |-> a, next |-> Edited(listing[a])]
    OBVIOUS
  <2>e. q.op \in Elsewhere /\ (q.op = "edit" => q.a \in Assets)
    BY <2>q DEF Elsewhere
  <2>1. req[w] = Idle /\ req' = [req EXCEPT ![w] = q]
    BY <1>3, <2>q DEF EditRead, Begin
  <2> QED
    BY <1>1, <1>i, <2>e, <2>1, OtherRequest
<1>4. CASE RemoveRead(w, a)
  <2>q. PICK q : q = [op |-> "remove", a |-> a]
    OBVIOUS
  <2>e. q.op \in Elsewhere /\ (q.op = "edit" => q.a \in Assets)
    BY <2>q DEF Elsewhere
  <2>1. req[w] = Idle /\ req' = [req EXCEPT ![w] = q]
    BY <1>4, <2>q DEF RemoveRead, Begin
  <2> QED
    BY <1>1, <1>i, <2>e, <2>1, OtherRequest
<1>5. CASE ModerateRead(w, a)
  <2>1. PICK verdict \in Verdicts :
            Begin(w, [op |-> "moderate", a |-> a, next |-> verdict])
    BY <1>5 DEF ModerateRead, Moderatable
  <2>q. PICK q : q = [op |-> "moderate", a |-> a, next |-> verdict]
    OBVIOUS
  <2>e. q.op \in Elsewhere /\ (q.op = "edit" => q.a \in Assets)
    BY <2>q DEF Elsewhere
  <2>2. req[w] = Idle /\ req' = [req EXCEPT ![w] = q]
    BY <2>1, <2>q DEF Begin
  <2> QED
    BY <1>1, <1>i, <2>e, <2>2, OtherRequest
<1>6. CASE AddFavoriteRead(w, a)
  <2>q. PICK q : q = [op |-> "favorite", a |-> a]
    OBVIOUS
  <2>e. q.op \in Elsewhere /\ (q.op = "edit" => q.a \in Assets)
    BY <2>q DEF Elsewhere
  <2>1. req[w] = Idle /\ req' = [req EXCEPT ![w] = q]
    BY <1>6, <2>q DEF AddFavoriteRead, Begin
  <2> QED
    BY <1>1, <1>i, <2>e, <2>1, OtherRequest
<1>7. CASE RemoveCommit(w) \/ ModerateCommit(w) \/ ListingGone(w) \/ AddFavoriteCommit(w)
  <2>1. req' = [req EXCEPT ![w] = Idle] /\ req[w].op \notin Assessing
    BY <1>7 DEF RemoveCommit, ModerateCommit, ListingGone, AddFavoriteCommit, Done, Assessing
  <2> QED
    BY <1>1, <2>1, OtherRequest DEF Elsewhere, Idle
<1> QED
  BY <1>2, <1>3, <1>4, <1>5, <1>6, <1>7

\* The cancellations of rentals, which the assessment knows nothing of.
LEMMA CancellationApart ==
    ASSUME AssessInv, NEW w \in Workers,
           RentalCancelled(w) \/ CountCancelled(w) \/ NotePattern(w)
    PROVE  AssessInv'
<1>1. /\ contents' = contents /\ ruleActive' = ruleActive /\ incidents' = incidents
      /\ excused' = excused
  BY DEF RentalCancelled, CountCancelled, NotePattern, riskVars
<1>i. Idle.op \notin Assessing
  BY DEF Idle, Assessing
<1>2. CASE RentalCancelled(w) /\ AtOnce(w)
  BY <1>1, <1>2, NobodyBegins DEF AtOnce
<1>3. CASE RentalCancelled(w) /\ ~AtOnce(w)
  <2>q. PICK q : q = [op |-> "cancelled"]
    OBVIOUS
  <2>e. q.op \in Elsewhere /\ (q.op = "edit" => q.a \in Assets)
    BY <2>q DEF Elsewhere
  <2>1. req[w] = Idle /\ req' = [req EXCEPT ![w] = q]
    BY <1>3, <2>q DEF RentalCancelled, Begin
  <2> QED
    BY <1>1, <1>i, <2>e, <2>1, OtherRequest
<1>4. CASE CountCancelled(w)
  <2>q. PICK q : q = [op |-> "pattern",
                      found |-> cancelled.renter + cancelled.owner >= Threshold]
    OBVIOUS
  <2>e. q.op \in Elsewhere /\ (q.op = "edit" => q.a \in Assets)
    BY <2>q DEF Elsewhere
  <2>1. req[w].op = "cancelled" /\ req' = [req EXCEPT ![w] = q]
    BY <1>4, <2>q DEF CountCancelled, Continue
  <2> QED
    BY <1>1, <2>e, <2>1, OtherRequest DEF Assessing
<1>5. CASE NotePattern(w)
  <2>1. req' = [req EXCEPT ![w] = Idle] /\ req[w].op \notin Assessing
    BY <1>5 DEF NotePattern, Done, Assessing
  <2> QED
    BY <1>1, <2>1, OtherRequest DEF Elsewhere, Idle
<1> QED
  BY <1>2, <1>3, <1>4, <1>5

LEMMA InSequence == ASSUME NEW S, NEW s \in Seq(S), NEW i \in DOMAIN s PROVE s[i] \in S
  OBVIOUS

\* The staff reopen and close incidents; none loses its title.
LEMMA IncidentUpdated ==
    ASSUME AssessInv, NEW w \in Workers, NEW a \in Assets, UpdateIncident(w, a)
    PROVE  AssessInv'
<1>1. PICK i \in DOMAIN incidents[a], to \in IncidentStatus :
          incidents' = [incidents EXCEPT ![a][i].status = to]
  BY DEF UpdateIncident
<1>2. /\ req' = req /\ contents' = contents /\ ruleActive' = ruleActive /\ excused' = excused
  BY DEF UpdateIncident, AtOnce
<1>3. incidents[a] \in Seq([ground : Grounds, status : IncidentStatus])
  BY DEF AssessInv, RiskRows
<1>r. PICK rows : rows = [incidents[a] EXCEPT ![i].status = to]
  OBVIOUS
<1>4. incidents' = [incidents EXCEPT ![a] = rows]
  BY <1>1, <1>r
<1>5. incidents[a][i] \in [ground : Grounds, status : IncidentStatus]
  BY <1>3, InSequence
<1>6. /\ DOMAIN rows = DOMAIN incidents[a]
      /\ \A j \in DOMAIN rows : rows[j].ground = incidents[a][j].ground
  BY <1>3, <1>5, <1>r
<1>7. rows \in Seq([ground : Grounds, status : IncidentStatus])
  <2>1. [incidents[a][i] EXCEPT !.status = to] \in [ground : Grounds, status : IncidentStatus]
    BY <1>5
  <2>2. rows = [incidents[a] EXCEPT ![i] = [incidents[a][i] EXCEPT !.status = to]]
    BY <1>r
  <2> QED
    BY <1>3, <2>1, <2>2
<1>8. RiskRows'
  <2>1. incidents' \in [Assets -> Seq([ground : Grounds, status : IncidentStatus])]
    BY <1>4, <1>7 DEF AssessInv, RiskRows
  <2> QED
    BY <1>2, <2>1 DEF AssessInv, RiskRows
<1>9. \A b \in Assets, ground \in Grounds :
         Noticed(b, ground) => Noticed(b, ground)'
  <2> SUFFICES ASSUME NEW b \in Assets, NEW ground \in Grounds, Noticed(b, ground)
               PROVE  Noticed(b, ground)'
    OBVIOUS
  <2>1. CASE b = a
    BY <1>4, <1>6, <2>1 DEF Noticed, AssessInv, RiskRows
  <2>2. CASE b # a
    BY <1>4, <2>2 DEF Noticed, AssessInv, RiskRows
  <2> QED
    BY <2>1, <2>2
<1>10. \A b \in Assets, ground \in Grounds : Owes(b, ground)' <=> Owes(b, ground)
  BY <1>2 DEF Owes
<1> QED
  BY <1>2, <1>8, <1>9, <1>10 DEF AssessInv, AssessRequest, Carries

\* The process restarts between two statements: if the handler carried
\* grounds, its listing is excused.
LEMMA AssessmentCutOff ==
    ASSUME AssessInv, NEW w \in Workers, RiskAbort(w)
    PROVE  AssessInv'
<1>1. /\ req' = [req EXCEPT ![w] = Idle]
      /\ contents' = contents /\ ruleActive' = ruleActive /\ incidents' = incidents
      /\ excused' = excused \cup {a \in Assets : req[w].op \in Assessing /\ req[w].a = a}
  BY DEF RiskAbort, Done, Assessing
<1>2. RiskRows'
  BY <1>1 DEF AssessInv, RiskRows
<1>3. AssessRequest(Idle)
  BY DEF AssessRequest, Assessing, Idle
<1>4. ASSUME NEW a \in Assets, NEW ground \in Grounds
      PROVE  /\ Owes(a, ground)' => Owes(a, ground)
             /\ Noticed(a, ground) => Noticed(a, ground)'
             /\ ~(Carries(req[w], a, ground) /\ Owes(a, ground)')
  BY <1>1 DEF Owes, Noticed, Carries
<1> QED
  BY <1>1, <1>2, <1>3, <1>4, GroundsKept

LEMMA AssessStepInv ==
    AssessInv /\ [ListingNext \/ RiskNext \/ CancellationNext]_<<listingVars, riskVars, req>>
      => AssessInv'
<1> SUFFICES ASSUME AssessInv,
                    [ListingNext \/ RiskNext \/ CancellationNext]_<<listingVars, riskVars, req>>
             PROVE  AssessInv'
  OBVIOUS
<1>1. ASSUME NEW w \in Workers, NEW a \in Assets, SubmitListing(w, a)
      PROVE  AssessInv'
  <2>1. /\ Written(a) /\ req[w] = Idle
        /\ req' = [req EXCEPT ![w] = [op |-> "submitted", a |-> a, grounds |-> contents'[a]]]
    BY <1>1 DEF SubmitListing, Begin
  <2>2. req[w].op \notin Assessing
    BY <2>1 DEF Idle, Assessing
  <2> QED
    BY <2>1, <2>2, ListingWritten
<1>2. ASSUME NEW w \in Workers, EditCommit(w)
      PROVE  AssessInv'
  <2>a. PICK a : a = req[w].a
    OBVIOUS
  <2>1. /\ req[w].op = "edit" /\ Written(a)
        /\ req' = [req EXCEPT ![w] = [op |-> "submitted", a |-> a, grounds |-> contents'[a]]]
    BY <1>2, <2>a DEF EditCommit, Continue
  <2>2. a \in Assets /\ req[w].op \notin Assessing
    BY <2>a, <2>1 DEF AssessInv, AssessRequest, Assessing
  <2> QED
    BY <2>1, <2>2, ListingWritten
<1>3. ASSUME NEW w \in Workers, ListingProgress(w)
      PROVE  AssessInv'
  <2>1. CASE EditCommit(w)
    BY <1>2, <2>1
  <2>2. CASE AssessRead(w) \/ IncidentThere(w) \/ IncidentAbsent(w) \/ CreateIncident(w)
               \/ AssessDone(w)
    BY <2>2, AssessmentStep
  <2>3. CASE /\ RemoveCommit(w) \/ ModerateCommit(w) \/ ListingGone(w) \/ AddFavoriteCommit(w)
             /\ UNCHANGED riskVars
    <3>1. UNCHANGED <<contents, ruleActive, incidents, excused>>
      BY <2>3 DEF riskVars
    <3>2. req' = [req EXCEPT ![w] = Idle] /\ req[w].op \notin Assessing
      BY <2>3 DEF RemoveCommit, ModerateCommit, ListingGone, AddFavoriteCommit, Done, Assessing
    <3>3. Idle.op \in Elsewhere /\ Idle.op # "edit"
      BY DEF Idle, Elsewhere
    <3> QED
      BY <3>1, <3>2, <3>3, OtherRequest
  <2> QED
    BY <1>3, <2>1, <2>2, <2>3 DEF ListingProgress
<1>4. ASSUME NEW w \in Workers, NEW a \in Assets, ListingCall(w, a) \/ RiskCall(w, a)
      PROVE  AssessInv'
  <2>1. CASE SubmitListing(w, a)
    BY <1>1, <2>1
  <2>2. CASE UpdateIncident(w, a)
    BY <2>2, IncidentUpdated
  <2>3. CASE ChangeRule(w)
    <3>1. /\ req' = req /\ contents' = contents /\ incidents' = incidents /\ excused' = Assets
          /\ ruleActive' = (~ruleActive)
      BY <2>3 DEF ChangeRule, AtOnce
    <3>2. (~ruleActive) \in BOOLEAN
      OBVIOUS
    <3>3. RiskRows'
      BY <3>1, <3>2 DEF AssessInv, RiskRows
    <3>4. \A b \in Assets, ground \in Grounds : ~Owes(b, ground)'
      BY <3>1 DEF Owes
    <3> QED
      BY <3>1, <3>3, <3>4 DEF AssessInv, AssessRequest
  <2>4. CASE /\ EditRead(w, a) \/ RemoveRead(w, a) \/ ModerateRead(w, a)
                  \/ AddFavoriteRead(w, a) \/ RemoveFavorite(w, a)
             /\ UNCHANGED riskVars
    <3>1. UNCHANGED <<contents, ruleActive, incidents, excused>>
      BY <2>4 DEF riskVars
    <3> QED
      BY <2>4, <3>1, OtherCalls
  <2> QED
    BY <1>4, <2>1, <2>2, <2>3, <2>4 DEF ListingCall, RiskCall
<1>5. CASE UNCHANGED <<listingVars, riskVars, req>>
  BY <1>5, NobodyBegins DEF riskVars
<1> QED
  BY <1>3, <1>4, <1>5, CancellationApart, AssessmentCutOff
     DEF ListingNext, RiskNext, CancellationNext

----------------------------------------------------------------------------
(* Cancellations.  Once the renter's own reach the threshold an incident   *)
(* is there, or a handler is on its way to it: it has yet to count, or has *)
(* counted enough.  An owner's cancellation is not counted by anybody, so  *)
(* the threshold must be reached without them.                             *)
Counting(q) == q.op = "cancelled" \/ (q.op = "pattern" /\ q.found = TRUE)

CountInv ==
    /\ cancelled \in [renter : Nat, owner : Nat, lost : Nat]
    /\ patterns \in Nat
    /\ req = [w \in Workers |-> req[w]]
    /\ cancelled.renter > 0 /\ cancelled.renter >= Threshold /\ cancelled.lost = 0
          => patterns > 0 \/ \E w \in Workers : Counting(req[w])

LEMMA CountApart ==
    ASSUME CountInv, cancelled' = cancelled, patterns' = patterns,
           req' = [v \in Workers |-> req'[v]],
           \A v \in Workers : Counting(req[v]) => Counting(req'[v])
    PROVE  CountInv'
  BY DEF CountInv, Counting

\* A handler that is not counting begins, goes on or ends.
LEMMA NotCounting ==
    ASSUME CountInv, cancelled' = cancelled, patterns' = patterns,
           NEW w \in Workers, NEW q, req' = [req EXCEPT ![w] = q],
           ~Counting(req[w])
    PROVE  CountInv'
<1>1. req' = [v \in Workers |-> req'[v]] /\ \A v \in Workers \ {w} : req'[v] = req[v]
  BY WorkerMoves DEF CountInv
<1> QED
  BY <1>1, CountApart

LEMMA CountStepInv ==
    CountInv /\ [ListingNext \/ RiskNext \/ CancellationNext]_<<listingVars, riskVars, req>>
      => CountInv'
<1> SUFFICES ASSUME CountInv,
                    [ListingNext \/ RiskNext \/ CancellationNext]_<<listingVars, riskVars, req>>
             PROVE  CountInv'
  OBVIOUS
<1>i. ~Counting(Idle)
  BY DEF Counting, Idle
<1>1. ASSUME NEW w \in Workers, ListingProgress(w)
      PROVE  CountInv'
  <2>1. cancelled' = cancelled /\ patterns' = patterns
    BY <1>1 DEF ListingProgress, EditCommit, Written, AssessRead, IncidentThere, IncidentAbsent,
                CreateIncident, AssessDone, riskVars
  <2>2. ~Counting(req[w])
    BY <1>1 DEF ListingProgress, EditCommit, AssessRead, IncidentThere, IncidentAbsent,
                CreateIncident, AssessDone, RemoveCommit, ModerateCommit, ListingGone,
                AddFavoriteCommit, Counting
  <2>3. PICK q : req' = [req EXCEPT ![w] = q]
    <3>1. CASE EditCommit(w)
      BY <3>1 DEF EditCommit, Continue
    <3>2. CASE AssessRead(w) \/ IncidentThere(w) \/ IncidentAbsent(w) \/ CreateIncident(w)
      BY <3>2 DEF AssessRead, IncidentThere, IncidentAbsent, CreateIncident, Continue
    <3>3. CASE \/ AssessDone(w) \/ RemoveCommit(w) \/ ModerateCommit(w) \/ ListingGone(w)
               \/ AddFavoriteCommit(w)
      BY <3>3 DEF AssessDone, RemoveCommit, ModerateCommit, ListingGone, AddFavoriteCommit, Done
    <3> QED
      BY <1>1, <3>1, <3>2, <3>3 DEF ListingProgress
  <2> QED
    BY <2>1, <2>2, <2>3, NotCounting
<1>2. ASSUME NEW w \in Workers, NEW a \in Assets, ListingCall(w, a) \/ RiskCall(w, a)
      PROVE  CountInv'
  <2>1. cancelled' = cancelled /\ patterns' = patterns
    BY <1>2 DEF ListingCall, RiskCall, SubmitListing, Written, UpdateIncident, ChangeRule, riskVars
  <2>2. CASE UpdateIncident(w, a) \/ ChangeRule(w) \/ RemoveFavorite(w, a)
    <3>1. req' = req
      BY <2>2 DEF UpdateIncident, ChangeRule, RemoveFavorite, AtOnce
    <3> QED
      BY <2>1, <3>1, CountApart DEF CountInv
  <2>3. CASE \/ SubmitListing(w, a) \/ EditRead(w, a) \/ RemoveRead(w, a) \/ ModerateRead(w, a)
             \/ AddFavoriteRead(w, a)
    <3>1. PICK q : req[w] = Idle /\ req' = [req EXCEPT ![w] = q]
      <4>1. CASE SubmitListing(w, a)
        BY <4>1 DEF SubmitListing, Begin
      <4>2. CASE EditRead(w, a)
        BY <4>2 DEF EditRead, Begin
      <4>3. CASE RemoveRead(w, a)
        BY <4>3 DEF RemoveRead, Begin
      <4>4. CASE ModerateRead(w, a)
        BY <4>4 DEF ModerateRead, Begin
      <4>5. CASE AddFavoriteRead(w, a)
        BY <4>5 DEF AddFavoriteRead, Begin
      <4> QED
        BY <2>3, <4>1, <4>2, <4>3, <4>4, <4>5
    <3> QED
      BY <1>i, <2>1, <3>1, NotCounting
  <2> QED
    BY <1>2, <2>2, <2>3 DEF ListingCall, RiskCall
<1>3. ASSUME NEW w \in Workers, RentalCancelled(w)
      PROVE  CountInv'
  <2>1. CASE /\ AtOnce(w)
             /\ cancelled' = [cancelled EXCEPT !.owner = @ + 1]
    <3>1. req' = req /\ patterns' = patterns
      BY <1>3, <2>1 DEF RentalCancelled, AtOnce
    <3>2. /\ cancelled' \in [renter : Nat, owner : Nat, lost : Nat]
          /\ cancelled'.renter = cancelled.renter /\ cancelled'.lost = cancelled.lost
      BY <2>1 DEF CountInv
    <3> QED
      BY <3>1, <3>2 DEF CountInv, Counting
  <2>2. CASE /\ Begin(w, [op |-> "cancelled"])
             /\ cancelled' = [cancelled EXCEPT !.renter = @ + 1]
    <3>q. PICK q : q = [op |-> "cancelled"]
      OBVIOUS
    <3>1. req' = [req EXCEPT ![w] = q] /\ patterns' = patterns
      BY <1>3, <2>2, <3>q DEF RentalCancelled, Begin
    <3>2. cancelled' \in [renter : Nat, owner : Nat, lost : Nat]
      BY <2>2 DEF CountInv
    <3>3. req' = [v \in Workers |-> req'[v]] /\ req'[w] = q
      BY <3>1, WorkerMoves DEF CountInv
    <3>4. Counting(q)
      BY <3>q DEF Counting
    <3> QED
      BY <3>1, <3>2, <3>3, <3>4 DEF CountInv, Counting
  <2> QED
    BY <1>3, <2>1, <2>2 DEF RentalCancelled
<1>4. ASSUME NEW w \in Workers, CountCancelled(w)
      PROVE  CountInv'
  <2>q. PICK q : q = [op |-> "pattern",
                      found |-> cancelled.renter + cancelled.owner >= Threshold]
    OBVIOUS
  <2>1. req' = [req EXCEPT ![w] = q] /\ cancelled' = cancelled /\ patterns' = patterns
    BY <1>4, <2>q DEF CountCancelled, Continue, riskVars
  <2>2. /\ req' = [v \in Workers |-> req'[v]]
        /\ req'[w] = q /\ \A v \in Workers \ {w} : req'[v] = req[v]
    BY <2>1, WorkerMoves DEF CountInv
  <2>3. CASE cancelled.renter >= Threshold
    <3>1. cancelled.renter + cancelled.owner >= Threshold
      BY <2>3, ThresholdAssumption DEF CountInv
    <3>2. Counting(q)
      BY <2>q, <3>1 DEF Counting
    <3> QED
      BY <2>1, <2>2, <3>2, CountApart
  <2>4. CASE ~(cancelled.renter >= Threshold)
    BY <2>1, <2>2, <2>4 DEF CountInv
  <2> QED
    BY <2>3, <2>4
<1>5. ASSUME NEW w \in Workers, NotePattern(w)
      PROVE  CountInv'
  <2>1. req[w].op = "pattern" /\ req' = [req EXCEPT ![w] = Idle] /\ cancelled' = cancelled
    BY <1>5 DEF NotePattern, Done
  <2>2. CASE req[w].found = TRUE
    <3>1. patterns' \in Nat /\ patterns' > 0
      BY <1>5, <2>2 DEF NotePattern, CountInv
    <3>2. req' = [v \in Workers |-> req'[v]]
      BY <2>1, WorkerMoves DEF CountInv
    <3> QED
      BY <2>1, <3>1, <3>2 DEF CountInv
  <2>3. CASE req[w].found # TRUE
    <3>1. ~Counting(req[w])
      BY <2>1, <2>3 DEF Counting
    <3>2. patterns' = patterns
      BY <1>5, <2>3 DEF NotePattern
    <3> QED
      BY <2>1, <3>1, <3>2, NotCounting
  <2> QED
    BY <2>2, <2>3
<1>6. ASSUME NEW w \in Workers, RiskAbort(w)
      PROVE  CountInv'
  <2>1. req' = [req EXCEPT ![w] = Idle] /\ patterns' = patterns
    BY <1>6 DEF RiskAbort, Done
  <2>2. CASE req[w].op \in {"cancelled", "pattern"}
    <3>1. cancelled' = [cancelled EXCEPT !.lost = @ + 1]
      BY <1>6, <2>2 DEF RiskAbort
    <3>2. cancelled' \in [renter : Nat, owner : Nat, lost : Nat] /\ cancelled'.lost # 0
      BY <3>1 DEF CountInv
    <3>3. req' = [v \in Workers |-> req'[v]]
      BY <2>1, WorkerMoves DEF CountInv
    <3> QED
      BY <2>1, <3>2, <3>3 DEF CountInv
  <2>3. CASE req[w].op \notin {"cancelled", "pattern"}
    <3>1. cancelled' = cancelled /\ ~Counting(req[w])
      BY <1>6, <2>3 DEF RiskAbort, Counting
    <3> QED
      BY <2>1, <3>1, NotCounting
  <2> QED
    BY <2>2, <2>3
<1>7. CASE UNCHANGED <<listingVars, riskVars, req>>
  BY <1>7, CountApart DEF CountInv, riskVars
<1> QED
  BY <1>1, <1>2, <1>3, <1>4, <1>5, <1>6, <1>7 DEF ListingNext, RiskNext, CancellationNext

\* Once the requests are over, a ground has its incident and the threshold
\* its pattern, unless the assessment was cut off or the rule changed since
\* (risk.service.ts assessAssetSubmission, assessCancellationPattern).
THEOREM Noticing == RiskSpec => []RiskNoticed
<1>1. RiskInit /\ req = [w \in Workers |-> Idle] => AssessInv /\ CountInv
  <2> SUFFICES ASSUME RiskInit, req = [w \in Workers |-> Idle] PROVE AssessInv /\ CountInv
    OBVIOUS
  <2>1. RiskRows
    <3>1. <<>> \in Seq([ground : Grounds, status : IncidentStatus])
      OBVIOUS
    <3>2. incidents \in [Assets -> Seq([ground : Grounds, status : IncidentStatus])]
      BY <3>1 DEF RiskInit
    <3> QED
      BY <3>2 DEF RiskInit, RiskRows
  <2>2. \A a \in Assets, ground \in Grounds : ~Owes(a, ground)
    BY DEF RiskInit, Owes
  <2>3. AssessRequest(Idle)
    BY DEF AssessRequest, Assessing, Idle
  <2>4. AssessInv
    BY <2>1, <2>2, <2>3 DEF AssessInv
  <2>5. CountInv
    BY DEF RiskInit, CountInv
  <2> QED
    BY <2>4, <2>5
<1>2. AssessInv /\ CountInv => RiskNoticed
  <2> SUFFICES ASSUME AssessInv, CountInv PROVE RiskNoticed
    OBVIOUS
  <2>1. ASSUME NEW a \in Assets \ excused, NEW ground \in contents[a],
               ground = "prohibited" => ruleActive,
               \A w \in Workers : req[w].op \notin Assessing
        PROVE  Noticed(a, ground)
    <3>1. ground \in Grounds
      BY DEF AssessInv, RiskRows
    <3>2. \A w \in Workers : ~Carries(req[w], a, ground)
      BY <2>1 DEF Carries
    <3> QED
      BY <2>1, <3>1, <3>2 DEF AssessInv, Owes
  <2>2. (\A w \in Workers : req[w].op \notin {"cancelled", "pattern"})
          => \A w \in Workers : ~Counting(req[w])
    BY DEF Counting
  <2> QED
    BY <2>1, <2>2 DEF RiskNoticed, Noticed, Assessing, CountInv
<1> QED
  BY <1>1, <1>2, AssessStepInv, CountStepInv, PTL DEF RiskSpec

----------------------------------------------------------------------------
(* Reminders.  The job beside which no other was at work is alone, so what *)
(* it did not find is still not there when it inserts.                     *)
AtReminders(q) == q.op \in {"remind", "remindCreate", "announce"}

ReminderRequest(q) ==
    /\ q.op \in {"remind", "remindCreate"} =>
          q.type \in ReminderType /\ q.left \subseteq Recipients /\ q.since \in Int
    /\ q.op = "remindCreate" => q.u \in Recipients

Alone ==
    /\ \A v, w \in Workers :
          AtReminders(req[v]) /\ AtReminders(req[w]) /\ w \notin company => v = w
    /\ \A w \in Workers : req[w].op = "remindCreate" /\ w \notin company =>
          \A t \in reminded[req[w].u][req[w].type] : t < req[w].since

ReminderInv ==
    /\ due \in ReminderType
    /\ now \in Int
    /\ reminded \in [Recipients -> [ReminderType -> SUBSET Int]]
    /\ req = [w \in Workers |-> req[w]]
    /\ \A w \in Workers : ReminderRequest(req[w])
    /\ Alone

\* A job goes on, and neither the reminders nor the history change.
LEMMA JobGoesOn ==
    ASSUME ReminderInv, NEW w \in Workers, NEW q,
           req' = [req EXCEPT ![w] = q],
           due' = due, now' = now, reminded' = reminded, company' = company,
           AtReminders(q) => AtReminders(req[w]),
           ReminderRequest(q),
           q.op = "remindCreate" => \A t \in reminded[q.u][q.type] : t < q.since
    PROVE  ReminderInv'
<1>1. /\ req' = [v \in Workers |-> req'[v]]
      /\ req'[w] = q /\ \A v \in Workers \ {w} : req'[v] = req[v]
  BY WorkerMoves DEF ReminderInv
<1>2. \A v \in Workers : ReminderRequest(req'[v])
  BY <1>1 DEF ReminderInv
<1>3. Alone'
  <2>1. \A v \in Workers : AtReminders(req'[v]) => AtReminders(req[v])
    BY <1>1
  <2>2. \A v, x \in Workers :
           AtReminders(req'[v]) /\ AtReminders(req'[x]) /\ x \notin company' => v = x
    BY <2>1 DEF ReminderInv, Alone
  <2>3. \A v \in Workers : req'[v].op = "remindCreate" /\ v \notin company' =>
           \A t \in reminded'[req'[v].u][req'[v].type] : t < req'[v].since
    BY <1>1 DEF ReminderInv, Alone
  <2> QED
    BY <2>2, <2>3 DEF Alone, AtReminders
<1> QED
  BY <1>1, <1>2, <1>3 DEF ReminderInv, ReminderRequest

LEMMA ReminderStepInv == ReminderInv /\ [ReminderNext]_<<reminderVars, req>> => ReminderInv'
<1> SUFFICES ASSUME ReminderInv, [ReminderNext]_<<reminderVars, req>>
             PROVE  ReminderInv'
  OBVIOUS
<1>i. ReminderRequest(Idle) /\ ~AtReminders(Idle) /\ Idle.op # "remindCreate"
  BY DEF ReminderRequest, AtReminders, Idle
<1>1. ASSUME NEW w \in Workers, ReminderCall(w)
      PROVE  ReminderInv'
  <2>1. ASSUME req' = req, reminded' = reminded, company' = company,
               due' \in ReminderType, now' \in Int
        PROVE  ReminderInv'
    <3>1. Alone'
      BY <2>1 DEF ReminderInv, Alone, AtReminders
    <3> QED
      BY <2>1, <3>1 DEF ReminderInv, ReminderRequest
  <2>2. CASE RentalGoesOn \/ ClockTicks \/ \E u \in Recipients : ReviewReceived(w, u)
    <3>1. req' = req /\ reminded' = reminded /\ company' = company
      BY <2>2 DEF RentalGoesOn, ClockTicks, ReviewReceived, AtOnce
    <3>2. due' \in ReminderType /\ now' \in Int
      BY <2>2 DEF RentalGoesOn, ClockTicks, ReviewReceived, ReminderInv, ReminderType
    <3> QED
      BY <2>1, <3>1, <3>2
  <2>3. CASE RunReminderJobs(w)
    <3>0. PICK reference \in Clock : \E to \in DueBy(reference) :
              Begin(w, [op |-> "remind", type |-> due, since |-> reference - Window,
                        left |-> to, made |-> FALSE])
      BY <2>3 DEF RunReminderJobs
    <3>1. PICK to \in DueBy(reference) :
              Begin(w, [op |-> "remind", type |-> due, since |-> reference - Window,
                        left |-> to, made |-> FALSE])
      BY <3>0
    <3>q. PICK q : q = [op |-> "remind", type |-> due, since |-> reference - Window,
                        left |-> to, made |-> FALSE]
      OBVIOUS
    <3>o. PICK others : others = {v \in Workers : AtReminders(req[v])}
      OBVIOUS
    <3>2. /\ req' = [req EXCEPT ![w] = q]
          /\ due' = due /\ now' = now /\ reminded' = reminded
          /\ company' = IF others = {} THEN company \ {w} ELSE company \cup others \cup {w}
      BY <2>3, <3>1, <3>q, <3>o DEF RunReminderJobs, Begin, Reminding, AtReminders
    <3>3. /\ req' = [v \in Workers |-> req'[v]]
          /\ req'[w] = q /\ \A v \in Workers \ {w} : req'[v] = req[v]
      BY <3>2, WorkerMoves DEF ReminderInv
    <3>4. ReminderRequest(q) /\ q.op # "remindCreate"
      <4>1. to \subseteq Recipients
        BY <3>1 DEF DueBy
      <4>2. reference - Window \in Int
        BY <3>1, ReminderAssumption DEF Clock
      <4> QED
        BY <3>q, <4>1, <4>2 DEF ReminderRequest, ReminderInv
    <3>5. Alone'
      <4>1. CASE others = {}
        <5>1. \A v \in Workers \ {w} : ~AtReminders(req'[v]) /\ req'[v].op # "remindCreate"
          BY <3>3, <3>o, <4>1 DEF AtReminders
        <5> QED
          BY <3>3, <3>4, <5>1 DEF Alone, AtReminders
      <4>2. CASE others # {}
        <5>1. \A v \in Workers : AtReminders(req'[v]) => v \in company'
          BY <3>2, <3>3, <3>o, <4>2
        <5> QED
          BY <5>1 DEF Alone, AtReminders
      <4> QED
        BY <4>1, <4>2
    <3> QED
      BY <3>2, <3>3, <3>4, <3>5 DEF ReminderInv, ReminderRequest
  <2> QED
    BY <1>1, <2>2, <2>3 DEF ReminderCall
<1>2. ASSUME NEW w \in Workers, NEW u \in Recipients, SkipRecipient(w, u)
      PROVE  ReminderInv'
  <2>q. PICK q : q = [req[w] EXCEPT !.left = @ \ {u}]
    OBVIOUS
  <2>1. /\ req' = [req EXCEPT ![w] = q] /\ req[w].op = "remind"
        /\ due' = due /\ now' = now /\ reminded' = reminded /\ company' = company
    BY <1>2, <2>q DEF SkipRecipient, Continue, reminderVars
  <2>2. ReminderRequest(req[w])
    BY DEF ReminderInv
  <2>3. ReminderRequest(q) /\ q.op = "remind"
    BY <2>q, <2>1, <2>2 DEF ReminderRequest
  <2> QED
    BY <2>1, <2>3, JobGoesOn DEF AtReminders
<1>3. ASSUME NEW w \in Workers, NEW u \in Recipients, NoNoticeYet(w, u)
      PROVE  ReminderInv'
  <2>q. PICK q : q = [op |-> "remindCreate", type |-> req[w].type, since |-> req[w].since,
                      u |-> u, left |-> req[w].left \ {u}, made |-> req[w].made]
    OBVIOUS
  <2>1. /\ req' = [req EXCEPT ![w] = q] /\ req[w].op = "remind"
        /\ ~Duplicate(u, req[w].type, req[w].since)
        /\ due' = due /\ now' = now /\ reminded' = reminded /\ company' = company
    BY <1>3, <2>q DEF NoNoticeYet, Continue, reminderVars
  <2>2. /\ req[w].type \in ReminderType /\ req[w].left \subseteq Recipients
        /\ req[w].since \in Int
    BY <2>1 DEF ReminderInv, ReminderRequest
  <2>3. /\ q.op = "remindCreate" /\ q.u = u /\ q.type = req[w].type
        /\ q.since = req[w].since /\ ReminderRequest(q)
    BY <2>q, <2>2 DEF ReminderRequest
  <2>4. \A t \in reminded[u][req[w].type] : t < req[w].since
    <3>1. reminded[u][req[w].type] \subseteq Int
      BY <2>2 DEF ReminderInv
    <3>2. \A t \in reminded[u][req[w].type] : ~(t >= req[w].since)
      BY <2>1 DEF Duplicate
    <3> QED
      BY <2>2, <3>1, <3>2
  <2> QED
    BY <2>1, <2>3, <2>4, JobGoesOn DEF AtReminders
<1>4. ASSUME NEW w \in Workers, CreateReminder(w)
      PROVE  ReminderInv'
  <2>u. PICK u : u = req[w].u
    OBVIOUS
  <2>t. PICK type : type = req[w].type
    OBVIOUS
  <2>q. PICK q : q = [op |-> "remind", type |-> type, since |-> req[w].since,
                      left |-> req[w].left, made |-> TRUE]
    OBVIOUS
  <2>1. /\ req[w].op = "remindCreate" /\ req' = [req EXCEPT ![w] = q]
        /\ reminded' = [reminded EXCEPT ![u][type] = {now}]
        /\ due' = due /\ now' = now /\ company' = company
    BY <1>4, <2>u, <2>t, <2>q DEF CreateReminder, Continue
  <2>2. /\ u \in Recipients /\ type \in ReminderType /\ req[w].left \subseteq Recipients
        /\ req[w].since \in Int
    BY <2>u, <2>t, <2>1 DEF ReminderInv, ReminderRequest
  <2>3. ReminderRequest(q) /\ q.op = "remind"
    BY <2>q, <2>2 DEF ReminderRequest
  <2>4. /\ req' = [v \in Workers |-> req'[v]]
        /\ req'[w] = q /\ \A v \in Workers \ {w} : req'[v] = req[v]
    BY <2>1, WorkerMoves DEF ReminderInv
  <2>5. reminded' \in [Recipients -> [ReminderType -> SUBSET Int]]
    BY <2>1, <2>2 DEF ReminderInv
  <2>6. Alone'
    <3>1. \A v \in Workers : AtReminders(req'[v]) => AtReminders(req[v])
      BY <2>1, <2>4 DEF AtReminders
    <3>2. \A v \in Workers \ {w} : AtReminders(req'[v]) => v \in company
      BY <2>1, <3>1 DEF ReminderInv, Alone, AtReminders
    <3>3. \A v \in Workers : req'[v].op = "remindCreate" => v \in company'
      BY <2>1, <2>3, <2>4, <3>2 DEF AtReminders
    <3>4. \A v, x \in Workers :
             AtReminders(req'[v]) /\ AtReminders(req'[x]) /\ x \notin company' => v = x
      BY <2>1, <3>1 DEF ReminderInv, Alone
    <3> QED
      BY <3>3, <3>4 DEF Alone, AtReminders
  <2> QED
    BY <2>1, <2>3, <2>4, <2>5, <2>6 DEF ReminderInv, ReminderRequest
<1>5. ASSUME NEW w \in Workers, RecipientsDone(w)
      PROVE  ReminderInv'
  <2>1. /\ req[w].op = "remind"
        /\ due' = due /\ now' = now /\ reminded' = reminded /\ company' = company
    BY <1>5 DEF RecipientsDone, reminderVars
  <2>2. CASE req' = [req EXCEPT ![w] = Idle]
    BY <1>i, <2>1, <2>2, JobGoesOn
  <2>3. CASE Continue(w, [op |-> "announce", since |-> req[w].since])
    <3>q. PICK q : q = [op |-> "announce", since |-> req[w].since]
      OBVIOUS
    <3>1. req' = [req EXCEPT ![w] = q] /\ q.op # "remindCreate" /\ ReminderRequest(q)
      BY <2>3, <3>q DEF Continue, ReminderRequest
    <3> QED
      BY <2>1, <3>1, JobGoesOn DEF AtReminders
  <2> QED
    BY <1>5, <2>2, <2>3 DEF RecipientsDone, Done
<1>6. ASSUME NEW w \in Workers, Announce(w) \/ ReminderAbort(w)
      PROVE  ReminderInv'
  <2>1. /\ req' = [req EXCEPT ![w] = Idle]
        /\ due' = due /\ now' = now /\ reminded' = reminded /\ company' = company
    BY <1>6 DEF Announce, ReminderAbort, Done, reminderVars
  <2> QED
    BY <1>i, <2>1, JobGoesOn
<1>7. CASE UNCHANGED <<reminderVars, req>>
  BY <1>7 DEF reminderVars, ReminderInv, ReminderRequest, Alone, AtReminders
<1> QED
  BY <1>1, <1>2, <1>3, <1>4, <1>5, <1>6, <1>7 DEF ReminderNext, ReminderProgress

\* A job beside which no other was at work makes no reminder within the time it
\* looks back to, wherever an earlier job was cut off and whatever the reference
\* dates (notifications.service.ts createManyUnique).
THEOREM Reminders == ReminderSpec => RemindedOnce
<1>1. ReminderInit /\ req = [w \in Workers |-> Idle] => ReminderInv
  <2> SUFFICES ASSUME ReminderInit, req = [w \in Workers |-> Idle] PROVE ReminderInv
    OBVIOUS
  <2>1. ReminderRequest(Idle) /\ ~AtReminders(Idle) /\ Idle.op # "remindCreate"
    BY DEF ReminderRequest, AtReminders, Idle
  <2>2. Alone
    BY <2>1 DEF Alone
  <2> QED
    BY <2>1, <2>2 DEF ReminderInit, ReminderInv, ReminderType
<1>2. ReminderInv =>
         \A w \in Workers : Reminds(w) /\ w \notin company =>
             \A t \in reminded[req[w].u][req[w].type] : t < req[w].since
  BY DEF ReminderInv, Alone, Reminds
<1> QED
  BY <1>1, <1>2, ReminderStepInv, PTL DEF ReminderSpec, RemindedOnce

----------------------------------------------------------------------------
(* Desks.  A desk and its service look at the same row; what the one       *)
(* offers the other accepts for every status a row may have.               *)
ListingRequest(q) == q.op \in {"edit", "moderate"} => q.next \in AssetStatus

ListingTyped == listing \in [Assets -> AssetStatus \cup {NoRow}]

ListingInv ==
    /\ ListingTyped
    /\ req = [w \in Workers |-> req[w]]
    /\ \A w \in Workers : ListingRequest(req[w])

LEMMA DesksOpen == ListingTyped => DesksServe
<1> SUFFICES ASSUME ListingTyped PROVE DesksServe
  OBVIOUS
<1>1. \A u \in PendingKyc : KycDesk(u) # {}
  BY DEF PendingKyc, KycDesk
<1>2. \A a \in PendingListings : {"ACTIVE", "REJECTED"} \subseteq ListingDesk(a)
  BY DEF PendingListings, ListingDesk
<1>3. \A p \in OpenReports : ReportDesk(p) # {}
  <2> SUFFICES ASSUME NEW p \in OpenReports PROVE ReportDesk(p) # {}
    OBVIOUS
  <2>1. reports[p].status = "OPEN" /\ NoReport.status = NoRow
    BY DEF OpenReports, NoReport
  <2>2. ReportDesk(p) = ReportStatus \ {"OPEN"}
    BY <2>1 DEF ReportDesk, TerminalReport, NoRow
  <2> QED
    BY <2>2 DEF ReportStatus
<1>4. \A t \in Trips : \A verdict \in ReviewDesk(t) : ReviewStatusAccepted(t, verdict)
  <2> SUFFICES ASSUME NEW t \in Trips, NEW verdict \in ReviewDesk(t)
               PROVE  ReviewStatusAccepted(t, verdict)
    OBVIOUS
  <2>1. verdict \in {"PUBLISHED", "HIDDEN"}
    BY DEF ReviewDesk
  <2>2. \E i \in 1 .. Len(reviews[t]) : TRUE
    BY DEF ReviewDesk
  <2>3. reviews[t] # <<>>
    BY <2>2
  <2> QED
    BY <2>1, <2>3 DEF ReviewStatusAccepted, Showable
<1>5. ASSUME NEW u \in Users
      PROVE  /\ \A verdict \in UserDesk(u) : StatusAccepted(u, verdict)
             /\ identity[u].files # 0 =>
                   \A verdict \in KycDesk(u) : ReviewAccepted(u, verdict)
  <2>1. \A verdict \in UserDesk(u) : StatusAccepted(u, verdict)
    <3>1. CASE account[u] = NoRow
      BY <3>1 DEF UserDesk, NoRow
    <3>2. CASE account[u] # NoRow
      <4>1. UserDesk(u) \subseteq UserStatus
        <5>1. CASE account[u] = "ACTIVE"
          BY <3>2, <5>1 DEF UserDesk, UserStatus, NoRow
        <5>2. CASE account[u] # "ACTIVE"
          BY <3>2, <5>2 DEF UserDesk, UserStatus, NoRow
        <5> QED
          BY <5>1, <5>2
      <4> QED
        BY <3>2, <4>1 DEF StatusAccepted, Settable
    <3> QED
      BY <3>1, <3>2
  <2>2. identity[u].files # 0 => \A verdict \in KycDesk(u) : ReviewAccepted(u, verdict)
    BY DEF KycDesk, ReviewAccepted, Givable, VerificationStatus, NoRow
  <2> QED
    BY <2>1, <2>2
<1>6. ASSUME NEW a \in Assets, NEW verdict \in ListingDesk(a)
      PROVE  ModerationAccepted(a, verdict)
  <2>1. listing[a] \in AssetStatus \cup {NoRow}
    BY DEF ListingTyped
  <2>2. CASE verdict = "ARCHIVED"
    BY <1>6, <2>1, <2>2 DEF ListingDesk, ModerationAccepted, Removable
  <2>3. CASE verdict # "ARCHIVED"
    BY <1>6, <2>1, <2>3 DEF ListingDesk, ModerationAccepted, Moderatable, Verdicts, AssetStatus
  <2> QED
    BY <2>2, <2>3
<1>7. \A p \in Reports : \A verdict \in ReportDesk(p) : ReportAccepted(p, verdict)
  BY DEF ReportDesk, ReportAccepted, Decidable
<1> QED
  BY <1>1, <1>2, <1>3, <1>4, <1>5, <1>6, <1>7 DEF DesksServe

\* A handler goes on with a request that will write no status, or a good one.
LEMMA ListingMoves ==
    ASSUME ListingInv, NEW w \in Workers, NEW q, req' = [req EXCEPT ![w] = q],
           ListingRequest(q), ListingTyped'
    PROVE  ListingInv'
<1>1. /\ req' = [v \in Workers |-> req'[v]]
      /\ req'[w] = q /\ \A v \in Workers \ {w} : req'[v] = req[v]
  BY WorkerMoves DEF ListingInv
<1> QED
  BY <1>1 DEF ListingInv

LEMMA ListingSet ==
    ASSUME ListingInv, NEW a, NEW s \in AssetStatus, listing' = [listing EXCEPT ![a] = s]
    PROVE  ListingTyped'
  BY DEF ListingInv, ListingTyped

LEMMA ListingKept == ASSUME ListingInv, listing' = listing PROVE ListingTyped'
  BY DEF ListingInv, ListingTyped

\* Calls of the owner, the staff and the visitors.
LEMMA ListingCalled ==
    ASSUME ListingInv, NEW w \in Workers, NEW a \in Assets,
           ListingCall(w, a) \/ RiskCall(w, a)
    PROVE  ListingInv'
<1>1. CASE SubmitListing(w, a)
  <2>q. PICK q : q = [op |-> "submitted", a |-> a, grounds |-> contents'[a]]
    OBVIOUS
  <2>1. req' = [req EXCEPT ![w] = q] /\ listing' = [listing EXCEPT ![a] = "PENDING_REVIEW"]
    BY <1>1, <2>q DEF SubmitListing, CreateListing, Begin
  <2>2. ListingRequest(q)
    BY <2>q DEF ListingRequest
  <2>3. ListingTyped'
    BY <2>1, ListingSet DEF AssetStatus
  <2> QED
    BY <2>1, <2>2, <2>3, ListingMoves
<1>2. CASE EditRead(w, a)
  <2>q. PICK q : q = [op |-> "edit", a |-> a, next |-> Edited(listing[a])]
    OBVIOUS
  <2>1. req' = [req EXCEPT ![w] = q] /\ listing' = listing /\ Editors(a) # {}
    BY <1>2, <2>q DEF EditRead, Begin, listingVars
  <2>2. listing[a] \in AssetStatus
    <3>1. listing[a] # NoRow
      BY <2>1 DEF Editors, NoRow
    <3> QED
      BY <3>1 DEF ListingInv, ListingTyped
  <2>3. ListingRequest(q)
    BY <2>q, <2>2 DEF ListingRequest, Edited, AssetStatus
  <2> QED
    BY <2>1, <2>3, ListingKept, ListingMoves
<1>3. CASE RemoveRead(w, a)
  <2>q. PICK q : q = [op |-> "remove", a |-> a]
    OBVIOUS
  <2>1. req' = [req EXCEPT ![w] = q] /\ listing' = listing
    BY <1>3, <2>q DEF RemoveRead, Begin, listingVars
  <2>2. ListingRequest(q)
    BY <2>q DEF ListingRequest
  <2> QED
    BY <2>1, <2>2, ListingKept, ListingMoves
<1>4. CASE ModerateRead(w, a)
  <2>1. PICK verdict \in Verdicts :
            Begin(w, [op |-> "moderate", a |-> a, next |-> verdict])
    BY <1>4 DEF ModerateRead, Moderatable
  <2>q. PICK q : q = [op |-> "moderate", a |-> a, next |-> verdict]
    OBVIOUS
  <2>2. req' = [req EXCEPT ![w] = q] /\ listing' = listing
    BY <1>4, <2>1, <2>q DEF ModerateRead, Begin, listingVars
  <2>3. ListingRequest(q)
    BY <2>1, <2>q DEF ListingRequest, Verdicts, AssetStatus
  <2> QED
    BY <2>2, <2>3, ListingKept, ListingMoves
<1>5. CASE AddFavoriteRead(w, a)
  <2>q. PICK q : q = [op |-> "favorite", a |-> a]
    OBVIOUS
  <2>1. req' = [req EXCEPT ![w] = q] /\ listing' = listing
    BY <1>5, <2>q DEF AddFavoriteRead, Begin, listingVars
  <2>2. ListingRequest(q)
    BY <2>q DEF ListingRequest
  <2> QED
    BY <2>1, <2>2, ListingKept, ListingMoves
<1>6. CASE RemoveFavorite(w, a) \/ UpdateIncident(w, a) \/ ChangeRule(w)
  <2>1. req' = req /\ listing' = listing
    BY <1>6 DEF RemoveFavorite, UpdateIncident, ChangeRule, AtOnce, listingVars
  <2> QED
    BY <2>1 DEF ListingInv, ListingTyped
<1> QED
  BY <1>1, <1>2, <1>3, <1>4, <1>5, <1>6 DEF ListingCall, RiskCall

\* The steps of the handlers, and of the assessment behind them.
LEMMA ListingProgressed ==
    ASSUME ListingInv, NEW w \in Workers,
           \/ ListingProgress(w) \/ RiskAbort(w)
           \/ RentalCancelled(w) \/ CountCancelled(w) \/ NotePattern(w)
    PROVE  ListingInv'
<1>1. ListingRequest(Idle)
  BY DEF ListingRequest, Idle
<1>2. CASE EditCommit(w)
  <2>q. PICK q : q = [op |-> "submitted", a |-> req[w].a, grounds |-> contents'[req[w].a]]
    OBVIOUS
  <2>1. /\ req' = [req EXCEPT ![w] = q] /\ req[w].op = "edit"
        /\ listing' = [listing EXCEPT ![req[w].a] = req[w].next]
    BY <1>2, <2>q DEF EditCommit, EditWrites, Continue
  <2>2. ListingRequest(q)
    BY <2>q DEF ListingRequest
  <2>3. req[w].next \in AssetStatus
    BY <2>1 DEF ListingInv, ListingRequest
  <2> QED
    BY <2>1, <2>2, <2>3, ListingSet, ListingMoves
<1>3. CASE RemoveCommit(w) \/ ModerateCommit(w)
  <2>1. /\ req' = [req EXCEPT ![w] = Idle]
        /\ \E s \in AssetStatus : listing' = [listing EXCEPT ![req[w].a] = s]
    BY <1>3 DEF RemoveCommit, ModerateCommit, SetListing, Done, ListingInv, ListingRequest,
                AssetStatus
  <2> QED
    BY <1>1, <2>1, ListingSet, ListingMoves
<1>4. CASE ListingGone(w) \/ AddFavoriteCommit(w) \/ AssessDone(w) \/ RiskAbort(w) \/ NotePattern(w)
  <2>1. req' = [req EXCEPT ![w] = Idle] /\ listing' = listing
    BY <1>4 DEF ListingGone, AddFavoriteCommit, AssessDone, RiskAbort, NotePattern, Done,
                listingVars
  <2> QED
    BY <1>1, <2>1, ListingKept, ListingMoves
<1>5. CASE AssessRead(w)
  <2>q. PICK q : q = [op |-> "assess", a |-> req[w].a,
                      grounds |-> IF ruleActive THEN req[w].grounds
                                  ELSE req[w].grounds \ {"prohibited"}]
    OBVIOUS
  <2>1. req' = [req EXCEPT ![w] = q] /\ listing' = listing
    BY <1>5, <2>q DEF AssessRead, Continue, listingVars
  <2>2. ListingRequest(q)
    BY <2>q DEF ListingRequest
  <2> QED
    BY <2>1, <2>2, ListingKept, ListingMoves
<1>6. CASE IncidentThere(w)
  <2>q. PICK q : q = [req[w] EXCEPT !.grounds = @ \ {Ground(req[w])}]
    OBVIOUS
  <2>1. req' = [req EXCEPT ![w] = q] /\ listing' = listing /\ req[w].op = "assess"
    BY <1>6, <2>q DEF IncidentThere, Continue, listingVars
  <2>2. ListingRequest(q)
    BY <2>q, <2>1 DEF ListingRequest
  <2> QED
    BY <2>1, <2>2, ListingKept, ListingMoves
<1>7. CASE IncidentAbsent(w)
  <2>q. PICK q : q = [req[w] EXCEPT !.op = "incident"]
    OBVIOUS
  <2>1. req' = [req EXCEPT ![w] = q] /\ listing' = listing
    BY <1>7, <2>q DEF IncidentAbsent, Continue, listingVars
  <2>2. ListingRequest(q)
    BY <2>q DEF ListingRequest
  <2> QED
    BY <2>1, <2>2, ListingKept, ListingMoves
<1>8. CASE CreateIncident(w)
  <2>q. PICK q : q = [req[w] EXCEPT !.op = "assess", !.grounds = @ \ {Ground(req[w])}]
    OBVIOUS
  <2>1. req' = [req EXCEPT ![w] = q] /\ listing' = listing
    BY <1>8, <2>q DEF CreateIncident, Continue, listingVars
  <2>2. ListingRequest(q)
    BY <2>q DEF ListingRequest
  <2> QED
    BY <2>1, <2>2, ListingKept, ListingMoves
<1>9. CASE RentalCancelled(w)
  <2>q. PICK q : q = [op |-> "cancelled"]
    OBVIOUS
  <2>1. (req' = req \/ req' = [req EXCEPT ![w] = q]) /\ listing' = listing
    BY <1>9, <2>q DEF RentalCancelled, Begin, AtOnce, listingVars
  <2>2. ListingRequest(q)
    BY <2>q DEF ListingRequest
  <2>3. CASE req' = req
    BY <2>1, <2>3 DEF ListingInv, ListingTyped
  <2> QED
    BY <2>1, <2>2, <2>3, ListingKept, ListingMoves
<1>10. CASE CountCancelled(w)
  <2>q. PICK q : q = [op |-> "pattern",
                      found |-> cancelled.renter + cancelled.owner >= Threshold]
    OBVIOUS
  <2>1. req' = [req EXCEPT ![w] = q] /\ listing' = listing
    BY <1>10, <2>q DEF CountCancelled, Continue, listingVars
  <2>2. ListingRequest(q)
    BY <2>q DEF ListingRequest
  <2> QED
    BY <2>1, <2>2, ListingKept, ListingMoves
<1> QED
  BY <1>2, <1>3, <1>4, <1>5, <1>6, <1>7, <1>8, <1>9, <1>10 DEF ListingProgress

\* Whatever a desk of the back office offers, its service accepts, and what
\* waits is offered a decision: while listings are edited, removed, moderated
\* and assessed, and while reports are decided with their sanctions; whatever
\* the rows of the other services hold.
THEOREM Desks == RiskSpec \/ ReportSpec => []DesksServe
<1>1. ASSUME ListingInv,
             [ListingNext \/ RiskNext \/ CancellationNext]_<<listingVars, riskVars, req>>
      PROVE  ListingInv'
  <2>1. CASE UNCHANGED <<listingVars, riskVars, req>>
    BY <1>1, <2>1 DEF ListingInv, ListingTyped, listingVars
  <2> QED
    BY <1>1, <2>1, ListingCalled, ListingProgressed DEF ListingNext, RiskNext, CancellationNext
<1>2. ListingInit /\ req = [w \in Workers |-> Idle] => ListingInv
  BY DEF ListingInit, ListingInv, ListingTyped, ListingRequest, Idle
<1>3. ListingInv => ListingTyped
  BY DEF ListingInv
<1>4. RiskSpec => []ListingTyped
  BY <1>1, <1>2, <1>3, PTL DEF RiskSpec
<1>5. ASSUME ListingTyped, [ReportNext]_<<othersReported, reportVars, req>>
      PROVE  ListingTyped'
  <2>1. ASSUME NEW w \in Workers, HideReportedAsset(w) PROVE ListingTyped'
    <3>1. \/ listing' = listing
          \/ listing' = [listing EXCEPT ![reports[req[w].p].target.id] = "SUSPENDED"]
      BY <2>1 DEF HideReportedAsset
    <3> QED
      BY <1>5, <3>1 DEF ListingTyped, AssetStatus
  <2>2. CASE \A w \in Workers : ~HideReportedAsset(w)
    <3>1. listing' = listing
      BY <1>5, <2>2
         DEF ReportNext, ReportCall, ReportProgress, CreateReport, AssignReportRead,
             VerdictRead, AssignReportCommit, SanctionRead, SanctionFails, WarnReportedUser,
             SuspendReportedUser, HideReportedReview, HideReviewRescore, HideReviewScored,
             HideReportedChatMessage, VerdictCommit, othersReported, listingVars
    <3> QED
      BY <1>5, <3>1 DEF ListingTyped
  <2> QED
    BY <2>1, <2>2
<1>6. listing \in [Assets -> AssetStatus \cup {NoRow}] => ListingTyped
  BY DEF ListingTyped
<1>7. ReportSpec => []ListingTyped
  BY <1>5, <1>6, PTL DEF ReportSpec
<1> QED
  BY <1>4, <1>7, DesksOpen, PTL

============================================================================
