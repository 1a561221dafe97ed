----------------------------- MODULE StaffRoles ----------------------------
(***************************************************************************)
(* Who may disable or demote whom in the back office (admin.service.ts),   *)
(* and the two other ways an officer's account goes: a report against it   *)
(* (reports.service.ts) and its owner's own wish (users.service.ts).       *)
(* The guard has read the actor's roles when the request began; a change   *)
(* of roles deletes the target's rows and inserts the new ones in one      *)
(* transaction.                                                            *)
(***************************************************************************)
EXTENDS Api

CONSTANTS
    Officers,   \* accounts of the staff
    Chiefs      \* those who begin with the role SUPER_ADMIN

ASSUME ChiefAssumption == Chiefs \subseteq Officers /\ Chiefs # {}

VARIABLES
    enabled,    \* officers whose account is ACTIVE
    roles,      \* user_roles of each officer
    feud,       \* history: two requests to lower a chief were at work at once
    ousted      \* history: a chief was suspended through a report, or deleted
                \* the own account

staffVars == <<enabled, roles, feud, ousted>>

StaffInit ==
    /\ enabled = Officers
    /\ roles = [o \in Officers |-> IF o \in Chiefs THEN {"SUPER_ADMIN"} ELSE {"ADMIN"}]
    /\ feud = FALSE
    /\ ousted = FALSE

\* bound: the roles that are given
RoleSets == {{"ADMIN"}, {"SUPER_ADMIN"}, {"ADMIN", "SUPER_ADMIN"}}

Chief(o) == "SUPER_ADMIN" \in roles[o]

\* AuthGuard and RolesGuard
Admitted(o, required) == o \in enabled /\ roles[o] \cap required # {}

\* wrong variant: the actor's own account is not excepted
AnyTarget(actor, target) == TRUE

\* an actor lowers anybody else
NotThemselves(actor, target) == actor # target

Lowering(v) ==
    \/ req[v].op = "staffStatus" /\ ~req[v].enable /\ Chief(req[v].o)
    \/ /\ req[v].op \in {"staffRoles", "staffInsert"}
       /\ Chief(req[v].o) \/ req[v].op = "staffInsert"
       /\ "SUPER_ADMIN" \notin req[v].new

Feud(w, lowers) == feud' = (feud \/ (lowers /\ \E v \in Workers \ {w} : Lowering(v)))

StaffStatusRead(w, actor, target) ==
    /\ Admitted(actor, {"ADMIN", "SUPER_ADMIN"})
    /\ Chief(target) => Chief(actor)
    /\ \E enable \in BOOLEAN :
          /\ enable \/ NotThemselves(actor, target)
          /\ Begin(w, [op |-> "staffStatus", o |-> target, enable |-> enable])
          /\ Feud(w, ~enable)
    /\ UNCHANGED <<enabled, roles, ousted>>

StaffStatusCommit(w) ==
    /\ req[w].op = "staffStatus"
    /\ enabled' = IF req[w].enable THEN enabled \cup {req[w].o} ELSE enabled \ {req[w].o}
    /\ Done(w)
    /\ UNCHANGED <<roles, feud, ousted>>

StaffRolesRead(w, actor, target) ==
    /\ Admitted(actor, {"SUPER_ADMIN"})
    /\ \E new \in RoleSets :
          /\ "SUPER_ADMIN" \in new \/ NotThemselves(actor, target)
          /\ Begin(w, [op |-> "staffRoles", o |-> target, new |-> new, missed |-> FALSE])
          /\ Feud(w, "SUPER_ADMIN" \notin new)
    /\ UNCHANGED <<enabled, roles, ousted>>

\* deleteMany waits for the rows another transaction has deleted; if it had
\* begun to, it does not see what that one has inserted
DeleteRoles(w) ==
    LET q == req[w]
    IN  /\ q.op = "staffRoles"
        /\ \A v \in Workers : req[v].op = "staffInsert" => req[v].o # q.o
        /\ \E kept \in {{}} \cup (IF q.missed THEN {roles[q.o]} ELSE {}) :
              Continue(w, [op |-> "staffInsert", o |-> q.o, new |-> q.new, kept |-> kept])
        /\ UNCHANGED staffVars

\* createMany; whoever waits for the rows misses the new ones
InsertRoles(w) ==
    LET q == req[w]
    IN  /\ q.op = "staffInsert"
        /\ q.kept \cap q.new = {}
        /\ roles' = [roles EXCEPT ![q.o] = q.kept \cup q.new]
        /\ req' = [v \in Workers |->
                     IF v = w THEN Idle
                     ELSE IF req[v].op = "staffRoles" /\ req[v].o = q.o
                          THEN [req[v] EXCEPT !.missed = TRUE] ELSE req[v]]
        /\ UNCHANGED <<enabled, feud, ousted>>

\* a row is there already: the transaction is rolled back
RolesConflict(w) ==
    /\ req[w].op = "staffInsert"
    /\ req[w].kept \cap req[w].new # {}
    /\ Done(w)
    /\ UNCHANGED staffVars

(* suspendReportedUser, the last action a report offers: it looks at the    *)
(* status of the reported account, but at nobody's roles.  Moderators take *)
(* it too, so that there is always somebody who may.                       *)
SuspendReported(w, o) ==
    /\ AtOnce(w)
    /\ enabled' = enabled \ {o}
    /\ ousted' = (ousted \/ (o \in enabled /\ Chief(o)))
    /\ UNCHANGED <<roles, feud>>

(* deleteAccount: one transaction, for an account that is ACTIVE, which     *)
(* ends by deleting the roles.  It waits for role rows being inserted, for *)
(* their foreign key holds the row of the account.                         *)
DeleteOwnAccount(w, o) ==
    /\ AtOnce(w)
    /\ o \in enabled
    /\ \A v \in Workers : req[v].op = "staffInsert" => req[v].o # o
    /\ enabled' = enabled \ {o}
    /\ roles' = [roles EXCEPT ![o] = {}]
    /\ ousted' = (ousted \/ Chief(o))
    /\ UNCHANGED feud

StaffAbort(w) ==
    /\ req[w] # Idle
    /\ Done(w)
    /\ UNCHANGED staffVars

StaffProgress(w) ==
    StaffStatusCommit(w) \/ DeleteRoles(w) \/ InsertRoles(w) \/ RolesConflict(w)

StaffCall(w, actor, target) ==
    StaffStatusRead(w, actor, target) \/ StaffRolesRead(w, actor, target)

StaffNext ==
    \E w \in Workers :
        \/ StaffProgress(w) \/ StaffAbort(w)
        \/ \E o \in Officers : SuspendReported(w, o) \/ DeleteOwnAccount(w, o)
        \/ \E actor, target \in Officers : StaffCall(w, actor, target)

StaffSpec ==
    /\ StaffInit
    /\ req = [w \in Workers |-> Idle]
    /\ [][StaffNext]_<<staffVars, req>>

----------------------------------------------------------------------------
\* There is always a super administrator with an active account: nobody disables
\* or demotes themselves, and an administrator no chief.  Three things can undo
\* it, and each is marked in the history: two chiefs who lower each other, or
\* one and the same, at once; a report against a chief, whose action looks at no
\* roles; and a chief who deletes the own account.
SomebodyInCharge == feud \/ ousted \/ \E o \in enabled : Chief(o)

============================================================================
