------------------------------ MODULE AdminAuth ------------------------------
(***************************************************************************)
(* Administrators and their sessions: login, refresh, logout and the guard *)
(* of every admin route (backend/src/auth), creation, change of role or    *)
(* standing and change of password (backend/src/admin-users).              *)
(*                                                                         *)
(* No service method opens a transaction or takes a lock.  Each one reads, *)
(* checks, awaits and writes by id, so a handler is a state machine with a *)
(* step per await:                                                         *)
(*                                                                         *)
(*   login            Login -> Issue                                       *)
(*   refresh          Refresh -> Rotate -> Issue                           *)
(*   update           AskUpdate -> LookUp [-> Count] -> Write              *)
(*   changePassword   AskPassword -> Verify -> Store -> Cut                *)
(*   create           AskCreate -> Insert                                  *)
(*                                                                         *)
(* A request that is refused changes nothing but the audit log, and is one *)
(* that does not start or goes back to idle.  The lapse of time is the     *)
(* action SessionExpires; an access token is only a pair of an admin and a *)
(* role, and AccessExpires takes it away.                                  *)
(***************************************************************************)
EXTENDS FiniteSets

CONSTANTS
    Admins,        \* administrators, known by their normalised email
    Root,          \* the SUPER_ADMIN the seed creates
    AdminSessions, \* rows of admin_sessions, one per refresh token
    Handlers,      \* requests that may be in flight
    Passwords,
    RootPassword,
    AskedRoles,    \* roles that create and update requests ask for
    NULL,
    LostAt,        \* steps at which a restart of the server may catch a handler
    AdminActs      \* the operations exercised

Roles == {"SUPER_ADMIN", "ADMIN", "OPERATOR"}

ASSUME AuthAssumption ==
    /\ Root \in Admins
    /\ RootPassword \in Passwords
    /\ AskedRoles \subseteq Roles
    /\ NULL \notin Admins \cup AdminSessions \cup Passwords
    /\ NULL \notin Roles /\ NULL \notin BOOLEAN
    /\ AdminActs \subseteq {"create", "update", "password", "refresh", "logout"}

VARIABLES
    admins,        \* rows of admin_users
    refresh,       \* rows of admin_sessions
    access,        \* access tokens in circulation
    job            \* job[h]: what handler h holds between two awaits

vars == <<admins, refresh, access, job>>

-----------------------------------------------------------------------------
(* Rows.  The last four fields of a session are not in the table, they     *)
(* remember how it came about: the password its login gave, that login's   *)
(* session, whether a refresh drew it from a session that was revoked      *)
(* already, and whether a change of password has missed it.  The last four *)
(* of a job, which nothing reads either, remember what its request found:  *)
(* its actor at the guard, its target, the others it counted in charge,    *)
(* and whether the session it refreshes was revoked by then.               *)

AdminRow == [role : Roles \cup {NULL},            \* NULL: no such row
             active : BOOLEAN,
             password : Passwords \cup {NULL}]

RefreshRow == [status : {"free", "live", "revoked", "expired"},
               admin : Admins \cup {NULL},
               under : Passwords \cup {NULL},
               chain : AdminSessions \cup {NULL},
               forked : BOOLEAN,
               spared : BOOLEAN]

Token == [admin : Admins, role : Roles]

Job == [pc : {"idle", "issue", "rotate", "lookup", "count", "write", "verify", "store",
              "cut", "insert"},
        actor : Admins \cup {NULL},
        target : Admins \cup {NULL},
        role : Roles \cup {NULL},                 \* NULL: not in the request
        active : BOOLEAN \cup {NULL},             \* NULL: not in the request
        given : Passwords \cup {NULL},            \* password or current password
        new : Passwords \cup {NULL},
        session : AdminSessions \cup {NULL},
        asked : AdminRow,
        seen : AdminRow,
        counted : SUBSET Admins,
        raced : BOOLEAN]

NoAdmin == [role |-> NULL, active |-> FALSE, password |-> NULL]
NoRefresh == [status |-> "free", admin |-> NULL, under |-> NULL, chain |-> NULL,
              forked |-> FALSE, spared |-> FALSE]
NoJob == [pc |-> "idle", actor |-> NULL, target |-> NULL, role |-> NULL, active |-> NULL,
          given |-> NULL, new |-> NULL, session |-> NULL,
          asked |-> NoAdmin, seen |-> NoAdmin, counted |-> {}, raced |-> FALSE]

Present(a) == admins[a].role # NULL
InCharge(row) == row.role = "SUPER_ADMIN" /\ row.active

FreeSessions == {s \in AdminSessions : refresh[s].status = "free"}
FreshSession == CHOOSE s \in FreeSessions : TRUE

Busy == {h \in Handlers : job[h].pc # "idle"}

Init ==
    /\ admins = [a \in Admins |->
                    IF a = Root THEN [role |-> "SUPER_ADMIN", active |-> TRUE,
                                      password |-> RootPassword]
                    ELSE NoAdmin]
    /\ refresh = [s \in AdminSessions |-> NoRefresh]
    /\ access = {}
    /\ job = [h \in Handlers |-> NoJob]

\* Handler h goes on with j; it ends.
Continue(h, j) == job' = [job EXCEPT ![h] = j]
End(h) == Continue(h, NoJob)

OnlyJob == UNCHANGED <<admins, refresh, access>>

-----------------------------------------------------------------------------
(* auth.service.ts *)

\* The row is read and the password verified against that copy.
Login(h, a, password) ==
    /\ job[h].pc = "idle"
    /\ Present(a) /\ admins[a].active
    /\ admins[a].password = password
    /\ Continue(h, [NoJob EXCEPT !.pc = "issue", !.actor = a, !.role = admins[a].role,
                                 !.given = password])
    /\ OnlyJob

\* issueSession: a new row, and an access token with the role of the copy.
Issue(h) ==
    LET s == FreshSession
        from == job[h].session
    IN
    /\ job[h].pc = "issue"
    /\ IF FreeSessions = {} THEN OnlyJob            \* bound on the rows
       ELSE /\ refresh' = [refresh EXCEPT ![s] =
                  [status |-> "live", admin |-> job[h].actor, under |-> job[h].given,
                   chain |-> IF from = NULL THEN s ELSE refresh[from].chain,
                   forked |-> from # NULL /\ (job[h].raced \/ refresh[from].forked),
                   spared |-> job[h].given # admins[job[h].actor].password]]
            /\ access' = access \cup {[admin |-> job[h].actor, role |-> job[h].role]}
            /\ UNCHANGED admins
    /\ End(h)

\* The session is read together with its administrator.
Refresh(h, s) ==
    LET a == refresh[s].admin IN
    /\ "refresh" \in AdminActs
    /\ job[h].pc = "idle"
    /\ refresh[s].status = "live"
    /\ admins[a].active
    /\ Continue(h, [NoJob EXCEPT !.pc = "rotate", !.actor = a, !.role = admins[a].role,
                                 !.given = refresh[s].under, !.session = s])
    /\ OnlyJob

Revoked(row) == [row EXCEPT !.status = "revoked"]

RotateMutant(h) ==
    /\ job[h].pc = "rotate"
    /\ Continue(h, [job[h] EXCEPT !.pc = "issue"])
    /\ UNCHANGED <<admins, access, refresh>>

\* The old session is revoked by id, whatever has happened to it since the read.
Rotate(h) ==
    /\ job[h].pc = "rotate"
    /\ refresh' = [refresh EXCEPT ![job[h].session] = Revoked(@)]
    /\ Continue(h, [job[h] EXCEPT !.pc = "issue",
                                  !.raced = refresh[job[h].session].status = "revoked"])
    /\ UNCHANGED <<admins, access>>

Logout(s) ==
    /\ "logout" \in AdminActs
    /\ refresh[s].status = "live"
    /\ refresh' = [refresh EXCEPT ![s] = Revoked(@)]
    /\ UNCHANGED <<admins, access, job>>

\* JwtAuthGuard and validateAccess, for each request that carries token t.
AuthorisedMutant(t) == t \in access /\ admins[t.admin].active

Authorised(t) ==
    /\ t \in access
    /\ admins[t.admin].active
    /\ admins[t.admin].role = t.role

SessionExpires(s) ==
    /\ refresh[s].status = "live"
    /\ refresh' = [refresh EXCEPT ![s].status = "expired"]
    /\ UNCHANGED <<admins, access, job>>

AccessExpires(t) ==
    /\ access' = access \ {t}
    /\ UNCHANGED <<admins, refresh, job>>

-----------------------------------------------------------------------------
(* admin-users.service.ts, behind the roles of admin-users.controller.ts *)

AskCreate(h, t, a, role, password) ==
    /\ "create" \in AdminActs
    /\ job[h].pc = "idle"
    /\ Authorised(t) /\ t.role = "SUPER_ADMIN"
    /\ Continue(h, [NoJob EXCEPT !.pc = "insert", !.actor = t.admin, !.target = a,
                                 !.role = role, !.new = password,
                                 !.asked = admins[t.admin]])
    /\ OnlyJob

\* The email is unique: a second row with it is refused.
Insert(h) ==
    LET a == job[h].target IN
    /\ job[h].pc = "insert"
    /\ admins' = IF Present(a) THEN admins
                 ELSE [admins EXCEPT ![a] = [role |-> job[h].role, active |-> TRUE,
                                             password |-> job[h].new]]
    /\ End(h)
    /\ UNCHANGED <<refresh, access>>

AskUpdate(h, t, a, role, active) ==
    /\ "update" \in AdminActs
    /\ job[h].pc = "idle"
    /\ Authorised(t) /\ t.role = "SUPER_ADMIN"
    /\ Continue(h, [NoJob EXCEPT !.pc = "lookup", !.actor = t.admin, !.target = a,
                                 !.role = role, !.active = active,
                                 !.asked = admins[t.admin]])
    /\ OnlyJob

\* Nobody changes their own role or deactivates themselves.
TouchesSelf(j) == j.actor = j.target /\ (j.role # NULL \/ j.active = FALSE)

DemotesSuperMutant(j, row) ==
    row.role = "SUPER_ADMIN" /\ j.role \notin {NULL, "SUPER_ADMIN"}

\* demotesSuper, from the row just read.
DemotesSuper(j, row) ==
    /\ row.role = "SUPER_ADMIN"
    /\ j.role \notin {NULL, "SUPER_ADMIN"} \/ j.active = FALSE

LookUp(h) ==
    LET j == job[h] IN
    /\ j.pc = "lookup"
    /\ IF ~Present(j.target) \/ TouchesSelf(j) THEN End(h)
       ELSE Continue(h, [j EXCEPT !.pc = IF DemotesSuper(j, admins[j.target])
                                         THEN "count" ELSE "write",
                                  !.seen = admins[j.target]])
    /\ OnlyJob

\* assertAnotherActiveSuperAdmin.
Others(a) == {b \in Admins \ {a} : InCharge(admins[b])}

Count(h) ==
    /\ job[h].pc = "count"
    /\ IF Others(job[h].target) # {}
       THEN Continue(h, [job[h] EXCEPT !.pc = "write", !.counted = Others(job[h].target)])
       ELSE End(h)
    /\ OnlyJob

UpdatedMutant(row, j) ==
    [role |-> IF j.role = NULL THEN row.role ELSE j.role,
     active |-> j.active,
     password |-> row.password]

\* The row with what the request brings.
Updated(row, j) ==
    [role |-> IF j.role = NULL THEN row.role ELSE j.role,
     active |-> IF j.active = NULL THEN row.active ELSE j.active,
     password |-> row.password]

Write(h) ==
    LET j == job[h] IN
    /\ j.pc = "write"
    /\ admins' = [admins EXCEPT ![j.target] = Updated(admins[j.target], j)]
    /\ End(h)
    /\ UNCHANGED <<refresh, access>>

\* One's own password, or anybody's for a SUPER_ADMIN.
AskPassword(h, t, a, current, new) ==
    /\ "password" \in AdminActs
    /\ job[h].pc = "idle"
    /\ Authorised(t)
    /\ t.admin = a \/ t.role = "SUPER_ADMIN"
    /\ Continue(h, [NoJob EXCEPT !.pc = "verify", !.actor = t.admin, !.target = a,
                                 !.given = current, !.new = new])
    /\ OnlyJob

\* The current password is asked only of the owner; the new one is hashed.
Verify(h) ==
    LET j == job[h] IN
    /\ j.pc = "verify"
    /\ IF Present(j.target) /\ (j.actor = j.target => admins[j.target].password = j.given)
       THEN Continue(h, [j EXCEPT !.pc = "store"]) ELSE End(h)
    /\ OnlyJob

Store(h) ==
    LET j == job[h] IN
    /\ j.pc = "store"
    /\ admins' = [admins EXCEPT ![j.target].password = j.new]
    /\ Continue(h, [j EXCEPT !.pc = "cut"])
    /\ UNCHANGED <<refresh, access>>

CutMutant(h) == job[h].pc = "cut" /\ End(h) /\ OnlyJob

\* updateMany over the sessions not revoked yet.
Cut(h) ==
    /\ job[h].pc = "cut"
    /\ refresh' = [s \in AdminSessions |->
                      IF refresh[s].status = "live" /\ refresh[s].admin = job[h].target
                      THEN Revoked(refresh[s]) ELSE refresh[s]]
    /\ End(h)
    /\ UNCHANGED <<admins, access>>

-----------------------------------------------------------------------------

\* A change of password that stops here does not come to revoke session s.
Spared(s) ==
    \E h \in Handlers : job[h].pc = "cut" /\ job[h].target = refresh[s].admin

\* The process restarts: what the handlers held is lost, what they wrote stays.
Restart ==
    /\ Busy # {}
    /\ {job[h].pc : h \in Busy} \subseteq LostAt
    /\ job' = [h \in Handlers |-> NoJob]
    /\ refresh' = [s \in AdminSessions |->
                      [refresh[s] EXCEPT !.spared = @ \/ Spared(s)]]
    /\ UNCHANGED <<admins, access>>

Starts(h) ==
    \/ \E a \in Admins, password \in Passwords : Login(h, a, password)
    \/ \E s \in AdminSessions : Refresh(h, s)
    \/ \E t \in access, a \in Admins :
          \/ \E role \in AskedRoles, password \in Passwords : AskCreate(h, t, a, role, password)
          \/ \E role \in AskedRoles \cup {NULL}, active \in BOOLEAN \cup {NULL} :
                AskUpdate(h, t, a, role, active)
          \/ \E current, new \in Passwords : AskPassword(h, t, a, current, new)

GoesOn(h) ==
    \/ Issue(h) \/ Rotate(h) \/ Insert(h)
    \/ LookUp(h) \/ Count(h) \/ Write(h)
    \/ Verify(h) \/ Store(h) \/ Cut(h)

Next ==
    \/ \E h \in Handlers : Starts(h)
    \/ \E h \in Handlers : GoesOn(h)
    \/ \E s \in AdminSessions : Logout(s)
    \/ \E s \in AdminSessions : SessionExpires(s)
    \/ \E t \in access : AccessExpires(t)
    \/ Restart

Spec == Init /\ [][Next]_vars

-----------------------------------------------------------------------------
(* Properties. *)

\* Rows, tokens and handlers hold values of their types.
AuthTypeOK ==
    /\ admins \in [Admins -> AdminRow]
    /\ refresh \in [AdminSessions -> RefreshRow]
    /\ access \subseteq Token
    /\ job \in [Handlers -> Job]

\* "Protección del último SUPER_ADMIN activo": somebody can always administer the
\* administrators (update, assertAnotherActiveSuperAdmin).
SomebodyInCharge == \E a \in Admins : InCharge(admins[a])

\* "Cambio de contraseña revoca todas las sesiones del admin": when nobody is
\* changing the password of an administrator, a live session goes back to a login
\* with the password they have now, through any number of refreshes.
NoSessionUnderOldPassword ==
    \A s \in AdminSessions : refresh[s].status = "live" =>
        \/ refresh[s].under = admins[refresh[s].admin].password
        \/ \E h \in Handlers : job[h].pc = "cut" /\ job[h].target = refresh[s].admin

-----------------------------------------------------------------------------
(* What the code does promise, however requests overlap and restarts fall. *)

\* What handler j read to let its demotion through has changed under it.
Overtaken(j) ==
    \/ admins[j.target] # j.seen
    \/ \E b \in j.counted : ~InCharge(admins[b])

\* Handler h writes a row of an administrator, and that changes it.
Changes(h) ==
    /\ job[h].pc \in {"insert", "write"} /\ job'[h].pc = "idle"
    /\ admins' # admins

\* The last SUPER_ADMIN is lost only to an update that another one has overtaken:
\* no update that still finds what it has read takes away the last one, whatever
\* combination of role and standing it asks for (update, demotesSuper,
\* assertAnotherActiveSuperAdmin).
TheLastFallsToARace ==
    [][SomebodyInCharge /\ ~SomebodyInCharge' =>
          \E h \in Handlers : Changes(h) /\ Overtaken(job[h])]_vars

\* Administrators are made and changed only by somebody who was an active SUPER_ADMIN
\* when the guard let the request in, whatever their token says of them; and an update
\* of oneself changes nothing but what somebody else has changed since then
\* (JwtAuthGuard, RolesGuard, update).
ChangesComeFromAbove ==
    [][\A h \in Handlers : Changes(h) =>
          /\ InCharge(job[h].asked)
          /\ job[h].actor = job[h].target => admins[job[h].target] # job[h].asked]_vars

\* "Rotación con revocación del anterior": of all the sessions that refreshes have
\* drawn from one login at most one can still be refreshed, but for those that go back
\* to a second refresh of one token, which came to revoke it after the first (refresh).
OneLiveSessionPerLogin ==
    \A s, u \in AdminSessions :
        /\ refresh[s].status = "live" /\ ~refresh[s].forked
        /\ refresh[u].status = "live" /\ ~refresh[u].forked
        /\ refresh[s].chain = refresh[u].chain
        => s = u

\* A live session goes back to a login with the password its administrator has now,
\* through any number of refreshes, unless the change of password is still to revoke
\* it; it was opened by a request that was past its check when the password changed; or
\* the server restarted before the change came to it (changePassword, issueSession).
NewPasswordsCut ==
    \A s \in AdminSessions : refresh[s].status = "live" =>
        \/ refresh[s].under = admins[refresh[s].admin].password
        \/ \E h \in Handlers : job[h].pc = "cut" /\ job[h].target = refresh[s].admin
        \/ refresh[s].spared
=============================================================================
