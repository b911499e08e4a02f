--------------------------- MODULE AdminAuthProofs ---------------------------
(***************************************************************************)
(* Theorems about AdminAuth for any number of administrators, sessions and *)
(* handlers, however requests interleave and wherever a restart cuts them  *)
(* short: type correctness, who may change an administrator, what it takes *)
(* to lose the last SUPER_ADMIN, to have two live sessions of one login,   *)
(* and to keep a session that goes back to an old password.                *)
(***************************************************************************)
EXTENDS AdminAuth, TLAPS

-----------------------------------------------------------------------------
(* The inductive invariant behind AuthTypeOK. *)

\* A handler knows the administrator it works for, and what it is to insert.
JobsKnow ==
    \A h \in Handlers :
        /\ job[h].pc \in {"issue", "rotate"} =>
              job[h].actor \in Admins /\ job[h].role \in Roles /\ Present(job[h].actor)
        /\ job[h].pc = "rotate" => /\ job[h].session \in AdminSessions
                                   /\ refresh[job[h].session].status # "free"
        /\ job[h].pc \notin {"idle", "issue", "rotate"} => job[h].target \in Admins
        /\ job[h].pc = "insert" => job[h].role \in Roles /\ job[h].new \in Passwords

\* A session belongs to an administrator who is there.
SessionsNameAdmins ==
    \A s \in AdminSessions : refresh[s].status # "free" =>
        refresh[s].admin \in Admins /\ Present(refresh[s].admin)

AuthInv == AuthTypeOK /\ JobsKnow /\ SessionsNameAdmins

\* What a handler must know to be in the state j.
Knows(j) ==
    /\ j.pc \in {"issue", "rotate"} =>
          j.actor \in Admins /\ j.role \in Roles /\ Present(j.actor)
    /\ j.pc = "rotate" => j.session \in AdminSessions /\ refresh[j.session].status # "free"
    /\ j.pc \notin {"idle", "issue", "rotate"} => j.target \in Admins
    /\ j.pc = "insert" => j.role \in Roles /\ j.new \in Passwords

\* The idle handler and the absent rows are well typed.
LEMMA NullRows ==
    NoJob \in Job /\ NoJob.pc = "idle" /\ NoAdmin \in AdminRow /\ NoRefresh \in RefreshRow
  BY DEF NoJob, Job, NoAdmin, AdminRow, NoRefresh, RefreshRow

\* The seeded database is well typed.
LEMMA AuthInit == Init => AuthInv
  <1> SUFFICES ASSUME Init PROVE AuthInv
    OBVIOUS
  <1> USE AuthAssumption
  <1>1. [role |-> "SUPER_ADMIN", active |-> TRUE, password |-> RootPassword] \in AdminRow
    BY DEF AdminRow, Roles
  <1>2. AuthTypeOK
    BY <1>1, NullRows DEF Init, AuthTypeOK
  <1>3. JobsKnow /\ SessionsNameAdmins
    BY DEF Init, JobsKnow, SessionsNameAdmins, NoJob, NoRefresh
  <1>4. QED
    BY <1>2, <1>3 DEF AuthInv

\* A handler that goes on to a state it knows enough for, while the tables keep
\* their types, their administrators and the owners of their sessions.
LEMMA ContinueTyped ==
    ASSUME AuthInv, NEW h \in Handlers, NEW j \in Job, Knows(j), Continue(h, j),
           admins' \in [Admins -> AdminRow], refresh' \in [AdminSessions -> RefreshRow],
           access' \subseteq Token,
           \A a \in Admins : Present(a) => admins'[a].role # NULL,
           \A s \in AdminSessions : refresh'[s].status # "free" =>
              refresh'[s].admin \in Admins /\ Present(refresh'[s].admin),
           \A s \in AdminSessions : refresh[s].status # "free" => refresh'[s].status # "free"
    PROVE  AuthInv'
  <1>1. job \in [Handlers -> Job]
    BY DEF AuthInv, AuthTypeOK
  <1>2. AuthTypeOK'
    BY <1>1 DEF Continue, AuthTypeOK
  <1>3. JobsKnow'
    BY <1>1 DEF AuthInv, JobsKnow, Knows, Continue, Present
  <1>4. SessionsNameAdmins'
    BY DEF SessionsNameAdmins, Present
  <1>5. QED
    BY <1>2, <1>3, <1>4 DEF AuthInv

\* The same for steps that leave the tables alone.
LEMMA OnlyJobTyped ==
    ASSUME AuthInv, NEW h \in Handlers, NEW j \in Job, Knows(j), Continue(h, j), OnlyJob
    PROVE  AuthInv'
  BY ContinueTyped DEF OnlyJob, AuthInv, AuthTypeOK, SessionsNameAdmins, Present

\* The end of a handler.
LEMMA EndTyped ==
    ASSUME AuthInv, NEW h \in Handlers, End(h), OnlyJob
    PROVE  AuthInv'
  <1>1. Knows(NoJob)
    BY NullRows DEF Knows
  <1>2. QED
    BY <1>1, NullRows, OnlyJobTyped DEF End

\* The first step of every handler.
LEMMA StartsTyped ==
    ASSUME AuthInv, NEW h \in Handlers, Starts(h)
    PROVE  AuthInv'
  <1> USE AuthAssumption
  <1>1. /\ admins \in [Admins -> AdminRow] /\ refresh \in [AdminSessions -> RefreshRow]
        /\ access \subseteq Token
        /\ \A a \in Admins : admins[a] \in AdminRow
        /\ \A s \in AdminSessions : refresh[s] \in RefreshRow
        /\ SessionsNameAdmins
    BY DEF AuthInv, AuthTypeOK
  <1>2. ASSUME NEW a \in Admins, NEW password \in Passwords, Login(h, a, password)
        PROVE  AuthInv'
    <2> DEFINE j == [NoJob EXCEPT !.pc = "issue", !.actor = a, !.role = admins[a].role,
                                  !.given = password]
    <2>1. admins[a].role \in Roles /\ Present(a)
      BY <1>1, <1>2 DEF Login, Present, AdminRow
    <2>2. j \in Job /\ Knows(j)
      BY <2>1, NullRows DEF Job, Knows
    <2>3. Continue(h, j) /\ OnlyJob
      BY <1>2 DEF Login
    <2> HIDE DEF j
    <2>4. QED
      BY <2>2, <2>3, OnlyJobTyped
  <1>3. ASSUME NEW s \in AdminSessions, Refresh(h, s) PROVE AuthInv'
    <2> DEFINE a == refresh[s].admin
               j == [NoJob EXCEPT !.pc = "rotate", !.actor = a, !.role = admins[a].role,
                                  !.given = refresh[s].under, !.session = s]
    <2>1. a \in Admins /\ admins[a].role \in Roles /\ Present(a)
      BY <1>1, <1>3 DEF Refresh, SessionsNameAdmins, Present, AdminRow
    <2>2. refresh[s].under \in Passwords \cup {NULL} /\ refresh[s].status # "free"
      BY <1>1, <1>3 DEF RefreshRow, Refresh
    <2>3. Continue(h, j) /\ OnlyJob
      BY <1>3 DEF Refresh
    <2> HIDE DEF a
    <2>4. j \in Job /\ Knows(j)
      BY <2>1, <2>2, NullRows DEF Job, Knows
    <2> HIDE DEF j
    <2>5. QED
      BY <2>3, <2>4, OnlyJobTyped
  <1>4. ASSUME NEW t \in access, NEW a \in Admins,
               NEW role \in AskedRoles, NEW password \in Passwords,
               AskCreate(h, t, a, role, password)
        PROVE  AuthInv'
    <2> DEFINE j == [NoJob EXCEPT !.pc = "insert", !.actor = t.admin, !.target = a,
                                  !.role = role, !.new = password,
                                  !.asked = admins[t.admin]]
    <2>1. t.admin \in Admins /\ admins[t.admin] \in AdminRow
      BY <1>1 DEF Token
    <2>2. j \in Job /\ Knows(j)
      BY <2>1, NullRows DEF Job, Knows
    <2>3. Continue(h, j) /\ OnlyJob
      BY <1>4 DEF AskCreate
    <2> HIDE DEF j
    <2>4. QED
      BY <2>2, <2>3, OnlyJobTyped
  <1>5. ASSUME NEW t \in access, NEW a \in Admins,
               NEW role \in AskedRoles \cup {NULL}, NEW active \in BOOLEAN \cup {NULL},
               AskUpdate(h, t, a, role, active)
        PROVE  AuthInv'
    <2> DEFINE j == [NoJob EXCEPT !.pc = "lookup", !.actor = t.admin, !.target = a,
                                  !.role = role, !.active = active,
                                  !.asked = admins[t.admin]]
    <2>1. t.admin \in Admins /\ admins[t.admin] \in AdminRow
      BY <1>1 DEF Token
    <2>2. j \in Job /\ Knows(j)
      BY <2>1, NullRows DEF Job, Knows
    <2>3. Continue(h, j) /\ OnlyJob
      BY <1>5 DEF AskUpdate
    <2> HIDE DEF j
    <2>4. QED
      BY <2>2, <2>3, OnlyJobTyped
  <1>6. ASSUME NEW t \in access, NEW a \in Admins,
               NEW current \in Passwords, NEW new \in Passwords,
               AskPassword(h, t, a, current, new)
        PROVE  AuthInv'
    <2> DEFINE j == [NoJob EXCEPT !.pc = "verify", !.actor = t.admin, !.target = a,
                                  !.given = current, !.new = new]
    <2>1. t.admin \in Admins
      BY <1>1 DEF Token
    <2>2. j \in Job /\ Knows(j)
      BY <2>1, NullRows DEF Job, Knows
    <2>3. Continue(h, j) /\ OnlyJob
      BY <1>6 DEF AskPassword
    <2> HIDE DEF j
    <2>4. QED
      BY <2>2, <2>3, OnlyJobTyped
  <1>7. QED
    BY <1>2, <1>3, <1>4, <1>5, <1>6 DEF Starts

\* A revoked session keeps its owner.
LEMMA RevokedTyped ==
    ASSUME NEW row \in RefreshRow
    PROVE  /\ Revoked(row) \in RefreshRow
           /\ Revoked(row).admin = row.admin /\ Revoked(row).status = "revoked"
  BY DEF Revoked, RefreshRow

\* The later steps of every handler.
LEMMA GoesOnTyped ==
    ASSUME AuthInv, NEW h \in Handlers, GoesOn(h)
    PROVE  AuthInv'
  <1> USE AuthAssumption
  <1>1. /\ admins \in [Admins -> AdminRow] /\ refresh \in [AdminSessions -> RefreshRow]
        /\ access \subseteq Token /\ job \in [Handlers -> Job]
        /\ \A a \in Admins : admins[a] \in AdminRow
        /\ \A s \in AdminSessions : refresh[s] \in RefreshRow
        /\ SessionsNameAdmins
        /\ job[h] \in Job /\ Knows(job[h])
    BY DEF AuthInv, AuthTypeOK, JobsKnow, Knows
  <1>2. Knows(NoJob)
    BY NullRows DEF Knows
  <1>3. CASE Issue(h) /\ FreeSessions # {}
    <2> DEFINE s == FreshSession
               from == job[h].session
               row == [status |-> "live", admin |-> job[h].actor, under |-> job[h].given,
                       chain |-> IF from = NULL THEN s ELSE refresh[from].chain,
                       forked |-> from # NULL /\ (job[h].raced \/ refresh[from].forked),
                       spared |-> job[h].given # admins[job[h].actor].password]
               t == [admin |-> job[h].actor, role |-> job[h].role]
    <2>1. s \in AdminSessions
      BY <1>3 DEF FreshSession, FreeSessions
    <2>2. /\ job[h].actor \in Admins /\ job[h].role \in Roles /\ Present(job[h].actor)
          /\ job[h].given \in Passwords \cup {NULL}
          /\ from \in AdminSessions \cup {NULL}
      BY <1>1, <1>3 DEF Issue, Knows, Job
    <2>3. from # NULL => refresh[from].chain \in AdminSessions \cup {NULL}
      BY <1>1, <2>2 DEF RefreshRow
    <2>4. /\ refresh' = [refresh EXCEPT ![s] = row]
          /\ access' = access \cup {t}
          /\ admins' = admins
          /\ End(h)
      BY <1>3 DEF Issue
    <2> HIDE DEF s, from
    <2>5. row \in RefreshRow /\ row.admin = job[h].actor /\ row.status = "live"
      BY <2>1, <2>2, <2>3 DEF RefreshRow
    <2>6. t \in Token
      BY <2>2 DEF Token
    <2> HIDE DEF row, t
    <2>7. \A u \in AdminSessions :
             /\ refresh'[u].status # "free" =>
                   refresh'[u].admin \in Admins /\ Present(refresh'[u].admin)
             /\ refresh[u].status # "free" => refresh'[u].status # "free"
      BY <1>1, <2>1, <2>2, <2>4, <2>5 DEF SessionsNameAdmins
    <2>8. refresh' \in [AdminSessions -> RefreshRow] /\ access' \subseteq Token
      BY <1>1, <2>1, <2>4, <2>5, <2>6
    <2>9. QED
      BY <1>1, <1>2, <2>4, <2>7, <2>8, NullRows, ContinueTyped DEF End, Present
  <1>4. CASE Rotate(h)
    <2> DEFINE j == [job[h] EXCEPT !.pc = "issue",
                                   !.raced = refresh[job[h].session].status = "revoked"]
               s == job[h].session
    <2>1. s \in AdminSessions /\ job[h].pc = "rotate" /\ refresh[s].status # "free"
      BY <1>1, <1>4 DEF Rotate, Knows
    <2>2. j \in Job /\ Knows(j)
      BY <1>1, <2>1 DEF Job, Knows
    <2>3. /\ refresh' = [refresh EXCEPT ![s] = Revoked(refresh[s])]
          /\ Continue(h, j) /\ admins' = admins /\ access' = access
      BY <1>4 DEF Rotate
    <2> HIDE DEF j, s
    <2>4. refresh' \in [AdminSessions -> RefreshRow]
      BY <1>1, <2>1, <2>3, RevokedTyped
    <2>5. \A u \in AdminSessions :
             /\ refresh'[u].status # "free" =>
                   refresh'[u].admin \in Admins /\ Present(refresh'[u].admin)
             /\ refresh[u].status # "free" => refresh'[u].status # "free"
      BY <1>1, <2>1, <2>3, RevokedTyped DEF SessionsNameAdmins
    <2>6. QED
      BY <1>1, <2>2, <2>3, <2>4, <2>5, ContinueTyped DEF Present
  <1>5. CASE Insert(h)
    <2> DEFINE a == job[h].target
               row == [role |-> job[h].role, active |-> TRUE, password |-> job[h].new]
    <2>1. a \in Admins /\ row \in AdminRow /\ row.role \in Roles
      BY <1>1, <1>5 DEF Insert, Knows, AdminRow
    <2>2. /\ admins' = admins \/ admins' = [admins EXCEPT ![a] = row]
          /\ End(h) /\ UNCHANGED <<refresh, access>>
      BY <1>5 DEF Insert
    <2> HIDE DEF a, row
    <2>3. admins' \in [Admins -> AdminRow]
          /\ \A b \in Admins : Present(b) => admins'[b].role # NULL
      BY <1>1, <2>1, <2>2 DEF Present
    <2>4. QED
      BY <1>1, <1>2, <2>2, <2>3, NullRows, ContinueTyped DEF End, SessionsNameAdmins
  <1>6. CASE LookUp(h)
    <2> DEFINE j(pc) == [job[h] EXCEPT !.pc = pc, !.seen = admins[job[h].target]]
    <2>1. \A pc \in {"count", "write"} : j(pc) \in Job /\ Knows(j(pc))
      BY <1>1, <1>6 DEF LookUp, Job, Knows
    <2>2. OnlyJob /\ (End(h) \/ \E pc \in {"count", "write"} : Continue(h, j(pc)))
      BY <1>6 DEF LookUp
    <2> HIDE DEF j
    <2>3. QED
      BY <2>1, <2>2, OnlyJobTyped, EndTyped
  <1>7. CASE Count(h)
    <2> DEFINE j == [job[h] EXCEPT !.pc = "write", !.counted = Others(job[h].target)]
    <2>1. j \in Job /\ Knows(j)
      BY <1>1, <1>7 DEF Count, Job, Knows, Others
    <2>2. OnlyJob /\ (End(h) \/ Continue(h, j))
      BY <1>7 DEF Count
    <2> HIDE DEF j
    <2>3. QED
      BY <2>1, <2>2, OnlyJobTyped, EndTyped
  <1>8. CASE Write(h)
    <2> DEFINE a == job[h].target
               row == Updated(admins[a], job[h])
    <2>1. a \in Admins
      BY <1>1, <1>8 DEF Write, Knows
    <2>2. row \in AdminRow /\ (Present(a) => row.role # NULL)
      BY <1>1, <2>1 DEF Updated, AdminRow, Job, Present
    <2>3. /\ admins' = [admins EXCEPT ![a] = row]
          /\ End(h) /\ UNCHANGED <<refresh, access>>
      BY <1>8 DEF Write
    <2> HIDE DEF a, row
    <2>4. admins' \in [Admins -> AdminRow]
          /\ \A b \in Admins : Present(b) => admins'[b].role # NULL
      BY <1>1, <2>1, <2>2, <2>3 DEF Present
    <2>5. QED
      BY <1>1, <1>2, <2>3, <2>4, NullRows, ContinueTyped DEF End, SessionsNameAdmins
  <1>9. CASE Verify(h)
    <2> DEFINE j == [job[h] EXCEPT !.pc = "store"]
    <2>1. j \in Job /\ Knows(j)
      BY <1>1, <1>9 DEF Verify, Job, Knows
    <2>2. OnlyJob /\ (End(h) \/ Continue(h, j))
      BY <1>9 DEF Verify
    <2> HIDE DEF j
    <2>3. QED
      BY <2>1, <2>2, OnlyJobTyped, EndTyped
  <1>10. CASE Store(h)
    <2> DEFINE a == job[h].target
               j == [job[h] EXCEPT !.pc = "cut"]
               row == [admins[a] EXCEPT !.password = job[h].new]
    <2>1. a \in Admins /\ j \in Job /\ Knows(j) /\ job[h].new \in Passwords \cup {NULL}
      BY <1>1, <1>10 DEF Store, Knows, Job
    <2>2. row \in AdminRow /\ row.role = admins[a].role
      BY <1>1, <2>1 DEF AdminRow
    <2>3. /\ admins' = [admins EXCEPT ![a] = row]
          /\ Continue(h, j) /\ UNCHANGED <<refresh, access>>
      BY <1>10 DEF Store
    <2> HIDE DEF a, j, row
    <2>4. admins' \in [Admins -> AdminRow]
          /\ \A b \in Admins : Present(b) => admins'[b].role # NULL
      BY <1>1, <2>1, <2>2, <2>3 DEF Present
    <2>5. QED
      BY <1>1, <2>1, <2>3, <2>4, ContinueTyped DEF SessionsNameAdmins
  <1>11. CASE Cut(h)
    <2>1. /\ refresh' = [s \in AdminSessions |->
                            IF refresh[s].status = "live" /\ refresh[s].admin = job[h].target
                            THEN Revoked(refresh[s]) ELSE refresh[s]]
          /\ End(h) /\ UNCHANGED <<admins, access>>
      BY <1>11 DEF Cut
    <2>2. refresh' \in [AdminSessions -> RefreshRow]
      BY <1>1, <2>1, RevokedTyped
    <2>3. \A u \in AdminSessions :
             /\ refresh'[u].status # "free" =>
                   refresh'[u].admin \in Admins /\ Present(refresh'[u].admin)
             /\ refresh[u].status # "free" => refresh'[u].status # "free"
      BY <1>1, <2>1, RevokedTyped DEF SessionsNameAdmins
    <2>4. QED
      BY <1>1, <1>2, <2>1, <2>2, <2>3, NullRows, ContinueTyped DEF End, Present
  <1>12. CASE Issue(h) /\ FreeSessions = {}
    BY <1>12, EndTyped DEF Issue
  <1>13. QED
    BY <1>3, <1>4, <1>5, <1>6, <1>7, <1>8, <1>9, <1>10, <1>11, <1>12 DEF GoesOn

\* Logout, the lapse of time and a restart.
LEMMA AuthRestTyped ==
    ASSUME AuthInv,
           \/ \E s \in AdminSessions : Logout(s) \/ SessionExpires(s)
           \/ \E t \in access : AccessExpires(t)
           \/ Restart \/ UNCHANGED vars
    PROVE  AuthInv'
  <1>1. /\ admins \in [Admins -> AdminRow] /\ refresh \in [AdminSessions -> RefreshRow]
        /\ access \subseteq Token /\ job \in [Handlers -> Job]
        /\ \A s \in AdminSessions : refresh[s] \in RefreshRow
        /\ SessionsNameAdmins /\ JobsKnow
    BY DEF AuthInv, AuthTypeOK
  <1>2. ASSUME NEW s \in AdminSessions, Logout(s) \/ SessionExpires(s) PROVE AuthInv'
    <2> DEFINE row(status) == [refresh[s] EXCEPT !.status = status]
    <2>1. \A status \in {"revoked", "expired"} :
             /\ row(status) \in RefreshRow
             /\ row(status).admin = refresh[s].admin /\ row(status).status = status
      BY <1>1 DEF RefreshRow
    <2>2. /\ \E status \in {"revoked", "expired"} :
                refresh' = [refresh EXCEPT ![s] = row(status)]
          /\ refresh[s].status = "live"
          /\ UNCHANGED <<admins, access, job>>
      BY <1>2 DEF Logout, SessionExpires, Revoked
    <2> HIDE DEF row
    <2>3. /\ refresh' \in [AdminSessions -> RefreshRow]
          /\ \A u \in AdminSessions :
                /\ refresh'[u].status # "free" <=> refresh[u].status # "free"
                /\ refresh'[u].admin = refresh[u].admin
      BY <1>1, <2>1, <2>2
    <2>4. JobsKnow' /\ SessionsNameAdmins'
      BY <1>1, <2>2, <2>3 DEF JobsKnow, SessionsNameAdmins, Present
    <2>5. QED
      BY <1>1, <2>2, <2>3, <2>4 DEF AuthInv, AuthTypeOK
  <1>3. ASSUME NEW t \in access, AccessExpires(t) PROVE AuthInv'
    BY <1>1, <1>3 DEF AccessExpires, AuthInv, AuthTypeOK, JobsKnow, SessionsNameAdmins, Present
  <1>4. CASE Restart
    <2>1. \A h \in Handlers : job'[h] = NoJob
      BY <1>4 DEF Restart
    <2>2. job' \in [Handlers -> Job] /\ JobsKnow'
      BY <1>4, <2>1, NullRows DEF Restart, JobsKnow
    <2>3. \A s \in AdminSessions :
             /\ refresh'[s] \in RefreshRow
             /\ refresh'[s].status = refresh[s].status /\ refresh'[s].admin = refresh[s].admin
      <3>1. ASSUME NEW s \in AdminSessions, NEW row,
                   row = [refresh[s] EXCEPT !.spared = @ \/ Spared(s)]
            PROVE  row \in RefreshRow /\ row.status = refresh[s].status
                   /\ row.admin = refresh[s].admin
        BY <1>1, <3>1 DEF RefreshRow
      <3>2. QED
        BY <1>4, <3>1 DEF Restart
    <2>4. refresh' \in [AdminSessions -> RefreshRow]
      BY <1>4, <2>3 DEF Restart
    <2>5. QED
      BY <1>1, <1>4, <2>2, <2>3, <2>4
         DEF Restart, AuthInv, AuthTypeOK, SessionsNameAdmins, Present
  <1>5. CASE UNCHANGED vars
    BY <1>1, <1>5 DEF vars, AuthInv, AuthTypeOK, JobsKnow, SessionsNameAdmins, Present
  <1>6. QED
    BY <1>2, <1>3, <1>4, <1>5

\* Every step keeps the invariant.
LEMMA AuthNext == AuthInv /\ [Next]_vars => AuthInv'
  BY StartsTyped, GoesOnTyped, AuthRestTyped DEF Next

\* Type correctness: whatever the interleaving, every session belongs to an
\* administrator, and every handler holds what it has read.
THEOREM AuthTypeCorrect == Spec => []AuthTypeOK
  <1>1. AuthInv => AuthTypeOK
    BY DEF AuthInv
  <1>2. QED
    BY AuthInit, AuthNext, <1>1, PTL DEF Spec

-----------------------------------------------------------------------------
(* Who may change an administrator, and what it takes to lose the last     *)
(* SUPER_ADMIN.                                                            *)

\* What a handler holds warrants the step it has come to: the guard let somebody in
\* charge in; past the first read an update is not one's own; and a demotion has
\* counted somebody else, unless the row it saw was not one to be counted for.
Warranted(j) ==
    /\ j.pc \in {"insert", "lookup", "count", "write"} => InCharge(j.asked)
    /\ j.pc \in {"count", "write"} => ~TouchesSelf(j)
    /\ j.pc = "lookup" => j.counted = {}
    /\ j.pc = "write" => /\ j.target \notin j.counted
                         /\ DemotesSuper(j, j.seen) => j.counted # {}

JobsWarranted == \A h \in Handlers : Warranted(job[h])

\* A handler that goes on does so to a warranted state, and the others stay.
LEMMA ContinueWarranted ==
    ASSUME AuthInv, JobsWarranted, NEW h \in Handlers, NEW j, Continue(h, j), Warranted(j)
    PROVE  JobsWarranted'
  BY DEF AuthInv, AuthTypeOK, JobsWarranted, Continue, Warranted, TouchesSelf,
         DemotesSuper, InCharge

\* Steps that have nothing to do with updates are warranted.
LEMMA OthersWarranted ==
    ASSUME NEW j, j.pc \notin {"insert", "lookup", "count", "write"}
    PROVE  Warranted(j)
  BY DEF Warranted

\* The guard lets in who is in charge.
LEMMA StartsWarranted ==
    ASSUME AuthInv, JobsWarranted, NEW h \in Handlers, Starts(h)
    PROVE  JobsWarranted'
  <1>1. ASSUME NEW a, NEW password, Login(h, a, password) PROVE JobsWarranted'
    <2> DEFINE j == [NoJob EXCEPT !.pc = "issue", !.actor = a, !.role = admins[a].role,
                                  !.given = password]
    <2>1. Continue(h, j) /\ j.pc = "issue"
      BY <1>1 DEF Login, NoJob
    <2> HIDE DEF j
    <2>2. QED
      BY <2>1, OthersWarranted, ContinueWarranted
  <1>2. ASSUME NEW s, Refresh(h, s) PROVE JobsWarranted'
    <2> DEFINE a == refresh[s].admin
               j == [NoJob EXCEPT !.pc = "rotate", !.actor = a, !.role = admins[a].role,
                                  !.given = refresh[s].under, !.session = s]
    <2>1. Continue(h, j) /\ j.pc = "rotate"
      BY <1>2 DEF Refresh, NoJob
    <2> HIDE DEF j
    <2>2. QED
      BY <2>1, OthersWarranted, ContinueWarranted
  <1>3. ASSUME NEW t, NEW a, NEW role, NEW password, AskCreate(h, t, a, role, password)
        PROVE  JobsWarranted'
    <2> DEFINE j == [NoJob EXCEPT !.pc = "insert", !.actor = t.admin, !.target = a,
                                  !.role = role, !.new = password,
                                  !.asked = admins[t.admin]]
    <2>1. Continue(h, j) /\ j.pc = "insert" /\ j.asked = admins[t.admin]
      BY <1>3 DEF AskCreate, NoJob
    <2>2. InCharge(admins[t.admin])
      BY <1>3 DEF AskCreate, Authorised, InCharge
    <2> HIDE DEF j
    <2>3. QED
      BY <2>1, <2>2, ContinueWarranted DEF Warranted
  <1>4. ASSUME NEW t, NEW a, NEW role, NEW active, AskUpdate(h, t, a, role, active)
        PROVE  JobsWarranted'
    <2> DEFINE j == [NoJob EXCEPT !.pc = "lookup", !.actor = t.admin, !.target = a,
                                  !.role = role, !.active = active,
                                  !.asked = admins[t.admin]]
    <2>1. Continue(h, j) /\ j.pc = "lookup" /\ j.asked = admins[t.admin] /\ j.counted = {}
      BY <1>4 DEF AskUpdate, NoJob
    <2>2. InCharge(admins[t.admin])
      BY <1>4 DEF AskUpdate, Authorised, InCharge
    <2> HIDE DEF j
    <2>3. QED
      BY <2>1, <2>2, ContinueWarranted DEF Warranted
  <1>5. ASSUME NEW t, NEW a, NEW current, NEW new, AskPassword(h, t, a, current, new)
        PROVE  JobsWarranted'
    <2> DEFINE j == [NoJob EXCEPT !.pc = "verify", !.actor = t.admin, !.target = a,
                                  !.given = current, !.new = new]
    <2>1. Continue(h, j) /\ j.pc = "verify"
      BY <1>5 DEF AskPassword, NoJob
    <2> HIDE DEF j
    <2>2. QED
      BY <2>1, OthersWarranted, ContinueWarranted
  <1>6. QED
    BY <1>1, <1>2, <1>3, <1>4, <1>5 DEF Starts

\* The reads of an update check what they read, and remember it.
LEMMA GoesOnWarranted ==
    ASSUME AuthInv, JobsWarranted, NEW h \in Handlers, GoesOn(h)
    PROVE  JobsWarranted'
  <1>1. job[h] \in Job /\ Warranted(job[h])
    BY DEF AuthInv, AuthTypeOK, JobsWarranted
  <1>2. ASSUME NEW j, Continue(h, j), j.pc \notin {"insert", "lookup", "count", "write"}
        PROVE  JobsWarranted'
    BY <1>2, OthersWarranted, ContinueWarranted
  <1>3. CASE End(h)
    BY <1>2, <1>3, NullRows DEF End
  <1>4. CASE LookUp(h) /\ ~End(h)
    <2> DEFINE a == job[h].target
               pc == IF DemotesSuper(job[h], admins[a]) THEN "count" ELSE "write"
               j == [job[h] EXCEPT !.pc = pc, !.seen = admins[a]]
    <2>1. Continue(h, j) /\ ~TouchesSelf(job[h]) /\ job[h].pc = "lookup"
      BY <1>4 DEF LookUp
    <2>2. /\ j.pc = pc /\ pc \in {"count", "write"} /\ j.seen = admins[a] /\ j.asked = job[h].asked
          /\ j.actor = job[h].actor /\ j.target = a /\ j.role = job[h].role
          /\ j.active = job[h].active /\ j.counted = job[h].counted
      BY <1>1 DEF Job
    <2>3. InCharge(j.asked) /\ ~TouchesSelf(j)
      BY <1>1, <2>1, <2>2 DEF Warranted, TouchesSelf
    <2>4. pc = "write" => ~DemotesSuper(j, j.seen)
      BY <2>2 DEF DemotesSuper
    <2>5. a \notin job[h].counted
      BY <1>1, <2>1 DEF Warranted
    <2> HIDE DEF j, pc
    <2>6. Warranted(j)
      BY <2>2, <2>3, <2>4, <2>5 DEF Warranted
    <2>7. QED
      BY <2>1, <2>6, ContinueWarranted
  <1>5. CASE Count(h) /\ ~End(h)
    <2> DEFINE a == job[h].target
               j == [job[h] EXCEPT !.pc = "write", !.counted = Others(a)]
    <2>1. Continue(h, j) /\ Others(a) # {} /\ job[h].pc = "count"
      BY <1>5 DEF Count
    <2>2. /\ j.pc = "write" /\ j.counted = Others(a) /\ j.asked = job[h].asked
          /\ j.actor = job[h].actor /\ j.target = a /\ j.role = job[h].role
          /\ j.active = job[h].active
      BY <1>1 DEF Job
    <2>3. InCharge(j.asked) /\ ~TouchesSelf(j)
      BY <1>1, <2>1, <2>2 DEF Warranted, TouchesSelf
    <2>4. a \notin Others(a)
      BY DEF Others
    <2> HIDE DEF j
    <2>5. Warranted(j)
      BY <2>1, <2>2, <2>3, <2>4 DEF Warranted
    <2>6. QED
      BY <2>1, <2>5, ContinueWarranted
  <1>6. CASE Rotate(h)
    <2> DEFINE j == [job[h] EXCEPT !.pc = "issue",
                                   !.raced = refresh[job[h].session].status = "revoked"]
    <2>1. Continue(h, j) /\ j.pc = "issue"
      BY <1>1, <1>6 DEF Rotate, Job
    <2> HIDE DEF j
    <2>2. QED
      BY <1>2, <2>1
  <1>7. CASE (Verify(h) \/ Store(h)) /\ ~End(h)
    <2>1. \A pc : [job[h] EXCEPT !.pc = pc].pc = pc
      BY <1>1 DEF Job
    <2>2. \E pc \in {"store", "cut"} : Continue(h, [job[h] EXCEPT !.pc = pc])
      BY <1>7 DEF Verify, Store
    <2>3. QED
      BY <1>2, <2>1, <2>2
  <1>8. QED
    BY <1>3, <1>4, <1>5, <1>6, <1>7 DEF GoesOn, Issue, Insert, Write, Cut

\* Every step keeps the handlers warranted.
LEMMA WarrantedNext == AuthInv /\ JobsWarranted /\ [Next]_vars => JobsWarranted'
  <1> SUFFICES ASSUME AuthInv, JobsWarranted, [Next]_vars PROVE JobsWarranted'
    OBVIOUS
  <1>1. CASE job' = job
    BY <1>1 DEF JobsWarranted, Warranted, TouchesSelf, DemotesSuper, InCharge
  <1>2. CASE Restart
    <2>1. \A h \in Handlers : job'[h].pc = "idle"
      BY <1>2, NullRows DEF Restart
    <2>2. QED
      BY <2>1 DEF JobsWarranted, Warranted
  <1>3. QED
    BY <1>1, <1>2, StartsWarranted, GoesOnWarranted
       DEF Next, Logout, SessionExpires, AccessExpires, vars

\* No handler has been let in yet.
LEMMA WarrantedInit == Init => JobsWarranted
  BY NullRows DEF Init, JobsWarranted, Warranted

\* The first step of a handler only reads.
LEMMA StartsOnlyRead ==
    ASSUME NEW h \in Handlers, Starts(h)
    PROVE  OnlyJob
  BY DEF Starts, Login, Refresh, AskCreate, AskUpdate, AskPassword

\* Administrators change in the later steps of handlers only.
LEMMA HandlersChange ==
    ASSUME [Next]_vars, admins' # admins
    PROVE  \E h \in Handlers : GoesOn(h)
  <1>1. ~ \E h \in Handlers : Starts(h)
    BY StartsOnlyRead DEF OnlyJob
  <1>2. ~Restart
    BY DEF Restart
  <1>3. ~ \E s \in AdminSessions : Logout(s) \/ SessionExpires(s)
    BY DEF Logout, SessionExpires
  <1>4. ~ \E t \in access : AccessExpires(t)
    BY DEF AccessExpires
  <1>5. QED
    BY <1>1, <1>2, <1>3, <1>4 DEF Next, vars

\* A handler that ends with a change of an administrator has inserted or written it.
LEMMA ChangesAreWrites ==
    ASSUME AuthInv, [Next]_vars, NEW h \in Handlers, Changes(h)
    PROVE  Insert(h) \/ Write(h)
  <1>1. PICK g \in Handlers : GoesOn(g)
    BY HandlersChange DEF Changes
  <1>2. \E j : Continue(g, j)
    BY <1>1 DEF GoesOn, Issue, Rotate, Insert, LookUp, Count, Write, Verify, Store, Cut, End
  <1>3. g = h
    BY <1>2 DEF Changes, Continue, AuthInv, AuthTypeOK
  <1>4. QED
    BY <1>1, <1>3 DEF Changes, GoesOn, Issue, Rotate, LookUp, Count, Verify, Store, Cut

\* What an update of oneself that passed the checks may still ask for leaves an active
\* administrator as they were.
LEMMA SelfIsUntouched ==
    ASSUME NEW row \in AdminRow, NEW j \in Job, j.role = NULL, j.active # FALSE, row.active
    PROVE  Updated(row, j) = row
  <1>1. row = [role |-> row.role, active |-> row.active, password |-> row.password]
    BY DEF AdminRow
  <1>2. row.active = TRUE /\ j.active \in {TRUE, NULL}
    <2>1. row.active \in BOOLEAN /\ j.active \in BOOLEAN \cup {NULL}
      BY DEF AdminRow, Job
    <2>2. QED
      BY <2>1, Zenon
  <1> DEFINE active == IF j.active = NULL THEN row.active ELSE j.active
  <1>3. active = row.active
    BY <1>2, Zenon
  <1>4. Updated(row, j) = [role |-> row.role, active |-> active, password |-> row.password]
    BY DEF Updated
  <1> HIDE DEF active
  <1>5. QED
    BY <1>1, <1>3, <1>4

\* A change comes from whom the guard found in charge; one's own row is written only
\* when it is no longer the row the guard found.
LEMMA ChangesAreFromAbove ==
    ASSUME AuthInv, JobsWarranted, [Next]_vars, NEW h \in Handlers, Changes(h)
    PROVE  /\ InCharge(job[h].asked)
           /\ job[h].actor = job[h].target => admins[job[h].target] # job[h].asked
  <1> DEFINE a == job[h].target
             row == Updated(admins[a], job[h])
  <1>1. Warranted(job[h]) /\ job[h].pc \in {"insert", "write"}
    BY DEF JobsWarranted, Changes
  <1>2. InCharge(job[h].asked)
    BY <1>1 DEF Warranted
  <1>3. admins \in [Admins -> AdminRow] /\ job[h] \in Job /\ a \in Admins
    BY <1>1 DEF AuthInv, AuthTypeOK, JobsKnow
  <1>4. ASSUME job[h].actor = a, admins[a] = job[h].asked PROVE FALSE
    <2>1. admins[a].active /\ admins[a].role = "SUPER_ADMIN"
      BY <1>2, <1>4 DEF InCharge
    <2>2. CASE Insert(h)
      <3>1. Present(a)
        BY <2>1, AuthAssumption DEF Present, Roles
      <3>2. QED
        BY <2>2, <3>1 DEF Insert, Changes
    <2>3. CASE Write(h)
      <3>1. job[h].role = NULL /\ job[h].active # FALSE
        BY <1>1, <1>4, <2>3, Zenon DEF Warranted, TouchesSelf, Write
      <3>2. row = admins[a]
        BY <1>3, <2>1, <3>1, SelfIsUntouched
      <3>3. admins' = [admins EXCEPT ![a] = row]
        BY <2>3 DEF Write
      <3> HIDE DEF row, a
      <3>4. QED
        BY <1>3, <3>2, <3>3 DEF Changes
    <2>4. QED
      BY <2>2, <2>3, ChangesAreWrites
  <1>5. QED
    BY <1>2, <1>4

\* Administrators are made and changed only by somebody the guard found to be an active
\* SUPER_ADMIN, however long ago, and whatever their token says of them; and an update
\* of oneself, which may neither change the role nor deactivate, only ever undoes what
\* somebody else did since (JwtAuthGuard, RolesGuard, update).
THEOREM OnlyFromAbove == Spec => ChangesComeFromAbove
  <1>1. AuthInv /\ JobsWarranted /\ [Next]_vars
        => [\A h \in Handlers : Changes(h) =>
              /\ InCharge(job[h].asked)
              /\ job[h].actor = job[h].target => admins[job[h].target] # job[h].asked]_vars
    BY ChangesAreFromAbove
  <1>2. QED
    BY AuthInit, AuthNext, WarrantedInit, WarrantedNext, <1>1, PTL
       DEF Spec, ChangesComeFromAbove

\* An update that does not demote leaves a SUPER_ADMIN in charge.
LEMMA KeepsCharge ==
    ASSUME NEW row \in AdminRow, NEW j \in Job, InCharge(row), ~DemotesSuper(j, row)
    PROVE  InCharge(Updated(row, j))
  <1>1. j.role \in {NULL, "SUPER_ADMIN"} /\ j.active # FALSE
    BY DEF DemotesSuper, InCharge
  <1>2. Updated(row, j).role = "SUPER_ADMIN"
    BY <1>1 DEF Updated, InCharge
  <1>3. Updated(row, j).active
    <2>1. j.active \in BOOLEAN \cup {NULL}
      BY DEF Job
    <2>2. CASE j.active = NULL
      BY <2>2 DEF Updated, InCharge
    <2>3. CASE j.active # NULL
      <3>1. Updated(row, j).active = j.active
        BY <2>3 DEF Updated
      <3>2. j.active = TRUE
        BY <1>1, <2>1, <2>3, Zenon
      <3>3. QED
        BY <3>1, <3>2, Zenon
    <2>4. QED
      BY <2>2, <2>3
  <1>4. QED
    BY <1>2, <1>3 DEF InCharge

\* The step that takes away the last one is a write that was overtaken.
LEMMA LossIsARace ==
    ASSUME AuthInv, JobsWarranted, [Next]_vars, SomebodyInCharge, ~SomebodyInCharge'
    PROVE  \E h \in Handlers : Changes(h) /\ Overtaken(job[h])
  <1>1. admins \in [Admins -> AdminRow] /\ job \in [Handlers -> Job]
    BY DEF AuthInv, AuthTypeOK
  <1>2. \A a \in Admins : InCharge(admins[a]) => ~InCharge(admins'[a])
    BY DEF SomebodyInCharge, InCharge
  <1>3. PICK a \in Admins : InCharge(admins[a])
    BY DEF SomebodyInCharge
  <1>4. admins' # admins
    BY <1>2, <1>3
  <1>5. PICK h \in Handlers : GoesOn(h)
    BY <1>4, HandlersChange
  <1>6. ~Insert(h)
    <2>1. Present(a)
      BY <1>3, AuthAssumption DEF InCharge, Present, Roles
    <2>2. Insert(h) => admins'[a] = admins[a]
      BY <1>1, <2>1 DEF Insert
    <2>3. QED
      BY <1>2, <1>3, <2>2
  <1>7. ~Store(h)
    <2>1. Store(h) => admins'[a].role = admins[a].role /\ admins'[a].active = admins[a].active
      BY <1>1 DEF Store, AdminRow
    <2>2. QED
      BY <1>2, <1>3, <2>1 DEF InCharge
  <1>8. Write(h)
    BY <1>4, <1>5, <1>6, <1>7 DEF GoesOn, Issue, Rotate, LookUp, Count, Verify, Cut, OnlyJob
  <1>9. Changes(h)
    BY <1>1, <1>4, <1>8, NullRows DEF Changes, Write, End, Continue
  <1> DEFINE j == job[h]
             t == job[h].target
  <1>10. /\ j \in Job /\ t \in Admins /\ Warranted(j) /\ j.pc = "write"
    BY <1>1, <1>8 DEF Write, AuthInv, JobsKnow, JobsWarranted
  <1>11. admins' = [admins EXCEPT ![t] = Updated(admins[t], j)]
    BY <1>8 DEF Write
  <1>12. t = a
    BY <1>1, <1>2, <1>3, <1>10, <1>11
  <1>13. \A b \in Admins \ {t} : ~InCharge(admins[b])
    BY <1>1, <1>2, <1>11
  <1>14. CASE j.counted # {}
    <2>1. PICK b \in j.counted : b # t
      BY <1>10, <1>14 DEF Warranted
    <2>2. ~InCharge(admins[b])
      BY <1>10, <1>13, <2>1 DEF Job
    <2>3. QED
      BY <1>9, <2>1, <2>2 DEF Overtaken
  <1>15. CASE j.counted = {}
    <2>1. ~DemotesSuper(j, j.seen)
      BY <1>10, <1>15 DEF Warranted
    <2>2. admins'[t] = Updated(admins[t], j)
      BY <1>1, <1>10, <1>11
    <2>3. DemotesSuper(j, admins[t])
      BY <1>1, <1>2, <1>3, <1>10, <1>12, <2>2, KeepsCharge
    <2>4. QED
      BY <1>9, <2>1, <2>3 DEF Overtaken
  <1>16. QED
    BY <1>14, <1>15

\* Protection of the last active SUPER_ADMIN: whatever overlaps and wherever a restart
\* cuts a request short, the last one is lost only to an update whose target was changed
\* after it looked, or that counted somebody who is no longer in charge when it writes
\* (update, assertAnotherActiveSuperAdmin).
THEOREM LastSuperAdminStays == Spec => TheLastFallsToARace
  <1>1. AuthInv /\ JobsWarranted /\ [Next]_vars
        => [SomebodyInCharge /\ ~SomebodyInCharge' =>
              \E h \in Handlers : Changes(h) /\ Overtaken(job[h])]_vars
    BY LossIsARace
  <1>2. QED
    BY AuthInit, AuthNext, WarrantedInit, WarrantedNext, <1>1, PTL
       DEF Spec, TheLastFallsToARace

-----------------------------------------------------------------------------
(* The sessions of administrators. *)

Live(s) == refresh[s].status = "live"

\* A session from which the next one of its login may be drawn in order, whether its
\* time has come or not.
Tip(s) == refresh[s].status \in {"live", "expired"} /\ ~refresh[s].forked

\* Handler h has revoked such a session and is to open the next one.
Drawing(h) ==
    /\ job[h].pc = "issue" /\ job[h].session # NULL /\ ~job[h].raced
    /\ ~refresh[job[h].session].forked

ChainOf(h) == refresh[job[h].session].chain

\* Sessions may end or be spared, and nothing else becomes of them.
OnlyEnds ==
    \A s \in AdminSessions :
        /\ refresh'[s].chain = refresh[s].chain /\ refresh'[s].admin = refresh[s].admin
        /\ refresh'[s].under = refresh[s].under /\ refresh'[s].forked = refresh[s].forked
        /\ refresh[s].spared => refresh'[s].spared
        /\ refresh'[s].status = "live" => refresh[s].status = "live"
        /\ refresh'[s].status = "expired" => refresh[s].status \in {"live", "expired"}
        /\ refresh'[s].status = "free" <=> refresh[s].status = "free"
        /\ refresh[s].status = "revoked" => refresh'[s].status = "revoked"

\* A session that ends keeps the rest of its row.
LEMMA EndedRow ==
    ASSUME NEW row \in RefreshRow, NEW status \in {"revoked", "expired"},
           NEW end, end = [row EXCEPT !.status = status]
    PROVE  end.status = status /\ end.admin = row.admin /\ end.under = row.under
           /\ end.chain = row.chain /\ end.forked = row.forked /\ end.spared = row.spared
  BY DEF RefreshRow

\* The steps that end sessions do no more than that.
LEMMA EndingOnlyEnds ==
    ASSUME AuthInv,
           \/ \E s \in AdminSessions : Logout(s) \/ SessionExpires(s)
           \/ \E h \in Handlers : Rotate(h) \/ Cut(h)
           \/ Restart
    PROVE  OnlyEnds
  <1>1. refresh \in [AdminSessions -> RefreshRow]
    BY DEF AuthInv, AuthTypeOK
  <1>2. ASSUME NEW s \in AdminSessions, refresh[s].status # "free",
               refresh' = [refresh EXCEPT ![s] = [refresh[s] EXCEPT !.status = "revoked"]]
        PROVE  OnlyEnds
    <2> DEFINE end == [refresh[s] EXCEPT !.status = "revoked"]
    <2>1. /\ end.status = "revoked" /\ end.admin = refresh[s].admin
          /\ end.under = refresh[s].under /\ end.chain = refresh[s].chain
          /\ end.forked = refresh[s].forked /\ end.spared = refresh[s].spared
      BY <1>1, EndedRow
    <2>2. refresh' = [refresh EXCEPT ![s] = end]
      BY <1>2
    <2> HIDE DEF end
    <2>3. QED
      BY <1>1, <1>2, <2>1, <2>2 DEF OnlyEnds
  <1>3. ASSUME NEW s \in AdminSessions, Logout(s) PROVE OnlyEnds
    BY <1>2, <1>3 DEF Logout, Revoked
  <1>4. ASSUME NEW s \in AdminSessions, SessionExpires(s) PROVE OnlyEnds
    <2> DEFINE end == [refresh[s] EXCEPT !.status = "expired"]
    <2>1. /\ end.status = "expired" /\ end.admin = refresh[s].admin
          /\ end.under = refresh[s].under /\ end.chain = refresh[s].chain
          /\ end.forked = refresh[s].forked /\ end.spared = refresh[s].spared
      BY <1>1, EndedRow
    <2>2. refresh' = [refresh EXCEPT ![s] = end] /\ refresh[s].status = "live"
      BY <1>4 DEF SessionExpires
    <2> HIDE DEF end
    <2>3. QED
      BY <1>1, <2>1, <2>2 DEF OnlyEnds
  <1>5. ASSUME NEW h \in Handlers, Rotate(h) PROVE OnlyEnds
    <2>1. job[h].session \in AdminSessions /\ refresh[job[h].session].status # "free"
      BY <1>5 DEF AuthInv, JobsKnow, Rotate
    <2>2. QED
      BY <1>2, <1>5, <2>1 DEF Rotate, Revoked
  <1>6. ASSUME NEW h \in Handlers, Cut(h) PROVE OnlyEnds
    <2>1. \A s \in AdminSessions :
             \/ refresh'[s] = refresh[s]
             \/ Live(s) /\ refresh'[s] = [refresh[s] EXCEPT !.status = "revoked"]
      BY <1>6 DEF Cut, Revoked, Live
    <2>2. ASSUME NEW s \in AdminSessions, NEW end,
                 end = [refresh[s] EXCEPT !.status = "revoked"]
          PROVE  /\ end.status = "revoked" /\ end.admin = refresh[s].admin
                 /\ end.under = refresh[s].under /\ end.chain = refresh[s].chain
                 /\ end.forked = refresh[s].forked /\ end.spared = refresh[s].spared
      BY <1>1, <2>2, EndedRow
    <2>3. QED
      BY <2>1, <2>2 DEF OnlyEnds, Live
  <1>7. CASE Restart
    <2>1. ASSUME NEW s \in AdminSessions, NEW row,
                 row = [refresh[s] EXCEPT !.spared = @ \/ Spared(s)]
          PROVE  /\ row.status = refresh[s].status /\ row.admin = refresh[s].admin
                 /\ row.under = refresh[s].under /\ row.chain = refresh[s].chain
                 /\ row.forked = refresh[s].forked
                 /\ row.spared = (refresh[s].spared \/ Spared(s))
      BY <1>1, <2>1 DEF RefreshRow
    <2>2. QED
      BY <1>1, <1>7, <2>1 DEF Restart, OnlyEnds, RefreshRow
  <1>8. QED
    BY <1>3, <1>4, <1>5, <1>6, <1>7

-----------------------------------------------------------------------------
(* One session per login, but for forks. *)

\* The session a login opened is never free again, so no fresh session can be taken
\* for it.
ChainsAreFounded ==
    \A s \in AdminSessions : refresh[s].status # "free" =>
        refresh[s].chain \in AdminSessions /\ refresh[refresh[s].chain].status # "free"

\* A handler that is to open the next session of a login has revoked the one before.
DrawnAreRevoked ==
    \A h \in Handlers : job[h].pc = "issue" /\ job[h].session # NULL =>
        job[h].session \in AdminSessions /\ refresh[job[h].session].status = "revoked"

\* Of one login there is one session to be drawn from, or one handler about to open the
\* next one, and never both.
OneTip ==
    /\ \A s, u \in AdminSessions :
          Tip(s) /\ Tip(u) /\ refresh[s].chain = refresh[u].chain => s = u
    /\ \A h \in Handlers, s \in AdminSessions :
          Drawing(h) /\ Tip(s) => refresh[s].chain # ChainOf(h)
    /\ \A g, h \in Handlers :
          Drawing(g) /\ Drawing(h) /\ ChainOf(g) = ChainOf(h) => g = h

ChainInv == ChainsAreFounded /\ DrawnAreRevoked /\ OneTip

\* Sessions end, or nothing becomes of them, and no handler comes to open one of a login
\* that has been opened before.
LEMMA QuietKeepsChains ==
    ASSUME AuthInv, ChainInv, OnlyEnds,
           \A h \in Handlers : \/ job'[h] = job[h] \/ job'[h].pc # "issue"
                               \/ job'[h].session = NULL
    PROVE  ChainInv'
  <1>1. ChainsAreFounded'
    BY DEF ChainInv, ChainsAreFounded, OnlyEnds
  <1>2. DrawnAreRevoked'
    BY DEF ChainInv, DrawnAreRevoked, OnlyEnds
  <1>3. \A s \in AdminSessions : Tip(s)' => Tip(s) /\ refresh'[s].chain = refresh[s].chain
    BY DEF Tip, OnlyEnds
  <1>4. \A h \in Handlers : Drawing(h)' => Drawing(h) /\ ChainOf(h)' = ChainOf(h)
    BY DEF Drawing, ChainOf, OnlyEnds, ChainInv, DrawnAreRevoked
  <1>5. OneTip'
    BY <1>3, <1>4 DEF ChainInv, OneTip
  <1>6. QED
    BY <1>1, <1>2, <1>5 DEF ChainInv

\* A request that starts opens the first session of a login, or none yet.
LEMMA StartsKeepChains ==
    ASSUME AuthInv, ChainInv, NEW h \in Handlers, Starts(h)
    PROVE  ChainInv'
  <1>1. job \in [Handlers -> Job]
    BY DEF AuthInv, AuthTypeOK
  <1>2. OnlyEnds
    BY StartsOnlyRead DEF OnlyEnds, OnlyJob
  <1>3. ASSUME NEW j, Continue(h, j), j.pc # "issue" \/ j.session = NULL
        PROVE  ChainInv'
    <2>1. job'[h] = j /\ \A g \in Handlers \ {h} : job'[g] = job[g]
      BY <1>1, <1>3 DEF Continue
    <2>2. QED
      BY <1>2, <1>3, <2>1, QuietKeepsChains
  <1>4. ASSUME NEW a, NEW password, Login(h, a, password) PROVE ChainInv'
    BY <1>3, <1>4 DEF Login, NoJob
  <1>5. ASSUME NEW s, Refresh(h, s) PROVE ChainInv'
    BY <1>3, <1>5 DEF Refresh, NoJob
  <1>6. ASSUME NEW t, NEW a, NEW role, NEW password, AskCreate(h, t, a, role, password)
        PROVE  ChainInv'
    BY <1>3, <1>6 DEF AskCreate, NoJob
  <1>7. ASSUME NEW t, NEW a, NEW role, NEW active, AskUpdate(h, t, a, role, active)
        PROVE  ChainInv'
    BY <1>3, <1>7 DEF AskUpdate, NoJob
  <1>8. ASSUME NEW t, NEW a, NEW current, NEW new, AskPassword(h, t, a, current, new)
        PROVE  ChainInv'
    BY <1>3, <1>8 DEF AskPassword, NoJob
  <1>9. QED
    BY <1>4, <1>5, <1>6, <1>7, <1>8 DEF Starts

\* The session that is opened is the first of its login, or its handler was the one to
\* draw it, or it is forked.
LEMMA IssueKeepsChains ==
    ASSUME AuthInv, ChainInv, NEW h \in Handlers, Issue(h), FreeSessions # {}
    PROVE  ChainInv'
  <1> USE AuthAssumption
  <1>1. job \in [Handlers -> Job] /\ refresh \in [AdminSessions -> RefreshRow]
    BY DEF AuthInv, AuthTypeOK
  <1>2. PICK s \in AdminSessions : s = FreshSession /\ refresh[s].status = "free"
    BY DEF FreshSession, FreeSessions
  <1> DEFINE from == job[h].session
             chain == IF from = NULL THEN s ELSE refresh[from].chain
             row == [status |-> "live", admin |-> job[h].actor, under |-> job[h].given,
                     chain |-> chain,
                     forked |-> from # NULL /\ (job[h].raced \/ refresh[from].forked),
                     spared |-> job[h].given # admins[job[h].actor].password]
  <1>3. /\ refresh' = [refresh EXCEPT ![s] = row]
        /\ row.status = "live" /\ row.chain = chain
        /\ ~row.forked => from = NULL \/ Drawing(h)
    BY <1>2 DEF Issue, Drawing
  <1>4. job'[h].pc = "idle" /\ \A g \in Handlers \ {h} : job'[g] = job[g]
    BY <1>1, NullRows DEF Issue, End, Continue
  <1>5. from # NULL => from \in AdminSessions /\ refresh[from].status = "revoked"
    BY DEF Issue, ChainInv, DrawnAreRevoked
  <1>6. chain \in AdminSessions /\ (chain = s \/ refresh[chain].status # "free")
    BY <1>2, <1>5 DEF ChainInv, ChainsAreFounded
  <1>7. ASSUME from = NULL
        PROVE  /\ \A u \in AdminSessions : Tip(u) => refresh[u].chain # chain
               /\ \A g \in Handlers : Drawing(g) => ChainOf(g) # chain
    BY <1>2, <1>7 DEF ChainInv, ChainsAreFounded, DrawnAreRevoked, Tip, Drawing, ChainOf
  <1>8. ASSUME Drawing(h)
        PROVE  /\ \A u \in AdminSessions : Tip(u) => refresh[u].chain # chain
               /\ \A g \in Handlers \ {h} : Drawing(g) => ChainOf(g) # chain
    BY <1>8 DEF ChainInv, OneTip, ChainOf, Drawing
  <1> HIDE DEF from, chain, row
  <1>9. refresh'[s] = row /\ \A u \in AdminSessions \ {s} : refresh'[u] = refresh[u]
    BY <1>1, <1>2, <1>3
  <1>10. ChainsAreFounded'
    BY <1>2, <1>3, <1>6, <1>9 DEF ChainInv, ChainsAreFounded
  <1>11. \A g \in Handlers : job'[g].pc = "issue" /\ job'[g].session # NULL =>
            /\ g # h /\ job'[g] = job[g] /\ job[g].session \in AdminSessions \ {s}
            /\ refresh[job[g].session].status = "revoked"
    BY <1>2, <1>4 DEF ChainInv, DrawnAreRevoked
  <1>12. DrawnAreRevoked'
    BY <1>9, <1>11 DEF DrawnAreRevoked
  <1>13. \A g \in Handlers : Drawing(g)' => g # h /\ Drawing(g) /\ ChainOf(g)' = ChainOf(g)
    BY <1>9, <1>11 DEF Drawing, ChainOf
  <1>14. \A u \in AdminSessions \ {s} :
            Tip(u)' => Tip(u) /\ refresh'[u].chain = refresh[u].chain
    BY <1>9 DEF Tip
  <1>15. Tip(s)' => from = NULL \/ Drawing(h)
    BY <1>3, <1>9 DEF Tip
  <1>16. /\ \A u \in AdminSessions \ {s} : Tip(u) /\ Tip(s)' => refresh[u].chain # chain
         /\ \A g \in Handlers \ {h} : Drawing(g) /\ Tip(s)' => ChainOf(g) # chain
    BY <1>7, <1>8, <1>15
  <1>17. OneTip'
    <2>1. refresh'[s].chain = chain
      BY <1>3, <1>9
    <2>2. \A v, u \in AdminSessions :
             Tip(v)' /\ Tip(u)' /\ refresh'[v].chain = refresh'[u].chain => v = u
      BY <1>14, <1>16, <2>1 DEF ChainInv, OneTip
    <2>3. \A g \in Handlers, u \in AdminSessions :
             Drawing(g)' /\ Tip(u)' => refresh'[u].chain # ChainOf(g)'
      BY <1>13, <1>14, <1>16, <2>1 DEF ChainInv, OneTip
    <2>4. QED
      BY <1>13, <2>2, <2>3 DEF ChainInv, OneTip
  <1>18. QED
    BY <1>10, <1>12, <1>17 DEF ChainInv

\* The handler that revokes the session to be drawn from is the one to draw the next;
\* one that comes later finds it revoked and is not.
LEMMA RotateKeepsChains ==
    ASSUME AuthInv, ChainInv, NEW h \in Handlers, Rotate(h)
    PROVE  ChainInv'
  <1>1. /\ job \in [Handlers -> Job] /\ job[h] \in Job
        /\ refresh \in [AdminSessions -> RefreshRow]
    BY DEF AuthInv, AuthTypeOK
  <1> DEFINE s == job[h].session
             j == [job[h] EXCEPT !.pc = "issue", !.raced = refresh[s].status = "revoked"]
             end == [refresh[s] EXCEPT !.status = "revoked"]
  <1>2. OnlyEnds
    BY EndingOnlyEnds
  <1>3. s \in AdminSessions /\ refresh[s].status # "free"
    BY DEF AuthInv, JobsKnow, Rotate
  <1>4. refresh[s] \in RefreshRow
    BY <1>1, <1>3
  <1>5. j.pc = "issue" /\ j.session = s /\ j.raced = (refresh[s].status = "revoked")
    BY <1>1 DEF Job
  <1>6. end.status = "revoked"
    BY <1>4, EndedRow
  <1>7. Continue(h, j) /\ refresh' = [refresh EXCEPT ![s] = end]
    BY DEF Rotate, Revoked
  <1> HIDE DEF s, j, end
  <1>8. refresh'[s].status = "revoked"
    BY <1>1, <1>3, <1>6, <1>7
  <1>9. job'[h] = j /\ \A g \in Handlers \ {h} : job'[g] = job[g]
    BY <1>1, <1>7 DEF Continue
  <1>10. ChainsAreFounded'
    BY <1>2 DEF ChainInv, ChainsAreFounded, OnlyEnds
  <1>11. DrawnAreRevoked'
    BY <1>2, <1>3, <1>5, <1>8, <1>9 DEF ChainInv, DrawnAreRevoked, OnlyEnds
  <1>12. Drawing(h)' => Tip(s) /\ ChainOf(h)' = refresh[s].chain
    BY <1>2, <1>3, <1>4, <1>5, <1>9 DEF Drawing, Tip, ChainOf, OnlyEnds, RefreshRow
  <1>13. \A u \in AdminSessions :
            Tip(u)' => u # s /\ Tip(u) /\ refresh'[u].chain = refresh[u].chain
    BY <1>2, <1>8 DEF Tip, OnlyEnds
  <1>14. \A g \in Handlers \ {h} : Drawing(g)' => Drawing(g) /\ ChainOf(g)' = ChainOf(g)
    BY <1>2, <1>9 DEF Drawing, ChainOf, OnlyEnds, ChainInv, DrawnAreRevoked
  <1>15. OneTip'
    BY <1>3, <1>12, <1>13, <1>14 DEF ChainInv, OneTip
  <1>16. QED
    BY <1>10, <1>11, <1>15 DEF ChainInv

\* The other steps of handlers have nothing to do with sessions, or end them.
LEMMA GoesOnKeepsChains ==
    ASSUME AuthInv, ChainInv, NEW h \in Handlers, GoesOn(h)
    PROVE  ChainInv'
  <1>1. job \in [Handlers -> Job] /\ job[h] \in Job
    BY DEF AuthInv, AuthTypeOK
  <1>2. ASSUME OnlyEnds, NEW j, Continue(h, j), j.pc # "issue" PROVE ChainInv'
    <2>1. job'[h] = j /\ \A g \in Handlers \ {h} : job'[g] = job[g]
      BY <1>1, <1>2 DEF Continue
    <2>2. QED
      BY <1>2, <2>1, QuietKeepsChains
  <1>3. ASSUME OnlyEnds, NEW pc \in {"store", "cut"}, Continue(h, [job[h] EXCEPT !.pc = pc])
        PROVE  ChainInv'
    BY <1>1, <1>2, <1>3 DEF Job
  <1>4. ASSUME OnlyEnds, End(h) PROVE ChainInv'
    BY <1>2, <1>4, NullRows DEF End
  <1>5. CASE LookUp(h) \/ Count(h) \/ Verify(h) \/ Store(h) \/ Insert(h) \/ Write(h)
             \/ (Issue(h) /\ FreeSessions = {})
    <2>1. OnlyEnds
      BY <1>5 DEF LookUp, Count, Verify, Store, Insert, Write, Issue, OnlyJob, OnlyEnds
    <2>2. CASE LookUp(h) /\ ~End(h)
      BY <1>1, <1>2, <2>1, <2>2 DEF LookUp, Job
    <2>3. CASE Count(h) /\ ~End(h)
      BY <1>1, <1>2, <2>1, <2>3 DEF Count, Job
    <2>4. QED
      BY <1>3, <1>4, <1>5, <2>1, <2>2, <2>3 DEF Verify, Store, Insert, Write, Issue
  <1>6. CASE Cut(h)
    BY <1>4, <1>6, EndingOnlyEnds DEF Cut
  <1>7. QED
    BY <1>5, <1>6, IssueKeepsChains, RotateKeepsChains DEF GoesOn

\* Every step leaves at most one session to be drawn from per login.
LEMMA ChainNext == AuthInv /\ ChainInv /\ [Next]_vars => ChainInv'
  <1> SUFFICES ASSUME AuthInv, ChainInv, [Next]_vars PROVE ChainInv'
    OBVIOUS
  <1>1. CASE \E s \in AdminSessions : Logout(s) \/ SessionExpires(s)
    <2>1. OnlyEnds /\ job' = job
      BY <1>1, EndingOnlyEnds DEF Logout, SessionExpires
    <2>2. QED
      BY <2>1, QuietKeepsChains
  <1>2. CASE (\E t \in access : AccessExpires(t)) \/ UNCHANGED vars
    <2>1. refresh' = refresh /\ job' = job
      BY <1>2 DEF AccessExpires, vars
    <2>2. QED
      BY <2>1, QuietKeepsChains DEF OnlyEnds
  <1>3. CASE Restart
    <2>1. \A h \in Handlers : job'[h].pc = "idle"
      BY <1>3, NullRows DEF Restart
    <2>2. OnlyEnds
      BY <1>3, EndingOnlyEnds
    <2>3. QED
      BY <2>1, <2>2, QuietKeepsChains
  <1>4. QED
    BY <1>1, <1>2, <1>3, StartsKeepChains, GoesOnKeepsChains DEF Next

\* Before any login there is no session.
LEMMA SessionsInit == Init => ChainInv /\ NewPasswordsCut
  <1> SUFFICES ASSUME Init PROVE ChainInv /\ NewPasswordsCut
    OBVIOUS
  <1>1. /\ \A s \in AdminSessions : refresh[s].status = "free"
        /\ \A h \in Handlers : job[h].pc = "idle"
    BY NullRows DEF Init, NoRefresh
  <1>2. QED
    BY <1>1 DEF ChainInv, ChainsAreFounded, DrawnAreRevoked, OneTip, Tip, Drawing,
                NewPasswordsCut

\* "Rotación con revocación del anterior": of the sessions that refreshes have drawn
\* from one login at most one is live, wherever a restart cuts a refresh short and
\* whatever overlaps, except sessions that go back to a refresh which found the session
\* of its token revoked when it came to revoke it (auth.service.ts, refresh and
\* issueSession).
THEOREM OneSessionStaysLive == Spec => []OneLiveSessionPerLogin
  <1>1. ChainInv => OneLiveSessionPerLogin
    BY DEF ChainInv, OneTip, Tip, OneLiveSessionPerLogin
  <1>2. Init => ChainInv
    BY SessionsInit
  <1>3. QED
    BY AuthInit, AuthNext, ChainNext, <1>1, <1>2, PTL DEF Spec

-----------------------------------------------------------------------------
(* No session under an old password. *)

\* Sessions end at most, passwords stay, and every handler that is to revoke sessions
\* stays where it is.
LEMMA QuietKeepsPasswords ==
    ASSUME AuthInv, NewPasswordsCut, OnlyEnds,
           \A a \in Admins : Present(a) => admins'[a].password = admins[a].password,
           \A h \in Handlers : job[h].pc = "cut" => job'[h] = job[h]
    PROVE  NewPasswordsCut'
  <1> SUFFICES ASSUME NEW s \in AdminSessions, refresh'[s].status = "live",
                      ~refresh'[s].spared,
                      ~ \E h \in Handlers : job'[h].pc = "cut" /\ job'[h].target = refresh'[s].admin
               PROVE  refresh'[s].under = admins'[refresh'[s].admin].password
    BY DEF NewPasswordsCut
  <1>1. /\ Live(s) /\ refresh[s].admin \in Admins /\ Present(refresh[s].admin)
        /\ refresh'[s].admin = refresh[s].admin /\ refresh'[s].under = refresh[s].under
        /\ ~refresh[s].spared
    BY DEF OnlyEnds, Live, AuthInv, SessionsNameAdmins
  <1>2. refresh[s].under = admins[refresh[s].admin].password
    BY <1>1 DEF NewPasswordsCut, Live
  <1>3. QED
    BY <1>1, <1>2

\* A session that is opened is under the password of now, or spared.
LEMMA IssueKeepsPasswords ==
    ASSUME AuthInv, NewPasswordsCut, NEW h \in Handlers, Issue(h), FreeSessions # {}
    PROVE  NewPasswordsCut'
  <1>1. job \in [Handlers -> Job] /\ refresh \in [AdminSessions -> RefreshRow]
    BY DEF AuthInv, AuthTypeOK
  <1>2. PICK s \in AdminSessions : s = FreshSession
    BY DEF FreshSession, FreeSessions
  <1> DEFINE from == job[h].session
             row == [status |-> "live", admin |-> job[h].actor, under |-> job[h].given,
                     chain |-> IF from = NULL THEN s ELSE refresh[from].chain,
                     forked |-> from # NULL /\ (job[h].raced \/ refresh[from].forked),
                     spared |-> job[h].given # admins[job[h].actor].password]
  <1>3. /\ refresh' = [refresh EXCEPT ![s] = row] /\ admins' = admins
        /\ row.under = admins[row.admin].password \/ row.spared
    BY <1>2 DEF Issue
  <1>4. \A g \in Handlers : job[g].pc = "cut" => job'[g] = job[g]
    BY <1>1 DEF Issue, End, Continue
  <1> HIDE DEF row
  <1>5. QED
    BY <1>1, <1>3, <1>4 DEF NewPasswordsCut

\* Between the new password and the cut the handler answers for its target; the cut
\* leaves no session of it.
LEMMA ChangeKeepsPasswords ==
    ASSUME AuthInv, NewPasswordsCut, NEW h \in Handlers, Store(h) \/ Cut(h)
    PROVE  NewPasswordsCut'
  <1>1. /\ job \in [Handlers -> Job] /\ job[h] \in Job
        /\ refresh \in [AdminSessions -> RefreshRow] /\ admins \in [Admins -> AdminRow]
    BY DEF AuthInv, AuthTypeOK
  <1>2. CASE Store(h)
    <2> DEFINE a == job[h].target
               j == [job[h] EXCEPT !.pc = "cut"]
               row == [admins[a] EXCEPT !.password = job[h].new]
    <2>1. j.pc = "cut" /\ j.target = a
      BY <1>1 DEF Job
    <2>2. /\ Continue(h, j) /\ refresh' = refresh /\ admins' = [admins EXCEPT ![a] = row]
          /\ job[h].pc = "store"
      BY <1>2 DEF Store
    <2> HIDE DEF a, j, row
    <2>3. job'[h] = j /\ \A g \in Handlers \ {h} : job'[g] = job[g]
      BY <1>1, <2>2 DEF Continue
    <2>4. \A b \in Admins : b # a => admins'[b] = admins[b]
      BY <1>1, <2>2
    <2>5. ASSUME NEW s \in AdminSessions, Live(s), refresh[s].admin # a
          PROVE  \/ refresh[s].under = admins'[refresh[s].admin].password
                 \/ \E g \in Handlers : job'[g].pc = "cut" /\ job'[g].target = refresh[s].admin
                 \/ refresh[s].spared
      <3>1. refresh[s].admin \in Admins
        BY <2>5 DEF AuthInv, SessionsNameAdmins, Live
      <3>2. QED
        BY <2>2, <2>3, <2>4, <2>5, <3>1 DEF NewPasswordsCut, Live
    <2>6. QED
      BY <2>1, <2>2, <2>3, <2>5 DEF NewPasswordsCut, Live
  <1>3. CASE Cut(h)
    <2>1. OnlyEnds
      BY <1>3, EndingOnlyEnds
    <2>2. admins' = admins /\ \A g \in Handlers \ {h} : job'[g] = job[g]
      BY <1>1, <1>3 DEF Cut, End, Continue
    <2>3. ASSUME NEW s \in AdminSessions, refresh'[s].status = "live"
          PROVE  Live(s) /\ refresh[s].admin # job[h].target
      <3>1. Live(s)
        BY <2>1, <2>3 DEF OnlyEnds, Live
      <3>2. refresh[s].admin = job[h].target => refresh'[s] = Revoked(refresh[s])
        BY <1>3, <3>1 DEF Cut, Live
      <3>3. Revoked(refresh[s]).status = "revoked"
        BY <1>1, RevokedTyped
      <3>4. QED
        BY <2>3, <3>1, <3>2, <3>3
    <2>4. QED
      BY <2>1, <2>2, <2>3 DEF NewPasswordsCut, OnlyEnds, Live
  <1>4. QED
    BY <1>2, <1>3

\* The other steps of handlers leave passwords alone.
LEMMA GoesOnKeepsPasswords ==
    ASSUME AuthInv, NewPasswordsCut, NEW h \in Handlers, GoesOn(h)
    PROVE  NewPasswordsCut'
  <1>1. job \in [Handlers -> Job] /\ admins \in [Admins -> AdminRow]
    BY DEF AuthInv, AuthTypeOK
  <1>2. CASE \/ Insert(h) \/ LookUp(h) \/ Count(h) \/ Write(h) \/ Verify(h) \/ Rotate(h)
             \/ Issue(h) /\ FreeSessions = {}
    <2>1. OnlyEnds
      <3>1. CASE Rotate(h)
        BY <3>1, EndingOnlyEnds
      <3>2. QED
        BY <1>2, <3>1 DEF Insert, LookUp, Count, Write, Verify, Issue, OnlyJob, OnlyEnds
    <2>2. \A g \in Handlers : job[g].pc = "cut" => job'[g] = job[g]
      BY <1>1, <1>2 DEF Insert, LookUp, Count, Write, Verify, Rotate, Issue, End, Continue
    <2>3. \A a \in Admins : Present(a) => admins'[a].password = admins[a].password
      <3>1. CASE Write(h)
        <4>1. admins' = [admins EXCEPT ![job[h].target] = Updated(admins[job[h].target], job[h])]
          BY <3>1 DEF Write
        <4>2. Updated(admins[job[h].target], job[h]).password = admins[job[h].target].password
          BY DEF Updated
        <4>3. QED
          BY <1>1, <4>1, <4>2
      <3>2. CASE Insert(h)
        BY <1>1, <3>2 DEF Insert
      <3>3. QED
        BY <1>2, <3>1, <3>2 DEF LookUp, Count, Verify, Rotate, Issue, OnlyJob
    <2>4. QED
      BY <2>1, <2>2, <2>3, QuietKeepsPasswords
  <1>3. QED
    BY <1>2, IssueKeepsPasswords, ChangeKeepsPasswords DEF GoesOn

\* A request that starts only reads.
LEMMA StartsKeepPasswords ==
    ASSUME AuthInv, NewPasswordsCut, NEW h \in Handlers, Starts(h)
    PROVE  NewPasswordsCut'
  <1>1. admins' = admins /\ refresh' = refresh
    BY StartsOnlyRead DEF OnlyJob
  <1>2. job[h].pc = "idle" /\ \E j : Continue(h, j)
    BY DEF Starts, Login, Refresh, AskCreate, AskUpdate, AskPassword
  <1>3. \A g \in Handlers : job[g].pc = "cut" => job'[g] = job[g]
    BY <1>2 DEF Continue, AuthInv, AuthTypeOK
  <1>4. QED
    BY <1>1, <1>3, QuietKeepsPasswords DEF OnlyEnds

\* A restart spares the sessions that a change of password has not come to.
LEMMA RestartKeepsPasswords ==
    ASSUME AuthInv, NewPasswordsCut, Restart
    PROVE  NewPasswordsCut'
  <1>1. OnlyEnds
    BY EndingOnlyEnds
  <1>2. ASSUME NEW s \in AdminSessions, Spared(s) PROVE refresh'[s].spared
    <2>1. refresh[s] \in RefreshRow
      BY DEF AuthInv, AuthTypeOK
    <2>2. refresh'[s] = [refresh[s] EXCEPT !.spared = @ \/ Spared(s)]
      BY DEF Restart
    <2>3. QED
      BY <1>2, <2>1, <2>2 DEF RefreshRow
  <1>3. admins' = admins
    BY DEF Restart
  <1>4. QED
    BY <1>1, <1>2, <1>3 DEF NewPasswordsCut, OnlyEnds, Spared

\* Every step keeps sessions under the passwords of now, but for those it spares.
LEMMA PasswordNext == AuthInv /\ NewPasswordsCut /\ [Next]_vars => NewPasswordsCut'
  <1> SUFFICES ASSUME AuthInv, NewPasswordsCut, [Next]_vars PROVE NewPasswordsCut'
    OBVIOUS
  <1>1. CASE \E s \in AdminSessions : Logout(s) \/ SessionExpires(s)
    <2>1. OnlyEnds /\ job' = job /\ admins' = admins
      BY <1>1, EndingOnlyEnds DEF Logout, SessionExpires
    <2>2. QED
      BY <2>1, QuietKeepsPasswords
  <1>2. CASE (\E t \in access : AccessExpires(t)) \/ UNCHANGED vars
    <2>1. refresh' = refresh /\ admins' = admins /\ job' = job
      BY <1>2 DEF AccessExpires, vars
    <2>2. QED
      BY <2>1, QuietKeepsPasswords DEF OnlyEnds
  <1>3. QED
    BY <1>1, <1>2, StartsKeepPasswords, GoesOnKeepsPasswords, RestartKeepsPasswords DEF Next

\* "Cambio de contraseña revoca todas las sesiones del admin": whatever overlaps, every
\* live session goes back to a login with the password its administrator has now, unless
\* the change has still to revoke it, the request that opened it had passed its check
\* before the change, or a restart kept the change from coming to it
\* (admin-users.service.ts, changePassword).
THEOREM OldPasswordsOpenNothing == Spec => []NewPasswordsCut
  <1>1. Init => NewPasswordsCut
    BY SessionsInit
  <1>2. QED
    BY AuthInit, AuthNext, PasswordNext, <1>1, PTL DEF Spec
=============================================================================
