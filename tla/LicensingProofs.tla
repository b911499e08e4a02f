--------------------------- MODULE LicensingProofs ---------------------------
(***************************************************************************)
(* Theorems about Licensing for every value of its constants: any number   *)
(* of codes, customers, devices, sessions and handlers, any interleaving,  *)
(* with or without restarts.                                               *)
(***************************************************************************)
EXTENDS Licensing, FiniteSetTheorems, TLAPS

-----------------------------------------------------------------------------
(* The inductive invariant behind TypeOK: what a handler in flight knows.  *)

\* A code that exists names a plan.
CodesNamePlans == \A c \in Codes : codes[c].status # "free" => codes[c].plan \in Plans

\* A request that has read its code knows it, its plan and its phone.
RequestsKnow ==
    \A r \in Requests : req[r].pc # "idle" =>
        req[r].app \in Apps /\ req[r].code \in Codes /\ req[r].plan \in Plans

\* What a service may write in the status of a code.
CodeStatuses == {"PENDING", "ACTIVE", "SUSPENDED", "EXPIRED", "REVOKED"}

\* A pending write names the row it is for, and what it writes.
WorkersKnow ==
    \A w \in Workers :
        /\ adm[w].op = "code" => adm[w].code \in Codes /\ adm[w].status \in CodeStatuses
        /\ adm[w].op \in {"cutAccess", "suspend", "renew"} => adm[w].customer \in CustomerIds
        /\ adm[w].op = "renew" => adm[w].plan \in Plans
        /\ adm[w].op = "unblock" => adm[w].device \in DeviceIds

\* The code a request or a pending write is about is in the table.
CopiesHold ==
    /\ \A r \in Requests : req[r].pc # "idle" => codes[req[r].code].status # "free"
    /\ \A w \in Workers : adm[w].op = "code" => codes[adm[w].code].status # "free"

TypeInv == TypeOK /\ CodesNamePlans /\ RequestsKnow /\ WorkersKnow /\ CopiesHold

-----------------------------------------------------------------------------

\* An insertion gets an identifier of the table nobody has used.
LEMMA FreshIsFree ==
    ASSUME NEW table, FreeIds(table) # {}
    PROVE  Fresh(table) \in DOMAIN table /\ table[Fresh(table)].status = "free"
  BY DEF Fresh, FreeIds

\* The idle handler and the absent code are well typed.
LEMMA NullRecords == Idle \in RequestState /\ NoCode \in CodeRow /\ NoPending \in Pending
  BY DEF Idle, RequestState, NoCode, CodeRow, NoPending, Pending

\* The empty database with idle handlers is well typed.
LEMMA InitTyped == Init => TypeInv
  <1> SUFFICES ASSUME Init PROVE TypeInv
    OBVIOUS
  <1> USE StoreAssumption DEF Init, StoreInit, ReqInit, AdmInit
  <1>1. StoreTypeOK
    BY DEF StoreTypeOK, PlanRow, CodeRow, CustomerRow, DeviceRow, SessionRow,
           NoPlan, NoCode, NoCustomer, NoDevice, NoSession
  <1>2. ReqTypeOK
    BY DEF ReqTypeOK, RequestState, Idle
  <1>3. AdmTypeOK
    BY DEF AdmTypeOK, Pending, NoPending
  <1>4. CodesNamePlans /\ RequestsKnow /\ WorkersKnow /\ CopiesHold
    BY DEF CodesNamePlans, RequestsKnow, WorkersKnow, CopiesHold, NoCode, Idle, NoPending
  <1>5. QED
    BY <1>1, <1>2, <1>3, <1>4 DEF TypeInv, TypeOK

\* The end of a transaction keeps the handlers and the locks well typed.
LEMMA FinishTyped ==
    ASSUME TypeInv, NEW r \in Requests, Finish(r)
    PROVE  /\ ReqTypeOK'
           /\ codeLock' \in [Codes -> Requests \cup {NULL}]
           /\ customerLock' \in [CustomerIds -> Requests \cup {NULL}]
           /\ RequestsKnow'
           /\ \A q \in Requests : req'[q].pc # "idle" => req'[q] = req[q]
  <1> USE DEF TypeInv, TypeOK, StoreTypeOK, ReqTypeOK, Finish, Unlocked
  <1>1. /\ ReqTypeOK'
        /\ \A q \in Requests : req'[q].pc # "idle" => req'[q] = req[q]
    BY NullRecords DEF Idle
  <1>2. RequestsKnow'
    BY <1>1 DEF RequestsKnow
  <1>3. codeLock' \in [Codes -> Requests \cup {NULL}]
    OBVIOUS
  <1>4. customerLock' \in [CustomerIds -> Requests \cup {NULL}]
    OBVIOUS
  <1>5. QED
    BY <1>1, <1>2, <1>3, <1>4

\* A request that fails leaves the tables alone.
LEMMA FailTyped ==
    ASSUME TypeInv, NEW r \in Requests, Fail(r), UNCHANGED adm
    PROVE  TypeInv'
  BY FinishTyped
  DEF Fail, TypeInv, TypeOK, StoreTypeOK, AdmTypeOK, CodesNamePlans, WorkersKnow, CopiesHold

\* A handler that goes on to a well-typed state.
LEMMA GoOnTyped ==
    ASSUME TypeInv, NEW r \in Requests, NEW x \in RequestState, UNCHANGED adm,
           x.app \in Apps, x.code \in Codes, x.plan \in Plans,
           codes[x.code].status # "free",
           req' = [req EXCEPT ![r] = x], held' \in [Requests -> BOOLEAN],
           codeLock' \in [Codes -> Requests \cup {NULL}],
           customerLock' \in [CustomerIds -> Requests \cup {NULL}],
           UNCHANGED <<now, plans, codes, customers, devices, sessions>>
    PROVE  TypeInv'
  BY DEF TypeInv, TypeOK, StoreTypeOK, ReqTypeOK, AdmTypeOK, CodesNamePlans, RequestsKnow,
         WorkersKnow, CopiesHold

\* The number of devices counted is a number.
LEMMA CountIsNat == \A k : Cardinality(ActiveDevices(k)) \in Nat
  BY StoreAssumption, FS_Subset, FS_CardinalityType DEF ActiveDevices

\* The steps of an activation up to its commit.
LEMMA RequestTyped ==
    ASSUME TypeInv, NEW r \in Requests, UNCHANGED adm,
           \/ \E a \in Apps, c \in Codes : Resolve(r, a, c)
           \/ ReadPlan(r) \/ TxCustomer(r) \/ TxDevice(r) \/ HoldRows(r)
           \/ DeadlockVictim(r) \/ Abort(r)
    PROVE  TypeInv'
  <1> USE StoreAssumption
  <1>1. /\ StoreTypeOK /\ req \in [Requests -> RequestState] /\ CodesNamePlans
        /\ req[r] \in RequestState
        /\ req[r].pc # "idle" => /\ req[r].app \in Apps /\ req[r].code \in Codes
                                 /\ req[r].plan \in Plans
                                 /\ codes[req[r].code].status # "free"
    BY DEF TypeInv, TypeOK, ReqTypeOK, RequestsKnow, CopiesHold
  <1>2. /\ codeLock \in [Codes -> Requests \cup {NULL}]
        /\ customerLock \in [CustomerIds -> Requests \cup {NULL}]
        /\ held \in [Requests -> BOOLEAN]
    BY <1>1 DEF StoreTypeOK, TypeInv, TypeOK, ReqTypeOK
  <1>3. ASSUME NEW a \in Apps, NEW c \in Codes, Resolve(r, a, c) PROVE TypeInv'
    <2> DEFINE unused == ~codes[c].activated
               x == [Idle EXCEPT !.pc = "resolved", !.app = a, !.code = c,
                                 !.customer = codes[c].customer,
                                 !.status = codes[c].status,
                                 !.limit = codes[c].deviceLimit,
                                 !.first = unused,
                                 !.plan = codes[c].plan]
    <2>1. /\ codes[c].customer \in CustomerIds \cup {NULL} /\ codes[c].deviceLimit \in Nat
          /\ codes[c].activated \in BOOLEAN
      BY <1>1 DEF StoreTypeOK, CodeRow
    <2>2. codes[c].status \in {"PENDING", "ACTIVE"} /\ codes[c].plan \in Plans
      BY <1>1, <1>3 DEF Resolve, isCodeEffectivelyUsable, CodesNamePlans
    <2>3. /\ x \in RequestState
          /\ x.app = a /\ x.code = c /\ x.plan = codes[c].plan
      <3>1. unused \in BOOLEAN
        OBVIOUS
      <3> HIDE DEF unused
      <3>2. QED
        BY <2>1, <2>2, <3>1, NullRecords DEF RequestState
    <2>4. req' = [req EXCEPT ![r] = x] /\ UNCHANGED <<store, held>>
      BY <1>3 DEF Resolve
    <2> HIDE DEF x
    <2>5. QED
      BY <1>2, <2>2, <2>3, <2>4, GoOnTyped DEF store
  <1>4. CASE ReadPlan(r)
    <2> DEFINE x == [req[r] EXCEPT !.pc = "planned", !.days = plans[req[r].plan].days]
    <2>1. req[r].pc # "idle"
      BY <1>4 DEF ReadPlan
    <2>2. plans[req[r].plan].days \in Nat
      BY <1>1, <2>1 DEF StoreTypeOK, PlanRow
    <2>3. /\ x \in RequestState
          /\ x.app = req[r].app /\ x.code = req[r].code /\ x.plan = req[r].plan
      BY <1>1, <2>2 DEF RequestState
    <2>4. Fail(r) \/ (req' = [req EXCEPT ![r] = x] /\ UNCHANGED <<store, held>>)
      BY <1>4 DEF ReadPlan
    <2> HIDE DEF x
    <2>5. QED
      BY <1>1, <1>2, <2>1, <2>3, <2>4, GoOnTyped, FailTyped DEF store
  <1>5. CASE TxCustomer(r)
    <2> DEFINE k == FoundCustomer(r)
               u == IF k = NULL THEN NULL ELSE customers[k].expiresAt
               t == IF k = NULL THEN NULL ELSE customers[k].status
               x == [req[r] EXCEPT !.pc = "locked", !.customer = k, !.at = now, !.payer = t,
                                   !.until = u]
    <2>1. req[r].pc # "idle"
      BY <1>5 DEF TxCustomer
    <2>2. k \in CustomerIds \cup {NULL}
      BY <1>1 DEF FoundCustomer, RequestState
    <2>3. u \in Nat \cup {NULL} /\ now \in Nat
      BY <1>1, <2>2 DEF StoreTypeOK, CustomerRow
    <2>3a. Fail(r) \/ t \in {"ACTIVE", "SUSPENDED", "EXPIRED", NULL}
      BY <1>5 DEF TxCustomer, isEffectivelyActive
    <2>4. \/ Fail(r)
          \/ /\ req' = [req EXCEPT ![r] = x]
             /\ codeLock' = [codeLock EXCEPT ![req[r].code] = r]
             /\ UNCHANGED <<now, plans, codes, customers, devices, sessions, customerLock, held>>
      BY <1>5 DEF TxCustomer
    <2> HIDE DEF k, u, t
    <2>5. ~Fail(r) => /\ x \in RequestState
                      /\ x.app = req[r].app /\ x.code = req[r].code /\ x.plan = req[r].plan
      BY <1>1, <2>2, <2>3, <2>3a DEF RequestState
    <2> HIDE DEF x
    <2>6. QED
      BY <1>1, <1>2, <2>1, <2>4, <2>5, GoOnTyped, FailTyped
  <1>6. CASE TxDevice(r)
    <2> DEFINE n(d) == IF d # NULL THEN 0 ELSE Cardinality(ActiveDevices(req[r].customer))
               x(d) == [req[r] EXCEPT !.pc = "decided", !.device = d, !.until = PaidUntil(r),
                                      !.taken = n(d)]
    <2>0. \A d : n(d) \in Nat
      BY CountIsNat
    <2>1. req[r].pc # "idle"
      BY <1>6 DEF TxDevice
    <2>2. PaidUntil(r) \in Nat \cup {NULL}
      BY <1>1 DEF PaidUntil, Term, RequestState
    <2>3. Fail(r) \/ \E d \in DeviceIds \cup {NULL} : Decide(r, d)
      BY <1>6 DEF TxDevice, DevicesOf
    <2>4. ASSUME NEW d \in DeviceIds \cup {NULL}, Decide(r, d) PROVE TypeInv'
      <3>1. /\ x(d) \in RequestState
            /\ x(d).app = req[r].app /\ x(d).code = req[r].code /\ x(d).plan = req[r].plan
        <4>1. \A u \in Nat \cup {NULL}, m \in Nat :
                 LET y == [req[r] EXCEPT !.pc = "decided", !.device = d, !.until = u,
                                         !.taken = m]
                 IN y \in RequestState /\ y.app = req[r].app /\ y.code = req[r].code
                    /\ y.plan = req[r].plan
          BY <1>1 DEF RequestState
        <4> HIDE DEF n
        <4>2. QED
          BY <2>0, <2>2, <4>1
      <3>2. customerLock' \in [CustomerIds -> Requests \cup {NULL}]
        BY <1>2, <2>4 DEF Decide
      <3>3. req' = [req EXCEPT ![r] = x(d)]
            /\ UNCHANGED <<now, plans, codes, customers, devices, sessions, codeLock, held>>
        BY <2>4 DEF Decide
      <3> HIDE DEF x
      <3>4. QED
        BY <1>1, <1>2, <2>1, <3>1, <3>2, <3>3, GoOnTyped
    <2>5. QED
      BY <2>3, <2>4, FailTyped
  <1>7. CASE Abort(r) \/ DeadlockVictim(r)
    BY <1>7, FailTyped DEF Abort, DeadlockVictim
  <1>9. CASE HoldRows(r)
    <2>1. held' \in [Requests -> BOOLEAN] /\ UNCHANGED <<store, req>> => TypeInv'
      BY DEF TypeInv, TypeOK, StoreTypeOK, ReqTypeOK, AdmTypeOK, CodesNamePlans, RequestsKnow,
             WorkersKnow, CopiesHold, store
    <2>2. QED
      BY <1>2, <1>9, <2>1, FailTyped DEF HoldRows
  <1>8. QED
    BY <1>3, <1>4, <1>5, <1>6, <1>7, <1>9

\* The commit of an activation.
LEMMA CommitTyped ==
    ASSUME TypeInv, NEW r \in Requests, UNCHANGED adm, Commit(r)
    PROVE  TypeInv'
  <1> USE StoreAssumption
  <1> DEFINE k == IF req[r].customer = NULL THEN Fresh(customers) ELSE req[r].customer
             d == IF req[r].device = NULL THEN Fresh(devices) ELSE req[r].device
             s == Fresh(sessions)
  <1>1. CASE Fail(r)
    BY <1>1, FailTyped
  <1>2. CASE WriteAll(r) /\ IdsLeft(r)
    <2>1. /\ req[r].plan \in Plans /\ req[r].app \in Apps /\ req[r].code \in Codes
          /\ codes[req[r].code] \in CodeRow /\ codes[req[r].code].status # "free"
          /\ req[r] \in RequestState
          /\ StoreTypeOK /\ CodesNamePlans
      BY DEF Commit, RequestsKnow, TypeInv, TypeOK, ReqTypeOK, StoreTypeOK, CopiesHold
    <2>2. k \in CustomerIds /\ d \in DeviceIds /\ s \in SessionIds
      BY <1>2, <2>1, FreshIsFree DEF IdsLeft, RequestState, StoreTypeOK
    <2>3. Term(r) \in Nat /\ SessionEnd(r) \in Nat
      BY <2>1 DEF Term, SessionEnd, RequestState
    <2>4. /\ TxWriteCustomer(r, k) /\ TxWriteDevice(r, k, d) /\ TxWriteCode(r, k)
          /\ sessions' = [sessions EXCEPT ![s] =
                             [status |-> "ACTIVE", customer |-> k, device |-> d,
                              expiresAt |-> SessionEnd(r)]]
          /\ Finish(r)
          /\ UNCHANGED <<now, plans>>
      BY <1>2 DEF WriteAll
    <2> HIDE DEF k, d, s
    <2>5. customers' \in [CustomerIds -> CustomerRow]
      BY <2>1, <2>2, <2>3, <2>4 DEF TxWriteCustomer, CustomerRow, StoreTypeOK
    <2>6. devices' \in [DeviceIds -> DeviceRow]
      BY <2>1, <2>2, <2>4 DEF TxWriteDevice, DeviceRow, StoreTypeOK
    <2>7. sessions' \in [SessionIds -> SessionRow]
      BY <2>1, <2>2, <2>3, <2>4 DEF SessionRow, StoreTypeOK
    <2> DEFINE c == req[r].code
               row == [codes[c] EXCEPT !.activated = TRUE, !.expiresAt = Term(r),
                                       !.status = "ACTIVE", !.customer = k]
    <2>8. row \in CodeRow /\ row.plan \in Plans /\ row.status # "free"
      BY <2>1, <2>2, <2>3 DEF CodeRow, CodesNamePlans
    <2>9. codes' = IF req[r].first THEN [codes EXCEPT ![c] = row] ELSE codes
      BY <2>4 DEF TxWriteCode
    <2> HIDE DEF row
    <2>10. /\ codes' \in [Codes -> CodeRow]
           /\ CodesNamePlans'
           /\ \A q \in Codes : codes[q].status # "free" => codes'[q].status # "free"
      BY <2>1, <2>8, <2>9 DEF StoreTypeOK, CodesNamePlans
    <2>11. CopiesHold'
      BY <2>4, <2>10, FinishTyped DEF CopiesHold, TypeInv, RequestsKnow, WorkersKnow
    <2>12. StoreTypeOK'
      BY <2>1, <2>4, <2>5, <2>6, <2>7, <2>10, FinishTyped DEF StoreTypeOK
    <2>13. QED
      BY <2>4, <2>10, <2>11, <2>12, FinishTyped DEF TypeInv, TypeOK, AdmTypeOK, WorkersKnow
  <1>3. QED
    BY <1>1, <1>2 DEF Commit

\* No method starts to hold a pending write of a code.
NoNewCodeWrite == \A w \in Workers : adm'[w].op = "code" => adm'[w] = adm[w]

\* A request of an administrator that changes only the codes, from one well-typed
\* table to another, and keeps every code in it.
LEMMA CodesTyped ==
    ASSUME TypeInv, UNCHANGED <<req, held>>, OnlyCodes, AdmTypeOK', WorkersKnow', NoNewCodeWrite,
           NEW c \in Codes, NEW row \in CodeRow, row.plan \in Plans, row.status # "free",
           codes' = [codes EXCEPT ![c] = row]
    PROVE  TypeInv'
  BY DEF TypeInv, TypeOK, StoreTypeOK, ReqTypeOK, OnlyCodes, CodesNamePlans, RequestsKnow,
         WorkersKnow, CopiesHold, NoNewCodeWrite

\* The same for the customers.
LEMMA CustomersTyped ==
    ASSUME TypeInv, UNCHANGED <<req, held>>, OnlyCustomers, AdmTypeOK', WorkersKnow', NoNewCodeWrite,
           customers' \in [CustomerIds -> CustomerRow]
    PROVE  TypeInv'
  BY DEF TypeInv, TypeOK, StoreTypeOK, ReqTypeOK, OnlyCustomers, CodesNamePlans,
         RequestsKnow, WorkersKnow, CopiesHold, NoNewCodeWrite

\* The same for plans, devices and sessions together.
LEMMA OthersTyped ==
    ASSUME TypeInv, UNCHANGED <<req, held, now, codes, customers, codeLock, customerLock>>,
           AdmTypeOK', WorkersKnow', NoNewCodeWrite,
           plans' \in [Plans -> PlanRow], devices' \in [DeviceIds -> DeviceRow],
           sessions' \in [SessionIds -> SessionRow]
    PROVE  TypeInv'
  BY DEF TypeInv, TypeOK, StoreTypeOK, ReqTypeOK, CodesNamePlans, RequestsKnow, WorkersKnow,
         CopiesHold, NoNewCodeWrite

\* A method that has read its row and now holds the pending write x.
LEMMA PendTyped ==
    ASSUME TypeInv, UNCHANGED <<req, held>>, UNCHANGED store,
           NEW w \in Workers, NEW x \in Pending, adm' = [adm EXCEPT ![w] = x],
           x.op = "code" => /\ x.code \in Codes /\ x.status \in CodeStatuses
                            /\ codes[x.code].status # "free",
           x.op \in {"cutAccess", "suspend", "renew"} => x.customer \in CustomerIds,
           x.op = "renew" => x.plan \in Plans,
           x.op = "unblock" => x.device \in DeviceIds
    PROVE  TypeInv'
  BY DEF TypeInv, TypeOK, StoreTypeOK, ReqTypeOK, AdmTypeOK, CodesNamePlans, RequestsKnow,
         WorkersKnow, CopiesHold, store

\* A method that is over leaves nothing pending.
LEMMA DropTyped ==
    ASSUME TypeInv, NEW w \in Workers, Drop(w)
    PROVE  AdmTypeOK' /\ WorkersKnow' /\ NoNewCodeWrite
  <1>1. AdmTypeOK /\ WorkersKnow /\ NoPending \in Pending /\ NoPending.op = "none"
    BY NullRecords DEF TypeInv, TypeOK, NoPending
  <1>2. QED
    BY <1>1 DEF Drop, AdmTypeOK, WorkersKnow, NoNewCodeWrite

\* The first step of a two-step method.
LEMMA WorkerStartsTyped ==
    ASSUME TypeInv, NEW w \in Workers, UNCHANGED <<req, held>>, WorkerStarts(w)
    PROVE  TypeInv'
  <1> USE StoreAssumption
  <1>1. StoreTypeOK /\ NoPending \in Pending
    BY NullRecords DEF TypeInv, TypeOK
  <1>2. ASSUME NEW c \in Codes, NEW status \in CodeStatuses,
               codes[c].status # "free", PendCode(w, c, status)
        PROVE  TypeInv'
    <2> DEFINE x == [NoPending EXCEPT !.op = "code", !.code = c, !.status = status,
                                      !.customer = codes[c].customer,
                                      !.was = codes[c].status, !.used = codes[c].activated]
    <2>1. /\ codes[c].customer \in CustomerIds \cup {NULL}
          /\ codes[c].status \in CodeStatuses /\ codes[c].activated \in BOOLEAN
      BY <1>1, <1>2 DEF StoreTypeOK, CodeRow, CodeStatuses
    <2>2. x \in Pending /\ x.op = "code" /\ x.code = c /\ x.status = status
      <3> DEFINE y(k, was, used) ==
                    [NoPending EXCEPT !.op = "code", !.code = c, !.status = status,
                                      !.customer = k, !.was = was, !.used = used]
      <3>1. ASSUME NEW k \in CustomerIds \cup {NULL}, NEW was \in CodeStatuses,
                   NEW used \in BOOLEAN
            PROVE  /\ y(k, was, used) \in Pending /\ y(k, was, used).op = "code"
                   /\ y(k, was, used).code = c /\ y(k, was, used).status = status
        BY DEF Pending, NoPending, CodeStatuses
      <3>2. x = y(codes[c].customer, codes[c].status, codes[c].activated)
        OBVIOUS
      <3> HIDE DEF x, y
      <3>3. QED
        BY <2>1, <3>1, <3>2
    <2>3. adm' = [adm EXCEPT ![w] = x] /\ UNCHANGED store
      BY <1>2 DEF PendCode
    <2> HIDE DEF x
    <2>4. QED
      BY <1>2, <2>2, <2>3, PendTyped
  <1>3. ASSUME NEW c \in Codes,
               SuspendCode(w, c) \/ ReactivateCode(w, c) \/ RevokeCode(w, c)
        PROVE  TypeInv'
    BY <1>2, <1>3 DEF SuspendCode, ReactivateCode, RevokeCode, Restored, CodeStatuses
  <1>4. ASSUME NEW k \in CustomerIds, NEW p \in Plans, RenewCustomer(w, k, p)
        PROVE  TypeInv'
    <2> DEFINE u == RenewalBase(k) + plans[p].days
               x == [NoPending EXCEPT !.op = "renew", !.customer = k, !.plan = p, !.until = u,
                                      !.paid = customers[k].expiresAt]
    <2>1. u \in Nat /\ customers[k].expiresAt \in Nat \cup {NULL}
      BY <1>1 DEF RenewalBase, StoreTypeOK, CustomerRow, PlanRow
    <2> HIDE DEF u
    <2>2. x \in Pending /\ x.op = "renew" /\ x.customer = k /\ x.plan = p
      BY <1>1, <2>1 DEF Pending
    <2>3. adm' = [adm EXCEPT ![w] = x] /\ UNCHANGED store
      BY <1>4 DEF RenewCustomer, u
    <2> HIDE DEF x
    <2>4. QED
      BY <2>2, <2>3, PendTyped
  <1>5. ASSUME NEW d \in DeviceIds, UnblockDevice(w, d) PROVE TypeInv'
    <2> DEFINE x == [NoPending EXCEPT !.op = "unblock", !.device = d]
    <2>1. x \in Pending /\ x.op = "unblock" /\ x.device = d
      BY <1>1 DEF Pending
    <2>2. adm' = [adm EXCEPT ![w] = x] /\ UNCHANGED store
      BY <1>5 DEF UnblockDevice
    <2> HIDE DEF x
    <2>3. QED
      BY <2>1, <2>2, PendTyped
  <1>6. QED
    BY <1>3, <1>4, <1>5 DEF WorkerStarts

\* The later steps of a two-step method.
LEMMA WorkerGoesOnTyped ==
    ASSUME TypeInv, NEW w \in Workers, UNCHANGED <<req, held>>, WorkerGoesOn(w)
    PROVE  TypeInv'
  <1> USE StoreAssumption
  <1>1. /\ StoreTypeOK /\ AdmTypeOK /\ WorkersKnow /\ CodesNamePlans
        /\ adm[w] \in Pending
    BY DEF TypeInv, TypeOK, AdmTypeOK
  <1>2. CASE WriteCodeStatus(w)
    <2> DEFINE c == adm[w].code
               row == [codes[c] EXCEPT !.status = adm[w].status]
               x == [adm[w] EXCEPT !.op = "cutAccess", !.was = "REVOKED"]
    <2>1. /\ c \in Codes /\ adm[w].status \in CodeStatuses
          /\ codes' = [codes EXCEPT ![c] = row] /\ AfterCodeWrite(w) /\ OnlyCodes
      BY <1>1, <1>2 DEF WriteCodeStatus, WorkersKnow
    <2>2. row \in CodeRow /\ row.plan = codes[c].plan /\ row.status = adm[w].status
      <3>1. codes[c] \in CodeRow
        BY <1>1, <2>1 DEF StoreTypeOK
      <3>2. QED
        BY <2>1, <3>1 DEF CodeRow, CodeStatuses
    <2>3. AdmTypeOK' /\ WorkersKnow' /\ NoNewCodeWrite
      <3>1. CASE Drop(w)
        BY <3>1, DropTyped
      <3>2. CASE adm[w].customer # NULL /\ adm' = [adm EXCEPT ![w] = x]
        <4>1. x \in Pending /\ x.op = "cutAccess" /\ x.customer \in CustomerIds
          BY <1>1, <3>2 DEF Pending
        <4> HIDE DEF x
        <4>2. QED
          BY <1>1, <3>2, <4>1 DEF AdmTypeOK, WorkersKnow, NoNewCodeWrite
      <3>3. QED
        BY <2>1, <3>1, <3>2 DEF AfterCodeWrite
    <2>4. row.plan \in Plans /\ row.status # "free"
      BY <1>1, <1>2, <2>1, <2>2
      DEF WriteCodeStatus, TypeInv, CopiesHold, CodesNamePlans, CodeStatuses
    <2> HIDE DEF row
    <2>5. QED
      BY <2>1, <2>2, <2>3, <2>4, CodesTyped
  <1>3. CASE CutAccess(w)
    <2> DEFINE x == [adm[w] EXCEPT !.op = "suspend"]
    <2>1. adm[w].op = "cutAccess" /\ adm[w].customer \in CustomerIds
      BY <1>1, <1>3 DEF CutAccess, WorkersKnow
    <2>2. x \in Pending /\ x.op = "suspend" /\ x.customer = adm[w].customer
      BY <1>1 DEF Pending
    <2>3. UNCHANGED store /\ (adm' = [adm EXCEPT ![w] = x] \/ Drop(w))
      BY <1>3 DEF CutAccess
    <2>4. CASE Drop(w)
      BY <2>3, <2>4, DropTyped
      DEF TypeInv, TypeOK, StoreTypeOK, ReqTypeOK, CodesNamePlans, RequestsKnow, CopiesHold,
          NoNewCodeWrite, store
    <2> HIDE DEF x
    <2>5. QED
      BY <2>1, <2>2, <2>3, <2>4, PendTyped
  <1>4. CASE WriteSuspension(w)
    <2> DEFINE k == adm[w].customer
    <2>1. customers' \in [CustomerIds -> CustomerRow]
      <3>1. [customers[k] EXCEPT !.status = "SUSPENDED"] \in CustomerRow
        BY <1>1, <1>4 DEF WriteSuspension, WorkersKnow, StoreTypeOK, CustomerRow
      <3>2. \/ customers' = customers
            \/ customers' = [customers EXCEPT ![k] = [customers[k] EXCEPT !.status = "SUSPENDED"]]
        BY <1>4 DEF WriteSuspension
      <3>3. QED
        BY <1>1, <3>1, <3>2 DEF StoreTypeOK
    <2>2. QED
      BY <1>4, <2>1, DropTyped, CustomersTyped DEF WriteSuspension
  <1>5. CASE WriteRenewal(w)
    <2> DEFINE k == adm[w].customer
               row == [status |-> "ACTIVE", plan |-> adm[w].plan, expiresAt |-> adm[w].until]
    <2>1. customers' \in [CustomerIds -> CustomerRow]
      <3>1. row \in CustomerRow /\ k \in CustomerIds
        BY <1>1, <1>5 DEF WriteRenewal, WorkersKnow, Pending, CustomerRow
      <3>2. customers' = customers \/ customers' = [customers EXCEPT ![k] = row]
        BY <1>5 DEF WriteRenewal
      <3>3. QED
        BY <1>1, <3>1, <3>2 DEF StoreTypeOK
    <2>2. QED
      BY <1>5, <2>1, DropTyped, CustomersTyped DEF WriteRenewal
  <1>6. CASE WriteUnblock(w)
    <2> DEFINE d == adm[w].device
    <2>1. devices' \in [DeviceIds -> DeviceRow]
      <3>1. [devices[d] EXCEPT !.status = "ACTIVE"] \in DeviceRow
        BY <1>1, <1>6 DEF WriteUnblock, WorkersKnow, StoreTypeOK, DeviceRow
      <3>2. \/ devices' = devices
            \/ devices' = [devices EXCEPT ![d] = [devices[d] EXCEPT !.status = "ACTIVE"]]
        BY <1>6 DEF WriteUnblock
      <3>3. QED
        BY <1>1, <3>1, <3>2 DEF StoreTypeOK
    <2>2. QED
      BY <1>1, <1>6, <2>1, DropTyped, OthersTyped DEF WriteUnblock, OnlyDevices, StoreTypeOK
  <1>7. QED
    BY <1>2, <1>3, <1>4, <1>5, <1>6 DEF WorkerGoesOn

\* A session that is revoked is still a session.
LEMMA SessionEnded ==
    ASSUME StoreTypeOK, NEW s \in SessionIds
    PROVE  [sessions[s] EXCEPT !.status = "REVOKED"] \in SessionRow
  <1>1. sessions[s] \in SessionRow
    BY DEF StoreTypeOK
  <1>2. QED
    BY <1>1 DEF SessionRow

\* What the deletions leave in the tables they empty.
LEMMA DeletionsTyped ==
    ASSUME StoreTypeOK
    PROVE  /\ \A d : DeleteDevice(d) => /\ devices' \in [DeviceIds -> DeviceRow]
                                        /\ sessions' \in [SessionIds -> SessionRow]
           /\ \A k : DeleteCustomer(k) => /\ customers' \in [CustomerIds -> CustomerRow]
                                          /\ devices' \in [DeviceIds -> DeviceRow]
                                          /\ sessions' \in [SessionIds -> SessionRow]
  <1>1. /\ [NoCustomer EXCEPT !.status = "gone"] \in CustomerRow
        /\ [NoDevice EXCEPT !.status = "gone"] \in DeviceRow
        /\ [NoSession EXCEPT !.status = "gone"] \in SessionRow
    <2>1. NoCustomer \in CustomerRow /\ NoDevice \in DeviceRow /\ NoSession \in SessionRow
      BY DEF NoCustomer, NoDevice, NoSession, CustomerRow, DeviceRow, SessionRow
    <2>2. QED
      BY <2>1 DEF CustomerRow, DeviceRow, SessionRow
  <1>2. \A ds : DropDevices(ds) => devices' \in [DeviceIds -> DeviceRow]
    BY <1>1 DEF DropDevices, StoreTypeOK
  <1>3. \A ds, ks : CascadeSessions(ds, ks) => sessions' \in [SessionIds -> SessionRow]
    BY <1>1 DEF CascadeSessions, StoreTypeOK
  <1>4. \A k : DeleteCustomer(k) => customers' \in [CustomerIds -> CustomerRow]
    BY <1>1 DEF DeleteCustomer, StoreTypeOK
  <1>5. QED
    BY <1>2, <1>3, <1>4 DEF DeleteDevice, DeleteCustomer

\* The operations of administrators that are one step, and the hourly job.
LEMMA AtOnceTyped ==
    ASSUME TypeInv, UNCHANGED <<req, held>>, AtOnce
    PROVE  TypeInv'
  <1> USE StoreAssumption, AdminAssumption
  <1>1. /\ StoreTypeOK /\ AdmTypeOK /\ WorkersKnow /\ CodesNamePlans
        /\ NoCode \in CodeRow
    BY NullRecords DEF TypeInv, TypeOK
  <1>2. UNCHANGED adm => AdmTypeOK' /\ WorkersKnow' /\ NoNewCodeWrite
    BY <1>1 DEF AdmTypeOK, WorkersKnow, NoNewCodeWrite
  <1>3. ASSUME NEW p \in Plans, NEW n \in PlanDays, NEW status \in {"active", "inactive"},
               CreatePlan(p, status, n) \/ UpdatePlan(p, status, n)
        PROVE  TypeInv'
    <2>1. plans' \in [Plans -> PlanRow]
      <3>1. [status |-> status, days |-> n] \in PlanRow /\ plans \in [Plans -> PlanRow]
        BY <1>1 DEF StoreTypeOK, PlanRow
      <3>2. plans' = [plans EXCEPT ![p] = [status |-> status, days |-> n]]
        BY <1>3 DEF CreatePlan, UpdatePlan
      <3>3. QED
        BY <3>1, <3>2
    <2>2. QED
      BY <1>1, <1>2, <1>3, <2>1, OthersTyped
      DEF CreatePlan, UpdatePlan, OnlyPlans, StoreTypeOK
  <1>4. ASSUME NEW p \in Plans, RemovePlan(p) PROVE TypeInv'
    <2>1. plans' \in [Plans -> PlanRow]
      BY <1>1, <1>4 DEF RemovePlan, NoPlan, StoreTypeOK, PlanRow
    <2>2. QED
      BY <1>1, <1>2, <1>4, <2>1, OthersTyped DEF RemovePlan, OnlyPlans, StoreTypeOK
  <1>5. ASSUME NEW c \in Codes, NEW p \in Plans, NEW limit \in Limits, NEW e \in CodeExpiries,
               NEW k \in Owners[c], CreateCode(c, p, k, limit, e)
        PROVE  TypeInv'
    <2> DEFINE row == [NoCode EXCEPT !.status = "PENDING", !.plan = p, !.customer = k,
                                     !.deviceLimit = limit, !.expiresAt = e]
    <2>1. row \in CodeRow /\ row.plan = p /\ row.status # "free"
      BY <1>1 DEF CodeRow
    <2>2. codes' = [codes EXCEPT ![c] = row] /\ OnlyCodes /\ UNCHANGED adm
      BY <1>5 DEF CreateCode
    <2> HIDE DEF row
    <2>3. QED
      BY <1>2, <2>1, <2>2, CodesTyped
  <1>6. ASSUME NEW c \in Codes, NEW limit \in Limits, UpdateLimit(c, limit) PROVE TypeInv'
    <2> DEFINE row == [codes[c] EXCEPT !.deviceLimit = limit]
    <2>1. codes[c] \in CodeRow /\ codes[c].plan \in Plans /\ codes[c].status # "free"
      BY <1>1, <1>6 DEF UpdateLimit, StoreTypeOK, CodesNamePlans
    <2>2. row \in CodeRow /\ row.plan \in Plans /\ row.status # "free"
      BY <2>1 DEF CodeRow
    <2>3. codes' = [codes EXCEPT ![c] = row] /\ OnlyCodes /\ UNCHANGED adm
      BY <1>6 DEF UpdateLimit
    <2> HIDE DEF row
    <2>4. QED
      BY <1>2, <2>2, <2>3, CodesTyped
  <1>7. ASSUME NEW p \in Plans \cup {NULL}, CreateCustomer(p) PROVE TypeInv'
    <2> DEFINE k == Fresh(customers)
               row == [status |-> "ACTIVE", plan |-> p,
                       expiresAt |-> IF p = NULL THEN NULL ELSE now + plans[p].days]
    <2>1. row \in CustomerRow
      BY <1>1 DEF CustomerRow, StoreTypeOK, PlanRow
    <2>2. customers' = [customers EXCEPT ![k] = row] /\ OnlyCustomers /\ UNCHANGED adm
      BY <1>7 DEF CreateCustomer
    <2>3. customers' \in [CustomerIds -> CustomerRow]
      BY <1>1, <2>1, <2>2 DEF StoreTypeOK
    <2>4. QED
      BY <1>2, <2>2, <2>3, CustomersTyped
  <1>8. ASSUME NEW k \in CustomerIds,
               \/ SuspendCustomer(k) \/ ReactivateCustomer(k)
               \/ \E p \in Plans : UpdateCustomer(k, p)
        PROVE  TypeInv'
    <2> DEFINE suspended == [customers[k] EXCEPT !.status = "SUSPENDED"]
               active == [customers[k] EXCEPT !.status = "ACTIVE"]
               moved(p) == [customers[k] EXCEPT !.plan = p]
    <2>1. suspended \in CustomerRow /\ active \in CustomerRow
          /\ \A p \in Plans : moved(p) \in CustomerRow
      <3>1. customers[k] \in CustomerRow
        BY <1>1 DEF StoreTypeOK
      <3>2. QED
        BY <3>1 DEF CustomerRow
    <2>2. /\ \/ customers' = [customers EXCEPT ![k] = suspended]
             \/ customers' = [customers EXCEPT ![k] = active]
             \/ \E p \in Plans : customers' = [customers EXCEPT ![k] = moved(p)]
          /\ OnlyCustomers /\ UNCHANGED adm
      BY <1>8 DEF SuspendCustomer, ReactivateCustomer, UpdateCustomer
    <2> HIDE DEF suspended, active, moved
    <2>3. customers' \in [CustomerIds -> CustomerRow]
      BY <1>1, <2>1, <2>2 DEF StoreTypeOK
    <2>4. QED
      BY <1>2, <2>2, <2>3, CustomersTyped
  <1>9. CASE ExpireOverdue
    <2>1. customers' \in [CustomerIds -> CustomerRow] /\ OnlyCustomers /\ UNCHANGED adm
      BY <1>1, <1>9 DEF ExpireOverdue, StoreTypeOK, CustomerRow
    <2>2. QED
      BY <1>2, <2>1, CustomersTyped
  <1>10. ASSUME NEW k \in CustomerIds, RemoveCustomer(k) PROVE TypeInv'
    <2>1. /\ customers' \in [CustomerIds -> CustomerRow]
          /\ devices' \in [DeviceIds -> DeviceRow]
          /\ sessions' \in [SessionIds -> SessionRow]
      BY <1>1, <1>10, DeletionsTyped DEF RemoveCustomer
    <2>2. /\ codes' \in [Codes -> CodeRow]
          /\ \A c \in Codes : /\ codes'[c].status = codes[c].status
                              /\ codes'[c].plan = codes[c].plan
      <3>1. \A c \in Codes : [codes[c] EXCEPT !.customer = NULL] \in CodeRow
        <4>1. \A c \in Codes : codes[c] \in CodeRow
          BY <1>1 DEF StoreTypeOK
        <4>2. QED
          BY <4>1 DEF CodeRow
      <3>2. codes' = [c \in Codes |-> IF codes[c].customer = k
                                      THEN [codes[c] EXCEPT !.customer = NULL] ELSE codes[c]]
        BY <1>10 DEF RemoveCustomer, DeleteCustomer
      <3>3. \A c \in Codes : codes[c] \in CodeRow
        BY <1>1 DEF StoreTypeOK
      <3>4. QED
        BY <3>1, <3>2, <3>3 DEF CodeRow
    <2>3. CodesNamePlans' /\ CopiesHold'
      BY <1>1, <1>10, <2>2 DEF RemoveCustomer, CodesNamePlans, CopiesHold, TypeInv,
                               RequestsKnow, WorkersKnow
    <2>4. QED
      BY <1>1, <1>2, <1>10, <2>1, <2>2, <2>3
      DEF RemoveCustomer, TypeInv, TypeOK, StoreTypeOK, ReqTypeOK, RequestsKnow
  <1>11. ASSUME NEW d \in DeviceIds, RevokeDevice(d) \/ BlockDevice(d) PROVE TypeInv'
    <2>1. devices' \in [DeviceIds -> DeviceRow] /\ OnlyDevices /\ UNCHANGED adm
      <3>1. /\ devices \in [DeviceIds -> DeviceRow]
            /\ \A status \in {"REVOKED", "BLOCKED"} :
                  [devices[d] EXCEPT !.status = status] \in DeviceRow
        BY <1>1 DEF StoreTypeOK, DeviceRow
      <3>2. /\ \E status \in {"REVOKED", "BLOCKED"} :
                  devices' = [devices EXCEPT ![d] = [devices[d] EXCEPT !.status = status]]
            /\ OnlyDevices /\ UNCHANGED adm
        BY <1>11 DEF RevokeDevice, BlockDevice, SetDeviceStatus
      <3>3. QED
        BY <3>1, <3>2
    <2>2. QED
      BY <1>1, <1>2, <2>1, OthersTyped DEF OnlyDevices, StoreTypeOK
  <1>12. ASSUME NEW d \in DeviceIds, RemoveDevice(d) PROVE TypeInv'
    <2>1. /\ devices' \in [DeviceIds -> DeviceRow]
          /\ sessions' \in [SessionIds -> SessionRow]
      BY <1>1, <1>12, DeletionsTyped DEF RemoveDevice
    <2>2. QED
      BY <1>1, <1>2, <1>12, <2>1, OthersTyped DEF RemoveDevice, StoreTypeOK
  <1>13. ASSUME NEW s \in SessionIds, RevokeSession(s) PROVE TypeInv'
    <2>1. sessions' \in [SessionIds -> SessionRow]
      BY <1>1, <1>13, SessionEnded DEF RevokeSession, StoreTypeOK
    <2>2. QED
      BY <1>1, <1>2, <1>13, <2>1, OthersTyped DEF RevokeSession, StoreTypeOK
  <1>14. QED
    BY <1>3, <1>4, <1>5, <1>6, <1>7, <1>8, <1>9, <1>10, <1>11, <1>12, <1>13 DEF AtOnce

\* Logout, the clock and a restart.
LEMMA RestTyped ==
    ASSUME TypeInv,
           \/ UNCHANGED adm /\ \E s \in SessionIds : Logout(s)
           \/ Tick \/ Crash \/ UNCHANGED vars
    PROVE  TypeInv'
  <1>1. StoreTypeOK /\ AdmTypeOK /\ WorkersKnow
    BY DEF TypeInv, TypeOK
  <1>2. UNCHANGED adm => AdmTypeOK' /\ WorkersKnow' /\ NoNewCodeWrite
    BY <1>1 DEF AdmTypeOK, WorkersKnow, NoNewCodeWrite
  <1>3. ASSUME NEW s \in SessionIds, Logout(s), UNCHANGED adm PROVE TypeInv'
    <2>1. sessions' \in [SessionIds -> SessionRow]
      BY <1>1, <1>3, SessionEnded DEF Logout, StoreTypeOK
    <2>2. QED
      BY <1>1, <1>2, <1>3, <2>1, OthersTyped DEF Logout, StoreTypeOK
  <1>4. CASE Tick
    BY <1>4 DEF Tick, TypeInv, TypeOK, StoreTypeOK, ReqTypeOK, AdmTypeOK, CodesNamePlans,
                RequestsKnow, WorkersKnow, CopiesHold
  <1>5. CASE Crash
    <2>1. ReqTypeOK' /\ RequestsKnow' /\ \A r \in Requests : req'[r].pc = "idle"
      BY <1>5, NullRecords DEF Crash, ReqTypeOK, RequestsKnow, Idle
    <2>2. AdmTypeOK' /\ WorkersKnow' /\ \A w \in Workers : adm'[w].op = "none"
      BY <1>5, NullRecords DEF Crash, AdmTypeOK, WorkersKnow, NoPending
    <2>3. StoreTypeOK'
      BY <1>1, <1>5 DEF Crash, StoreTypeOK
    <2>4. QED
      BY <1>5, <2>1, <2>2, <2>3 DEF Crash, TypeInv, TypeOK, CodesNamePlans, CopiesHold
  <1>6. CASE UNCHANGED vars
    BY <1>6 DEF vars, store, TypeInv, TypeOK, StoreTypeOK, ReqTypeOK, AdmTypeOK,
                CodesNamePlans, RequestsKnow, WorkersKnow, CopiesHold
  <1>7. QED
    BY <1>3, <1>4, <1>5, <1>6

\* Every step keeps the invariant.
LEMMA NextTyped == TypeInv /\ [Next]_vars => TypeInv'
  BY RequestTyped, CommitTyped, WorkerStartsTyped, WorkerGoesOnTyped, AtOnceTyped, RestTyped
  DEF Next, RequestStep, RequestGoesOn, AdminStep

\* Type correctness: whatever the interleaving, the tables hold rows of the
\* schema, the locks name handlers, and every handler holds what it has read.
THEOREM TypeCorrect == Spec => []TypeOK
  <1>1. TypeInv => TypeOK
    BY DEF TypeInv
  <1>2. QED
    BY InitTyped, NextTyped, <1>1, PTL DEF Spec
=============================================================================
