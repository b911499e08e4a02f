--------------------------- MODULE LicensingSafety ---------------------------
(***************************************************************************)
(* The safety invariants of Licensing that survive every interleaving and  *)
(* every restart, proved for every value of the constants on top of the    *)
(* type invariant of LicensingProofs.                                      *)
(***************************************************************************)
EXTENDS LicensingProofs

-----------------------------------------------------------------------------
(* What a step may do to the tables. *)

\* The rows of the licences stay as they are.
TablesKept == UNCHANGED <<plans, codes, customers, devices, sessions>>

\* A step that leaves the tables alone at most lets a day go by.
Quiet == TablesKept /\ (now' = now \/ now' = now + 1)

\* The writes that reach the tables with requests of administrators.
PlanWrite ==
    \E p \in Plans :
        \/ \E n \in PlanDays, status \in {"active", "inactive"} :
              CreatePlan(p, status, n) \/ UpdatePlan(p, status, n)
        \/ RemovePlan(p)

CodeWrite ==
    \/ \E c \in Codes, p \in Plans, limit \in Limits, e \in CodeExpiries :
          \E k \in Owners[c] : CreateCode(c, p, k, limit, e)
    \/ \E c \in Codes, limit \in Limits : UpdateLimit(c, limit)
    \/ \E w \in Workers : WriteCodeStatus(w)

CustomerWrite ==
    \/ \E p \in Plans \cup {NULL} : CreateCustomer(p)
    \/ \E k \in CustomerIds :
          SuspendCustomer(k) \/ ReactivateCustomer(k) \/ \E p \in Plans : UpdateCustomer(k, p)
    \/ \E w \in Workers : WriteSuspension(w) \/ WriteRenewal(w)
    \/ ExpireOverdue

DeviceWrite ==
    \/ \E d \in DeviceIds : RevokeDevice(d) \/ BlockDevice(d)
    \/ \E w \in Workers : WriteUnblock(w)

SessionWrite ==
    \E s \in SessionIds : RevokeSession(s) \/ Logout(s)

\* The commit of request r.
Commits(r) == req[r].pc = "decided" /\ Accepted(r) /\ IdsLeft(r) /\ WriteAll(r)

\* The device of an activation is settled.
Settles == \E r \in Requests, d \in DeviceIds \cup {NULL} : TxDevice(r) /\ Decide(r, d)

\* What handler r holds once it has settled on device d.
DecidedState(r, d) ==
    [req[r] EXCEPT !.pc = "decided", !.device = d, !.until = PaidUntil(r),
                   !.taken = IF d # NULL THEN 0
                             ELSE Cardinality(ActiveDevices(req[r].customer))]

\* A handler past the device lookup was there before the step.
NobodyDecides ==
    \A r \in Requests : req'[r].pc = "decided" => req'[r] = req[r]

\* A handler that has read its code holds what it held, or holds a code in the
\* table with its plan.
PlansCopied ==
    \A r \in Requests : req'[r].pc # "idle" =>
        \/ req[r].pc # "idle" /\ req'[r].code = req[r].code /\ req'[r].plan = req[r].plan
        \/ /\ req'[r].code \in Codes
           /\ codes[req'[r].code].status # "free"
           /\ req'[r].plan = codes[req'[r].code].plan

\* The steps of handlers and workers that only read.
LEMMA ReadersAreQuiet ==
    ASSUME TypeInv, NEW r \in Requests,
           \/ \E a \in Apps, c \in Codes : Resolve(r, a, c)
           \/ ReadPlan(r) \/ TxCustomer(r) \/ TxDevice(r) \/ HoldRows(r)
           \/ DeadlockVictim(r) \/ Abort(r)
           \/ Commit(r) /\ Fail(r)
    PROVE  Quiet /\ PlansCopied /\ (NobodyDecides \/ Settles)
  <1> USE DEF Quiet, TablesKept, store
  <1>1. req \in [Requests -> RequestState] /\ Idle.pc = "idle"
    BY DEF TypeInv, TypeOK, ReqTypeOK, Idle
  <1>2. CASE Fail(r)
    BY <1>1, <1>2, FinishTyped DEF Fail, NobodyDecides, PlansCopied
  <1>3. ASSUME NEW a \in Apps, NEW c \in Codes, Resolve(r, a, c)
        PROVE  Quiet /\ PlansCopied /\ NobodyDecides
    <2> DEFINE x == [Idle EXCEPT !.pc = "resolved", !.app = a, !.code = c,
                                 !.customer = codes[c].customer,
                                 !.status = codes[c].status,
                                 !.limit = codes[c].deviceLimit,
                                 !.first = ~codes[c].activated,
                                 !.plan = codes[c].plan]
    <2>1. x.pc = "resolved" /\ x.code = c /\ x.plan = codes[c].plan
      BY NullRecords DEF RequestState
    <2>2. /\ req' = [req EXCEPT ![r] = x] /\ UNCHANGED store
          /\ codes[c].status # "free"
      BY <1>3 DEF Resolve, isCodeEffectivelyUsable
    <2> HIDE DEF x
    <2>3. QED
      BY <1>1, <2>1, <2>2 DEF NobodyDecides, PlansCopied
  <1>4. CASE ReadPlan(r) /\ ~Fail(r)
    <2> DEFINE x == [req[r] EXCEPT !.pc = "planned", !.days = plans[req[r].plan].days]
    <2>1. x.pc = "planned" /\ x.code = req[r].code /\ x.plan = req[r].plan
      BY <1>1 DEF RequestState
    <2>2. req' = [req EXCEPT ![r] = x] /\ UNCHANGED store /\ req[r].pc = "resolved"
      BY <1>4 DEF ReadPlan
    <2> HIDE DEF x
    <2>3. QED
      BY <1>1, <2>1, <2>2 DEF NobodyDecides, PlansCopied
  <1>5. CASE TxCustomer(r) /\ ~Fail(r)
    <2> DEFINE k == FoundCustomer(r)
               u == IF k = NULL THEN NULL ELSE customers[k].expiresAt
               t == IF k = NULL THEN NULL ELSE customers[k].status
               x == [req[r] EXCEPT !.pc = "locked", !.customer = k, !.at = now, !.payer = t,
                                   !.until = u]
    <2>1. /\ req' = [req EXCEPT ![r] = x] /\ req[r].pc = "planned"
          /\ UNCHANGED <<now, plans, codes, customers, devices, sessions>>
      BY <1>5 DEF TxCustomer
    <2> HIDE DEF k, u, t
    <2>2. x.pc = "locked" /\ x.code = req[r].code /\ x.plan = req[r].plan
      BY <1>1 DEF RequestState
    <2> HIDE DEF x
    <2>3. QED
      BY <1>1, <2>1, <2>2 DEF NobodyDecides, PlansCopied
  <1>6. CASE TxDevice(r) /\ ~Fail(r)
    <2>1. PICK d \in DeviceIds \cup {NULL} : Decide(r, d)
      BY <1>6 DEF TxDevice, DevicesOf
    <2> DEFINE x == DecidedState(r, d)
    <2>2. x.pc = "decided" /\ x.code = req[r].code /\ x.plan = req[r].plan
      BY <1>1 DEF RequestState, DecidedState
    <2>3. /\ req' = [req EXCEPT ![r] = x] /\ req[r].pc = "locked"
          /\ UNCHANGED <<now, plans, codes, customers, devices, sessions>>
      BY <1>6, <2>1 DEF Decide, TxDevice, DecidedState
    <2> HIDE DEF x
    <2>4. QED
      BY <1>1, <1>6, <2>1, <2>2, <2>3 DEF Settles, PlansCopied
  <1>7. CASE HoldRows(r) /\ ~Fail(r)
    BY <1>7 DEF HoldRows, NobodyDecides, PlansCopied
  <1>8. QED
    BY <1>2, <1>3, <1>4, <1>5, <1>6, <1>7 DEF Abort, DeadlockVictim

\* Every step is quiet, writes one table, deletes, or commits an activation.
LEMMA StepKinds ==
    ASSUME TypeInv, [Next]_vars
    PROVE  \/ Quiet /\ PlansCopied /\ (NobodyDecides \/ Settles)
           \/ \E r \in Requests : Commits(r)
           \/ UNCHANGED req /\ \/ PlanWrite \/ CodeWrite \/ CustomerWrite \/ DeviceWrite
                               \/ SessionWrite
                               \/ \E k \in CustomerIds : RemoveCustomer(k)
                               \/ \E d \in DeviceIds : RemoveDevice(d)
  <1>0. now \in Nat
    BY DEF TypeInv, TypeOK, StoreTypeOK
  <1>1. UNCHANGED req => PlansCopied /\ NobodyDecides
    BY DEF PlansCopied, NobodyDecides
  <1>2. ASSUME NEW r \in Requests, Commit(r) PROVE Commits(r) \/ (Commit(r) /\ Fail(r))
    BY <1>2 DEF Commit, Commits
  <1>3. CASE RequestStep
    BY <1>2, <1>3, ReadersAreQuiet DEF RequestStep, RequestGoesOn, SessionWrite, Logout
  <1>4. ASSUME UNCHANGED req, NEW w \in Workers, WorkerStarts(w) \/ CutAccess(w)
        PROVE  Quiet
    BY <1>4 DEF WorkerStarts, CutAccess, SuspendCode, ReactivateCode, RevokeCode, PendCode,
                RenewCustomer, UnblockDevice, Quiet, TablesKept, store
  <1>5. CASE AdminStep /\ UNCHANGED req
    BY <1>1, <1>4, <1>5
    DEF AdminStep, WorkerGoesOn, AtOnce, PlanWrite, CodeWrite, CustomerWrite, DeviceWrite,
        SessionWrite
  <1>6. CASE Tick
    BY <1>1, <1>6 DEF Tick, Quiet, TablesKept
  <1>7. CASE Crash
    BY <1>7 DEF Crash, Quiet, TablesKept, PlansCopied, NobodyDecides, Idle
  <1>8. CASE UNCHANGED vars
    BY <1>1, <1>8 DEF vars, store, Quiet, TablesKept
  <1>9. QED
    BY <1>3, <1>5, <1>6, <1>7, <1>8 DEF Next

-----------------------------------------------------------------------------
(* ExpiredIsOverdue. *)

\* Whatever a service writes to a customer, a row that ends up EXPIRED either was
\* EXPIRED with the same end, or is one the hourly job has found overdue.
LEMMA ExpiryWritten ==
    ASSUME TypeInv, CustomerWrite, NEW k \in CustomerIds, customers'[k].status = "EXPIRED"
    PROVE  \/ customers[k].status = "EXPIRED" /\ customers'[k].expiresAt = customers[k].expiresAt
           \/ ToExpire(k) /\ customers'[k].expiresAt = customers[k].expiresAt
  <1>1. customers \in [CustomerIds -> CustomerRow]
    BY DEF TypeInv, TypeOK, StoreTypeOK
  <1>2. \A i \in CustomerIds : customers[i] \in CustomerRow
    BY <1>1
  <1>3. ASSUME NEW p \in Plans \cup {NULL}, CreateCustomer(p)
        PROVE  customers'[k] = customers[k]
    BY <1>1, <1>3 DEF CreateCustomer
  <1>4. ASSUME NEW i \in CustomerIds,
               \/ SuspendCustomer(i) \/ ReactivateCustomer(i)
               \/ \E p \in Plans : UpdateCustomer(i, p)
        PROVE  /\ customers'[k].status = customers[k].status
               /\ customers'[k].expiresAt = customers[k].expiresAt
    <2> DEFINE suspended == [customers[i] EXCEPT !.status = "SUSPENDED"]
               active == [customers[i] EXCEPT !.status = "ACTIVE"]
               moved(p) == [customers[i] EXCEPT !.plan = p]
    <2>1. /\ suspended.status = "SUSPENDED" /\ active.status = "ACTIVE"
          /\ \A p \in Plans : /\ moved(p).status = customers[i].status
                              /\ moved(p).expiresAt = customers[i].expiresAt
      BY <1>2 DEF CustomerRow
    <2>2. \/ customers' = [customers EXCEPT ![i] = suspended]
          \/ customers' = [customers EXCEPT ![i] = active]
          \/ \E p \in Plans : customers' = [customers EXCEPT ![i] = moved(p)]
      BY <1>4 DEF SuspendCustomer, ReactivateCustomer, UpdateCustomer
    <2> HIDE DEF suspended, active, moved
    <2>3. QED
      BY <1>1, <2>1, <2>2
  <1>5. ASSUME NEW w \in Workers, WriteSuspension(w) \/ WriteRenewal(w)
        PROVE  customers'[k] = customers[k]
    <2> DEFINE i == adm[w].customer
               suspended == [customers[i] EXCEPT !.status = "SUSPENDED"]
               renewed == [status |-> "ACTIVE", plan |-> adm[w].plan,
                           expiresAt |-> adm[w].until]
    <2>1. i \in CustomerIds
      BY <1>5 DEF WriteSuspension, WriteRenewal, TypeInv, WorkersKnow
    <2>2. suspended.status = "SUSPENDED" /\ renewed.status = "ACTIVE"
      BY <1>2, <2>1 DEF CustomerRow
    <2>3. \/ customers' = customers
          \/ customers' = [customers EXCEPT ![i] = suspended]
          \/ customers' = [customers EXCEPT ![i] = renewed]
      BY <1>5 DEF WriteSuspension, WriteRenewal
    <2> HIDE DEF suspended, renewed
    <2>4. QED
      BY <1>1, <2>1, <2>2, <2>3
  <1>6. CASE ExpireOverdue
    <2>1. customers'[k] = IF ToExpire(k) THEN [customers[k] EXCEPT !.status = "EXPIRED"]
                          ELSE customers[k]
      BY <1>6 DEF ExpireOverdue
    <2>2. [customers[k] EXCEPT !.status = "EXPIRED"].expiresAt = customers[k].expiresAt
      BY <1>2 DEF CustomerRow
    <2>3. QED
      BY <2>1, <2>2
  <1>7. QED
    BY <1>3, <1>4, <1>5, <1>6 DEF CustomerWrite

\* Every step keeps EXPIRED customers overdue: the clock does not run backwards,
\* and the writers that move an expiry also set the status.
LEMMA ExpiredStaysOverdue ==
    ASSUME TypeInv, ExpiredIsOverdue, [Next]_vars
    PROVE  ExpiredIsOverdue'
  <1> USE StoreAssumption
  <1>1. /\ now \in Nat /\ customers \in [CustomerIds -> CustomerRow]
        /\ \A k \in CustomerIds : customers[k].expiresAt \in Nat \cup {NULL}
    BY DEF TypeInv, TypeOK, StoreTypeOK, CustomerRow
  <1>2. CASE customers' = customers /\ (now' = now \/ now' = now + 1)
    BY <1>1, <1>2 DEF ExpiredIsOverdue
  <1>3. ASSUME NEW r \in Requests, Commits(r) PROVE ExpiredIsOverdue'
    <2> DEFINE i == IF req[r].customer = NULL THEN Fresh(customers) ELSE req[r].customer
               row == [status |-> "ACTIVE", plan |-> req[r].plan, expiresAt |-> Term(r)]
    <2>1. /\ now' = now
          /\ customers' = customers \/ customers' = [customers EXCEPT ![i] = row]
      BY <1>3 DEF Commits, WriteAll, TxWriteCustomer
    <2>2. row.status = "ACTIVE"
      OBVIOUS
    <2> HIDE DEF i, row
    <2>3. QED
      BY <1>1, <2>1, <2>2 DEF ExpiredIsOverdue
  <1>4. CASE PlanWrite \/ CodeWrite \/ DeviceWrite \/ SessionWrite
    <2>1. customers' = customers /\ now' = now
      BY <1>4
      DEF PlanWrite, CodeWrite, DeviceWrite, SessionWrite, CreatePlan, UpdatePlan, RemovePlan,
          CreateCode, UpdateLimit, WriteCodeStatus, RevokeDevice, BlockDevice, SetDeviceStatus,
          WriteUnblock, RevokeSession, Logout, OnlyPlans, OnlyCodes, OnlyDevices
    <2>2. QED
      BY <1>2, <2>1
  <1>5. CASE CustomerWrite
    <2>1. now' = now
      BY <1>5 DEF CustomerWrite, CreateCustomer, SuspendCustomer, ReactivateCustomer,
                  UpdateCustomer, WriteSuspension, WriteRenewal, ExpireOverdue, OnlyCustomers
    <2>2. QED
      BY <1>1, <1>5, <2>1, ExpiryWritten DEF ExpiredIsOverdue, ToExpire
  <1>6. ASSUME NEW i \in CustomerIds, RemoveCustomer(i) PROVE ExpiredIsOverdue'
    <2> DEFINE row == [NoCustomer EXCEPT !.status = "gone"]
    <2>1. customers' = [customers EXCEPT ![i] = row] /\ now' = now
      BY <1>6 DEF RemoveCustomer, DeleteCustomer
    <2>2. row.status = "gone"
      BY DEF NoCustomer
    <2> HIDE DEF row
    <2>3. QED
      BY <1>1, <2>1, <2>2 DEF ExpiredIsOverdue
  <1>7. ASSUME NEW d \in DeviceIds, RemoveDevice(d) PROVE ExpiredIsOverdue'
    BY <1>2, <1>7 DEF RemoveDevice
  <1>8. QED
    BY <1>2, <1>3, <1>4, <1>5, <1>6, <1>7, StepKinds DEF Quiet, TablesKept

\* EXPIRED means overdue: the hourly job never overtakes a renewal or an
\* activation, however they interleave (expireOverdue, renew, performActivation).
THEOREM ExpiredAreOverdue == Spec => []ExpiredIsOverdue
  <1>1. Init => ExpiredIsOverdue
    BY DEF Init, StoreInit, ExpiredIsOverdue, NoCustomer
  <1>2. QED
    BY <1>1, InitTyped, NextTyped, ExpiredStaysOverdue, PTL DEF Spec

-----------------------------------------------------------------------------
(* SessionAnchored. *)

\* A device belongs to a customer that is there.
DevicesAnchored ==
    \A d \in DeviceIds : Exists(devices[d]) =>
        /\ devices[d].customer \in CustomerIds
        /\ Exists(customers[devices[d].customer])

\* The device an activation has settled on was inserted some time, and while it is
\* there it belongs to the customer of the activation.
ChoiceHolds ==
    \A r \in Requests : (req[r].pc = "decided" /\ req[r].device # NULL) =>
        /\ req[r].customer # NULL
        /\ devices[req[r].device].status # "free"
        /\ Exists(devices[req[r].device]) =>
              devices[req[r].device].customer = req[r].customer

AnchorInv == SessionAnchored /\ DevicesAnchored /\ ChoiceHolds

\* What keeps the anchors: no customer or device disappears or comes back, no
\* session appears, and no activation settles on a device.
LEMMA AnchorsKept ==
    ASSUME TypeInv, AnchorInv, NobodyDecides,
           \A k \in CustomerIds : Exists(customers[k]) => Exists(customers'[k]),
           \A d \in DeviceIds :
              /\ Exists(devices[d]) <=> Exists(devices'[d])
              /\ devices'[d].status = "free" => devices[d].status = "free"
              /\ devices'[d].customer = devices[d].customer,
           \A s \in SessionIds : Exists(sessions'[s]) =>
              /\ Exists(sessions[s])
              /\ sessions'[s].device = sessions[s].device
              /\ sessions'[s].customer = sessions[s].customer
    PROVE  AnchorInv'
  <1>1. \A r \in Requests : req[r].device \in DeviceIds \cup {NULL}
    BY DEF TypeInv, TypeOK, ReqTypeOK, RequestState
  <1>2. SessionAnchored'
    BY DEF AnchorInv, SessionAnchored
  <1>3. DevicesAnchored'
    BY DEF AnchorInv, DevicesAnchored
  <1>4. ChoiceHolds'
    BY <1>1 DEF AnchorInv, ChoiceHolds, NobodyDecides
  <1>5. QED
    BY <1>2, <1>3, <1>4 DEF AnchorInv

\* An activation settles only on a device of its customer.
LEMMA SettlesAnchored ==
    ASSUME TypeInv, AnchorInv, Quiet, Settles
    PROVE  AnchorInv'
  <1> USE StoreAssumption
  <1>1. PICK r \in Requests, d \in DeviceIds \cup {NULL} : TxDevice(r) /\ Decide(r, d)
    BY DEF Settles
  <1> DEFINE x == DecidedState(r, d)
  <1>2. req \in [Requests -> RequestState] /\ req[r] \in RequestState
    BY DEF TypeInv, TypeOK, ReqTypeOK
  <1>3. x.device = d /\ x.customer = req[r].customer
    BY <1>2 DEF RequestState, DecidedState
  <1>4. req' = [req EXCEPT ![r] = x] /\ req[r].pc = "locked"
    BY <1>1 DEF Decide, TxDevice, DecidedState
  <1>5. d # NULL => /\ req[r].customer # NULL
                    /\ Exists(devices[d]) /\ devices[d].customer = req[r].customer
    <2>1. req' # req
      <3>1. x.pc = "decided"
        BY <1>2 DEF RequestState, DecidedState
      <3> HIDE DEF x
      <3>2. QED
        BY <1>2, <1>4, <3>1
    <2>2. ASSUME d # NULL, NEW e \in DeviceIds \cup {NULL}, Decide(r, e) PROVE e = d
      <3> DEFINE y == DecidedState(r, e)
      <3>1. y.device = e
        BY <1>2 DEF RequestState, DecidedState
      <3>2. req' = [req EXCEPT ![r] = y]
        BY <2>2 DEF Decide, DecidedState
      <3> HIDE DEF x, y
      <3>3. QED
        BY <1>2, <1>3, <1>4, <3>1, <3>2
    <2>3. ~Fail(r)
      <3>1. x.pc = "decided" /\ Idle.pc = "idle"
        BY <1>2 DEF RequestState, DecidedState, Idle
      <3> HIDE DEF x
      <3>2. QED
        BY <1>2, <1>4, <3>1 DEF Fail, Finish
    <2>4. ASSUME d # NULL
          PROVE  \E e \in (IF req[r].customer = NULL THEN {}
                           ELSE DevicesOf(req[r].customer, req[r].app)) : Decide(r, e)
      BY <1>1, <2>2, <2>3, <2>4 DEF TxDevice
    <2>5. QED
      BY <2>2, <2>4 DEF DevicesOf
  <1> HIDE DEF x
  <1>6. ChoiceHolds'
    BY <1>2, <1>3, <1>4, <1>5 DEF AnchorInv, ChoiceHolds, Quiet, TablesKept, Exists
  <1>7. QED
    BY <1>6 DEF AnchorInv, SessionAnchored, DevicesAnchored, Quiet, TablesKept

\* The writes of a commit: the session's device and customer are the ones written or
\* the ones the database has just accepted.
LEMMA CommitAnchored ==
    ASSUME TypeInv, AnchorInv, NEW r \in Requests, Commits(r)
    PROVE  AnchorInv'
  <1> USE StoreAssumption
  <1> DEFINE k == IF req[r].customer = NULL THEN Fresh(customers) ELSE req[r].customer
             d == IF req[r].device = NULL THEN Fresh(devices) ELSE req[r].device
             s == Fresh(sessions)
             session == [status |-> "ACTIVE", customer |-> k, device |-> d,
                         expiresAt |-> SessionEnd(r)]
             device == [status |-> "ACTIVE", customer |-> k, app |-> req[r].app,
                        code |-> req[r].code]
             customer == [status |-> "ACTIVE", plan |-> req[r].plan, expiresAt |-> Term(r)]
  <1>1. /\ req[r] \in RequestState /\ StoreTypeOK
        /\ customers \in [CustomerIds -> CustomerRow]
        /\ devices \in [DeviceIds -> DeviceRow]
        /\ sessions \in [SessionIds -> SessionRow]
        /\ \A q \in Requests : req[q].device \in DeviceIds \cup {NULL}
    BY DEF TypeInv, TypeOK, ReqTypeOK, StoreTypeOK, RequestState
  <1>2. k \in CustomerIds /\ d \in DeviceIds /\ s \in SessionIds
    BY <1>1, FreshIsFree DEF Commits, IdsLeft, RequestState
  <1>3. /\ req[r].device = NULL => devices[d].status = "free"
        /\ req[r].device # NULL => Exists(devices[d]) /\ devices[d].customer = k
    BY <1>1, FreshIsFree DEF Commits, Accepted, IdsLeft, AnchorInv, ChoiceHolds
  <1>4. req[r].customer # NULL => Exists(customers[k])
    BY DEF Commits, Accepted
  <1>5. /\ \/ customers' = customers /\ req[r].customer # NULL
           \/ customers' = [customers EXCEPT ![k] = customer]
        /\ \/ devices' = devices /\ req[r].device # NULL
           \/ devices' = [devices EXCEPT ![d] = device] /\ req[r].device = NULL
        /\ sessions' = [sessions EXCEPT ![s] = session]
        /\ Finish(r)
    BY DEF Commits, WriteAll, TxWriteCustomer, TxWriteDevice
  <1>6. /\ session.customer = k /\ session.device = d
        /\ device.customer = k /\ device.status = "ACTIVE" /\ customer.status = "ACTIVE"
    OBVIOUS
  <1> HIDE DEF k, d, s, session, device, customer
  <1>7. \A i \in CustomerIds : Exists(customers[i]) \/ i = k => Exists(customers'[i])
    BY <1>1, <1>2, <1>4, <1>5, <1>6 DEF Exists
  <1>8. /\ \A e \in DeviceIds \ {d} : devices'[e] = devices[e]
        /\ Exists(devices'[d]) /\ devices'[d].customer = k
        /\ Exists(devices[d]) => devices[d].customer = k
        /\ \A e \in DeviceIds : devices'[e].status = "free" => devices[e].status = "free"
    BY <1>1, <1>2, <1>3, <1>5, <1>6 DEF Exists
  <1>9. SessionAnchored'
    BY <1>1, <1>2, <1>5, <1>6, <1>7, <1>8 DEF AnchorInv, SessionAnchored
  <1>10. DevicesAnchored'
    BY <1>2, <1>7, <1>8 DEF AnchorInv, DevicesAnchored
  <1>11. ChoiceHolds'
    <2>1. \A q \in Requests : req'[q].pc = "decided" => req'[q] = req[q]
      BY <1>5, FinishTyped
    <2>2. ASSUME NEW q \in Requests, req'[q].pc = "decided", req'[q].device # NULL
          PROVE  /\ req'[q].customer # NULL
                 /\ devices'[req'[q].device].status # "free"
                 /\ Exists(devices'[req'[q].device]) =>
                       devices'[req'[q].device].customer = req'[q].customer
      <3>1. req'[q] = req[q] /\ req[q].device \in DeviceIds
        BY <1>1, <2>1, <2>2
      <3>2. /\ req[q].customer # NULL /\ devices[req[q].device].status # "free"
            /\ Exists(devices[req[q].device]) =>
                  devices[req[q].device].customer = req[q].customer
        BY <2>2, <3>1 DEF AnchorInv, ChoiceHolds
      <3>3. CASE req[q].device = d
        BY <1>3, <1>8, <3>1, <3>2, <3>3
      <3>4. CASE req[q].device # d
        BY <1>8, <3>1, <3>2, <3>4
      <3>5. QED
        BY <3>3, <3>4
    <2>3. QED
      BY <2>2 DEF ChoiceHolds
  <1>12. QED
    BY <1>9, <1>10, <1>11 DEF AnchorInv

\* A deletion takes with it every session and device that hangs on what it deletes.
LEMMA DeletionsAnchored ==
    ASSUME TypeInv, AnchorInv, UNCHANGED req,
           \/ \E k \in CustomerIds : RemoveCustomer(k)
           \/ \E d \in DeviceIds : RemoveDevice(d)
    PROVE  AnchorInv'
  <1>1. /\ \A r \in Requests : req[r].device \in DeviceIds \cup {NULL}
        /\ sessions \in [SessionIds -> SessionRow]
        /\ devices \in [DeviceIds -> DeviceRow]
        /\ customers \in [CustomerIds -> CustomerRow]
    BY DEF TypeInv, TypeOK, StoreTypeOK, ReqTypeOK, RequestState
  <1>2. /\ [NoDevice EXCEPT !.status = "gone"].status = "gone"
        /\ [NoSession EXCEPT !.status = "gone"].status = "gone"
    BY DEF NoDevice, NoSession
  <1> DEFINE goneDevice == [NoDevice EXCEPT !.status = "gone"]
             goneSession == [NoSession EXCEPT !.status = "gone"]
             Cut(ds, ks) ==
                /\ \A d \in DeviceIds : IF d \in ds THEN devices'[d].status = "gone"
                                        ELSE devices'[d] = devices[d]
                /\ \A s \in SessionIds : Exists(sessions'[s]) =>
                      /\ sessions'[s] = sessions[s]
                      /\ sessions[s].device \notin ds
                      /\ sessions[s].customer \notin ks
  <1>3. \A ds, ks : DropDevices(ds) /\ CascadeSessions(ds, ks) => Cut(ds, ks)
    <2> SUFFICES ASSUME NEW ds, NEW ks, DropDevices(ds), CascadeSessions(ds, ks)
                 PROVE  Cut(ds, ks)
      OBVIOUS
    <2>1. \A d \in DeviceIds : devices'[d] = IF d \in ds THEN goneDevice ELSE devices[d]
      BY DEF DropDevices
    <2>2. \A s \in SessionIds :
             sessions'[s] = IF /\ Exists(sessions[s])
                               /\ sessions[s].device \in ds \/ sessions[s].customer \in ks
                            THEN goneSession ELSE sessions[s]
      BY DEF CascadeSessions
    <2> HIDE DEF goneDevice, goneSession
    <2>3. goneDevice.status = "gone" /\ goneSession.status = "gone"
      BY <1>2 DEF goneDevice, goneSession
    <2>4. QED
      BY <2>1, <2>2, <2>3 DEF Exists
  <1> HIDE DEF goneDevice, goneSession
  <1>4. ASSUME NEW d \in DeviceIds, RemoveDevice(d) PROVE AnchorInv'
    <2>1. Cut({d}, {}) /\ customers' = customers
      BY <1>3, <1>4 DEF RemoveDevice, DeleteDevice
    <2>2. SessionAnchored' /\ DevicesAnchored'
      BY <2>1 DEF AnchorInv, SessionAnchored, DevicesAnchored, Exists
    <2>3. ChoiceHolds'
      BY <1>1, <2>1 DEF AnchorInv, ChoiceHolds, Exists
    <2>4. QED
      BY <2>2, <2>3 DEF AnchorInv
  <1>5. ASSUME NEW k \in CustomerIds, RemoveCustomer(k) PROVE AnchorInv'
    <2> DEFINE ds == {d \in DeviceIds : Exists(devices[d]) /\ devices[d].customer = k}
    <2>1. /\ Cut(ds, {k})
          /\ \A i \in CustomerIds \ {k} : customers'[i] = customers[i]
      BY <1>1, <1>3, <1>5 DEF RemoveCustomer, DeleteCustomer
    <2>2. SessionAnchored' /\ DevicesAnchored'
      BY <2>1 DEF AnchorInv, SessionAnchored, DevicesAnchored, Exists
    <2>3. ChoiceHolds'
      BY <1>1, <2>1 DEF AnchorInv, ChoiceHolds, Exists
    <2>4. QED
      BY <2>2, <2>3 DEF AnchorInv
  <1>6. QED
    BY <1>4, <1>5

\* A status written to a device leaves the device where it is.
LEMMA DeviceWriteAnchored ==
    ASSUME TypeInv, AnchorInv, UNCHANGED req, DeviceWrite
    PROVE  AnchorInv'
  <1>1. devices \in [DeviceIds -> DeviceRow] /\ \A d \in DeviceIds : devices[d] \in DeviceRow
    BY DEF TypeInv, TypeOK, StoreTypeOK
  <1>2. customers' = customers /\ sessions' = sessions
    BY DEF DeviceWrite, RevokeDevice, BlockDevice, SetDeviceStatus, WriteUnblock, OnlyDevices
  <1>3. \/ devices' = devices
        \/ \E d \in DeviceIds, status \in {"ACTIVE", "BLOCKED", "REVOKED"} :
              Exists(devices[d]) /\ devices' = [devices EXCEPT ![d].status = status]
    BY DEF DeviceWrite, RevokeDevice, BlockDevice, SetDeviceStatus, WriteUnblock, TypeInv,
           WorkersKnow
  <1>4. ASSUME NEW d \in DeviceIds, NEW status \in {"ACTIVE", "BLOCKED", "REVOKED"},
               Exists(devices[d]), devices' = [devices EXCEPT ![d].status = status],
               NEW e \in DeviceIds
        PROVE  /\ Exists(devices[e]) <=> Exists(devices'[e])
               /\ devices'[e].status = "free" => devices[e].status = "free"
               /\ devices'[e].customer = devices[e].customer
    <2> DEFINE row == [devices[d] EXCEPT !.status = status]
    <2>1. row.status = status /\ row.customer = devices[d].customer
      BY <1>1 DEF DeviceRow
    <2>2. devices' = [devices EXCEPT ![d] = row]
      BY <1>4
    <2> HIDE DEF row
    <2>3. QED
      BY <1>1, <1>4, <2>1, <2>2 DEF Exists
  <1>5. NobodyDecides
    BY DEF NobodyDecides
  <1>6. QED
    BY <1>2, <1>3, <1>4, <1>5, AnchorsKept

\* The row of customer k, once inserted, is not free again; it does not disappear.
CustomerStays(k) ==
    /\ Exists(customers[k]) => Exists(customers'[k])
    /\ customers[k].status # "free" => customers'[k].status # "free"

\* The writers of customers insert rows or change them, never take one away.
LEMMA CustomersStay ==
    ASSUME TypeInv, CustomerWrite, NEW k \in CustomerIds
    PROVE  CustomerStays(k)
  <1>0. /\ customers \in [CustomerIds -> CustomerRow]
        /\ \A i \in CustomerIds : customers[i] \in CustomerRow
    BY DEF TypeInv, TypeOK, StoreTypeOK
  <1>1. ASSUME NEW i, NEW status \in {"ACTIVE", "SUSPENDED"},
               customers' = [customers EXCEPT ![i].status = status]
        PROVE  CustomerStays(k)
    <2>1. [customers[k] EXCEPT !.status = status].status = status
      BY <1>0 DEF CustomerRow
    <2>2. customers'[k] = customers[k]
          \/ customers'[k] = [customers[k] EXCEPT !.status = status]
      BY <1>0, <1>1
    <2>3. QED
      BY <2>1, <2>2 DEF CustomerStays, Exists
  <1>2. ASSUME NEW i, NEW p, customers' = [customers EXCEPT ![i].plan = p]
        PROVE  CustomerStays(k)
    <2>1. [customers[k] EXCEPT !.plan = p].status = customers[k].status
      BY <1>0 DEF CustomerRow
    <2>2. customers'[k] = customers[k] \/ customers'[k] = [customers[k] EXCEPT !.plan = p]
      BY <1>0, <1>2
    <2>3. QED
      BY <2>1, <2>2 DEF CustomerStays, Exists
  <1>3. ASSUME NEW i, NEW p, NEW e,
               customers' = [customers EXCEPT ![i] = [status |-> "ACTIVE", plan |-> p,
                                                      expiresAt |-> e]]
        PROVE  CustomerStays(k)
    BY <1>0, <1>3 DEF CustomerStays, Exists
  <1>4. CASE ExpireOverdue
    <2>1. [customers[k] EXCEPT !.status = "EXPIRED"].status = "EXPIRED"
      BY <1>0 DEF CustomerRow
    <2>2. customers'[k] = customers[k]
          \/ customers'[k] = [customers[k] EXCEPT !.status = "EXPIRED"]
      BY <1>0, <1>4 DEF ExpireOverdue
    <2>3. QED
      BY <2>1, <2>2 DEF CustomerStays, Exists
  <1>5. ASSUME NEW w \in Workers, WriteSuspension(w) \/ WriteRenewal(w)
        PROVE  CustomerStays(k)
    BY <1>1, <1>3, <1>5 DEF WriteSuspension, WriteRenewal, CustomerStays
  <1>6. ASSUME NEW i \in CustomerIds,
               \/ SuspendCustomer(i) \/ ReactivateCustomer(i)
               \/ \E p \in Plans : UpdateCustomer(i, p)
        PROVE  CustomerStays(k)
    BY <1>1, <1>2, <1>6 DEF SuspendCustomer, ReactivateCustomer, UpdateCustomer
  <1>7. ASSUME NEW p \in Plans \cup {NULL}, CreateCustomer(p) PROVE CustomerStays(k)
    BY <1>3, <1>7 DEF CreateCustomer
  <1>8. QED
    BY <1>4, <1>5, <1>6, <1>7 DEF CustomerWrite

\* A write to the customers leaves sessions and devices anchored.
LEMMA CustomerWriteAnchored ==
    ASSUME TypeInv, AnchorInv, UNCHANGED req, CustomerWrite
    PROVE  AnchorInv'
  <1>1. devices' = devices /\ sessions' = sessions
    BY DEF CustomerWrite, CreateCustomer, SuspendCustomer, ReactivateCustomer, UpdateCustomer,
           WriteSuspension, WriteRenewal, ExpireOverdue, OnlyCustomers
  <1>2. NobodyDecides
    BY DEF NobodyDecides
  <1>3. QED
    BY <1>1, <1>2, CustomersStay, AnchorsKept DEF CustomerStays

\* Every step keeps sessions anchored.
LEMMA StaysAnchored ==
    ASSUME TypeInv, AnchorInv, [Next]_vars
    PROVE  AnchorInv'
  <1>1. UNCHANGED req => NobodyDecides
    BY DEF NobodyDecides
  <1>2. CASE Quiet /\ NobodyDecides
    BY <1>2, AnchorsKept DEF Quiet, TablesKept
  <1>3. CASE UNCHANGED req /\ (PlanWrite \/ CodeWrite)
    <2>1. UNCHANGED <<customers, devices, sessions>>
      BY <1>3 DEF PlanWrite, CodeWrite, CreatePlan, UpdatePlan, RemovePlan, CreateCode,
                  UpdateLimit, WriteCodeStatus, OnlyPlans, OnlyCodes
    <2>2. QED
      BY <1>1, <1>3, <2>1, AnchorsKept
  <1>4. CASE UNCHANGED req /\ SessionWrite
    <2>1. PICK s \in SessionIds : /\ UNCHANGED <<customers, devices>>
                                  /\ sessions[s].status = "ACTIVE"
                                  /\ sessions' = [sessions EXCEPT ![s].status = "REVOKED"]
      BY <1>4 DEF SessionWrite, RevokeSession, Logout
    <2> DEFINE row == [sessions[s] EXCEPT !.status = "REVOKED"]
    <2>2. /\ sessions \in [SessionIds -> SessionRow] /\ sessions[s] \in SessionRow
      BY DEF TypeInv, TypeOK, StoreTypeOK
    <2>3. row.device = sessions[s].device /\ row.customer = sessions[s].customer
      BY <2>2 DEF SessionRow
    <2>4. sessions' = [sessions EXCEPT ![s] = row]
      BY <2>1
    <2> HIDE DEF row
    <2>5. \A q \in SessionIds : Exists(sessions'[q]) =>
             /\ Exists(sessions[q])
             /\ sessions'[q].device = sessions[q].device
             /\ sessions'[q].customer = sessions[q].customer
      BY <2>1, <2>2, <2>3, <2>4 DEF Exists
    <2>6. QED
      BY <1>1, <1>4, <2>1, <2>5, AnchorsKept
  <1>5. QED
    BY <1>2, <1>3, <1>4, StepKinds, SettlesAnchored, CommitAnchored, DeletionsAnchored,
       DeviceWriteAnchored, CustomerWriteAnchored

\* The empty database is anchored.
LEMMA AnchorInit == Init => AnchorInv
  BY DEF Init, StoreInit, ReqInit, AnchorInv, SessionAnchored, DevicesAnchored, ChoiceHolds,
         NoSession, NoDevice, Idle, Exists

\* A session always has its device and its customer, and they belong together,
\* whatever is deleted under an activation in flight (performActivation against the
\* cascades of the schema).
THEOREM SessionsAreAnchored == Spec => []SessionAnchored
  <1>1. AnchorInv => SessionAnchored
    BY DEF AnchorInv
  <1>2. QED
    BY <1>1, InitTyped, NextTyped, AnchorInit, StaysAnchored, PTL DEF Spec

-----------------------------------------------------------------------------
(* PlanIsKept. *)

\* What an activation in flight holds of its code's plan is still the code's plan.
CopiesAgree ==
    \A r \in Requests : req[r].pc # "idle" => req[r].plan = codes[req[r].code].plan

PlanInv == PlanIsKept /\ CopiesAgree

\* An update of a code leaves its plan alone, and a new code names an active one.
LEMMA CodeWriteKeepsPlans ==
    ASSUME TypeInv, PlanInv, UNCHANGED req, CodeWrite
    PROVE  PlanInv'
  <1> USE StoreAssumption
  <1>1. /\ codes \in [Codes -> CodeRow] /\ \A c \in Codes : codes[c] \in CodeRow
        /\ RequestsKnow /\ CopiesHold /\ WorkersKnow
    BY DEF TypeInv, TypeOK, StoreTypeOK
  <1>2. plans' = plans /\ customers' = customers
    BY DEF CodeWrite, CreateCode, UpdateLimit, WriteCodeStatus, OnlyCodes
  <1>3. ASSUME NEW c \in Codes, NEW row, codes' = [codes EXCEPT ![c] = row],
               \/ row.plan = codes[c].plan
               \/ codes[c].status = "free" /\ row.plan \in Plans /\ Exists(plans[row.plan])
        PROVE  PlanInv'
    <2>1. PlanIsKept'
      BY <1>1, <1>2, <1>3 DEF PlanInv, PlanIsKept
    <2>2. CopiesAgree'
      BY <1>1, <1>3 DEF PlanInv, CopiesAgree, CopiesHold, RequestsKnow
    <2>3. QED
      BY <2>1, <2>2 DEF PlanInv
  <1>4. ASSUME NEW c \in Codes, NEW p \in Plans, NEW limit \in Limits, NEW e \in CodeExpiries,
               NEW k \in Owners[c], CreateCode(c, p, k, limit, e)
        PROVE  PlanInv'
    <2> DEFINE row == [NoCode EXCEPT !.status = "PENDING", !.plan = p, !.customer = k,
                                     !.deviceLimit = limit, !.expiresAt = e]
    <2>1. row.plan = p
      BY NullRecords DEF CodeRow
    <2>2. codes' = [codes EXCEPT ![c] = row] /\ codes[c].status = "free" /\ Exists(plans[p])
      BY <1>4 DEF CreateCode, Exists
    <2> HIDE DEF row
    <2>3. QED
      BY <1>3, <2>1, <2>2
  <1>5. ASSUME NEW c \in Codes, NEW limit \in Limits, UpdateLimit(c, limit) PROVE PlanInv'
    <2> DEFINE row == [codes[c] EXCEPT !.deviceLimit = limit]
    <2>1. row.plan = codes[c].plan
      BY <1>1 DEF CodeRow
    <2>2. codes' = [codes EXCEPT ![c] = row]
      BY <1>5 DEF UpdateLimit
    <2> HIDE DEF row
    <2>3. QED
      BY <1>3, <2>1, <2>2
  <1>6. ASSUME NEW w \in Workers, WriteCodeStatus(w) PROVE PlanInv'
    <2> DEFINE c == adm[w].code
               row == [codes[c] EXCEPT !.status = adm[w].status]
    <2>1. c \in Codes
      BY <1>1, <1>6 DEF WriteCodeStatus, WorkersKnow
    <2>2. row.plan = codes[c].plan
      BY <1>1, <2>1 DEF CodeRow
    <2>3. codes' = [codes EXCEPT ![c] = row]
      BY <1>6 DEF WriteCodeStatus
    <2> HIDE DEF row
    <2>4. QED
      BY <1>3, <2>1, <2>2, <2>3
  <1>7. QED
    BY <1>4, <1>5, <1>6 DEF CodeWrite

\* A customer is given only a plan that is there at the moment of the write.
LEMMA CustomerWriteKeepsPlans ==
    ASSUME TypeInv, PlanInv, UNCHANGED req, CustomerWrite
    PROVE  PlanInv'
  <1> USE StoreAssumption
  <1>1. /\ customers \in [CustomerIds -> CustomerRow]
        /\ \A k \in CustomerIds : customers[k] \in CustomerRow
        /\ WorkersKnow
    BY DEF TypeInv, TypeOK, StoreTypeOK
  <1>2. plans' = plans /\ codes' = codes
    BY DEF CustomerWrite, CreateCustomer, SuspendCustomer, ReactivateCustomer, UpdateCustomer,
           WriteSuspension, WriteRenewal, ExpireOverdue, OnlyCustomers
  <1>3. ASSUME \A k \in CustomerIds :
                  \/ customers'[k].plan = customers[k].plan
                  \/ customers'[k].plan = NULL
                  \/ Exists(plans[customers'[k].plan])
        PROVE  PlanInv'
    BY <1>2, <1>3 DEF PlanInv, PlanIsKept, CopiesAgree
  <1>4. ASSUME NEW i, NEW row, customers' = [customers EXCEPT ![i] = row],
               \/ i \in CustomerIds /\ row.plan = customers[i].plan
               \/ row.plan = NULL
               \/ Exists(plans[row.plan])
        PROVE  PlanInv'
    <2>1. \A k \in CustomerIds : customers'[k] = IF k = i THEN row ELSE customers[k]
      BY <1>1, <1>4
    <2>2. QED
      BY <1>3, <1>4, <2>1
  <1>5. ASSUME NEW p \in Plans \cup {NULL}, CreateCustomer(p) PROVE PlanInv'
    <2> DEFINE row == [status |-> "ACTIVE", plan |-> p,
                       expiresAt |-> IF p = NULL THEN NULL ELSE now + plans[p].days]
    <2>1. row.plan = p
      OBVIOUS
    <2>2. /\ customers' = [customers EXCEPT ![Fresh(customers)] = row]
          /\ p = NULL \/ Exists(plans[p])
      BY <1>5 DEF CreateCustomer, Exists
    <2> HIDE DEF row
    <2>3. QED
      BY <1>4, <2>1, <2>2
  <1>6. ASSUME NEW k \in CustomerIds,
               \/ SuspendCustomer(k) \/ ReactivateCustomer(k)
               \/ \E p \in Plans : UpdateCustomer(k, p)
        PROVE  PlanInv'
    <2> DEFINE written(status) == [customers[k] EXCEPT !.status = status]
               moved(p) == [customers[k] EXCEPT !.plan = p]
    <2>1. /\ \A status : written(status).plan = customers[k].plan
          /\ \A p : moved(p).plan = p
      BY <1>1 DEF CustomerRow
    <2>2. \/ \E status : customers' = [customers EXCEPT ![k] = written(status)]
          \/ \E p \in Plans : /\ customers' = [customers EXCEPT ![k] = moved(p)]
                              /\ Exists(plans[p])
      BY <1>6 DEF SuspendCustomer, ReactivateCustomer, UpdateCustomer, Exists
    <2> HIDE DEF written, moved
    <2>3. QED
      BY <1>4, <2>1, <2>2
  <1>7. ASSUME NEW w \in Workers, WriteSuspension(w) PROVE PlanInv'
    <2> DEFINE k == adm[w].customer
               row == [customers[k] EXCEPT !.status = "SUSPENDED"]
    <2>1. k \in CustomerIds
      BY <1>1, <1>7 DEF WriteSuspension, WorkersKnow
    <2>2. row.plan = customers[k].plan
      BY <1>1, <2>1 DEF CustomerRow
    <2>3. customers' = customers \/ customers' = [customers EXCEPT ![k] = row]
      BY <1>7 DEF WriteSuspension
    <2> HIDE DEF row
    <2>4. QED
      BY <1>3, <1>4, <2>1, <2>2, <2>3
  <1>8. ASSUME NEW w \in Workers, WriteRenewal(w) PROVE PlanInv'
    <2> DEFINE k == adm[w].customer
               row == [status |-> "ACTIVE", plan |-> adm[w].plan, expiresAt |-> adm[w].until]
    <2>1. row.plan = adm[w].plan
      OBVIOUS
    <2>2. \/ customers' = customers
          \/ customers' = [customers EXCEPT ![k] = row] /\ Exists(plans[adm[w].plan])
      BY <1>8 DEF WriteRenewal
    <2> HIDE DEF row
    <2>3. QED
      BY <1>3, <1>4, <2>1, <2>2
  <1>9. CASE ExpireOverdue
    <2>1. \A k \in CustomerIds :
             [customers[k] EXCEPT !.status = "EXPIRED"].plan = customers[k].plan
      BY <1>1 DEF CustomerRow
    <2>2. \A k \in CustomerIds :
             \/ customers'[k] = customers[k]
             \/ customers'[k] = [customers[k] EXCEPT !.status = "EXPIRED"]
      BY <1>9 DEF ExpireOverdue
    <2>3. QED
      BY <1>3, <2>1, <2>2
  <1>10. QED
    BY <1>5, <1>6, <1>7, <1>8, <1>9 DEF CustomerWrite

\* A plan in use is not removed, and one that is edited stays.
LEMMA PlanWriteKeepsPlans ==
    ASSUME TypeInv, PlanInv, UNCHANGED req, PlanWrite
    PROVE  PlanInv'
  <1>1. /\ plans \in [Plans -> PlanRow]
        /\ UNCHANGED <<codes, customers>>
    BY DEF TypeInv, TypeOK, StoreTypeOK, PlanWrite, CreatePlan, UpdatePlan, RemovePlan,
           OnlyPlans
  <1>2. CASE \E p \in Plans : RemovePlan(p)
    <2>1. PICK p \in Plans : RemovePlan(p)
      BY <1>2
    <2>2. /\ \A q \in Plans \ {p} : plans'[q] = plans[q]
          /\ \A c \in Codes : codes[c].plan # p
          /\ \A k \in CustomerIds : customers[k].plan # p
      BY <1>1, <2>1 DEF RemovePlan, Unreferenced
    <2>3. \A c \in Codes : codes[c].plan \in Plans \cup {NULL}
      BY DEF TypeInv, TypeOK, StoreTypeOK, CodeRow
    <2>4. \A k \in CustomerIds : customers[k].plan \in Plans \cup {NULL}
      BY DEF TypeInv, TypeOK, StoreTypeOK, CustomerRow
    <2>5. QED
      BY <1>1, <2>2, <2>3, <2>4 DEF PlanInv, PlanIsKept, CopiesAgree
  <1>3. CASE \E p \in Plans, n \in PlanDays, status \in {"active", "inactive"} :
                CreatePlan(p, status, n) \/ UpdatePlan(p, status, n)
    <2>1. PICK p \in Plans, n \in PlanDays, status \in {"active", "inactive"} :
             plans' = [plans EXCEPT ![p] = [status |-> status, days |-> n]]
      BY <1>3 DEF CreatePlan, UpdatePlan
    <2> DEFINE row == [status |-> status, days |-> n]
    <2>2. Exists(row)
      BY DEF Exists
    <2> HIDE DEF row
    <2>3. plans' = [plans EXCEPT ![p] = row]
      BY <2>1 DEF row
    <2>4. \A q : Exists(plans[q]) /\ q \in Plans => Exists(plans'[q])
      BY <1>1, <2>2, <2>3
    <2>5. \A c \in Codes : codes[c].plan \in Plans \cup {NULL}
      BY DEF TypeInv, TypeOK, StoreTypeOK, CodeRow
    <2>6. \A k \in CustomerIds : customers[k].plan \in Plans \cup {NULL}
      BY DEF TypeInv, TypeOK, StoreTypeOK, CustomerRow
    <2>7. QED
      BY <1>1, <2>4, <2>5, <2>6 DEF PlanInv, PlanIsKept, CopiesAgree
  <1>4. QED
    BY <1>2, <1>3 DEF PlanWrite

\* A commit gives the customer the plan of the code, which the code itself holds.
LEMMA CommitKeepsPlans ==
    ASSUME TypeInv, PlanInv, NEW r \in Requests, Commits(r)
    PROVE  PlanInv'
  <1> USE StoreAssumption
  <1> DEFINE k == IF req[r].customer = NULL THEN Fresh(customers) ELSE req[r].customer
             c == req[r].code
             customer == [status |-> "ACTIVE", plan |-> req[r].plan, expiresAt |-> Term(r)]
             code == [codes[c] EXCEPT !.activated = TRUE, !.expiresAt = Term(r),
                                      !.status = "ACTIVE", !.customer = k]
  <1>1. /\ customers \in [CustomerIds -> CustomerRow] /\ codes \in [Codes -> CodeRow]
        /\ c \in Codes /\ codes[c] \in CodeRow /\ req[r].plan \in Plans
        /\ req[r].plan = codes[c].plan
    BY DEF Commits, TypeInv, TypeOK, StoreTypeOK, RequestsKnow, PlanInv, CopiesAgree
  <1>2. Exists(plans[req[r].plan])
    BY <1>1 DEF PlanInv, PlanIsKept
  <1>3. customer.plan = req[r].plan /\ code.plan = codes[c].plan
    BY <1>1 DEF CodeRow
  <1>4. /\ customers' = customers \/ customers' = [customers EXCEPT ![k] = customer]
        /\ codes' = codes \/ codes' = [codes EXCEPT ![c] = code]
        /\ plans' = plans /\ Finish(r)
    BY DEF Commits, WriteAll, TxWriteCustomer, TxWriteCode
  <1> HIDE DEF k, c, customer, code
  <1>5. \A d \in Codes : codes'[d].plan = codes[d].plan
    BY <1>1, <1>3, <1>4
  <1>6. \A i \in CustomerIds :
           customers'[i].plan = customers[i].plan \/ customers'[i].plan = req[r].plan
    BY <1>1, <1>3, <1>4
  <1>7. PlanIsKept'
    BY <1>2, <1>4, <1>5, <1>6 DEF PlanInv, PlanIsKept
  <1>8. CopiesAgree'
    BY <1>4, <1>5, FinishTyped DEF PlanInv, CopiesAgree, TypeInv, RequestsKnow
  <1>9. QED
    BY <1>7, <1>8 DEF PlanInv

\* Every step keeps the plans that are in use.
LEMMA PlansStayKept ==
    ASSUME TypeInv, PlanInv, [Next]_vars
    PROVE  PlanInv'
  <1> USE StoreAssumption
  <1>1. CASE Quiet /\ PlansCopied
    BY <1>1 DEF Quiet, TablesKept, PlanInv, PlanIsKept, CopiesAgree, PlansCopied
  <1>2. CASE UNCHANGED req /\ \/ DeviceWrite \/ SessionWrite
                              \/ \E d \in DeviceIds : RemoveDevice(d)
    <2>1. UNCHANGED <<plans, codes, customers>>
      BY <1>2 DEF DeviceWrite, SessionWrite, RevokeDevice, BlockDevice, SetDeviceStatus,
                  WriteUnblock, OnlyDevices, RevokeSession, Logout, RemoveDevice
    <2>2. QED
      BY <1>2, <2>1 DEF PlanInv, PlanIsKept, CopiesAgree
  <1>3. ASSUME UNCHANGED req, NEW k \in CustomerIds, RemoveCustomer(k) PROVE PlanInv'
    <2> DEFINE row == [NoCustomer EXCEPT !.status = "gone"]
    <2>1. row.plan = NULL
      BY DEF NoCustomer
    <2>2. /\ customers' = [customers EXCEPT ![k] = row]
          /\ codes' = [c \in Codes |-> IF codes[c].customer = k
                                       THEN [codes[c] EXCEPT !.customer = NULL] ELSE codes[c]]
          /\ plans' = plans
      BY <1>3 DEF RemoveCustomer, DeleteCustomer
    <2> HIDE DEF row
    <2>3. \A c \in Codes : codes'[c].plan = codes[c].plan
      <3>1. \A c \in Codes : [codes[c] EXCEPT !.customer = NULL].plan = codes[c].plan
        <4>1. \A c \in Codes : codes[c] \in CodeRow
          BY DEF TypeInv, TypeOK, StoreTypeOK
        <4>2. QED
          BY <4>1 DEF CodeRow
      <3>2. QED
        BY <2>2, <3>1
    <2>4. customers \in [CustomerIds -> CustomerRow] /\ RequestsKnow
      BY DEF TypeInv, TypeOK, StoreTypeOK
    <2>5. PlanIsKept'
      BY <2>1, <2>2, <2>3, <2>4 DEF PlanInv, PlanIsKept
    <2>6. CopiesAgree'
      BY <1>3, <2>3, <2>4 DEF PlanInv, CopiesAgree, RequestsKnow
    <2>7. QED
      BY <2>5, <2>6 DEF PlanInv
  <1>4. QED
    BY <1>1, <1>2, <1>3, StepKinds, CommitKeepsPlans, PlanWriteKeepsPlans,
       CodeWriteKeepsPlans, CustomerWriteKeepsPlans

\* No code or customer is left pointing at a plan that is not there, although
\* activations and renewals carry plan ids while plans are removed (performActivation,
\* renew, against remove of plans.service.ts).
THEOREM PlansAreKept == Spec => []PlanIsKept
  <1>1. Init => PlanInv
    BY DEF Init, StoreInit, ReqInit, PlanInv, PlanIsKept, CopiesAgree, NoCode, NoCustomer, Idle
  <1>2. PlanInv => PlanIsKept
    BY DEF PlanInv
  <1>3. QED
    BY <1>1, <1>2, InitTyped, NextTyped, PlansStayKept, PTL DEF Spec

-----------------------------------------------------------------------------
(* What a commit writes. *)

\* The customer and the device of a commit: those found, or new ones.
HolderOf(r) == IF req[r].customer = NULL THEN Fresh(customers) ELSE req[r].customer
PhoneOf(r) == IF req[r].device = NULL THEN Fresh(devices) ELSE req[r].device

\* What a commit does to the rows of its customer and of its code.
LEMMA CommitUpdates ==
    ASSUME TypeInv, NEW r \in Requests, Commits(r)
    PROVE  /\ HolderOf(r) \in CustomerIds
           /\ IF req[r].customer = NULL THEN customers[HolderOf(r)].status = "free"
              ELSE HolderOf(r) = req[r].customer /\ Exists(customers[HolderOf(r)])
           /\ \E customer \in CustomerRow, code \in CodeRow :
                 /\ customer.status = "ACTIVE" /\ customer.expiresAt = Term(r)
                 /\ customers' = IF req[r].customer = NULL \/ req[r].first
                                 THEN [customers EXCEPT ![HolderOf(r)] = customer]
                                 ELSE customers
                 /\ code.status = "ACTIVE" /\ code.activated = TRUE
                 /\ code.customer = HolderOf(r) /\ code.expiresAt = Term(r)
                 /\ code.deviceLimit = codes[req[r].code].deviceLimit
                 /\ codes' = IF req[r].first THEN [codes EXCEPT ![req[r].code] = code]
                             ELSE codes
  <1> DEFINE k == HolderOf(r)
             customer == [status |-> "ACTIVE", plan |-> req[r].plan, expiresAt |-> Term(r)]
             code == [codes[req[r].code] EXCEPT !.activated = TRUE, !.expiresAt = Term(r),
                                                !.status = "ACTIVE", !.customer = k]
  <1>1. /\ req[r] \in RequestState /\ req[r].plan \in Plans /\ codes[req[r].code] \in CodeRow
        /\ customers \in [CustomerIds -> CustomerRow]
    BY DEF Commits, TypeInv, TypeOK, ReqTypeOK, StoreTypeOK, RequestsKnow
  <1>2. /\ k \in CustomerIds
        /\ IF req[r].customer = NULL THEN customers[k].status = "free"
           ELSE k = req[r].customer /\ Exists(customers[k])
    BY <1>1, FreshIsFree DEF Commits, Accepted, IdsLeft, RequestState, HolderOf
  <1>3. Term(r) \in Nat
    BY <1>1 DEF Term, RequestState
  <1>4. /\ customer \in CustomerRow
        /\ customer.status = "ACTIVE" /\ customer.expiresAt = Term(r)
    BY <1>1, <1>3 DEF CustomerRow
  <1>5. /\ customers' = IF req[r].customer = NULL \/ req[r].first
                        THEN [customers EXCEPT ![k] = customer] ELSE customers
        /\ codes' = IF req[r].first THEN [codes EXCEPT ![req[r].code] = code] ELSE codes
    BY DEF Commits, WriteAll, TxWriteCustomer, TxWriteCode, HolderOf
  <1>6. /\ code \in CodeRow
        /\ code.status = "ACTIVE" /\ code.activated = TRUE /\ code.customer = k
        /\ code.expiresAt = Term(r)
        /\ code.deviceLimit = codes[req[r].code].deviceLimit
    BY <1>1, <1>2, <1>3 DEF CodeRow
  <1> HIDE DEF customer, code
  <1>7. QED
    BY <1>2, <1>4, <1>5, <1>6

\* What a commit inserts: a session, and the device unless it was found.
LEMMA CommitInserts ==
    ASSUME TypeInv, NEW r \in Requests, Commits(r)
    PROVE  /\ PhoneOf(r) \in DeviceIds
           /\ IF req[r].device = NULL THEN devices[PhoneOf(r)].status = "free"
              ELSE Exists(devices[PhoneOf(r)])
           /\ \E device \in DeviceRow :
                 /\ device.status = "ACTIVE" /\ device.customer = HolderOf(r)
                 /\ device.app = req[r].app /\ device.code = req[r].code
                 /\ devices' = IF req[r].device = NULL
                               THEN [devices EXCEPT ![PhoneOf(r)] = device] ELSE devices
           /\ \E s \in SessionIds, session \in SessionRow :
                 /\ sessions[s].status = "free"
                 /\ session.customer = HolderOf(r) /\ session.expiresAt = SessionEnd(r)
                 /\ sessions' = [sessions EXCEPT ![s] = session]
  <1> DEFINE k == HolderOf(r)
             d == PhoneOf(r)
             s == Fresh(sessions)
             device == [status |-> "ACTIVE", customer |-> k, app |-> req[r].app,
                        code |-> req[r].code]
             session == [status |-> "ACTIVE", customer |-> k, device |-> d,
                         expiresAt |-> SessionEnd(r)]
  <1>1. /\ req[r] \in RequestState /\ req[r].app \in Apps /\ req[r].code \in Codes
        /\ devices \in [DeviceIds -> DeviceRow] /\ sessions \in [SessionIds -> SessionRow]
    BY DEF Commits, TypeInv, TypeOK, ReqTypeOK, StoreTypeOK, RequestsKnow
  <1>2. /\ d \in DeviceIds
        /\ IF req[r].device = NULL THEN devices[d].status = "free" ELSE Exists(devices[d])
        /\ s \in SessionIds /\ sessions[s].status = "free"
    BY <1>1, FreshIsFree DEF Commits, Accepted, IdsLeft, RequestState, PhoneOf
  <1>3. k \in CustomerIds
    BY CommitUpdates
  <1>4. /\ devices' = IF req[r].device = NULL THEN [devices EXCEPT ![d] = device] ELSE devices
        /\ sessions' = [sessions EXCEPT ![s] = session]
    BY DEF Commits, WriteAll, TxWriteDevice, HolderOf, PhoneOf
  <1> HIDE DEF k, d, s
  <1>5. /\ device \in DeviceRow /\ device.status = "ACTIVE" /\ device.customer = k
        /\ device.app = req[r].app /\ device.code = req[r].code
    BY <1>1, <1>3 DEF DeviceRow
  <1>6. SessionEnd(r) \in Nat
    BY <1>1, StoreAssumption DEF SessionEnd, RequestState
  <1>7. session \in SessionRow /\ session.customer = k /\ session.expiresAt = SessionEnd(r)
    BY <1>2, <1>3, <1>6 DEF SessionRow
  <1> HIDE DEF device, session
  <1>8. QED
    BY <1>2, <1>4, <1>5, <1>7 DEF k, d

-----------------------------------------------------------------------------
(* CustomerFitsLimit. *)

\* A code has seats to give from the moment it is issued.
CodesHaveSeats == \A c \in Codes : codes[c].status = "free" <=> codes[c].deviceLimit = 0

\* Room for one more.
LEMMA OneMore ==
    ASSUME NEW S, IsFiniteSet(S), NEW x, NEW n \in Nat, Cardinality(S) < n
    PROVE  Cardinality(S \cup {x}) <= n
  <1>1. Cardinality(S) \in Nat
    BY FS_CardinalityType
  <1>2. Cardinality(S \cup {x}) = IF x \in S THEN Cardinality(S) ELSE Cardinality(S) + 1
    BY FS_AddElement
  <1>3. QED
    BY <1>1, <1>2

\* The active devices of a customer are finitely many, and none of a customer that has
\* just been inserted.
LEMMA ActiveDevicesFinite ==
    ASSUME NEW k
    PROVE  /\ IsFiniteSet(ActiveDevices(k)) /\ Cardinality(ActiveDevices(k)) \in Nat
           /\ TypeInv /\ AnchorInv /\ k \in CustomerIds /\ customers[k].status = "free" =>
                 \A d \in DeviceIds : Exists(devices[d]) => devices[d].customer # k
  <1>1. ActiveDevices(k) \in SUBSET DeviceIds
    BY DEF ActiveDevices
  <1>2. IsFiniteSet(ActiveDevices(k)) /\ Cardinality(ActiveDevices(k)) \in Nat
    BY <1>1, FS_Subset, FS_CardinalityType, StoreAssumption
  <1>3. QED
    BY <1>2 DEF AnchorInv, DevicesAnchored, Exists

\* Nothing is asked of the administrators but to leave limits alone and to let no
\* blocked device in again: both put a customer over its limit on purpose.
LimitsStand == Ops \cap {"updateLimit", "unblockDevice"} = {}

\* Nobody is given two codes: there is one, or codes are issued without a customer.
OneCodeEach == (\A c, e \in Codes : c = e) \/ (\A c \in Codes : Owners[c] = {NULL})

\* Customer k has to do with code c: it is linked to it, an activation in flight thinks
\* so, or it has a device that was activated with it.
Uses(k, c) ==
    \/ codes[c].customer = k
    \/ \E r \in Requests : req[r].pc # "idle" /\ req[r].customer = k /\ req[r].code = c
    \/ \E d \in DeviceIds : /\ Exists(devices[d])
                            /\ devices[d].customer = k /\ devices[d].code = c

UsesOne == \A k \in CustomerIds, c, e \in Codes : Uses(k, c) /\ Uses(k, e) => c = e

\* Whoever has to do with a code was inserted some time, and fits its limit.
UsersFit ==
    \A k \in CustomerIds, c \in Codes : Uses(k, c) =>
        /\ customers[k].status # "free" /\ codes[c].status # "free"
        /\ Cardinality(ActiveDevices(k)) <= codes[c].deviceLimit

\* The copy of the limit is good for ever; from "locked" on the handler has the code's
\* advisory lock, so the seat it has counted for a new device stays free.
HandlerFits(r) ==
    req[r].pc # "idle" =>
        /\ req[r].limit = codes[req[r].code].deviceLimit
        /\ req[r].pc \in {"locked", "decided"} => codeLock[req[r].code] = r
        /\ req[r].pc = "decided" /\ req[r].device = NULL => SeatFree(r)

NoUnblock == \A w \in Workers : adm[w].op # "unblock"

SeatInv ==
    /\ CodesHaveSeats
    /\ UsesOne
    /\ UsersFit
    /\ \A r \in Requests : HandlerFits(r)
    /\ \A d \in DeviceIds : Exists(devices[d]) => devices[d].code \in Codes
    /\ NoUnblock

\* What a handler knows of its customer and its code it knew before, or it has just read
\* it from the table.
HandlersCopied ==
    \A q \in Requests : req'[q].pc # "idle" =>
        \/ /\ req[q].pc # "idle" /\ req'[q].code = req[q].code
           /\ req'[q].customer \in {req[q].customer, NULL}
        \/ /\ req'[q].code \in Codes
           /\ req'[q].customer = codes[req'[q].code].customer

\* A handler that does not move still fits when the seats of its customer do not fill up.
LEMMA HandlerKept ==
    ASSUME TypeInv, NEW q \in Requests, HandlerFits(q), req'[q] = req[q],
           req[q].pc # "idle" =>
              codes'[req[q].code].deviceLimit = codes[req[q].code].deviceLimit,
           /\ req[q].pc \in {"locked", "decided"}
           /\ codeLock[req[q].code] = q
           => codeLock'[req[q].code] = q,
           req[q].pc = "decided" /\ req[q].device = NULL /\ req[q].customer # NULL =>
              \A d \in DeviceIds :
                 devices'[d].status = "ACTIVE" /\ devices'[d].customer = req[q].customer =>
                    devices[d].status = "ACTIVE" /\ devices[d].customer = req[q].customer
    PROVE  HandlerFits(q)'
  <1> DEFINE k == req[q].customer
             S == {d \in DeviceIds : devices'[d].status = "ACTIVE" /\ devices'[d].customer = k}
  <1>1. CASE req[q].pc = "decided" /\ req[q].device = NULL /\ k # NULL
    <2>1. S \subseteq ActiveDevices(k)
      BY <1>1 DEF ActiveDevices
    <2>2. /\ Cardinality(S) <= Cardinality(ActiveDevices(k))
          /\ Cardinality(S) \in Nat /\ Cardinality(ActiveDevices(k)) \in Nat
      BY <2>1, ActiveDevicesFinite, FS_Subset, FS_CardinalityType
    <2>3. req[q].limit \in Nat /\ Cardinality(ActiveDevices(k)) < req[q].limit
      BY <1>1 DEF HandlerFits, SeatFree, TypeInv, TypeOK, ReqTypeOK, RequestState
    <2> HIDE DEF S
    <2>4. Cardinality(S) < req'[q].limit
      BY <2>2, <2>3
    <2>5. S = {d \in DeviceIds : /\ devices'[d].status = "ACTIVE"
                                 /\ devices'[d].customer = req'[q].customer}
      BY DEF S
    <2>6. SeatFree(q)'
      BY <2>4, <2>5 DEF SeatFree, ActiveDevices
    <2>7. QED
      BY <1>1, <2>6 DEF HandlerFits
  <1>2. CASE req[q].pc = "decided" /\ req[q].device = NULL /\ k = NULL
    BY <1>2 DEF HandlerFits, SeatFree
  <1>3. CASE ~(req[q].pc = "decided" /\ req[q].device = NULL)
    BY <1>3 DEF HandlerFits
  <1>4. QED
    BY <1>1, <1>2, <1>3

\* When handler r moves to state x and the tables stay, the others are where they were.
LEMMA OneHandlerMoves ==
    ASSUME TypeInv, \A q \in Requests : HandlerFits(q),
           NEW r \in Requests, NEW x \in RequestState, req' = [req EXCEPT ![r] = x],
           UNCHANGED <<codes, devices>>,
           \A c \in Codes : codeLock[c] # r /\ codeLock[c] # NULL => codeLock'[c] = codeLock[c],
           x.pc # "idle" =>
              /\ HandlerFits(r)'
              /\ \/ /\ req[r].pc # "idle" /\ x.code = req[r].code
                    /\ x.customer \in {req[r].customer, NULL}
                 \/ x.code \in Codes /\ x.customer = codes[x.code].customer
    PROVE  (\A q \in Requests : HandlerFits(q)') /\ HandlersCopied
  <1> USE StoreAssumption
  <1>1. req \in [Requests -> RequestState] /\ RequestsKnow
    BY DEF TypeInv, TypeOK, ReqTypeOK
  <1>2. \A q \in Requests : req'[q] = IF q = r THEN x ELSE req[q]
    BY <1>1
  <1>3. HandlersCopied
    BY <1>2 DEF HandlersCopied
  <1>4. HandlerFits(r)'
    BY <1>2 DEF HandlerFits
  <1>5. ASSUME NEW q \in Requests, q # r PROVE HandlerFits(q)'
    <2>1. req'[q] = req[q] /\ HandlerFits(q) /\ q # NULL
      BY <1>2, <1>5
    <2>2. /\ req[q].pc \in {"locked", "decided"}
          /\ codeLock[req[q].code] = q
          => codeLock'[req[q].code] = q
      BY <1>1, <1>5, <2>1 DEF RequestsKnow
    <2>3. QED
      BY <2>1, <2>2, HandlerKept
  <1>6. QED
    BY <1>3, <1>4, <1>5

\* A handler that gives up leaves the others as they were.
LEMMA FailSpares ==
    ASSUME TypeInv, \A q \in Requests : HandlerFits(q), NEW r \in Requests, Fail(r)
    PROVE  (\A q \in Requests : HandlerFits(q)') /\ HandlersCopied
  <1>1. Idle \in RequestState /\ Idle.pc = "idle"
    BY NullRecords DEF Idle
  <1>2. codeLock \in [Codes -> Requests \cup {NULL}]
    BY DEF TypeInv, TypeOK, StoreTypeOK
  <1>3. /\ req' = [req EXCEPT ![r] = Idle] /\ UNCHANGED <<codes, devices>>
        /\ \A c \in Codes : codeLock[c] # r => codeLock'[c] = codeLock[c]
    BY <1>2 DEF Fail, Finish, Unlocked
  <1> HIDE DEF Idle
  <1>4. QED
    BY <1>1, <1>3, OneHandlerMoves

\* Reading the code, the plan and the customer, with the lock of the code from then on.
LEMMA ReadersFit ==
    ASSUME TypeInv, \A q \in Requests : HandlerFits(q), NEW r \in Requests,
           \/ \E a \in Apps, c \in Codes : Resolve(r, a, c)
           \/ ReadPlan(r) \/ TxCustomer(r)
    PROVE  (\A q \in Requests : HandlerFits(q)') /\ HandlersCopied
  <1> USE StoreAssumption
  <1>1. /\ req \in [Requests -> RequestState] /\ req[r] \in RequestState
        /\ \A c \in Codes : codes[c] \in CodeRow
        /\ codeLock \in [Codes -> Requests \cup {NULL}]
        /\ now \in Nat /\ RequestsKnow /\ plans \in [Plans -> PlanRow]
        /\ customers \in [CustomerIds -> CustomerRow]
    BY DEF TypeInv, TypeOK, ReqTypeOK, StoreTypeOK
  <1>2. ASSUME NEW a \in Apps, NEW c \in Codes, Resolve(r, a, c)
        PROVE  (\A q \in Requests : HandlerFits(q)') /\ HandlersCopied
    <2> DEFINE unused == ~codes[c].activated
               x == [Idle EXCEPT !.pc = "resolved", !.app = a, !.code = c,
                                 !.customer = codes[c].customer,
                                 !.status = codes[c].status,
                                 !.limit = codes[c].deviceLimit,
                                 !.first = unused,
                                 !.plan = codes[c].plan]
    <2>0. unused \in BOOLEAN
      OBVIOUS
    <2> HIDE DEF unused
    <2>1. /\ x \in RequestState /\ x.pc = "resolved" /\ x.code = c
          /\ x.customer = codes[c].customer /\ x.limit = codes[c].deviceLimit
      <3>1. /\ codes[c].customer \in CustomerIds \cup {NULL}
            /\ codes[c].deviceLimit \in Nat /\ codes[c].plan \in Plans \cup {NULL}
            /\ codes[c].status \in {"PENDING", "ACTIVE"}
        BY <1>1, <1>2 DEF CodeRow, Resolve, isCodeEffectivelyUsable
      <3>2. Idle \in RequestState
        BY NullRecords
      <3>3. QED
        BY <2>0, <3>1, <3>2 DEF RequestState
    <2>2. req' = [req EXCEPT ![r] = x] /\ UNCHANGED store
      BY <1>2 DEF Resolve, unused
    <2> HIDE DEF x
    <2>3. req'[r] = x /\ UNCHANGED <<codes, devices, codeLock>>
      BY <1>1, <2>2 DEF store
    <2>4. HandlerFits(r)'
      BY <2>1, <2>3 DEF HandlerFits
    <2>5. QED
      BY <2>1, <2>2, <2>3, <2>4, OneHandlerMoves
  <1>3. CASE ReadPlan(r) /\ ~Fail(r)
    <2> DEFINE x == [req[r] EXCEPT !.pc = "planned", !.days = plans[req[r].plan].days]
    <2>0. req[r].pc = "resolved" /\ plans[req[r].plan].days \in Nat
      BY <1>1, <1>3 DEF ReadPlan, RequestsKnow, PlanRow
    <2>1. /\ x \in RequestState /\ x.pc = "planned" /\ x.code = req[r].code
          /\ x.customer = req[r].customer /\ x.limit = req[r].limit
      BY <1>1, <2>0 DEF RequestState
    <2>2. req' = [req EXCEPT ![r] = x] /\ UNCHANGED store
      BY <1>3 DEF ReadPlan
    <2> HIDE DEF x
    <2>3. req'[r] = x /\ UNCHANGED <<codes, devices, codeLock>>
      BY <1>1, <2>2 DEF store
    <2>4. HandlerFits(r)'
      BY <2>0, <2>1, <2>3 DEF HandlerFits
    <2>5. QED
      BY <2>0, <2>1, <2>2, <2>3, <2>4, OneHandlerMoves
  <1>4. CASE TxCustomer(r) /\ ~Fail(r)
    <2> DEFINE k == FoundCustomer(r)
               c == req[r].code
               u == IF k = NULL THEN NULL ELSE customers[k].expiresAt
               t == IF k = NULL THEN NULL ELSE customers[k].status
               x == [req[r] EXCEPT !.pc = "locked", !.customer = k, !.at = now, !.payer = t,
                                   !.until = u]
    <2>1. /\ req[r].pc = "planned" /\ c \in Codes /\ codeLock[c] = NULL
          /\ req' = [req EXCEPT ![r] = x] /\ codeLock' = [codeLock EXCEPT ![c] = r]
          /\ UNCHANGED <<codes, devices>>
      BY <1>1, <1>4 DEF TxCustomer, LockFree, RequestsKnow
    <2>2. k \in {req[r].customer, NULL} /\ k \in CustomerIds \cup {NULL}
      BY <1>1 DEF FoundCustomer, RequestState
    <2>3. u \in Nat \cup {NULL} /\ t \in {"ACTIVE", "SUSPENDED", "EXPIRED", NULL}
      BY <1>1, <1>4, <2>2 DEF CustomerRow, TxCustomer, isEffectivelyActive
    <2> HIDE DEF k, u, t
    <2>4. /\ x \in RequestState /\ x.pc = "locked" /\ x.code = c
          /\ x.customer = k /\ x.limit = req[r].limit
      <3>1. now \in Nat /\ req[r] \in RequestState
        BY <1>1
      <3>2. x \in RequestState
        BY <2>2, <2>3, <3>1 DEF RequestState
      <3>3. QED
        BY <3>1, <3>2 DEF RequestState
    <2> HIDE DEF x
    <2>5. /\ req'[r] = x /\ codeLock'[c] = r
          /\ \A e \in Codes : codeLock[e] # NULL => codeLock'[e] = codeLock[e]
      BY <1>1, <2>1
    <2>6. HandlerFits(r)'
      BY <2>1, <2>4, <2>5 DEF HandlerFits
    <2>7. QED
      BY <2>1, <2>2, <2>4, <2>5, <2>6, OneHandlerMoves
  <1>5. QED
    BY <1>2, <1>3, <1>4, FailSpares

\* The decision counts the seats under the lock.
LEMMA DecidersFit ==
    ASSUME TypeInv, \A q \in Requests : HandlerFits(q), NEW r \in Requests, TxDevice(r)
    PROVE  (\A q \in Requests : HandlerFits(q)') /\ HandlersCopied
  <1>1. req \in [Requests -> RequestState] /\ req[r] \in RequestState /\ req[r].pc = "locked"
    BY DEF TypeInv, TypeOK, ReqTypeOK, TxDevice
  <1>2. ASSUME NEW d \in DeviceIds \cup {NULL}, Decide(r, d), d = NULL => SeatFree(r)
        PROVE  (\A q \in Requests : HandlerFits(q)') /\ HandlersCopied
    <2> DEFINE u == PaidUntil(r)
               n == IF d # NULL THEN 0 ELSE Cardinality(ActiveDevices(req[r].customer))
               x == [req[r] EXCEPT !.pc = "decided", !.device = d, !.until = u, !.taken = n]
    <2>1. u \in Nat \cup {NULL} /\ n \in Nat
      BY <1>1, CountIsNat DEF PaidUntil, Term, RequestState
    <2>2. req' = [req EXCEPT ![r] = x] /\ UNCHANGED <<codes, devices, codeLock>>
      BY <1>2 DEF Decide
    <2> HIDE DEF u, n
    <2>3. /\ x \in RequestState /\ x.pc = "decided" /\ x.code = req[r].code
          /\ x.customer = req[r].customer /\ x.limit = req[r].limit /\ x.device = d
      BY <1>1, <2>1 DEF RequestState
    <2> HIDE DEF x
    <2>4. req'[r] = x
      BY <1>1, <2>2
    <2>5. d = NULL => SeatFree(r)'
      <3>1. ActiveDevices(req[r].customer) =
               {e \in DeviceIds : /\ devices'[e].status = "ACTIVE"
                                  /\ devices'[e].customer = req'[r].customer}
        BY <2>2, <2>3, <2>4 DEF ActiveDevices
      <3>2. req'[r].customer = req[r].customer /\ req'[r].limit = req[r].limit
        BY <2>3, <2>4
      <3>3. QED
        BY <1>2, <3>1, <3>2 DEF SeatFree, ActiveDevices
    <2>6. HandlerFits(r)'
      BY <1>1, <2>2, <2>3, <2>4, <2>5 DEF HandlerFits
    <2>7. QED
      BY <1>1, <2>2, <2>3, <2>6, OneHandlerMoves
  <1>3. \/ Fail(r)
        \/ \E d \in DeviceIds : Decide(r, d)
        \/ SeatFree(r) /\ Decide(r, NULL)
    BY DEF TxDevice, DevicesOf
  <1>4. QED
    BY <1>2, <1>3, FailSpares, StoreAssumption

\* Every step but a commit moves a handler as above, or leaves handlers and locks alone.
LEMMA HandlersGoOn ==
    ASSUME TypeInv, \A q \in Requests : HandlerFits(q), [Next]_vars,
           \A r \in Requests : ~Commits(r)
    PROVE  \/ UNCHANGED <<req, codeLock>>
           \/ Quiet /\ (\A q \in Requests : HandlerFits(q)') /\ HandlersCopied
  <1>1. ASSUME NEW r \in Requests, Commit(r) PROVE Commit(r) /\ Fail(r)
    BY <1>1 DEF Commit, Commits
  <1>2. CASE RequestStep
    <2>1. (\E s \in SessionIds : Logout(s)) => UNCHANGED <<req, codeLock>>
      BY DEF Logout
    <2>2. ASSUME NEW r \in Requests, HoldRows(r) PROVE UNCHANGED <<req, codeLock>> \/ Fail(r)
      BY <2>2 DEF HoldRows, store
    <2>3. QED
      BY <1>1, <1>2, <2>1, <2>2, ReadersAreQuiet, ReadersFit, DecidersFit, FailSpares
      DEF RequestStep, RequestGoesOn, Abort, DeadlockVictim
  <1>3. ASSUME NEW w \in Workers, WorkerStarts(w) PROVE UNCHANGED codeLock
    BY <1>3 DEF WorkerStarts, SuspendCode, ReactivateCode, RevokeCode, PendCode,
                RenewCustomer, UnblockDevice, store
  <1>4. ASSUME NEW w \in Workers, WorkerGoesOn(w) PROVE UNCHANGED codeLock
    BY <1>4 DEF WorkerGoesOn, WriteCodeStatus, CutAccess, WriteSuspension, WriteRenewal,
                WriteUnblock, OnlyCodes, OnlyCustomers, OnlyDevices, store
  <1>5. ASSUME AtOnce PROVE UNCHANGED codeLock
    BY <1>5 DEF AtOnce, CreatePlan, UpdatePlan, RemovePlan, CreateCode, UpdateLimit,
                CreateCustomer, SuspendCustomer, ReactivateCustomer, RemoveCustomer,
                UpdateCustomer, ExpireOverdue, RevokeDevice, BlockDevice, SetDeviceStatus,
                RemoveDevice, RevokeSession, OnlyPlans, OnlyCodes, OnlyCustomers, OnlyDevices
  <1>6. CASE AdminStep /\ UNCHANGED req
    BY <1>3, <1>4, <1>5, <1>6 DEF AdminStep
  <1>7. CASE Crash
    BY <1>7 DEF Crash, Quiet, TablesKept, HandlerFits, HandlersCopied, Idle
  <1>8. CASE Tick \/ UNCHANGED vars
    BY <1>8 DEF Tick, vars, store
  <1>9. QED
    BY <1>2, <1>6, <1>7, <1>8 DEF Next

\* Nobody sets out to unblock a device.
LEMMA NobodyUnblocks ==
    ASSUME LimitsStand, TypeInv, NoUnblock, [Next]_vars
    PROVE  NoUnblock'
  <1>1. adm \in [Workers -> Pending]
    BY DEF TypeInv, TypeOK, AdmTypeOK
  <1>2. CASE UNCHANGED adm
    BY <1>2 DEF NoUnblock
  <1>3. ASSUME NEW w \in Workers, NEW x, x.op # "unblock", adm' = [adm EXCEPT ![w] = x]
        PROVE  NoUnblock'
    BY <1>1, <1>3 DEF NoUnblock
  <1>4. ASSUME NEW w \in Workers, NEW c \in Codes, NEW status, PendCode(w, c, status)
        PROVE  NoUnblock'
    <2> DEFINE x == [NoPending EXCEPT !.op = "code", !.code = c, !.status = status,
                                      !.customer = codes[c].customer,
                                      !.was = codes[c].status, !.used = codes[c].activated]
    <2>1. x.op = "code" /\ adm' = [adm EXCEPT ![w] = x]
      BY <1>4 DEF PendCode, NoPending
    <2> HIDE DEF x
    <2>2. QED
      BY <1>3, <2>1
  <1>5. ASSUME NEW w \in Workers, NEW k \in CustomerIds, NEW p \in Plans, RenewCustomer(w, k, p)
        PROVE  NoUnblock'
    <2> DEFINE x == [NoPending EXCEPT !.op = "renew", !.customer = k, !.plan = p,
                                      !.until = RenewalBase(k) + plans[p].days,
                                      !.paid = customers[k].expiresAt]
    <2>1. x.op = "renew" /\ adm' = [adm EXCEPT ![w] = x]
      BY <1>5 DEF RenewCustomer, NoPending
    <2> HIDE DEF x
    <2>2. QED
      BY <1>3, <2>1
  <1>6. \A w \in Workers, d \in DeviceIds : ~UnblockDevice(w, d)
    BY DEF UnblockDevice, LimitsStand
  <1>7. ASSUME NEW w \in Workers, WorkerStarts(w) PROVE NoUnblock'
    BY <1>4, <1>5, <1>6, <1>7 DEF WorkerStarts, SuspendCode, ReactivateCode, RevokeCode
  <1>8. ASSUME NEW w \in Workers, Drop(w) PROVE NoUnblock'
    <2>1. NoPending.op # "unblock"
      BY DEF NoPending
    <2>2. QED
      BY <1>3, <1>8, <2>1 DEF Drop
  <1>9. ASSUME NEW w \in Workers, NEW op \in {"cutAccess", "suspend"},
               \/ adm' = [adm EXCEPT ![w].op = op]
               \/ adm' = [adm EXCEPT ![w].op = op, ![w].was = "REVOKED"]
        PROVE  NoUnblock'
    <2>1. PICK x : x.op = op /\ adm' = [adm EXCEPT ![w] = x]
      <3>1. /\ [adm[w] EXCEPT !.op = op].op = op
            /\ [adm[w] EXCEPT !.op = op, !.was = "REVOKED"].op = op
        BY <1>1 DEF Pending
      <3>2. \/ adm' = [adm EXCEPT ![w] = [adm[w] EXCEPT !.op = op]]
            \/ adm' = [adm EXCEPT ![w] = [adm[w] EXCEPT !.op = op, !.was = "REVOKED"]]
        BY <1>1, <1>9
      <3>3. QED
        BY <3>1, <3>2
    <2>2. QED
      BY <1>3, <2>1
  <1>10. ASSUME NEW w \in Workers, WorkerGoesOn(w) PROVE NoUnblock'
    <2>1. \/ Drop(w)
          \/ \E op \in {"cutAccess", "suspend"} :
                \/ adm' = [adm EXCEPT ![w].op = op]
                \/ adm' = [adm EXCEPT ![w].op = op, ![w].was = "REVOKED"]
      BY <1>10 DEF WorkerGoesOn, WriteCodeStatus, AfterCodeWrite, CutAccess,
                   WriteSuspension, WriteRenewal, WriteUnblock
    <2>2. QED
      BY <1>8, <1>9, <2>1
  <1>11. AtOnce => UNCHANGED adm
    BY DEF AtOnce, CreatePlan, UpdatePlan, RemovePlan, CreateCode, UpdateLimit,
           CreateCustomer, SuspendCustomer, ReactivateCustomer, RemoveCustomer,
           UpdateCustomer, ExpireOverdue, RevokeDevice, BlockDevice, SetDeviceStatus,
           RemoveDevice, RevokeSession
  <1>12. CASE Crash
    BY <1>12 DEF Crash, NoUnblock, NoPending
  <1>13. QED
    BY <1>2, <1>7, <1>10, <1>11, <1>12 DEF Next, AdminStep, Tick, vars

\* A customer's active devices do not become more when none becomes one of them.
LEMMA FewerDevices ==
    ASSUME NEW k,
           \A d \in DeviceIds :
              devices'[d].status = "ACTIVE" /\ devices'[d].customer = k =>
                 devices[d].status = "ACTIVE" /\ devices[d].customer = k,
           NEW n \in Nat, Cardinality(ActiveDevices(k)) <= n
    PROVE  Cardinality(ActiveDevices(k)') <= n
  <1> DEFINE S == {d \in DeviceIds : devices'[d].status = "ACTIVE" /\ devices'[d].customer = k}
  <1>1. S \subseteq ActiveDevices(k)
    BY DEF ActiveDevices
  <1>2. IsFiniteSet(ActiveDevices(k)) /\ Cardinality(ActiveDevices(k)) \in Nat
    BY ActiveDevicesFinite
  <1>3. /\ Cardinality(S) <= Cardinality(ActiveDevices(k))
        /\ Cardinality(S) \in Nat
    BY <1>1, <1>2, FS_Subset, FS_CardinalityType
  <1>4. ActiveDevices(k)' = S
    BY DEF ActiveDevices
  <1>5. QED
    BY <1>2, <1>3, <1>4

\* Seats stay as they were when handlers do and the tables give no new use of a code.
LEMMA NoNewUse ==
    ASSUME TypeInv, SeatInv, NoUnblock', \A q \in Requests : HandlerFits(q)', HandlersCopied,
           \A c \in Codes : /\ codes'[c].deviceLimit = codes[c].deviceLimit
                            /\ codes'[c].status = "free" <=> codes[c].status = "free"
                            /\ codes'[c].customer \in {codes[c].customer, NULL},
           \A k \in CustomerIds : customers[k].status # "free" => customers'[k].status # "free",
           \A d \in DeviceIds : Exists(devices'[d]) =>
              /\ Exists(devices[d])
              /\ devices'[d].customer = devices[d].customer
              /\ devices'[d].code = devices[d].code
              /\ devices'[d].status = "ACTIVE" => devices[d].status = "ACTIVE"
    PROVE  SeatInv'
  <1> USE StoreAssumption
  <1>1. \A c \in Codes : codes[c].deviceLimit \in Nat
    BY DEF TypeInv, TypeOK, StoreTypeOK, CodeRow
  <1>2. \A k \in CustomerIds, c \in Codes : Uses(k, c)' => Uses(k, c)
    BY DEF Uses, HandlersCopied
  <1>3. CodesHaveSeats'
    BY DEF SeatInv, CodesHaveSeats
  <1>4. UsesOne'
    BY <1>2 DEF SeatInv, UsesOne
  <1>5. ASSUME NEW k \in CustomerIds, NEW c \in Codes, Uses(k, c)'
        PROVE  /\ customers'[k].status # "free" /\ codes'[c].status # "free"
               /\ Cardinality(ActiveDevices(k)') <= codes'[c].deviceLimit
    <2>1. /\ customers[k].status # "free" /\ codes[c].status # "free"
          /\ Cardinality(ActiveDevices(k)) <= codes[c].deviceLimit
      BY <1>2, <1>5 DEF SeatInv, UsersFit
    <2>2. \A d \in DeviceIds :
             devices'[d].status = "ACTIVE" /\ devices'[d].customer = k =>
                devices[d].status = "ACTIVE" /\ devices[d].customer = k
      BY DEF Exists
    <2>3. QED
      BY <1>1, <2>1, <2>2, FewerDevices
  <1>6. UsersFit'
    BY <1>5 DEF UsersFit
  <1>7. QED
    BY <1>3, <1>4, <1>6 DEF SeatInv

\* The same when the step is not a handler's.
LEMMA NoNewUseByWrite ==
    ASSUME TypeInv, SeatInv, NoUnblock', UNCHANGED <<req, codeLock>>,
           \A c \in Codes : /\ codes'[c].deviceLimit = codes[c].deviceLimit
                            /\ codes'[c].status = "free" <=> codes[c].status = "free"
                            /\ codes'[c].customer \in {codes[c].customer, NULL},
           \A k \in CustomerIds : customers[k].status # "free" => customers'[k].status # "free",
           \A d \in DeviceIds : Exists(devices'[d]) =>
              /\ Exists(devices[d])
              /\ devices'[d].customer = devices[d].customer
              /\ devices'[d].code = devices[d].code
              /\ devices'[d].status = "ACTIVE" => devices[d].status = "ACTIVE"
    PROVE  SeatInv'
  <1>1. HandlersCopied
    BY DEF HandlersCopied
  <1>2. ASSUME NEW q \in Requests PROVE HandlerFits(q)'
    <2>1. HandlerFits(q) /\ req'[q] = req[q]
      BY DEF SeatInv
    <2>2. req[q].pc # "idle" => req[q].code \in Codes
      BY DEF TypeInv, RequestsKnow
    <2>3. \A d \in DeviceIds :
             devices'[d].status = "ACTIVE" /\ devices'[d].customer = req[q].customer =>
                devices[d].status = "ACTIVE" /\ devices[d].customer = req[q].customer
      BY DEF Exists
    <2>4. QED
      BY <2>1, <2>2, <2>3, HandlerKept
  <1>3. QED
    BY <1>1, <1>2, NoNewUse

\* A new code has no users but the customer it is issued to, who has no devices.
LEMMA NewCodeFits ==
    ASSUME OneCodeEach, TypeInv, AnchorInv, SeatInv, NoUnblock', UNCHANGED <<req, codeLock>>,
           NEW c \in Codes, NEW p \in Plans, NEW n \in Limits, NEW e \in CodeExpiries,
           NEW k \in Owners[c], CreateCode(c, p, k, n, e)
    PROVE  SeatInv'
  <1> USE StoreAssumption, AdminAssumption
  <1> DEFINE row == [NoCode EXCEPT !.status = "PENDING", !.plan = p, !.customer = k,
                                   !.deviceLimit = n, !.expiresAt = e]
  <1>1. /\ row.status = "PENDING" /\ row.customer = k /\ row.deviceLimit = n
        /\ n \in Nat /\ n # 0
    BY DEF NoCode
  <1>2. /\ codes[c].status = "free" /\ codes' = [codes EXCEPT ![c] = row]
        /\ k # NULL => Exists(customers[k])
        /\ UNCHANGED <<customers, devices>>
    BY DEF CreateCode, OnlyCodes
  <1> HIDE DEF row
  <1>3. \A i \in Codes : codes'[i] = IF i = c THEN row ELSE codes[i]
    BY <1>2 DEF TypeInv, TypeOK, StoreTypeOK
  <1>4. \A i \in CustomerIds : ~Uses(i, c)
    BY <1>2 DEF SeatInv, UsersFit
  <1>5. \A i \in CustomerIds, b \in Codes : Uses(i, b)' => Uses(i, b) \/ (i = k /\ b = c)
    BY <1>1, <1>2, <1>3 DEF Uses
  <1>6. ASSUME k # NULL PROVE /\ \A a, b \in Codes : a = b
                              /\ \A d \in DeviceIds : ~Exists(devices[d])
    <2>1. \A a, b \in Codes : a = b
      BY <1>6 DEF OneCodeEach
    <2>2. ASSUME NEW d \in DeviceIds, Exists(devices[d]) PROVE FALSE
      <3>1. devices[d].customer \in CustomerIds /\ devices[d].code \in Codes
        BY <2>2 DEF AnchorInv, DevicesAnchored, SeatInv
      <3>2. devices[d].code = c
        BY <2>1, <3>1
      <3>3. Uses(devices[d].customer, c)
        BY <2>2, <3>2 DEF Uses
      <3>4. QED
        BY <1>4, <3>1, <3>3
    <2>3. QED
      BY <2>1, <2>2
  <1>7. CodesHaveSeats'
    BY <1>1, <1>3 DEF SeatInv, CodesHaveSeats
  <1>8. UsesOne'
    BY <1>5, <1>6 DEF SeatInv, UsesOne
  <1>9. ASSUME NEW i \in CustomerIds, NEW b \in Codes, Uses(i, b)'
        PROVE  /\ customers'[i].status # "free" /\ codes'[b].status # "free"
               /\ Cardinality(ActiveDevices(i)') <= codes'[b].deviceLimit
    <2>1. ActiveDevices(i)' = ActiveDevices(i)
      BY <1>2 DEF ActiveDevices
    <2>2. CASE Uses(i, b)
      BY <1>2, <1>3, <1>4, <2>1, <2>2 DEF SeatInv, UsersFit
    <2>3. CASE i = k /\ b = c
      <3>1. ActiveDevices(i) = {}
        BY <1>6, <2>3 DEF ActiveDevices, Exists
      <3>2. Cardinality(ActiveDevices(i)') <= n
        BY <1>1, <2>1, <3>1, FS_EmptySet
      <3>3. QED
        BY <1>1, <1>2, <1>3, <2>3, <3>2 DEF Exists
    <2>4. QED
      BY <1>5, <1>9, <2>2, <2>3
  <1>10. UsersFit'
    BY <1>9 DEF UsersFit
  <1>11. ASSUME NEW q \in Requests PROVE HandlerFits(q)'
    <2>1. HandlerFits(q) /\ req'[q] = req[q]
      BY DEF SeatInv
    <2>2. req[q].pc # "idle" => req[q].code \in Codes \ {c}
      BY <1>2 DEF TypeInv, RequestsKnow, CopiesHold
    <2>3. QED
      BY <1>2, <1>3, <2>1, <2>2, HandlerKept
  <1>12. QED
    BY <1>2, <1>7, <1>8, <1>10, <1>11 DEF SeatInv

\* The commit seats its device under the lock of the code, the only one its customer has
\* to do with.
LEMMA CommitSeats ==
    ASSUME TypeInv, AnchorInv, SeatInv, NoUnblock', NEW r \in Requests, Commits(r)
    PROVE  SeatInv'
  <1> USE StoreAssumption
  <1> DEFINE c == req[r].code
             k == HolderOf(r)
             d == PhoneOf(r)
  <1>1. /\ req \in [Requests -> RequestState] /\ req[r].pc = "decided"
        /\ c \in Codes /\ codes[c].status # "free"
        /\ codes \in [Codes -> CodeRow] /\ \A i \in Codes : codes[i].deviceLimit \in Nat
        /\ customers \in [CustomerIds -> CustomerRow]
        /\ devices \in [DeviceIds -> DeviceRow]
        /\ codeLock \in [Codes -> Requests \cup {NULL}]
    BY DEF Commits, TypeInv, TypeOK, ReqTypeOK, StoreTypeOK, RequestsKnow, CopiesHold, CodeRow
  <1>2. /\ k \in CustomerIds
        /\ IF req[r].customer = NULL THEN customers[k].status = "free"
           ELSE k = req[r].customer /\ Exists(customers[k])
        /\ \E customer \in CustomerRow, code \in CodeRow :
              /\ customer.status = "ACTIVE"
              /\ customers' = IF req[r].customer = NULL \/ req[r].first
                              THEN [customers EXCEPT ![k] = customer] ELSE customers
              /\ code.status = "ACTIVE" /\ code.customer = k
              /\ code.deviceLimit = codes[c].deviceLimit
              /\ codes' = IF req[r].first THEN [codes EXCEPT ![c] = code] ELSE codes
    BY CommitUpdates
  <1>3. /\ d \in DeviceIds
        /\ \E device \in DeviceRow :
              /\ device.status = "ACTIVE" /\ device.customer = k /\ device.code = c
              /\ devices' = IF req[r].device = NULL
                            THEN [devices EXCEPT ![d] = device] ELSE devices
    BY CommitInserts
  <1>4. /\ req' = [req EXCEPT ![r] = Idle] /\ Idle.pc = "idle"
        /\ \A i \in Codes : codeLock[i] # r => codeLock'[i] = codeLock[i]
    BY <1>1 DEF Commits, WriteAll, Finish, Unlocked, Idle
  <1> HIDE DEF c, k, d, Idle
  <1>5. \A q \in Requests : req'[q] = IF q = r THEN Idle ELSE req[q]
    BY <1>1, <1>4
  <1>6. \A i \in Codes :
           /\ codes'[i].deviceLimit = codes[i].deviceLimit
           /\ codes'[i].status = "free" <=> codes[i].status = "free"
           /\ codes'[i].customer = codes[i].customer \/ (i = c /\ codes'[i].customer = k)
    BY <1>1, <1>2
  <1>7. /\ Exists(customers'[k])
        /\ \A i \in CustomerIds : customers[i].status # "free" => customers'[i].status # "free"
    BY <1>1, <1>2 DEF Exists
  <1>8. \A i \in DeviceIds :
           \/ devices'[i] = devices[i]
           \/ /\ i = d /\ req[r].device = NULL
              /\ devices'[i].customer = k /\ devices'[i].code = c
    BY <1>1, <1>3
  <1>9. \A i \in CustomerIds, b \in Codes : Uses(i, b)' => Uses(i, b) \/ (i = k /\ b = c)
    BY <1>4, <1>5, <1>6, <1>8 DEF Uses
  <1>10. IF req[r].customer = NULL THEN \A b \in Codes : ~Uses(k, b) ELSE Uses(k, c)
    BY <1>1, <1>2 DEF Uses, SeatInv, UsersFit, c
  <1>11. CodesHaveSeats'
    BY <1>6 DEF SeatInv, CodesHaveSeats
  <1>12. UsesOne'
    BY <1>1, <1>2, <1>9, <1>10 DEF SeatInv, UsesOne
  <1>13. HandlerFits(r) /\ req[r].limit = codes[c].deviceLimit
    BY <1>1 DEF SeatInv, HandlerFits, c
  <1> DEFINE S == {i \in DeviceIds : devices'[i].status = "ACTIVE" /\ devices'[i].customer = k}
  <1>14. Cardinality(S) <= codes[c].deviceLimit
    <2>1. CASE req[r].device # NULL
      <3>1. devices' = devices /\ req[r].customer # NULL
        BY <1>3, <2>1 DEF Commits, AnchorInv, ChoiceHolds
      <3>2. S = ActiveDevices(k)
        BY <3>1 DEF ActiveDevices
      <3>3. QED
        BY <1>1, <1>2, <1>10, <3>1, <3>2 DEF SeatInv, UsersFit
    <2>2. CASE req[r].device = NULL
      <3>1. S \subseteq ActiveDevices(k) \cup {d}
        BY <1>8 DEF ActiveDevices
      <3>2. Cardinality(ActiveDevices(k)) < codes[c].deviceLimit
        <4>1. CASE req[r].customer = NULL
          <5>1. ActiveDevices(k) = {}
            BY <1>2, <4>1, ActiveDevicesFinite DEF ActiveDevices, Exists
          <5>2. codes[c].deviceLimit # 0
            BY <1>1 DEF SeatInv, CodesHaveSeats
          <5>3. QED
            BY <1>1, <5>1, <5>2, FS_EmptySet
        <4>2. CASE req[r].customer # NULL
          BY <1>1, <1>2, <1>13, <2>2, <4>2 DEF HandlerFits, SeatFree
        <4>3. QED
          BY <4>1, <4>2
      <3>3. /\ IsFiniteSet(ActiveDevices(k) \cup {d})
            /\ Cardinality(ActiveDevices(k) \cup {d}) <= codes[c].deviceLimit
        BY <1>1, <3>2, ActiveDevicesFinite, OneMore, FS_AddElement
      <3>4. /\ Cardinality(S) <= Cardinality(ActiveDevices(k) \cup {d})
            /\ Cardinality(S) \in Nat /\ Cardinality(ActiveDevices(k) \cup {d}) \in Nat
        BY <3>1, <3>3, FS_Subset, FS_CardinalityType
      <3>5. QED
        BY <1>1, <3>3, <3>4
    <2>3. QED
      BY <2>1, <2>2
  <1>15. ASSUME NEW i \in CustomerIds, NEW b \in Codes, Uses(i, b)'
         PROVE  /\ customers'[i].status # "free" /\ codes'[b].status # "free"
                /\ Cardinality(ActiveDevices(i)') <= codes'[b].deviceLimit
    <2>1. CASE i = k
      <3>1. b = c
        BY <1>1, <1>2, <1>9, <1>10, <1>15, <2>1 DEF SeatInv, UsesOne
      <3>2. ActiveDevices(i)' = S
        BY <2>1 DEF ActiveDevices
      <3>3. customers'[i].status # "free"
        BY <1>7, <2>1 DEF Exists
      <3> HIDE DEF S
      <3>4. QED
        BY <1>1, <1>6, <1>14, <3>1, <3>2, <3>3
    <2>2. CASE i # k
      <3>1. Uses(i, b)
        BY <1>9, <1>15, <2>2
      <3>2. \A e \in DeviceIds :
               devices'[e].status = "ACTIVE" /\ devices'[e].customer = i =>
                  devices[e].status = "ACTIVE" /\ devices[e].customer = i
        BY <1>8, <2>2
      <3>3. /\ customers[i].status # "free" /\ codes[b].status # "free"
            /\ Cardinality(ActiveDevices(i)) <= codes[b].deviceLimit
        BY <3>1 DEF SeatInv, UsersFit
      <3>4. QED
        BY <1>1, <1>6, <1>7, <3>2, <3>3, FewerDevices
    <2>3. QED
      BY <2>1, <2>2
  <1>16. UsersFit'
    BY <1>15 DEF UsersFit
  <1>17. ASSUME NEW q \in Requests, q # r PROVE HandlerFits(q)'
    <2>1. HandlerFits(q) /\ req'[q] = req[q] /\ q # NULL
      BY <1>5, <1>17 DEF SeatInv
    <2>2. req[q].pc # "idle" => req[q].code \in Codes
      BY DEF TypeInv, RequestsKnow
    <2>3. /\ req[q].pc \in {"locked", "decided"}
          /\ codeLock[req[q].code] = q
          => codeLock'[req[q].code] = q
      BY <1>4, <1>17, <2>2
    <2>4. req[q].pc = "decided" => req[q].customer # k
      <3>1. SUFFICES ASSUME req[q].pc = "decided", req[q].customer = k PROVE FALSE
        OBVIOUS
      <3>2. Uses(k, req[q].code)
        BY <3>1 DEF Uses
      <3>3. req[q].code = c
        BY <1>1, <1>2, <1>10, <2>2, <3>1, <3>2 DEF SeatInv, UsesOne
      <3>4. codeLock[c] = q /\ codeLock[c] = r
        BY <1>1, <1>13, <2>1, <3>1, <3>3 DEF HandlerFits, c
      <3>5. QED
        BY <1>17, <3>4
    <2>5. req[q].pc = "decided" =>
             \A e \in DeviceIds :
                devices'[e].status = "ACTIVE" /\ devices'[e].customer = req[q].customer =>
                   devices[e].status = "ACTIVE" /\ devices[e].customer = req[q].customer
      BY <1>8, <2>4
    <2>6. QED
      BY <1>6, <2>1, <2>2, <2>3, <2>5, HandlerKept
  <1>18. HandlerFits(r)'
    BY <1>4, <1>5 DEF HandlerFits
  <1>19. \A e \in DeviceIds : Exists(devices'[e]) => devices'[e].code \in Codes
    BY <1>1, <1>8 DEF SeatInv
  <1> HIDE DEF S
  <1>20. QED
    BY <1>11, <1>12, <1>16, <1>17, <1>18, <1>19 DEF SeatInv

\* The writes of the services give nobody a new use of a code, but for its creation.
LEMMA WritesKeepSeats ==
    ASSUME LimitsStand, OneCodeEach, TypeInv, AnchorInv, SeatInv, NoUnblock',
           UNCHANGED <<req, codeLock>>,
           \/ Quiet \/ PlanWrite \/ CodeWrite \/ CustomerWrite \/ DeviceWrite \/ SessionWrite
           \/ \E k \in CustomerIds : RemoveCustomer(k)
           \/ \E d \in DeviceIds : RemoveDevice(d)
    PROVE  SeatInv'
  <1> USE StoreAssumption
  <1>1. /\ codes \in [Codes -> CodeRow] /\ \A c \in Codes : codes[c] \in CodeRow
        /\ customers \in [CustomerIds -> CustomerRow]
        /\ devices \in [DeviceIds -> DeviceRow] /\ \A d \in DeviceIds : devices[d] \in DeviceRow
    BY DEF TypeInv, TypeOK, StoreTypeOK
  <1>2. CASE UNCHANGED <<codes, customers, devices>>
    BY <1>2, NoNewUseByWrite
  <1>3. CASE Quiet \/ PlanWrite \/ SessionWrite
    <2>1. UNCHANGED <<codes, customers, devices>>
      BY <1>3 DEF Quiet, TablesKept, PlanWrite, CreatePlan, UpdatePlan, RemovePlan, OnlyPlans,
                  SessionWrite, RevokeSession, Logout
    <2>2. QED
      BY <1>2, <2>1
  <1>4. CASE CodeWrite
    <2>1. \A c \in Codes, n \in Limits : ~UpdateLimit(c, n)
      BY DEF UpdateLimit, LimitsStand
    <2>2. ASSUME NEW w \in Workers, WriteCodeStatus(w) PROVE SeatInv'
      <3> DEFINE c == adm[w].code
                 row == [codes[c] EXCEPT !.status = adm[w].status]
      <3>1. /\ c \in Codes /\ adm[w].status # "free" /\ codes[c].status # "free"
        BY <2>2 DEF TypeInv, WorkersKnow, CodeStatuses, CopiesHold, WriteCodeStatus
      <3>2. /\ row.status = adm[w].status /\ row.customer = codes[c].customer
            /\ row.deviceLimit = codes[c].deviceLimit
        BY <1>1, <3>1 DEF CodeRow
      <3>3. codes' = [codes EXCEPT ![c] = row] /\ UNCHANGED <<customers, devices>>
        BY <2>2 DEF WriteCodeStatus, OnlyCodes
      <3> HIDE DEF row, c
      <3>4. \A i \in Codes : /\ codes'[i].deviceLimit = codes[i].deviceLimit
                             /\ codes'[i].status = "free" <=> codes[i].status = "free"
                             /\ codes'[i].customer = codes[i].customer
        BY <1>1, <3>1, <3>2, <3>3
      <3>5. QED
        BY <3>3, <3>4, NoNewUseByWrite
    <2>3. QED
      BY <1>4, <2>1, <2>2, NewCodeFits DEF CodeWrite
  <1>5. CASE CustomerWrite
    <2>1. UNCHANGED <<codes, devices>>
      BY <1>5 DEF CustomerWrite, CreateCustomer, SuspendCustomer, ReactivateCustomer,
                  UpdateCustomer, WriteSuspension, WriteRenewal, ExpireOverdue, OnlyCustomers
    <2>2. \A k \in CustomerIds : customers[k].status # "free" => customers'[k].status # "free"
      BY <1>5, CustomersStay DEF CustomerStays
    <2>3. QED
      BY <2>1, <2>2, NoNewUseByWrite
  <1>6. CASE DeviceWrite
    <2>1. UNCHANGED <<codes, customers>>
      BY <1>6 DEF DeviceWrite, RevokeDevice, BlockDevice, SetDeviceStatus, WriteUnblock,
                  OnlyDevices
    <2>2. PICK d \in DeviceIds, status \in {"BLOCKED", "REVOKED"} : SetDeviceStatus(d, status)
      BY <1>6 DEF DeviceWrite, RevokeDevice, BlockDevice, WriteUnblock, SeatInv, NoUnblock
    <2> DEFINE row == [devices[d] EXCEPT !.status = status]
    <2>3. /\ row.status = status /\ row.customer = devices[d].customer
          /\ row.code = devices[d].code
      BY <1>1 DEF DeviceRow
    <2>4. devices' = [devices EXCEPT ![d] = row] /\ Exists(devices[d])
      BY <2>2 DEF SetDeviceStatus
    <2> HIDE DEF row
    <2>5. \A e \in DeviceIds : devices'[e] = IF e = d THEN row ELSE devices[e]
      BY <1>1, <2>4
    <2>6. QED
      BY <2>1, <2>3, <2>4, <2>5, NoNewUseByWrite
  <1>7. ASSUME NEW ds, DropDevices(ds), customers' = customers \/ \E k \in CustomerIds :
                  customers' = [customers EXCEPT ![k] = [NoCustomer EXCEPT !.status = "gone"]],
               \A c \in Codes : /\ codes'[c].deviceLimit = codes[c].deviceLimit
                                /\ codes'[c].status = "free" <=> codes[c].status = "free"
                                /\ codes'[c].customer \in {codes[c].customer, NULL}
        PROVE  SeatInv'
    <2> DEFINE device == [NoDevice EXCEPT !.status = "gone"]
               customer == [NoCustomer EXCEPT !.status = "gone"]
    <2>1. device.status = "gone" /\ customer.status = "gone"
      BY DEF NoDevice, NoCustomer
    <2>2. \A e \in DeviceIds : devices'[e] = device \/ devices'[e] = devices[e]
      BY <1>7 DEF DropDevices
    <2>3. \A i \in CustomerIds : customers'[i] = customer \/ customers'[i] = customers[i]
      BY <1>1, <1>7
    <2> HIDE DEF device, customer
    <2>4. QED
      BY <1>7, <2>1, <2>2, <2>3, NoNewUseByWrite DEF Exists
  <1>8. ASSUME NEW d \in DeviceIds, RemoveDevice(d) PROVE SeatInv'
    BY <1>7, <1>8 DEF RemoveDevice, DeleteDevice
  <1>9. ASSUME NEW k \in CustomerIds, RemoveCustomer(k) PROVE SeatInv'
    <2> DEFINE unlinked(c) == [codes[c] EXCEPT !.customer = NULL]
    <2>1. \A c \in Codes : /\ unlinked(c).status = codes[c].status
                           /\ unlinked(c).deviceLimit = codes[c].deviceLimit
                           /\ unlinked(c).customer = NULL
      BY <1>1 DEF CodeRow
    <2>2. \A c \in Codes : codes'[c] = IF codes[c].customer = k THEN unlinked(c) ELSE codes[c]
      BY <1>9 DEF RemoveCustomer, DeleteCustomer
    <2> HIDE DEF unlinked
    <2>3. \A c \in Codes : /\ codes'[c].deviceLimit = codes[c].deviceLimit
                           /\ codes'[c].status = "free" <=> codes[c].status = "free"
                           /\ codes'[c].customer \in {codes[c].customer, NULL}
      BY <2>1, <2>2
    <2>4. QED
      BY <1>7, <1>9, <2>3 DEF RemoveCustomer, DeleteCustomer
  <1>10. QED
    BY <1>3, <1>4, <1>5, <1>6, <1>8, <1>9

\* Every step keeps the seats.
LEMMA SeatsStay ==
    ASSUME LimitsStand, OneCodeEach, TypeInv, AnchorInv, SeatInv, [Next]_vars
    PROVE  SeatInv'
  <1>1. NoUnblock' /\ \A q \in Requests : HandlerFits(q)
    BY NobodyUnblocks DEF SeatInv
  <1>2. CASE \E r \in Requests : Commits(r)
    BY <1>1, <1>2, CommitSeats
  <1>3. CASE Quiet /\ (\A q \in Requests : HandlerFits(q)') /\ HandlersCopied
    <2>1. UNCHANGED <<codes, customers, devices>>
      BY <1>3 DEF Quiet, TablesKept
    <2>2. QED
      BY <1>1, <1>3, <2>1, NoNewUse
  <1>4. CASE UNCHANGED <<req, codeLock>> /\ \A r \in Requests : ~Commits(r)
    BY <1>1, <1>4, StepKinds, WritesKeepSeats
  <1>5. QED
    BY <1>1, <1>2, <1>3, <1>4, HandlersGoOn

\* Nobody has a code at the start.
LEMMA SeatsInit == Init => SeatInv
  <1>1. ASSUME Init PROVE SeatInv
    <2>1. /\ \A c \in Codes : codes[c] = NoCode
          /\ \A d \in DeviceIds : devices[d] = NoDevice
          /\ \A r \in Requests : req[r] = Idle
          /\ \A w \in Workers : adm[w] = NoPending
      BY <1>1 DEF Init, StoreInit, ReqInit, AdmInit
    <2>2. /\ NoCode.status = "free" /\ NoCode.deviceLimit = 0 /\ NoCode.customer = NULL
          /\ ~Exists(NoDevice) /\ Idle.pc = "idle" /\ NoPending.op = "none"
      BY DEF NoCode, NoDevice, Idle, NoPending, Exists
    <2>3. \A k \in CustomerIds, c \in Codes : ~Uses(k, c)
      BY <2>1, <2>2, StoreAssumption DEF Uses
    <2>4. QED
      BY <2>1, <2>2, <2>3
      DEF SeatInv, CodesHaveSeats, UsesOne, UsersFit, HandlerFits, NoUnblock
  <1>2. QED
    BY <1>1

\* A customer linked to a code never has more active devices than the code allows,
\* however activations, deletions and restarts interleave, as long as limits are left
\* alone, no blocked device is let in again and nobody has two codes (performActivation
\* with its advisory lock; the limit counts only ACTIVE devices).
THEOREM CustomersFitTheirLimit ==
    ASSUME LimitsStand, OneCodeEach PROVE Spec => []CustomerFitsLimit
  <1>1. SeatInv /\ TypeInv => CustomerFitsLimit
    <2>1. TypeInv => \A c \in Codes : codes[c].customer \in CustomerIds \cup {NULL}
      BY DEF TypeInv, TypeOK, StoreTypeOK, CodeRow
    <2>2. QED
      BY <2>1 DEF SeatInv, UsersFit, Uses, CustomerFitsLimit
  <1>2. TypeInv /\ AnchorInv /\ SeatInv /\ [Next]_vars => SeatInv'
    BY SeatsStay
  <1>3. QED
    BY <1>1, <1>2, InitTyped, NextTyped, AnchorInit, StaysAnchored, SeatsInit, PTL DEF Spec
=============================================================================
