--------------------------- MODULE LicensingOverlap ---------------------------
(***************************************************************************)
(* What a step of the licence system may do however operations overlap and *)
(* whenever the server restarts, proved for every value of the constants.  *)
(* A handler or a two-step method of an administrator acts on what it has  *)
(* read: the invariant says what it read, and a step that was not          *)
(* overtaken finds the rows as they were read.                             *)
(***************************************************************************)
EXTENDS LicensingSafety, SeatRefinement

-----------------------------------------------------------------------------
(* The inductive invariant: what was read. *)

\* What an activation has read of a usable code and of an active customer, and what
\* it has made of it.
RequestRead(r) ==
    LET k == req[r].customer IN
    /\ req[r].pc # "idle" => req[r].status \in {"PENDING", "ACTIVE"}
    /\ req[r].pc \in {"locked", "decided"} =>
          /\ req[r].at <= now
          /\ k # NULL => req[r].payer = "ACTIVE"
    /\ req[r].pc = "decided" =>
          /\ k = NULL \/ req[r].first => req[r].until = Term(r)
          /\ k # NULL /\ req[r].device = NULL => req[r].taken < req[r].limit

\* The write a method is about to send made sense for the row it read.
WorkerRead(w) ==
    /\ adm[w].op = "code" =>
          /\ adm[w].was # "REVOKED"
          /\ adm[w].status = "PENDING" => ~adm[w].used
          /\ adm[w].status \in {"ACTIVE", "EXPIRED"} => adm[w].used
    /\ adm[w].op \in {"cutAccess", "suspend"} => adm[w].was = "REVOKED" /\ adm[w].code \in Codes
    /\ adm[w].op = "renew" =>
          /\ adm[w].until \in Nat
          /\ adm[w].paid # NULL => adm[w].paid <= adm[w].until

ReadInv == (\A r \in Requests : RequestRead(r)) /\ (\A w \in Workers : WorkerRead(w))

\* When handler r moves to state x and no day goes by, the others hold what they held.
LEMMA OneHandlerReads ==
    ASSUME TypeInv, \A q \in Requests : RequestRead(q), NEW r \in Requests, NEW x,
           req' = [req EXCEPT ![r] = x], now' = now, x.pc # "idle" => RequestRead(r)'
    PROVE  \A q \in Requests : RequestRead(q)'
  <1>1. req \in [Requests -> RequestState]
    BY DEF TypeInv, TypeOK, ReqTypeOK
  <1>2. \A q \in Requests : req'[q] = IF q = r THEN x ELSE req[q]
    BY <1>1
  <1>3. CASE x.pc = "idle"
    BY <1>2, <1>3 DEF RequestRead, Term
  <1>4. CASE x.pc # "idle"
    BY <1>2, <1>4 DEF RequestRead, Term
  <1>5. QED
    BY <1>3, <1>4

\* A handler that ends holds nothing.
LEMMA EndReads ==
    ASSUME TypeInv, \A q \in Requests : RequestRead(q), NEW r \in Requests, Finish(r), now' = now
    PROVE  \A q \in Requests : RequestRead(q)'
  BY OneHandlerReads DEF Finish, Idle

\* The code, the plan and the customer are read.
LEMMA ReadersRead ==
    ASSUME TypeInv, \A q \in Requests : RequestRead(q), NEW r \in Requests,
           \/ \E a \in Apps, c \in Codes : Resolve(r, a, c)
           \/ ReadPlan(r) \/ TxCustomer(r)
    PROVE  \A q \in Requests : RequestRead(q)'
  <1> USE StoreAssumption
  <1>1. /\ req \in [Requests -> RequestState] /\ req[r] \in RequestState /\ RequestRead(r)
        /\ \A c \in Codes : codes[c] \in CodeRow
        /\ now \in Nat /\ RequestsKnow
        /\ customers \in [CustomerIds -> CustomerRow]
    BY DEF TypeInv, TypeOK, ReqTypeOK, StoreTypeOK
  <1>2. ASSUME NEW a \in Apps, NEW c \in Codes, Resolve(r, a, c)
        PROVE  \A q \in Requests : RequestRead(q)'
    <2> DEFINE x == [Idle EXCEPT !.pc = "resolved", !.app = a, !.code = c,
                                 !.customer = codes[c].customer,
                                 !.status = codes[c].status,
                                 !.limit = codes[c].deviceLimit,
                                 !.first = ~codes[c].activated,
                                 !.plan = codes[c].plan]
    <2>1. x.pc = "resolved" /\ x.status = codes[c].status
      BY NullRecords DEF RequestState
    <2>2. /\ req' = [req EXCEPT ![r] = x] /\ now' = now
          /\ codes[c].status \in {"PENDING", "ACTIVE"}
      BY <1>2 DEF Resolve, isCodeEffectivelyUsable, store
    <2> HIDE DEF x
    <2>3. RequestRead(r)'
      BY <1>1, <2>1, <2>2 DEF RequestRead
    <2>4. QED
      BY <2>2, <2>3, OneHandlerReads
  <1>3. CASE ReadPlan(r) /\ ~Fail(r)
    <2> DEFINE x == [req[r] EXCEPT !.pc = "planned", !.days = plans[req[r].plan].days]
    <2>1. x.pc = "planned" /\ x.status = req[r].status
      BY <1>1 DEF RequestState
    <2>2. req' = [req EXCEPT ![r] = x] /\ now' = now /\ req[r].pc = "resolved"
      BY <1>3 DEF ReadPlan, store
    <2> HIDE DEF x
    <2>3. RequestRead(r)'
      BY <1>1, <2>1, <2>2 DEF RequestRead
    <2>4. QED
      BY <2>2, <2>3, OneHandlerReads
  <1>4. CASE TxCustomer(r) /\ ~Fail(r)
    <2> DEFINE k == FoundCustomer(r)
               u == IF k = NULL THEN NULL ELSE customers[k].expiresAt
               t == IF k = NULL THEN NULL ELSE customers[k].status
               x == [req[r] EXCEPT !.pc = "locked", !.customer = k, !.at = now, !.payer = t,
                                   !.until = u]
    <2>1. k # NULL => t = "ACTIVE"
      BY <1>4 DEF TxCustomer, isEffectivelyActive
    <2>2. req' = [req EXCEPT ![r] = x] /\ now' = now /\ req[r].pc = "planned"
      BY <1>4 DEF TxCustomer
    <2> HIDE DEF k, u, t
    <2>3. /\ x.pc = "locked" /\ x.status = req[r].status /\ x.customer = k /\ x.at = now
          /\ x.payer = t
      BY <1>1 DEF RequestState
    <2> HIDE DEF x
    <2>4. req'[r] = x
      BY <1>1, <2>2
    <2>5. RequestRead(r)'
      BY <1>1, <2>1, <2>2, <2>3, <2>4 DEF RequestRead
    <2>6. QED
      BY <2>2, <2>5, OneHandlerReads
  <1>5. QED
    BY <1>2, <1>3, <1>4, EndReads DEF ReadPlan, TxCustomer, Fail

\* The device is settled: the term is counted, and so are the seats for a new device.
LEMMA DecidersRead ==
    ASSUME TypeInv, \A q \in Requests : RequestRead(q), NEW r \in Requests, TxDevice(r)
    PROVE  \A q \in Requests : RequestRead(q)'
  <1>1. /\ req \in [Requests -> RequestState] /\ req[r] \in RequestState
        /\ req[r].pc = "locked" /\ RequestRead(r)
    BY DEF TypeInv, TypeOK, ReqTypeOK, TxDevice
  <1>2. ASSUME NEW d \in DeviceIds \cup {NULL}, Decide(r, d), d = NULL => SeatFree(r)
        PROVE  \A q \in Requests : RequestRead(q)'
    <2> DEFINE u == PaidUntil(r)
               n == IF d # NULL THEN 0 ELSE Cardinality(ActiveDevices(req[r].customer))
               x == [req[r] EXCEPT !.pc = "decided", !.device = d, !.until = u, !.taken = n]
    <2>1. /\ req[r].customer = NULL \/ req[r].first => u = Term(r)
          /\ req[r].customer # NULL /\ d = NULL => n < req[r].limit
      BY <1>2 DEF PaidUntil, SeatFree
    <2>2. req' = [req EXCEPT ![r] = x] /\ now' = now
      BY <1>2 DEF Decide
    <2> HIDE DEF u, n
    <2>3. /\ x.pc = "decided" /\ x.status = req[r].status /\ x.at = req[r].at
          /\ x.customer = req[r].customer /\ x.limit = req[r].limit /\ x.device = d
          /\ x.payer = req[r].payer /\ x.days = req[r].days /\ x.until = u /\ x.taken = n
      BY <1>1 DEF RequestState
    <2>4. x.first <=> req[r].first
      BY <1>1 DEF RequestState
    <2> HIDE DEF x
    <2>5. req'[r] = x
      BY <1>1, <2>2
    <2>6. RequestRead(r)'
      BY <1>1, <2>1, <2>2, <2>3, <2>4, <2>5 DEF RequestRead, Term
    <2>7. QED
      BY <2>2, <2>6, OneHandlerReads
  <1>3. \/ Fail(r)
        \/ \E d \in DeviceIds : Decide(r, d)
        \/ SeatFree(r) /\ Decide(r, NULL)
    BY DEF TxDevice, DevicesOf
  <1>4. QED
    BY <1>2, <1>3, EndReads, StoreAssumption DEF Fail

\* Every step of an activation leaves handlers with what they read.
LEMMA RequestsRead ==
    ASSUME TypeInv, \A q \in Requests : RequestRead(q), RequestStep
    PROVE  \A q \in Requests : RequestRead(q)'
  <1>1. ASSUME NEW s \in SessionIds, Logout(s) PROVE UNCHANGED <<req, now>>
    BY <1>1 DEF Logout
  <1>2. ASSUME NEW r \in Requests, HoldRows(r) \/ Commit(r) \/ DeadlockVictim(r) \/ Abort(r)
        PROVE  UNCHANGED <<req, now>> \/ (Finish(r) /\ now' = now)
    BY <1>2 DEF HoldRows, Commit, DeadlockVictim, Abort, Fail, WriteAll, store
  <1>3. UNCHANGED <<req, now>> => \A q \in Requests : RequestRead(q)'
    BY DEF RequestRead, Term
  <1>4. QED
    BY <1>1, <1>2, <1>3, EndReads, ReadersRead, DecidersRead DEF RequestStep, RequestGoesOn

\* When worker w moves to state x the others hold what they held.
LEMMA OneWorkerReads ==
    ASSUME TypeInv, \A v \in Workers : WorkerRead(v), NEW w \in Workers, NEW x,
           adm' = [adm EXCEPT ![w] = x], x.op # "none" => WorkerRead(w)'
    PROVE  \A v \in Workers : WorkerRead(v)'
  <1>1. adm \in [Workers -> Pending]
    BY DEF TypeInv, TypeOK, AdmTypeOK
  <1>2. \A v \in Workers : adm'[v] = IF v = w THEN x ELSE adm[v]
    BY <1>1
  <1>3. CASE x.op = "none"
    BY <1>2, <1>3 DEF WorkerRead
  <1>4. CASE x.op # "none"
    BY <1>2, <1>4 DEF WorkerRead
  <1>5. QED
    BY <1>3, <1>4

\* A two-step method begins with what it reads.
LEMMA WorkersBegin ==
    ASSUME TypeInv, \A v \in Workers : WorkerRead(v), NEW w \in Workers, WorkerStarts(w)
    PROVE  \A v \in Workers : WorkerRead(v)'
  <1> USE StoreAssumption
  <1>1. /\ adm \in [Workers -> Pending] /\ NoPending \in Pending
        /\ \A c \in Codes : codes[c] \in CodeRow
        /\ customers \in [CustomerIds -> CustomerRow] /\ plans \in [Plans -> PlanRow]
        /\ now \in Nat
    BY NullRecords DEF TypeInv, TypeOK, AdmTypeOK, StoreTypeOK
  <1>2. ASSUME NEW c \in Codes, NEW status \in CodeStatuses, PendCode(w, c, status),
               codes[c].status # "REVOKED",
               status = "PENDING" => ~codes[c].activated,
               status \in {"ACTIVE", "EXPIRED"} => codes[c].activated
        PROVE  \A v \in Workers : WorkerRead(v)'
    <2> DEFINE x == [NoPending EXCEPT !.op = "code", !.code = c, !.status = status,
                                      !.customer = codes[c].customer,
                                      !.was = codes[c].status, !.used = codes[c].activated]
    <2>1. x.op = "code" /\ x.status = status /\ x.was = codes[c].status
      BY <1>1 DEF Pending
    <2>2. x.used <=> codes[c].activated
      BY <1>1 DEF Pending
    <2>3. adm' = [adm EXCEPT ![w] = x]
      BY <1>2 DEF PendCode
    <2> HIDE DEF x
    <2>4. adm'[w] = x
      BY <1>1, <2>3
    <2>5. WorkerRead(w)'
      BY <1>2, <2>1, <2>2, <2>4 DEF WorkerRead
    <2>6. QED
      BY <2>3, <2>5, OneWorkerReads
  <1>3. ASSUME NEW c \in Codes,
               SuspendCode(w, c) \/ ReactivateCode(w, c) \/ RevokeCode(w, c)
        PROVE  \A v \in Workers : WorkerRead(v)'
    BY <1>2, <1>3 DEF SuspendCode, ReactivateCode, RevokeCode, Restored, CodeStatuses
  <1>4. ASSUME NEW k \in CustomerIds, NEW p \in Plans, RenewCustomer(w, k, p)
        PROVE  \A v \in Workers : WorkerRead(v)'
    <2> DEFINE e == customers[k].expiresAt
               u == RenewalBase(k) + plans[p].days
               x == [NoPending EXCEPT !.op = "renew", !.customer = k, !.plan = p, !.until = u,
                                      !.paid = e]
    <2>1. u \in Nat /\ (e # NULL => e <= u)
      BY <1>1 DEF RenewalBase, CustomerRow, PlanRow
    <2>2. adm' = [adm EXCEPT ![w] = x]
      BY <1>4 DEF RenewCustomer
    <2> HIDE DEF u, e
    <2>3. x.op = "renew" /\ x.until = u /\ x.paid = e
      BY <1>1 DEF Pending
    <2> HIDE DEF x
    <2>4. adm'[w] = x
      BY <1>1, <2>2
    <2>5. WorkerRead(w)'
      BY <2>1, <2>3, <2>4 DEF WorkerRead
    <2>6. QED
      BY <2>2, <2>5, OneWorkerReads
  <1>5. ASSUME NEW d \in DeviceIds, UnblockDevice(w, d)
        PROVE  \A v \in Workers : WorkerRead(v)'
    <2> DEFINE x == [NoPending EXCEPT !.op = "unblock", !.device = d]
    <2>1. x.op = "unblock"
      BY <1>1 DEF Pending
    <2>2. adm' = [adm EXCEPT ![w] = x]
      BY <1>5 DEF UnblockDevice
    <2> HIDE DEF x
    <2>3. WorkerRead(w)'
      BY <1>1, <2>1, <2>2 DEF WorkerRead
    <2>4. QED
      BY <2>2, <2>3, OneWorkerReads
  <1>6. QED
    BY <1>3, <1>4, <1>5 DEF WorkerStarts

\* A revocation that goes on remembers that it has killed the code.
LEMMA WorkersGoOn ==
    ASSUME TypeInv, \A v \in Workers : WorkerRead(v), NEW w \in Workers, WorkerGoesOn(w)
    PROVE  \A v \in Workers : WorkerRead(v)'
  <1>1. /\ adm \in [Workers -> Pending] /\ adm[w] \in Pending /\ WorkerRead(w)
        /\ NoPending.op = "none" /\ WorkersKnow
    BY DEF TypeInv, TypeOK, AdmTypeOK, NoPending
  <1>2. CASE Drop(w)
    BY <1>1, <1>2, OneWorkerReads DEF Drop
  <1>3. CASE WriteCodeStatus(w) /\ ~Drop(w)
    <2> DEFINE x == [adm[w] EXCEPT !.op = "cutAccess", !.was = "REVOKED"]
    <2>1. adm[w].op = "code" /\ adm' = [adm EXCEPT ![w] = x]
      BY <1>3 DEF WriteCodeStatus, AfterCodeWrite
    <2>2. x.op = "cutAccess" /\ x.was = "REVOKED" /\ x.code = adm[w].code
      BY <1>1 DEF Pending
    <2> HIDE DEF x
    <2>3. adm'[w] = x
      BY <1>1, <2>1
    <2>4. WorkerRead(w)'
      BY <1>1, <2>1, <2>2, <2>3 DEF WorkerRead, WorkersKnow
    <2>5. QED
      BY <2>1, <2>4, OneWorkerReads
  <1>4. CASE CutAccess(w) /\ ~Drop(w)
    <2> DEFINE x == [adm[w] EXCEPT !.op = "suspend"]
    <2>1. adm[w].op = "cutAccess" /\ adm' = [adm EXCEPT ![w] = x]
      BY <1>4 DEF CutAccess
    <2>2. x.op = "suspend" /\ x.was = adm[w].was /\ x.code = adm[w].code
      BY <1>1 DEF Pending
    <2> HIDE DEF x
    <2>3. adm'[w] = x
      BY <1>1, <2>1
    <2>4. WorkerRead(w)'
      BY <1>1, <2>1, <2>2, <2>3 DEF WorkerRead
    <2>5. QED
      BY <2>1, <2>4, OneWorkerReads
  <1>5. QED
    BY <1>2, <1>3, <1>4 DEF WorkerGoesOn, WriteSuspension, WriteRenewal, WriteUnblock

\* Every step keeps what was read.
LEMMA ReadNext == TypeInv /\ ReadInv /\ [Next]_vars => ReadInv'
  <1> SUFFICES ASSUME TypeInv, ReadInv, [Next]_vars PROVE ReadInv'
    OBVIOUS
  <1>1. /\ \A r \in Requests : RequestRead(r)
        /\ \A w \in Workers : WorkerRead(w)
    BY DEF ReadInv
  <1>2. UNCHANGED adm => \A w \in Workers : WorkerRead(w)'
    BY <1>1 DEF WorkerRead
  <1>3. UNCHANGED req /\ (now' = now \/ now' = now + 1) => \A r \in Requests : RequestRead(r)'
    <2>1. now \in Nat /\ \A r \in Requests : req[r].at \in Nat
      BY DEF TypeInv, TypeOK, StoreTypeOK, ReqTypeOK, RequestState
    <2>2. QED
      BY <1>1, <2>1 DEF RequestRead, Term
  <1>4. CASE RequestStep /\ UNCHANGED adm
    BY <1>1, <1>2, <1>4, RequestsRead DEF ReadInv
  <1>5. CASE AdminStep /\ UNCHANGED req
    <2>1. now' = now
      BY <1>5 DEF AdminStep, WorkerStarts, SuspendCode, ReactivateCode, RevokeCode, PendCode,
         RenewCustomer, UnblockDevice, WorkerGoesOn, WriteCodeStatus, CutAccess,
         WriteSuspension, WriteRenewal, WriteUnblock, AtOnce, CreatePlan, UpdatePlan,
         RemovePlan, CreateCode, UpdateLimit, CreateCustomer, SuspendCustomer,
         ReactivateCustomer, RemoveCustomer, UpdateCustomer, ExpireOverdue, RevokeDevice,
         BlockDevice, SetDeviceStatus, RemoveDevice, RevokeSession, OnlyPlans, OnlyCodes,
         OnlyCustomers, OnlyDevices, store
    <2>2. AtOnce => UNCHANGED adm
      BY DEF AtOnce, CreatePlan, UpdatePlan, RemovePlan, CreateCode, UpdateLimit,
             CreateCustomer, SuspendCustomer, ReactivateCustomer, RemoveCustomer,
             UpdateCustomer, ExpireOverdue, RevokeDevice, BlockDevice, SetDeviceStatus,
             RemoveDevice, RevokeSession
    <2>3. \A w \in Workers : WorkerRead(w)'
      BY <1>1, <1>2, <1>5, <2>2, WorkersBegin, WorkersGoOn DEF AdminStep
    <2>4. QED
      BY <1>3, <1>5, <2>1, <2>3 DEF ReadInv
  <1>6. CASE Crash
    BY <1>6 DEF Crash, Idle, NoPending, ReadInv, RequestRead, WorkerRead
  <1>7. CASE Tick \/ UNCHANGED vars
    BY <1>2, <1>3, <1>7 DEF Tick, vars, store, ReadInv
  <1>8. QED
    BY <1>4, <1>5, <1>6, <1>7 DEF Next

\* Nobody has read anything at the start.
LEMMA ReadInit == Init => ReadInv
  BY DEF Init, ReqInit, AdmInit, Idle, NoPending, ReadInv, RequestRead, WorkerRead

-----------------------------------------------------------------------------
(* What the mover of a step finds when nobody has overtaken it. *)

\* A commit finds its code and its customer as they were read.
LEMMA CommitFinds ==
    ASSUME TypeInv, ReadInv, NEW r \in Requests, Commits(r), ~Overtaken
    PROVE  LET code == codes[req[r].code]
               k    == req[r].customer
           IN
           /\ code.status \in {"PENDING", "ACTIVE"}
           /\ code.customer = k /\ code.deviceLimit = req[r].limit
           /\ code.activated <=> ~req[r].first
           /\ req[r].at <= now
           /\ k = NULL \/ req[r].first => req[r].until = Term(r)
           /\ k # NULL =>
                 /\ customers[k].status = "ACTIVE"
                 /\ ~req[r].first => req[r].until = customers[k].expiresAt
                 /\ req[r].device = NULL => Cardinality(ActiveDevices(k)) < req[r].limit
  <1>1. /\ req \in [Requests -> RequestState] /\ req[r] \in RequestState
        /\ req[r].pc = "decided" /\ RequestRead(r) /\ codes[req[r].code] \in CodeRow
    BY DEF TypeInv, TypeOK, ReqTypeOK, StoreTypeOK, Commits, ReadInv, RequestsKnow
  <1>2. req'[r] # req[r]
    BY <1>1 DEF Commits, WriteAll, Finish, Idle
  <1>3. ~RequestOvertaken(r)
    BY <1>2 DEF Overtaken
  <1> DEFINE code == codes[req[r].code]
             k == req[r].customer
             fresh == ~req[r].first
  <1>4. <<code.status, code.customer, code.deviceLimit, code.activated>>
           = <<req[r].status, k, req[r].limit, fresh>>
    BY <1>3 DEF RequestOvertaken
  <1>5. k # NULL =>
           /\ customers[k].status = req[r].payer
           /\ ~req[r].first => customers[k].expiresAt = req[r].until
           /\ req[r].device = NULL => Cardinality(ActiveDevices(k)) = req[r].taken
    BY <1>1, <1>3 DEF RequestOvertaken
  <1> HIDE DEF code, fresh
  <1>6. /\ code.status = req[r].status /\ code.customer = k /\ code.deviceLimit = req[r].limit
        /\ code.activated = fresh
    BY <1>4
  <1>7. code.activated <=> fresh
    BY <1>6
  <1>8. /\ code.status \in {"PENDING", "ACTIVE"} /\ req[r].at <= now
        /\ k = NULL \/ req[r].first => req[r].until = Term(r)
        /\ k # NULL =>
              /\ req[r].payer = "ACTIVE"
              /\ req[r].device = NULL => req[r].taken < req[r].limit
    BY <1>1, <1>6 DEF RequestRead
  <1>9. QED
    BY <1>5, <1>6, <1>7, <1>8 DEF code, fresh

\* The second step of a method finds its code as it was read, or its customer.
LEMMA WorkerFinds ==
    ASSUME TypeInv, ReadInv, NEW w \in Workers, WorkerGoesOn(w), adm'[w] # adm[w], ~Overtaken
    PROVE  LET code == codes[adm[w].code] IN
           /\ adm[w].op = "code" =>
                 /\ code.status # "REVOKED" /\ code.customer = adm[w].customer
                 /\ adm[w].status = "PENDING" => ~code.activated
                 /\ adm[w].status \in {"ACTIVE", "EXPIRED"} => code.activated
           /\ adm[w].op \in {"cutAccess", "suspend"} =>
                 /\ adm[w].code \in Codes
                 /\ code.status = "REVOKED" /\ code.customer = adm[w].customer
           /\ adm[w].op = "renew" =>
                 /\ adm[w].until \in Nat
                 /\ customers[adm[w].customer].expiresAt # NULL =>
                       customers[adm[w].customer].expiresAt <= adm[w].until
  <1>1. ~WorkerOvertaken(w) /\ WorkerRead(w)
    BY DEF Overtaken, ReadInv
  <1> DEFINE code == codes[adm[w].code]
             used == adm[w].used
             active == code.activated
  <1>2. adm[w].op \in {"code", "cutAccess", "suspend"} =>
           <<code.status, code.customer, active>> = <<adm[w].was, adm[w].customer, used>>
    BY <1>1 DEF WorkerOvertaken
  <1>3. adm[w].op = "renew" => customers[adm[w].customer].expiresAt = adm[w].paid
    BY <1>1 DEF WorkerOvertaken
  <1>4. /\ adm[w].op = "code" =>
              /\ adm[w].was # "REVOKED"
              /\ adm[w].status = "PENDING" => ~used
              /\ adm[w].status \in {"ACTIVE", "EXPIRED"} => used
        /\ adm[w].op \in {"cutAccess", "suspend"} =>
              adm[w].was = "REVOKED" /\ adm[w].code \in Codes
        /\ adm[w].op = "renew" =>
              /\ adm[w].until \in Nat
              /\ adm[w].paid # NULL => adm[w].paid <= adm[w].until
    BY <1>1 DEF WorkerRead
  <1> HIDE DEF code, used, active
  <1>5. adm[w].op \in {"code", "cutAccess", "suspend"} =>
           /\ code.status = adm[w].was /\ code.customer = adm[w].customer
           /\ active = used
    BY <1>2
  <1>6. QED
    BY <1>3, <1>4, <1>5 DEF code, active

\* The step of a worker ends its wait.
LEMMA WorkersMove ==
    ASSUME TypeInv, NEW w \in Workers,
           WriteCodeStatus(w) \/ WriteRenewal(w)
    PROVE  WorkerGoesOn(w) /\ adm'[w] # adm[w]
  <1>1. adm \in [Workers -> Pending] /\ adm[w] \in Pending
    BY DEF TypeInv, TypeOK, AdmTypeOK
  <1> DEFINE x == [adm[w] EXCEPT !.op = "cutAccess", !.was = "REVOKED"]
  <1>2. x.op = "cutAccess" /\ NoPending.op = "none"
    BY <1>1 DEF Pending, NoPending
  <1>3. /\ adm[w].op \in {"code", "renew"}
        /\ adm' = [adm EXCEPT ![w] = x] \/ adm' = [adm EXCEPT ![w] = NoPending]
    BY DEF WriteCodeStatus, AfterCodeWrite, WriteRenewal, Drop
  <1> HIDE DEF x, NoPending
  <1>4. adm'[w] # adm[w]
    BY <1>1, <1>2, <1>3
  <1>5. QED
    BY <1>4 DEF WorkerGoesOn

-----------------------------------------------------------------------------
(* The rows stay fit. *)

\* The customer a code is linked to is there.
LinksHold == \A c \in Codes : codes[c].customer # NULL => Exists(customers[codes[c].customer])

RowsFit == CodesHaveSeats /\ LinksHold

\* A code is issued, given another limit, or written a status.
LEMMA CodeWriteFits ==
    ASSUME TypeInv, RowsFit, CodeWrite
    PROVE  RowsFit'
  <1> USE StoreAssumption, AdminAssumption
  <1>1. /\ codes \in [Codes -> CodeRow] /\ \A c \in Codes : codes[c] \in CodeRow
        /\ WorkersKnow /\ CopiesHold
    BY DEF TypeInv, TypeOK, StoreTypeOK
  <1>2. customers' = customers
    BY DEF CodeWrite, CreateCode, UpdateLimit, WriteCodeStatus, OnlyCodes
  <1>3. ASSUME NEW c \in Codes, NEW row \in CodeRow, codes' = [codes EXCEPT ![c] = row],
               row.status # "free", row.deviceLimit # 0,
               row.customer # NULL => Exists(customers[row.customer])
        PROVE  RowsFit'
    <2>1. \A i \in Codes : codes'[i] = IF i = c THEN row ELSE codes[i]
      BY <1>1, <1>3
    <2>2. CodesHaveSeats' /\ LinksHold'
      BY <1>2, <1>3, <2>1 DEF RowsFit, CodesHaveSeats, LinksHold
    <2>3. QED
      BY <2>2 DEF RowsFit
  <1>4. ASSUME NEW c \in Codes, NEW p \in Plans, NEW limit \in Limits, NEW e \in CodeExpiries,
               NEW k \in Owners[c], CreateCode(c, p, k, limit, e)
        PROVE  RowsFit'
    <2> DEFINE row == [NoCode EXCEPT !.status = "PENDING", !.plan = p, !.customer = k,
                                     !.deviceLimit = limit, !.expiresAt = e]
    <2>1. /\ row \in CodeRow /\ row.status = "PENDING" /\ row.deviceLimit = limit
          /\ row.customer = k
      BY DEF CodeRow, NoCode
    <2>2. /\ codes' = [codes EXCEPT ![c] = row]
          /\ k # NULL => Exists(customers[k])
      BY <1>4 DEF CreateCode
    <2> HIDE DEF row
    <2>3. QED
      BY <1>3, <2>1, <2>2
  <1>5. ASSUME NEW c \in Codes, NEW limit \in Limits, UpdateLimit(c, limit) PROVE RowsFit'
    <2> DEFINE row == [codes[c] EXCEPT !.deviceLimit = limit]
    <2>1. codes[c] \in CodeRow
      BY <1>1
    <2>2. /\ row \in CodeRow /\ row.status = codes[c].status /\ row.deviceLimit = limit
          /\ row.customer = codes[c].customer
      BY <2>1 DEF CodeRow
    <2>3. codes' = [codes EXCEPT ![c] = row] /\ codes[c].status # "free"
      BY <1>5 DEF UpdateLimit
    <2>4. row.customer # NULL => Exists(customers[row.customer])
      BY <2>2 DEF RowsFit, LinksHold
    <2> HIDE DEF row
    <2>5. QED
      BY <1>3, <2>2, <2>3, <2>4
  <1>6. ASSUME NEW w \in Workers, WriteCodeStatus(w) PROVE RowsFit'
    <2> DEFINE c == adm[w].code
               row == [codes[c] EXCEPT !.status = adm[w].status]
    <2>1. /\ c \in Codes /\ adm[w].op = "code" /\ adm[w].status \in CodeStatuses
          /\ codes[c] \in CodeRow /\ codes[c].status # "free"
      BY <1>1, <1>6 DEF WriteCodeStatus, WorkersKnow, CopiesHold
    <2>2. /\ row \in CodeRow /\ row.status = adm[w].status
          /\ row.deviceLimit = codes[c].deviceLimit /\ row.customer = codes[c].customer
      BY <2>1 DEF CodeRow, CodeStatuses
    <2>3. codes' = [codes EXCEPT ![c] = row]
      BY <1>6 DEF WriteCodeStatus
    <2>4. row.status # "free" /\ row.deviceLimit # 0
      BY <2>1, <2>2 DEF CodeStatuses, RowsFit, CodesHaveSeats
    <2>5. row.customer # NULL => Exists(customers[row.customer])
      BY <2>1, <2>2 DEF RowsFit, LinksHold
    <2> HIDE DEF row, c
    <2>6. QED
      BY <1>3, <2>1, <2>2, <2>3, <2>4, <2>5
  <1>7. QED
    BY <1>4, <1>5, <1>6 DEF CodeWrite

\* The writes of a commit: the code it activates has a customer.
LEMMA CommitFits ==
    ASSUME TypeInv, RowsFit, NEW r \in Requests, Commits(r)
    PROVE  RowsFit'
  <1> USE StoreAssumption
  <1>1. /\ codes \in [Codes -> CodeRow] /\ customers \in [CustomerIds -> CustomerRow]
        /\ \A c \in Codes : codes[c].customer \in CustomerIds \cup {NULL}
    BY DEF TypeInv, TypeOK, StoreTypeOK, CodeRow
  <1>2. req[r] \in RequestState /\ req[r].code \in Codes /\ codes[req[r].code].status # "free"
    BY DEF Commits, TypeInv, TypeOK, ReqTypeOK, RequestsKnow, CopiesHold
  <1> DEFINE k == HolderOf(r)
  <1>4. /\ k \in CustomerIds /\ (req[r].customer # NULL => Exists(customers[k]))
        /\ \E customer \in CustomerRow, code \in CodeRow :
              /\ customer.status = "ACTIVE" /\ customer.expiresAt = Term(r)
              /\ customers' = IF req[r].customer = NULL \/ req[r].first
                              THEN [customers EXCEPT ![k] = customer] ELSE customers
              /\ code.status = "ACTIVE" /\ code.activated = TRUE
              /\ code.customer = k /\ code.expiresAt = Term(r)
              /\ code.deviceLimit = codes[req[r].code].deviceLimit
              /\ codes' = IF req[r].first THEN [codes EXCEPT ![req[r].code] = code] ELSE codes
    BY CommitUpdates
  <1> HIDE DEF k
  <1>5. /\ Exists(customers'[k])
        /\ \A i \in CustomerIds : Exists(customers[i]) => Exists(customers'[i])
    BY <1>1, <1>4 DEF Exists
  <1>6. \A c \in Codes :
           \/ codes'[c] = codes[c]
           \/ /\ c = req[r].code
              /\ codes'[c].status = "ACTIVE" /\ codes'[c].customer = k
              /\ codes'[c].deviceLimit = codes[c].deviceLimit
    BY <1>1, <1>2, <1>4
  <1>7. CodesHaveSeats' /\ LinksHold'
    BY <1>1, <1>2, <1>4, <1>5, <1>6 DEF RowsFit, CodesHaveSeats, LinksHold
  <1>8. QED
    BY <1>7 DEF RowsFit

\* Every step keeps the rows fit.
LEMMA RowsStayFit ==
    ASSUME TypeInv, RowsFit, [Next]_vars
    PROVE  RowsFit'
  <1> USE StoreAssumption
  <1>1. /\ customers \in [CustomerIds -> CustomerRow] /\ codes \in [Codes -> CodeRow]
        /\ \A c \in Codes : codes[c] \in CodeRow
        /\ \A c \in Codes : codes[c].customer \in CustomerIds \cup {NULL}
    BY DEF TypeInv, TypeOK, StoreTypeOK, CodeRow
  <1>2. CASE UNCHANGED <<codes, customers>>
    BY <1>2 DEF RowsFit, CodesHaveSeats, LinksHold
  <1>3. CASE PlanWrite \/ DeviceWrite \/ SessionWrite \/ \E d \in DeviceIds : RemoveDevice(d)
    <2>1. UNCHANGED <<codes, customers>>
      BY <1>3 DEF PlanWrite, CreatePlan, UpdatePlan, RemovePlan, OnlyPlans, DeviceWrite,
                  RevokeDevice, BlockDevice, SetDeviceStatus, WriteUnblock, OnlyDevices,
                  SessionWrite, RevokeSession, Logout, RemoveDevice
    <2>2. QED
      BY <1>2, <2>1
  <1>4. CASE CustomerWrite
    <2>1. codes' = codes
      BY <1>4 DEF CustomerWrite, CreateCustomer, SuspendCustomer, ReactivateCustomer,
                  UpdateCustomer, WriteSuspension, WriteRenewal, ExpireOverdue, OnlyCustomers
    <2>2. \A k \in CustomerIds : Exists(customers[k]) => Exists(customers'[k])
      BY <1>4, CustomersStay DEF CustomerStays
    <2>3. QED
      BY <1>1, <2>1, <2>2 DEF RowsFit, CodesHaveSeats, LinksHold
  <1>5. ASSUME NEW k \in CustomerIds, RemoveCustomer(k) PROVE RowsFit'
    <2> DEFINE unlinked(c) == [codes[c] EXCEPT !.customer = NULL]
    <2>1. \A c \in Codes : /\ unlinked(c).status = codes[c].status
                           /\ unlinked(c).deviceLimit = codes[c].deviceLimit
                           /\ unlinked(c).customer = NULL
      BY <1>1 DEF CodeRow
    <2>2. /\ \A c \in Codes : codes'[c] = IF codes[c].customer = k THEN unlinked(c) ELSE codes[c]
          /\ \A i \in CustomerIds \ {k} : customers'[i] = customers[i]
      BY <1>1, <1>5 DEF RemoveCustomer, DeleteCustomer
    <2> HIDE DEF unlinked
    <2>3. CodesHaveSeats' /\ LinksHold'
      BY <1>1, <2>1, <2>2 DEF RowsFit, CodesHaveSeats, LinksHold
    <2>4. QED
      BY <2>3 DEF RowsFit
  <1>6. QED
    BY <1>2, <1>3, <1>4, <1>5, StepKinds, CodeWriteFits, CommitFits DEF Quiet, TablesKept

\* The empty database fits.
LEMMA RowsInit == Init => RowsFit
  BY StoreAssumption
  DEF Init, StoreInit, NoCode, NoCustomer, RowsFit, CodesHaveSeats, LinksHold

-----------------------------------------------------------------------------
(* CodeLifecycle. *)

\* A code in order stays in order under the writes of the codes service.
LEMMA CodeWriteInOrder ==
    ASSUME TypeInv, ReadInv, CodeWrite, ~Overtaken, NEW c \in Codes, InOrder(codes[c])
    PROVE  InOrder(codes'[c])
  <1>1. codes \in [Codes -> CodeRow] /\ codes[c] \in CodeRow /\ WorkersKnow
    BY DEF TypeInv, TypeOK, StoreTypeOK
  <1>2. ASSUME NEW row, codes' = [codes EXCEPT ![c] = row], InOrder(row)
        PROVE  InOrder(codes'[c])
    BY <1>1, <1>2
  <1>3. ASSUME NEW p \in Plans, NEW limit \in Limits, NEW e \in CodeExpiries,
               NEW k \in Owners[c], CreateCode(c, p, k, limit, e)
        PROVE  InOrder(codes'[c])
    <2> DEFINE row == [NoCode EXCEPT !.status = "PENDING", !.plan = p, !.customer = k,
                                     !.deviceLimit = limit, !.expiresAt = e]
    <2>1. InOrder(row)
      BY DEF InOrder, NoCode
    <2>2. codes' = [codes EXCEPT ![c] = row]
      BY <1>3 DEF CreateCode
    <2> HIDE DEF row
    <2>3. QED
      BY <1>2, <2>1, <2>2
  <1>4. ASSUME NEW limit \in Limits, UpdateLimit(c, limit) PROVE InOrder(codes'[c])
    <2> DEFINE row == [codes[c] EXCEPT !.deviceLimit = limit]
    <2>1. /\ row.status = codes[c].status /\ row.expiresAt = codes[c].expiresAt
          /\ row.activated = codes[c].activated
      BY <1>1 DEF CodeRow
    <2>2. codes' = [codes EXCEPT ![c] = row]
      BY <1>4 DEF UpdateLimit
    <2> HIDE DEF row
    <2>3. InOrder(row)
      BY <2>1 DEF InOrder
    <2>4. QED
      BY <1>2, <2>2, <2>3
  <1>5. ASSUME NEW w \in Workers, WriteCodeStatus(w), adm[w].code = c PROVE InOrder(codes'[c])
    <2> DEFINE row == [codes[c] EXCEPT !.status = adm[w].status]
    <2>1. adm[w].op = "code" /\ codes' = [codes EXCEPT ![c] = row]
      BY <1>5 DEF WriteCodeStatus
    <2>2. /\ adm[w].status = "PENDING" => ~codes[c].activated
          /\ adm[w].status \in {"ACTIVE", "EXPIRED"} => codes[c].activated
      BY <1>5, <2>1, WorkersMove, WorkerFinds
    <2>3. /\ row.status = adm[w].status /\ row.expiresAt = codes[c].expiresAt
          /\ row.activated = codes[c].activated
      BY <1>1 DEF CodeRow
    <2> HIDE DEF row
    <2>4. InOrder(row)
      BY <2>2, <2>3 DEF InOrder
    <2>5. QED
      BY <1>2, <2>1, <2>4
  <1>6. ASSUME NEW i \in Codes, i # c, NEW row, codes' = [codes EXCEPT ![i] = row]
        PROVE  InOrder(codes'[c])
    BY <1>1, <1>6
  <1>7. ASSUME NEW i \in Codes, i # c, NEW p \in Plans, NEW limit \in Limits,
               NEW e \in CodeExpiries, NEW k \in Owners[i], CreateCode(i, p, k, limit, e)
        PROVE  InOrder(codes'[c])
    BY <1>6, <1>7 DEF CreateCode
  <1>8. ASSUME NEW i \in Codes, i # c, NEW limit \in Limits, UpdateLimit(i, limit)
        PROVE  InOrder(codes'[c])
    <2>1. codes' = [codes EXCEPT ![i] = [codes[i] EXCEPT !.deviceLimit = limit]]
      BY <1>8 DEF UpdateLimit
    <2>2. QED
      BY <1>6, <1>8, <2>1
  <1>9. ASSUME NEW w \in Workers, WriteCodeStatus(w), adm[w].code # c PROVE InOrder(codes'[c])
    <2>1. /\ adm[w].code \in Codes
          /\ codes' = [codes EXCEPT ![adm[w].code] =
                          [codes[adm[w].code] EXCEPT !.status = adm[w].status]]
      BY <1>1, <1>9 DEF WriteCodeStatus, WorkersKnow
    <2>2. QED
      BY <1>6, <1>9, <2>1
  <1>10. QED
    BY <1>3, <1>4, <1>5, <1>7, <1>8, <1>9 DEF CodeWrite

\* Every step keeps a code in order, unless its handler was overtaken.
LEMMA StaysInOrder ==
    ASSUME TypeInv, ReadInv, [Next]_vars, ~Overtaken, NEW c \in Codes, InOrder(codes[c])
    PROVE  InOrder(codes'[c])
  <1> USE StoreAssumption
  <1>1. codes \in [Codes -> CodeRow] /\ codes[c] \in CodeRow
    BY DEF TypeInv, TypeOK, StoreTypeOK
  <1>2. CASE PlanWrite \/ CustomerWrite \/ DeviceWrite \/ SessionWrite
             \/ \E d \in DeviceIds : RemoveDevice(d)
    <2>1. codes' = codes
      BY <1>2 DEF PlanWrite, CreatePlan, UpdatePlan, RemovePlan, OnlyPlans, CustomerWrite,
                  CreateCustomer, SuspendCustomer, ReactivateCustomer, UpdateCustomer,
                  WriteSuspension, WriteRenewal, ExpireOverdue, OnlyCustomers, DeviceWrite,
                  RevokeDevice, BlockDevice, SetDeviceStatus, WriteUnblock, OnlyDevices,
                  SessionWrite, RevokeSession, Logout, RemoveDevice
    <2>2. QED
      BY <2>1
  <1>3. ASSUME NEW k \in CustomerIds, RemoveCustomer(k) PROVE InOrder(codes'[c])
    <2> DEFINE unlinked == [codes[c] EXCEPT !.customer = NULL]
    <2>1. /\ unlinked.status = codes[c].status /\ unlinked.expiresAt = codes[c].expiresAt
          /\ unlinked.activated = codes[c].activated
      BY <1>1 DEF CodeRow
    <2>2. codes'[c] = unlinked \/ codes'[c] = codes[c]
      BY <1>3 DEF RemoveCustomer, DeleteCustomer
    <2> HIDE DEF unlinked
    <2>3. QED
      BY <2>1, <2>2 DEF InOrder
  <1>4. ASSUME NEW r \in Requests, Commits(r) PROVE InOrder(codes'[c])
    <2>1. req[r] \in RequestState
      BY <1>4 DEF TypeInv, TypeOK, ReqTypeOK
    <2>2. Term(r) # NULL
      BY <2>1 DEF Term, RequestState
    <2>3. PICK code \in CodeRow :
             /\ code.status = "ACTIVE" /\ code.activated = TRUE /\ code.expiresAt = Term(r)
             /\ codes' = IF req[r].first THEN [codes EXCEPT ![req[r].code] = code] ELSE codes
      BY <1>4, CommitUpdates
    <2>4. InOrder(code)
      BY <2>2, <2>3 DEF InOrder
    <2>5. codes'[c] = code \/ codes'[c] = codes[c]
      BY <1>1, <2>3
    <2>6. QED
      BY <2>4, <2>5
  <1>5. QED
    BY <1>2, <1>3, <1>4, StepKinds, CodeWriteInOrder DEF Quiet, TablesKept

\* The status of a code and its activation stop agreeing only by the write of a method
\* that computed it from a row others have written since (suspend, reactivate, revoke
\* of activation-codes.service.ts, performActivation).
THEOREM CodesLiveInOrder == Spec => CodeLifecycle
  <1>1. TypeInv /\ ReadInv /\ [Next]_vars =>
           [\A c \in Codes : InOrder(codes[c]) /\ ~InOrder(codes'[c]) => Overtaken]_vars
    BY StaysInOrder
  <1>2. QED
    BY <1>1, InitTyped, NextTyped, ReadInit, ReadNext, PTL DEF Spec, CodeLifecycle

-----------------------------------------------------------------------------
(* SessionCapped. *)

\* A session or a device appears only with the commit of an activation.
LEMMA OnlyCommitsInsert ==
    ASSUME TypeInv, [Next]_vars, \A r \in Requests : ~Commits(r)
    PROVE  /\ \A s \in SessionIds : Exists(sessions'[s]) => Exists(sessions[s])
           /\ \A d \in DeviceIds : Exists(devices'[d]) => Exists(devices[d])
  <1>1. /\ sessions \in [SessionIds -> SessionRow] /\ devices \in [DeviceIds -> DeviceRow]
    BY DEF TypeInv, TypeOK, StoreTypeOK
  <1>2. CASE UNCHANGED <<sessions, devices>>
    BY <1>2
  <1>3. CASE PlanWrite \/ CodeWrite \/ CustomerWrite
    <2>1. UNCHANGED <<sessions, devices>>
      BY <1>3 DEF PlanWrite, CreatePlan, UpdatePlan, RemovePlan, OnlyPlans,
                  CodeWrite, CreateCode, UpdateLimit, WriteCodeStatus, OnlyCodes,
                  CustomerWrite, CreateCustomer, SuspendCustomer, ReactivateCustomer,
                  UpdateCustomer, WriteSuspension, WriteRenewal, ExpireOverdue, OnlyCustomers
    <2>2. QED
      BY <1>2, <2>1
  <1>4. CASE DeviceWrite
    <2>1. sessions' = sessions
      BY <1>4 DEF DeviceWrite, RevokeDevice, BlockDevice, SetDeviceStatus, WriteUnblock,
                  OnlyDevices
    <2>2. ASSUME NEW d, NEW status, Exists(devices[d]),
                 devices' = [devices EXCEPT ![d].status = status]
          PROVE  \A e \in DeviceIds : Exists(devices'[e]) => Exists(devices[e])
      BY <1>1, <2>2
    <2>3. QED
      BY <1>4, <2>1, <2>2 DEF DeviceWrite, RevokeDevice, BlockDevice, SetDeviceStatus,
                              WriteUnblock
  <1>5. CASE SessionWrite
    <2>1. devices' = devices
      BY <1>5 DEF SessionWrite, RevokeSession, Logout
    <2>2. PICK s \in SessionIds : /\ sessions[s].status = "ACTIVE"
                                  /\ sessions' = [sessions EXCEPT ![s].status = "REVOKED"]
      BY <1>5 DEF SessionWrite, RevokeSession, Logout
    <2>3. Exists(sessions[s])
      BY <2>2 DEF Exists
    <2>4. QED
      BY <1>1, <2>1, <2>2, <2>3
  <1>6. CASE \/ \E k \in CustomerIds : RemoveCustomer(k)
             \/ \E d \in DeviceIds : RemoveDevice(d)
    <2>1. PICK ds, ks : DropDevices(ds) /\ CascadeSessions(ds, ks)
      BY <1>6 DEF RemoveCustomer, DeleteCustomer, RemoveDevice, DeleteDevice
    <2> DEFINE goneDevice == [NoDevice EXCEPT !.status = "gone"]
               goneSession == [NoSession EXCEPT !.status = "gone"]
    <2>2. ~Exists(goneDevice) /\ ~Exists(goneSession)
      BY DEF NoDevice, NoSession, Exists
    <2>3. /\ \A d \in DeviceIds : devices'[d] = goneDevice \/ devices'[d] = devices[d]
          /\ \A s \in SessionIds : sessions'[s] = goneSession \/ sessions'[s] = sessions[s]
      BY <2>1 DEF DropDevices, CascadeSessions
    <2> HIDE DEF goneDevice, goneSession
    <2>4. QED
      BY <2>2, <2>3
  <1>7. QED
    BY <1>2, <1>3, <1>4, <1>5, <1>6, StepKinds DEF Quiet, TablesKept

\* A session ends with the customer's paid time at the latest, unless another activation
\* or a renewal moved that time while this one was on its way (customerExpiresAt,
\* performActivation).
THEOREM SessionsAreCapped == Spec => SessionCapped
  <1> USE StoreAssumption
  <1>1. ASSUME TypeInv, ReadInv, [Next]_vars, NEW s \in SessionIds,
               ~Exists(sessions[s]), Exists(sessions'[s]), ~Overtaken
        PROVE  LET k == customers'[sessions'[s].customer] IN
               /\ sessions'[s].expiresAt <= now + SESSION_TTL
               /\ k.expiresAt # NULL => sessions'[s].expiresAt <= k.expiresAt
    <2>1. PICK r \in Requests : Commits(r)
      BY <1>1, OnlyCommitsInsert
    <2>2. /\ sessions \in [SessionIds -> SessionRow] /\ customers \in [CustomerIds -> CustomerRow]
          /\ req[r] \in RequestState /\ now \in Nat
          /\ \A i \in CustomerIds : customers[i].expiresAt \in Nat \cup {NULL}
      BY <1>1 DEF TypeInv, TypeOK, StoreTypeOK, ReqTypeOK, CustomerRow
    <2> DEFINE k == HolderOf(r)
    <2>3. sessions'[s].customer = k /\ sessions'[s].expiresAt = SessionEnd(r)
      BY <1>1, <2>1, <2>2, CommitInserts
    <2>4. /\ req[r].at <= now
          /\ req[r].until = IF req[r].customer = NULL \/ req[r].first THEN Term(r)
                            ELSE customers[req[r].customer].expiresAt
      BY <1>1, <2>1, CommitFinds
    <2>5. /\ k \in CustomerIds
          /\ req[r].customer # NULL => k = req[r].customer
          /\ customers'[k].expiresAt = IF req[r].customer = NULL \/ req[r].first THEN Term(r)
                                       ELSE customers[k].expiresAt
      BY <1>1, <2>1, <2>2, CommitUpdates
    <2> HIDE DEF k
    <2>6. customers'[k].expiresAt = req[r].until
      BY <2>4, <2>5
    <2>7. /\ SessionEnd(r) <= now + SESSION_TTL
          /\ req[r].until # NULL => SessionEnd(r) <= req[r].until
      BY <2>2, <2>4 DEF SessionEnd, RequestState
    <2>8. QED
      BY <2>3, <2>6, <2>7
  <1>2. TypeInv /\ ReadInv /\ [Next]_vars =>
           [\A s \in SessionIds : ~Exists(sessions[s]) /\ Exists(sessions'[s]) =>
              LET k == customers'[sessions'[s].customer] IN
              \/ /\ sessions'[s].expiresAt <= now + SESSION_TTL
                 /\ k.expiresAt # NULL => sessions'[s].expiresAt <= k.expiresAt
              \/ Overtaken]_vars
    BY <1>1
  <1>3. QED
    BY <1>2, InitTyped, NextTyped, ReadInit, ReadNext, PTL DEF Spec, SessionCapped

-----------------------------------------------------------------------------
(* The statuses of codes and customers. *)

\* What the status of a code may become: a revoked code is written by nobody who
\* knows.
LEMMA RevokedStays ==
    ASSUME TypeInv, ReadInv, [Next]_vars, ~Overtaken, NEW c \in Codes, codes[c].status = "REVOKED"
    PROVE  codes'[c].status = "REVOKED"
  <1>1. codes \in [Codes -> CodeRow] /\ \A i \in Codes : codes[i] \in CodeRow
    BY DEF TypeInv, TypeOK, StoreTypeOK
  <1>2. CASE PlanWrite \/ CustomerWrite \/ DeviceWrite \/ SessionWrite
             \/ \E d \in DeviceIds : RemoveDevice(d)
    <2>1. codes' = codes
      BY <1>2 DEF PlanWrite, CreatePlan, UpdatePlan, RemovePlan, OnlyPlans, CustomerWrite,
                  CreateCustomer, SuspendCustomer, ReactivateCustomer, UpdateCustomer,
                  WriteSuspension, WriteRenewal, ExpireOverdue, OnlyCustomers, DeviceWrite,
                  RevokeDevice, BlockDevice, SetDeviceStatus, WriteUnblock, OnlyDevices,
                  SessionWrite, RevokeSession, Logout, RemoveDevice
    <2>2. QED
      BY <2>1
  <1>3. ASSUME NEW i \in Codes, NEW p \in Plans, NEW limit \in Limits, NEW e \in CodeExpiries,
               NEW k \in Owners[i], CreateCode(i, p, k, limit, e)
        PROVE  codes'[c] = codes[c]
    BY <1>1, <1>3 DEF CreateCode
  <1>4. ASSUME NEW i \in Codes, NEW limit \in Limits, UpdateLimit(i, limit)
        PROVE  codes'[c].status = codes[c].status
    <2> DEFINE row == [codes[i] EXCEPT !.deviceLimit = limit]
    <2>1. row.status = codes[i].status
      BY <1>1 DEF CodeRow
    <2>2. codes' = [codes EXCEPT ![i] = row]
      BY <1>4 DEF UpdateLimit
    <2> HIDE DEF row
    <2>3. QED
      BY <1>1, <2>1, <2>2
  <1>5. ASSUME NEW w \in Workers, WriteCodeStatus(w) PROVE codes'[c] = codes[c]
    <2>1. adm[w].op = "code" /\ codes[adm[w].code].status # "REVOKED"
      BY <1>5, WorkersMove, WorkerFinds DEF WriteCodeStatus
    <2>2. \E row : codes' = [codes EXCEPT ![adm[w].code] = row]
      BY <1>5 DEF WriteCodeStatus
    <2>3. QED
      BY <1>1, <2>1, <2>2
  <1>6. ASSUME NEW k \in CustomerIds, RemoveCustomer(k) PROVE codes'[c].status = codes[c].status
    <2> DEFINE unlinked == [codes[c] EXCEPT !.customer = NULL]
    <2>1. unlinked.status = codes[c].status
      BY <1>1 DEF CodeRow
    <2>2. codes'[c] = unlinked \/ codes'[c] = codes[c]
      BY <1>6 DEF RemoveCustomer, DeleteCustomer
    <2> HIDE DEF unlinked
    <2>3. QED
      BY <2>1, <2>2
  <1>7. ASSUME NEW r \in Requests, Commits(r) PROVE codes'[c] = codes[c]
    <2>1. codes[req[r].code].status \in {"PENDING", "ACTIVE"}
      BY <1>7, CommitFinds
    <2>2. codes' = codes \/ \E row : codes' = [codes EXCEPT ![req[r].code] = row]
      BY <1>7, CommitUpdates
    <2>3. QED
      BY <1>1, <2>1, <2>2
  <1>8. QED
    BY <1>2, <1>3, <1>4, <1>5, <1>6, <1>7, StepKinds DEF Quiet, TablesKept, CodeWrite

\* A revoked code comes back only by a method or an activation that read it before it
\* was revoked (revoke, against every other writer of the status).
THEOREM RevocationsAreTerminal == Spec => RevocationIsTerminal
  <1>1. TypeInv /\ ReadInv /\ [Next]_vars =>
           [\A c \in Codes : codes[c].status = "REVOKED" /\ codes'[c].status # "REVOKED" =>
              Overtaken]_vars
    BY RevokedStays
  <1>2. QED
    BY <1>1, InitTyped, NextTyped, ReadInit, ReadNext, PTL DEF Spec, RevocationIsTerminal

\* A commit writes the row of an ACTIVE customer, or a new one.
LEMMA CommitSparesOthers ==
    ASSUME TypeInv, ReadInv, NEW r \in Requests, Commits(r), ~Overtaken,
           NEW k \in CustomerIds, customers'[k] # customers[k]
    PROVE  \/ ~Exists(customers[k])
           \/ customers[k].status = "ACTIVE" /\ k = req[r].customer /\ req[r].first
  <1>1. /\ customers \in [CustomerIds -> CustomerRow]
        /\ NULL \notin CustomerIds
    BY StoreAssumption DEF TypeInv, TypeOK, StoreTypeOK
  <1>2. /\ IF req[r].customer = NULL THEN customers[HolderOf(r)].status = "free"
           ELSE HolderOf(r) = req[r].customer
        /\ \E row : customers' = IF req[r].customer = NULL \/ req[r].first
                                 THEN [customers EXCEPT ![HolderOf(r)] = row] ELSE customers
    BY CommitUpdates
  <1>3. req[r].customer # NULL => customers[req[r].customer].status = "ACTIVE"
    BY CommitFinds
  <1>4. k = HolderOf(r) /\ (req[r].customer = NULL \/ req[r].first)
    BY <1>1, <1>2
  <1>5. QED
    BY <1>2, <1>3, <1>4 DEF Exists

\* A suspended customer comes back by an administrator's hand, a reactivation or a
\* renewal, never by an activation that read its customer after the suspension
\* (customers.service.ts against performActivation).
THEOREM SuspensionsHold == Spec => SuspensionHolds
  <1>1. ASSUME TypeInv, ReadInv, [Next]_vars, ~Overtaken, NEW k \in CustomerIds,
               customers[k].status = "SUSPENDED", customers'[k].status = "ACTIVE"
        PROVE  req' = req
    <2>1. ASSUME NEW r \in Requests, Commits(r) PROVE FALSE
      BY <1>1, <2>1, CommitSparesOthers DEF Exists
    <2>2. QED
      BY <1>1, <2>1, StepKinds DEF Quiet, TablesKept
  <1>2. TypeInv /\ ReadInv /\ [Next]_vars =>
           [\A k \in CustomerIds :
               customers[k].status = "SUSPENDED" /\ customers'[k].status = "ACTIVE" =>
                  req' = req \/ Overtaken]_vars
    BY <1>1
  <1>3. QED
    BY <1>2, InitTyped, NextTyped, ReadInit, ReadNext, PTL DEF Spec, SuspensionHolds

\* No service takes paid time from a customer: a renewal writes what it counted from
\* the end it read, and the others leave the end alone.
LEMMA WritesKeepTime ==
    ASSUME TypeInv, ReadInv, CustomerWrite, ~Overtaken, NEW k \in CustomerIds,
           Exists(customers[k]), customers[k].expiresAt # NULL
    PROVE  customers'[k].expiresAt >= customers[k].expiresAt
  <1>1. /\ customers \in [CustomerIds -> CustomerRow]
        /\ \A i \in CustomerIds : customers[i] \in CustomerRow
        /\ customers[k].expiresAt \in Nat
    BY DEF TypeInv, TypeOK, StoreTypeOK, CustomerRow
  <1> DEFINE Same == customers'[k].expiresAt = customers[k].expiresAt
  <1>2. ASSUME NEW p \in Plans \cup {NULL}, CreateCustomer(p) PROVE Same
    <2>1. Fresh(customers) # k
      BY <1>2, FreshIsFree DEF CreateCustomer, Exists
    <2>2. \E row : customers' = [customers EXCEPT ![Fresh(customers)] = row]
      BY <1>2 DEF CreateCustomer
    <2>3. QED
      BY <1>1, <2>1, <2>2
  <1>3. ASSUME NEW i \in CustomerIds,
               \/ SuspendCustomer(i) \/ ReactivateCustomer(i)
               \/ \E p \in Plans : UpdateCustomer(i, p)
        PROVE  Same
    <2> DEFINE written(status) == [customers[i] EXCEPT !.status = status]
               moved(p) == [customers[i] EXCEPT !.plan = p]
    <2>1. /\ \A status : written(status).expiresAt = customers[i].expiresAt
          /\ \A p : moved(p).expiresAt = customers[i].expiresAt
      BY <1>1 DEF CustomerRow
    <2>2. \/ \E status : customers' = [customers EXCEPT ![i] = written(status)]
          \/ \E p \in Plans : customers' = [customers EXCEPT ![i] = moved(p)]
      BY <1>3 DEF SuspendCustomer, ReactivateCustomer, UpdateCustomer
    <2> HIDE DEF written, moved
    <2>3. QED
      BY <1>1, <2>1, <2>2
  <1>4. ASSUME NEW w \in Workers, WriteSuspension(w) PROVE Same
    <2> DEFINE i == adm[w].customer
               row == [customers[i] EXCEPT !.status = "SUSPENDED"]
    <2>1. i \in CustomerIds
      BY <1>4 DEF WriteSuspension, TypeInv, WorkersKnow
    <2>2. row.expiresAt = customers[i].expiresAt
      BY <1>1, <2>1 DEF CustomerRow
    <2>3. customers' = customers \/ customers' = [customers EXCEPT ![i] = row]
      BY <1>4 DEF WriteSuspension
    <2> HIDE DEF row
    <2>4. QED
      BY <1>1, <2>1, <2>2, <2>3
  <1>5. ASSUME NEW w \in Workers, WriteRenewal(w)
        PROVE  customers'[k].expiresAt >= customers[k].expiresAt
    <2> DEFINE i == adm[w].customer
               row == [status |-> "ACTIVE", plan |-> adm[w].plan, expiresAt |-> adm[w].until]
    <2>1. /\ adm[w].until \in Nat
          /\ customers[i].expiresAt # NULL => customers[i].expiresAt <= adm[w].until
      BY <1>5, WorkersMove, WorkerFinds DEF WriteRenewal
    <2>2. row.expiresAt = adm[w].until
      OBVIOUS
    <2>3. customers' = customers \/ customers' = [customers EXCEPT ![i] = row]
      BY <1>5 DEF WriteRenewal
    <2> HIDE DEF row
    <2>4. QED
      BY <1>1, <2>1, <2>2, <2>3
  <1>6. ASSUME ExpireOverdue PROVE Same
    <2>1. [customers[k] EXCEPT !.status = "EXPIRED"].expiresAt = customers[k].expiresAt
      BY <1>1 DEF CustomerRow
    <2>2. customers'[k] = customers[k]
          \/ customers'[k] = [customers[k] EXCEPT !.status = "EXPIRED"]
      BY <1>6 DEF ExpireOverdue
    <2>3. QED
      BY <2>1, <2>2
  <1>7. Same => customers'[k].expiresAt >= customers[k].expiresAt
    BY <1>1
  <1> HIDE DEF Same
  <1>8. QED
    BY <1>2, <1>3, <1>4, <1>5, <1>6, <1>7 DEF CustomerWrite

\* Paid time is not taken back: the end of a customer only moves forward, unless the
\* first use of a linked code starts the subscription afresh, or a renewal writes what
\* it counted from an end that has moved since (renew, performActivation).
THEOREM PaidTimeIsKept == Spec => PaidTimeGrows
  <1>1. ASSUME TypeInv, ReadInv, [Next]_vars, ~Overtaken, NEW k \in CustomerIds,
               Exists(customers[k]), Exists(customers'[k]), customers[k].expiresAt # NULL
        PROVE  \/ customers'[k].expiresAt >= customers[k].expiresAt
               \/ \E r \in Requests : StartsSubscription(r) /\ req[r].customer = k
                                     /\ req'[r] # req[r]
    <2>1. /\ customers[k].expiresAt \in Nat /\ customers \in [CustomerIds -> CustomerRow]
          /\ req \in [Requests -> RequestState]
      BY <1>1 DEF TypeInv, TypeOK, StoreTypeOK, CustomerRow, ReqTypeOK
    <2>2. CASE customers'[k] = customers[k]
      BY <2>1, <2>2
    <2>3. ASSUME NEW r \in Requests, Commits(r), customers'[k] # customers[k]
          PROVE  StartsSubscription(r) /\ req[r].customer = k /\ req'[r] # req[r]
      <3>1. req'[r] = Idle /\ req[r].pc = "decided" /\ Idle.pc = "idle"
        BY <2>1, <2>3 DEF Commits, WriteAll, Finish, Idle
      <3>2. req'[r] # req[r]
        BY <3>1
      <3>3. k = req[r].customer /\ req[r].first /\ k # NULL
        BY <1>1, <2>3, CommitSparesOthers, StoreAssumption
      <3>4. QED
        BY <3>2, <3>3 DEF StartsSubscription
    <2>4. CASE PlanWrite \/ CodeWrite \/ DeviceWrite \/ SessionWrite
               \/ \E d \in DeviceIds : RemoveDevice(d)
      <3>1. customers' = customers
        BY <2>4 DEF PlanWrite, CreatePlan, UpdatePlan, RemovePlan, OnlyPlans, CodeWrite,
                    CreateCode, UpdateLimit, WriteCodeStatus, OnlyCodes, DeviceWrite,
                    RevokeDevice, BlockDevice, SetDeviceStatus, WriteUnblock, OnlyDevices,
                    SessionWrite, RevokeSession, Logout, RemoveDevice
      <3>2. QED
        BY <2>2, <3>1
    <2>5. ASSUME NEW i \in CustomerIds, RemoveCustomer(i) PROVE customers'[k] = customers[k]
      <3> DEFINE row == [NoCustomer EXCEPT !.status = "gone"]
      <3>1. customers' = [customers EXCEPT ![i] = row]
        BY <2>5 DEF RemoveCustomer, DeleteCustomer
      <3>2. ~Exists(row)
        BY DEF NoCustomer, Exists
      <3> HIDE DEF row
      <3>3. QED
        BY <1>1, <2>1, <3>1, <3>2
    <2>6. QED
      BY <1>1, <2>2, <2>3, <2>4, <2>5, StepKinds, WritesKeepTime DEF Quiet, TablesKept
  <1>2. TypeInv /\ ReadInv /\ [Next]_vars =>
           [\A k \in CustomerIds :
              Exists(customers[k]) /\ Exists(customers'[k]) /\ customers[k].expiresAt # NULL =>
                 \/ customers'[k].expiresAt >= customers[k].expiresAt
                 \/ \E r \in Requests : StartsSubscription(r) /\ req[r].customer = k
                                       /\ req'[r] # req[r]
                 \/ Overtaken]_vars
    BY <1>1
  <1>3. QED
    BY <1>2, InitTyped, NextTyped, ReadInit, ReadNext, PTL DEF Spec, PaidTimeGrows

-----------------------------------------------------------------------------
(* RevocationCutsAccess. *)

\* The step that ends a revocation: the code is dead and its customer is not ACTIVE.
LEMMA RevocationEnds ==
    ASSUME TypeInv, ReadInv, ~Overtaken, NEW w \in Workers, Revoking(w), ~Revoking(w)',
           WorkerGoesOn(w)
    PROVE  LET code == codes'[adm[w].code] IN
           /\ code.status = "REVOKED"
           /\ code.customer # NULL => customers'[code.customer].status # "ACTIVE"
  <1> USE StoreAssumption
  <1>1. /\ adm \in [Workers -> Pending] /\ adm[w] \in Pending
        /\ codes \in [Codes -> CodeRow] /\ \A c \in Codes : codes[c] \in CodeRow
        /\ customers \in [CustomerIds -> CustomerRow]
        /\ \A k \in CustomerIds : customers[k] \in CustomerRow
        /\ WorkersKnow
    BY DEF TypeInv, TypeOK, AdmTypeOK, StoreTypeOK
  <1>0. /\ adm[w].op = "code" => codes[adm[w].code].customer = adm[w].customer
        /\ adm[w].op \in {"cutAccess", "suspend"} =>
              /\ adm[w].code \in Codes /\ codes[adm[w].code].status = "REVOKED"
              /\ codes[adm[w].code].customer = adm[w].customer
    <2>1. adm'[w] # adm[w]
      BY DEF Revoking
    <2>2. QED
      BY <2>1, WorkerFinds
  <1>2. CASE WriteCodeStatus(w)
    <2> DEFINE c == adm[w].code
               row == [codes[c] EXCEPT !.status = adm[w].status]
               x == [adm[w] EXCEPT !.op = "cutAccess", !.was = "REVOKED"]
    <2>1. /\ c \in Codes /\ adm[w].status = "REVOKED" /\ codes' = [codes EXCEPT ![c] = row]
          /\ adm[w].customer = codes[c].customer
      BY <1>0, <1>1, <1>2 DEF Revoking, WriteCodeStatus, WorkersKnow
    <2>2. row.status = "REVOKED" /\ row.customer = codes[c].customer
      BY <1>1, <2>1 DEF CodeRow
    <2>3. adm[w].customer = NULL
      <3>1. x.op = "cutAccess"
        BY <1>1 DEF Pending
      <3>2. adm[w].customer # NULL => adm' = [adm EXCEPT ![w] = x]
        BY <1>2, <2>1 DEF WriteCodeStatus, AfterCodeWrite
      <3> HIDE DEF x
      <3>3. QED
        BY <1>1, <3>1, <3>2 DEF Revoking
    <2> HIDE DEF row
    <2>4. QED
      BY <1>1, <2>1, <2>2, <2>3
  <1>3. CASE CutAccess(w)
    <2> DEFINE x == [adm[w] EXCEPT !.op = "suspend"]
    <2>1. x.op = "suspend"
      BY <1>1 DEF Pending
    <2>2. /\ customers[adm[w].customer].status = "ACTIVE" => adm' = [adm EXCEPT ![w] = x]
          /\ UNCHANGED store /\ adm[w].op = "cutAccess"
      BY <1>3 DEF CutAccess
    <2> HIDE DEF x
    <2>3. customers[adm[w].customer].status # "ACTIVE"
      BY <1>1, <2>1, <2>2 DEF Revoking
    <2>4. QED
      BY <1>0, <2>2, <2>3 DEF store
  <1>4. CASE WriteSuspension(w)
    <2> DEFINE k == adm[w].customer
               row == [customers[k] EXCEPT !.status = "SUSPENDED"]
    <2>1. k \in CustomerIds /\ codes' = codes /\ adm[w].op = "suspend"
      BY <1>1, <1>4 DEF WriteSuspension, WorkersKnow, OnlyCustomers
    <2>2. row.status = "SUSPENDED"
      BY <1>1, <2>1 DEF CustomerRow
    <2>3. customers' = IF Exists(customers[k]) THEN [customers EXCEPT ![k] = row] ELSE customers
      BY <1>4 DEF WriteSuspension
    <2> HIDE DEF row
    <2>4. customers'[k].status # "ACTIVE"
      BY <1>1, <2>1, <2>2, <2>3 DEF Exists
    <2>5. QED
      BY <1>0, <2>1, <2>4
  <1>5. QED
    BY <1>2, <1>3, <1>4 DEF WorkerGoesOn, WriteRenewal, WriteUnblock, Revoking

\* "Terminal revocation": when revoke returns the code is dead and the customer linked
\* to it is no longer ACTIVE, unless the code was written since revoke read it (revoke
\* of activation-codes.service.ts).
THEOREM RevocationsCutAccess == Spec => RevocationCutsAccess
  <1>1. TypeInv /\ ReadInv /\ [Next]_vars =>
           [\A w \in Workers : Revoking(w) /\ ~Revoking(w)' /\ WorkerGoesOn(w) =>
              LET code == codes'[adm[w].code] IN
              \/ /\ code.status = "REVOKED"
                 /\ code.customer # NULL => customers'[code.customer].status # "ACTIVE"
              \/ Overtaken]_vars
    BY RevocationEnds
  <1>2. QED
    BY <1>1, InitTyped, NextTyped, ReadInit, ReadNext, PTL DEF Spec, RevocationCutsAccess

-----------------------------------------------------------------------------
(* ImplementsSeats. *)

\* A customer has one device per phone: the unique key of the table.
OneDevicePerPhone ==
    \A d, e \in DeviceIds :
        /\ Exists(devices[d]) /\ Exists(devices[e])
        /\ devices[d].customer = devices[e].customer
        /\ devices[d].app = devices[e].app
        => d = e

\* A device is some phone.
DevicesArePhones == \A d \in DeviceIds : Exists(devices[d]) => devices[d].app \in Apps

PhoneInv == OneDevicePerPhone /\ DevicesArePhones

\* The steps that insert no device keep the devices there are what they were.
LEMMA DevicesPersist ==
    ASSUME TypeInv, [Next]_vars, \A r \in Requests : ~Commits(r),
           NEW d \in DeviceIds, Exists(devices'[d])
    PROVE  /\ Exists(devices[d])
           /\ devices'[d].customer = devices[d].customer
           /\ devices'[d].app = devices[d].app
  <1>1. /\ devices \in [DeviceIds -> DeviceRow] /\ \A e \in DeviceIds : devices[e] \in DeviceRow
    BY DEF TypeInv, TypeOK, StoreTypeOK
  <1>2. Exists(devices[d])
    BY OnlyCommitsInsert
  <1>3. CASE devices' = devices
    BY <1>2, <1>3
  <1>4. CASE PlanWrite \/ CodeWrite \/ CustomerWrite \/ SessionWrite
    <2>1. devices' = devices
      BY <1>4 DEF PlanWrite, CreatePlan, UpdatePlan, RemovePlan, OnlyPlans,
                  CodeWrite, CreateCode, UpdateLimit, WriteCodeStatus, OnlyCodes,
                  CustomerWrite, CreateCustomer, SuspendCustomer, ReactivateCustomer,
                  UpdateCustomer, WriteSuspension, WriteRenewal, ExpireOverdue, OnlyCustomers,
                  SessionWrite, RevokeSession, Logout
    <2>2. QED
      BY <1>3, <2>1
  <1>5. CASE DeviceWrite
    <2>1. devices' = devices
          \/ \E e \in DeviceIds : \E status : devices' = [devices EXCEPT ![e].status = status]
      BY <1>5 DEF DeviceWrite, RevokeDevice, BlockDevice, SetDeviceStatus, WriteUnblock,
                  TypeInv, WorkersKnow
    <2>2. ASSUME NEW e \in DeviceIds, NEW status,
                 devices' = [devices EXCEPT ![e].status = status]
          PROVE  devices'[d].customer = devices[d].customer /\ devices'[d].app = devices[d].app
      <3> DEFINE row == [devices[e] EXCEPT !.status = status]
      <3>1. row.customer = devices[e].customer /\ row.app = devices[e].app
        BY <1>1 DEF DeviceRow
      <3>2. devices' = [devices EXCEPT ![e] = row]
        BY <2>2
      <3> HIDE DEF row
      <3>3. QED
        BY <1>1, <3>1, <3>2
    <2>3. QED
      BY <1>2, <1>3, <2>1, <2>2
  <1>6. CASE \/ \E k \in CustomerIds : RemoveCustomer(k)
             \/ \E e \in DeviceIds : RemoveDevice(e)
    <2>1. PICK ds : DropDevices(ds)
      BY <1>6 DEF RemoveCustomer, DeleteCustomer, RemoveDevice, DeleteDevice
    <2> DEFINE gone == [NoDevice EXCEPT !.status = "gone"]
    <2>2. ~Exists(gone)
      BY DEF NoDevice, Exists
    <2>3. devices'[d] = gone \/ devices'[d] = devices[d]
      BY <2>1 DEF DropDevices
    <2> HIDE DEF gone
    <2>4. QED
      BY <2>2, <2>3
  <1>7. QED
    BY <1>3, <1>4, <1>5, <1>6, StepKinds DEF Quiet, TablesKept

\* Every step keeps the unique key, whether operations overlap or not: a commit is
\* refused when another has inserted the phone meanwhile.
LEMMA PhonesStayUnique ==
    ASSUME TypeInv, AnchorInv, PhoneInv, [Next]_vars
    PROVE  PhoneInv'
  <1>1. CASE \A r \in Requests : ~Commits(r)
    BY <1>1, DevicesPersist DEF PhoneInv, OneDevicePerPhone, DevicesArePhones
  <1>2. ASSUME NEW r \in Requests, Commits(r) PROVE PhoneInv'
    <2>1. /\ devices \in [DeviceIds -> DeviceRow] /\ req[r].app \in Apps
      BY <1>2 DEF TypeInv, TypeOK, StoreTypeOK, Commits, RequestsKnow
    <2>2. CASE req[r].device # NULL
      <3>1. devices' = devices
        BY <1>2, <2>2, CommitInserts
      <3>2. QED
        BY <3>1 DEF PhoneInv, OneDevicePerPhone, DevicesArePhones
    <2>3. CASE req[r].device = NULL
      <3> DEFINE d == PhoneOf(r)
                 k == HolderOf(r)
      <3>1. /\ d \in DeviceIds /\ devices[d].status = "free"
            /\ devices'[d].customer = k /\ devices'[d].app = req[r].app
            /\ \A e \in DeviceIds \ {d} : devices'[e] = devices[e]
        BY <1>2, <2>1, <2>3, CommitInserts
      <3>2. /\ k \in CustomerIds
            /\ req[r].customer = NULL => customers[k].status = "free"
            /\ req[r].customer # NULL => k = req[r].customer
        BY <1>2, CommitUpdates
      <3>3. req[r].customer # NULL => DevicesOf(req[r].customer, req[r].app) = {}
        BY <1>2, <2>3 DEF Commits, Accepted
      <3> HIDE DEF d, k
      <3>4. \A e \in DeviceIds : Exists(devices[e]) =>
               ~(devices[e].customer = k /\ devices[e].app = req[r].app)
        BY <3>2, <3>3, ActiveDevicesFinite DEF DevicesOf
      <3>5. QED
        BY <2>1, <3>1, <3>4 DEF PhoneInv, OneDevicePerPhone, DevicesArePhones
    <2>4. QED
      BY <2>2, <2>3
  <1>3. QED
    BY <1>1, <1>2

\* A phone that is there either has a seat or is set aside.
LEMMA PhoneStands ==
    ASSUME TypeInv, PhoneInv, NEW d \in DeviceIds, Exists(devices[d]),
           devices[d].customer \in CustomerIds
    PROVE  LET k == devices[d].customer
               p == devices[d].app
           IN
           IF devices[d].status = "ACTIVE" THEN p \in Seated[k] /\ p \notin SetAside[k]
           ELSE p \notin Seated[k] /\ p \in SetAside[k]
  <1>1. devices[d].status \in {"ACTIVE", "BLOCKED", "REVOKED"}
    BY DEF TypeInv, TypeOK, StoreTypeOK, DeviceRow, Exists
  <1>2. \A e \in DeviceIds :
           /\ devices[e].status \in {"ACTIVE", "BLOCKED", "REVOKED"}
           /\ devices[e].customer = devices[d].customer
           /\ devices[e].app = devices[d].app
           => e = d
    BY DEF PhoneInv, OneDevicePerPhone, Exists
  <1>3. QED
    BY <1>1, <1>2 DEF Seated, SetAside, PhonesOf

\* What becomes of the phones of a customer when the row of one device changes.
LEMMA PhonesMove ==
    ASSUME TypeInv, PhoneInv, NEW d \in DeviceIds, Exists(devices[d]), NEW row,
           Exists(row) => row.customer = devices[d].customer /\ row.app = devices[d].app,
           \A e \in DeviceIds : devices'[e] = IF e = d THEN row ELSE devices[e],
           NEW statuses \in SUBSET {"ACTIVE", "BLOCKED", "REVOKED"}, NEW i
    PROVE  PhonesOf(devices', i, statuses) =
              IF i # devices[d].customer THEN PhonesOf(devices, i, statuses)
              ELSE IF row.status \in statuses
                   THEN PhonesOf(devices, i, statuses) \cup {devices[d].app}
                   ELSE PhonesOf(devices, i, statuses) \ {devices[d].app}
  <1>1. \A e \in DeviceIds :
           /\ devices[e].status \in statuses
           /\ devices[e].customer = devices[d].customer
           /\ devices[e].app = devices[d].app
           => e = d
    BY DEF PhoneInv, OneDevicePerPhone, Exists
  <1>2. row.status \in statuses => Exists(row)
    BY DEF Exists
  <1>3. CASE i # devices[d].customer
    BY <1>2, <1>3 DEF PhonesOf
  <1>4. CASE i = devices[d].customer /\ row.status \in statuses
    BY <1>2, <1>4 DEF PhonesOf
  <1>5. CASE i = devices[d].customer /\ row.status \notin statuses
    BY <1>1, <1>2, <1>5 DEF PhonesOf
  <1>6. QED
    BY <1>3, <1>4, <1>5

\* When the row of a device changes its phone is put aside, let in or forgotten, or
\* nothing changes for the licence.
LEMMA DeviceMoves ==
    ASSUME TypeInv, AnchorInv, PhoneInv, codes' = codes,
           NEW d \in DeviceIds, Exists(devices[d]), NEW row,
           row.status \in {"gone", "ACTIVE", "BLOCKED", "REVOKED"},
           Exists(row) => row.customer = devices[d].customer /\ row.app = devices[d].app,
           \A e \in DeviceIds : devices'[e] = IF e = d THEN row ELSE devices[e]
    PROVE  [Seats!SeatNext]_(Seats!seatVars)
  <1>0. ASSUME NEW statuses \in SUBSET {"ACTIVE", "BLOCKED", "REVOKED"}, NEW i
        PROVE  PhonesOf(devices', i, statuses) =
                  IF i # devices[d].customer THEN PhonesOf(devices, i, statuses)
                  ELSE IF row.status \in statuses
                       THEN PhonesOf(devices, i, statuses) \cup {devices[d].app}
                  ELSE PhonesOf(devices, i, statuses) \ {devices[d].app}
    BY PhonesMove
  <1> DEFINE k == devices[d].customer
             p == devices[d].app
  <1>1. /\ k \in CustomerIds /\ p \in Apps
        /\ devices[d].status \in {"ACTIVE", "BLOCKED", "REVOKED"}
    BY DEF AnchorInv, DevicesAnchored, PhoneInv, DevicesArePhones, TypeInv, TypeOK,
           StoreTypeOK, DeviceRow, Exists
  <1>2. IF devices[d].status = "ACTIVE" THEN p \in Seated[k] /\ p \notin SetAside[k]
        ELSE p \notin Seated[k] /\ p \in SetAside[k]
    BY <1>1, PhoneStands
  <1>3. UNCHANGED <<SeatLimit, Owner>>
    BY DEF SeatLimit, Owner, OwnerOf
  <1> HIDE DEF k, p
  <1>5. Seated' = [Seated EXCEPT ![k] = IF row.status = "ACTIVE" THEN @ \cup {p} ELSE @ \ {p}]
    <2>1. \A i \in CustomerIds : PhonesOf(devices', i, {"ACTIVE"}) =
             IF i # k THEN PhonesOf(devices, i, {"ACTIVE"})
             ELSE IF row.status = "ACTIVE" THEN PhonesOf(devices, i, {"ACTIVE"}) \cup {p}
             ELSE PhonesOf(devices, i, {"ACTIVE"}) \ {p}
      BY <1>0 DEF k, p
    <2>2. QED
      BY <2>1 DEF Seated
  <1>6. SetAside' = [SetAside EXCEPT ![k] = IF row.status \in {"BLOCKED", "REVOKED"}
                                            THEN @ \cup {p} ELSE @ \ {p}]
    <2>1. \A i \in CustomerIds : PhonesOf(devices', i, {"BLOCKED", "REVOKED"}) =
             IF i # k THEN PhonesOf(devices, i, {"BLOCKED", "REVOKED"})
             ELSE IF row.status \in {"BLOCKED", "REVOKED"}
                  THEN PhonesOf(devices, i, {"BLOCKED", "REVOKED"}) \cup {p}
             ELSE PhonesOf(devices, i, {"BLOCKED", "REVOKED"}) \ {p}
      BY <1>0 DEF k, p
    <2>2. QED
      BY <2>1 DEF SetAside
  <1>7. Seated = [i \in CustomerIds |-> Seated[i]]
    BY DEF Seated
  <1>8. SetAside = [i \in CustomerIds |-> SetAside[i]]
    BY DEF SetAside
  <1>9. CASE row.status = "gone"
    <2>1. Seats!Forget(k, p)
      BY <1>2, <1>3, <1>5, <1>6, <1>9 DEF Seats!Forget, k
    <2>2. QED
      BY <1>1, <2>1 DEF Seats!SeatNext
  <1>10. CASE row.status = "ACTIVE"
    <2>1. CASE p \in Seated[k]
      <3>1. UNCHANGED <<Seated, SetAside>>
        BY <1>2, <1>5, <1>6, <1>7, <1>8, <1>10, <2>1
      <3>2. QED
        BY <1>3, <3>1 DEF Seats!seatVars
    <2>2. CASE p \notin Seated[k]
      <3>1. Seats!LetIn(k, p)
        BY <1>2, <1>3, <1>5, <1>6, <1>10, <2>2 DEF Seats!LetIn
      <3>2. QED
        BY <1>1, <3>1 DEF Seats!SeatNext
    <2>3. QED
      BY <2>1, <2>2
  <1>11. CASE row.status \in {"BLOCKED", "REVOKED"}
    <2>1. CASE p \in SetAside[k]
      <3>1. UNCHANGED <<Seated, SetAside>>
        BY <1>2, <1>5, <1>6, <1>7, <1>8, <1>11, <2>1
      <3>2. QED
        BY <1>3, <3>1 DEF Seats!seatVars
    <2>2. CASE p \notin SetAside[k]
      <3>1. Seats!PutAside(k, p)
        BY <1>2, <1>3, <1>5, <1>6, <1>11, <2>2 DEF Seats!PutAside
      <3>2. QED
        BY <1>1, <3>1 DEF Seats!SeatNext
    <2>3. QED
      BY <2>1, <2>2
  <1>12. QED
    BY <1>9, <1>10, <1>11

\* The writes of the devices service.
LEMMA DeviceWritesMove ==
    ASSUME TypeInv, AnchorInv, PhoneInv, DeviceWrite \/ \E d \in DeviceIds : RemoveDevice(d)
    PROVE  [Seats!SeatNext]_(Seats!seatVars)
  <1>1. /\ devices \in [DeviceIds -> DeviceRow] /\ \A d \in DeviceIds : devices[d] \in DeviceRow
        /\ WorkersKnow
    BY DEF TypeInv, TypeOK, StoreTypeOK
  <1>2. codes' = codes
    BY DEF DeviceWrite, RevokeDevice, BlockDevice, SetDeviceStatus, WriteUnblock, OnlyDevices,
           RemoveDevice
  <1>3. ASSUME NEW d \in DeviceIds, Exists(devices[d]),
               NEW status \in {"ACTIVE", "BLOCKED", "REVOKED"},
               devices' = [devices EXCEPT ![d].status = status]
        PROVE  [Seats!SeatNext]_(Seats!seatVars)
    <2> DEFINE row == [devices[d] EXCEPT !.status = status]
    <2>1. /\ row.status = status /\ row.customer = devices[d].customer
          /\ row.app = devices[d].app
      BY <1>1 DEF DeviceRow
    <2>2. devices' = [devices EXCEPT ![d] = row]
      BY <1>3
    <2> HIDE DEF row
    <2>3. \A e \in DeviceIds : devices'[e] = IF e = d THEN row ELSE devices[e]
      BY <1>1, <2>2
    <2>4. QED
      BY <1>2, <1>3, <2>1, <2>3, DeviceMoves
  <1>4. ASSUME NEW d \in DeviceIds, RemoveDevice(d) PROVE [Seats!SeatNext]_(Seats!seatVars)
    <2> DEFINE row == [NoDevice EXCEPT !.status = "gone"]
    <2>1. row.status = "gone" /\ ~Exists(row)
      BY DEF NoDevice, Exists
    <2>2. /\ Exists(devices[d])
          /\ \A e \in DeviceIds : devices'[e] = IF e = d THEN row ELSE devices[e]
      BY <1>4 DEF RemoveDevice, DeleteDevice, DropDevices
    <2> HIDE DEF row
    <2>3. QED
      BY <1>2, <2>1, <2>2, DeviceMoves
  <1>5. ASSUME NEW d \in DeviceIds, NEW status \in {"BLOCKED", "REVOKED"},
               SetDeviceStatus(d, status)
        PROVE  [Seats!SeatNext]_(Seats!seatVars)
    BY <1>3, <1>5 DEF SetDeviceStatus
  <1>6. ASSUME NEW w \in Workers, WriteUnblock(w) PROVE [Seats!SeatNext]_(Seats!seatVars)
    <2>1. CASE Exists(devices[adm[w].device])
      BY <1>1, <1>3, <1>6, <2>1 DEF WriteUnblock, WorkersKnow
    <2>2. CASE ~Exists(devices[adm[w].device])
      <3>1. devices' = devices
        BY <1>6, <2>2 DEF WriteUnblock
      <3>2. QED
        BY <1>2, <3>1
        DEF Seats!seatVars, SeatLimit, Owner, OwnerOf, Seated, SetAside, PhonesOf
    <2>3. QED
      BY <2>1, <2>2
  <1>7. QED
    BY <1>4, <1>5, <1>6 DEF DeviceWrite, RevokeDevice, BlockDevice

\* The writes of the codes service: a code is issued, or given another limit.
LEMMA CodeWritesMove ==
    ASSUME TypeInv, RowsFit, CodeWrite
    PROVE  [Seats!SeatNext]_(Seats!seatVars)
  <1> USE StoreAssumption, AdminAssumption
  <1>1. /\ codes \in [Codes -> CodeRow] /\ \A c \in Codes : codes[c] \in CodeRow
        /\ WorkersKnow /\ CopiesHold
    BY DEF TypeInv, TypeOK, StoreTypeOK
  <1>2. devices' = devices
    BY DEF CodeWrite, CreateCode, UpdateLimit, WriteCodeStatus, OnlyCodes
  <1>3. UNCHANGED <<Seated, SetAside>>
    BY <1>2 DEF Seated, SetAside, PhonesOf
  <1>4. ASSUME NEW c \in Codes, NEW row, codes' = [codes EXCEPT ![c] = row]
        PROVE  /\ SeatLimit' = [SeatLimit EXCEPT ![c] = row.deviceLimit]
               /\ Owner' = [Owner EXCEPT ![c] = OwnerOf(row)]
    <2>1. \A i \in Codes : codes'[i] = IF i = c THEN row ELSE codes[i]
      BY <1>1, <1>4
    <2>2. QED
      BY <2>1 DEF SeatLimit, Owner
  <1>5. ASSUME NEW c \in Codes, NEW p \in Plans, NEW n \in Limits, NEW e \in CodeExpiries,
               NEW k \in Owners[c], CreateCode(c, p, k, n, e)
        PROVE  Seats!SeatNext
    <2> DEFINE row == [NoCode EXCEPT !.status = "PENDING", !.plan = p, !.customer = k,
                                     !.deviceLimit = n, !.expiresAt = e]
               h == IF k = NULL THEN Nobody ELSE k
    <2>1. /\ row.deviceLimit = n /\ OwnerOf(row) = h
          /\ h \in CustomerIds \cup {Nobody} /\ n > 0
      BY DEF NoCode, OwnerOf
    <2>2. codes' = [codes EXCEPT ![c] = row] /\ codes[c].status = "free"
      BY <1>5 DEF CreateCode
    <2>3. SeatLimit[c] = 0
      BY <2>2 DEF SeatLimit, RowsFit, CodesHaveSeats
    <2> HIDE DEF row, h
    <2>4. Seats!Issue(c, n, h)
      BY <1>3, <1>4, <2>1, <2>2, <2>3 DEF Seats!Issue
    <2>5. QED
      BY <2>1, <2>4 DEF Seats!SeatNext
  <1>6. ASSUME NEW c \in Codes, NEW row, codes' = [codes EXCEPT ![c] = row],
               codes[c].status # "free", row.deviceLimit \in Limits \cup {codes[c].deviceLimit},
               row.customer = codes[c].customer, row.activated <=> codes[c].activated
        PROVE  [Seats!SeatNext]_(Seats!seatVars)
    <2>1. OwnerOf(row) = OwnerOf(codes[c])
      BY <1>6 DEF OwnerOf
    <2>2. Owner' = Owner
      BY <1>4, <1>6, <2>1 DEF Owner
    <2>3. CASE row.deviceLimit = codes[c].deviceLimit
      <3>1. SeatLimit' = SeatLimit
        BY <1>4, <1>6, <2>3 DEF SeatLimit
      <3>2. QED
        BY <1>3, <2>2, <3>1 DEF Seats!seatVars
    <2>4. CASE row.deviceLimit \in Limits
      <3>1. codes[c].deviceLimit \in Nat \ {0} /\ row.deviceLimit \in Nat \ {0}
        BY <1>1, <1>6, <2>4 DEF RowsFit, CodesHaveSeats, CodeRow
      <3>2. SeatLimit[c] > 0 /\ row.deviceLimit > 0
        BY <3>1 DEF SeatLimit
      <3>3. Seats!Relimit(c, row.deviceLimit)
        BY <1>3, <1>4, <1>6, <2>2, <3>2 DEF Seats!Relimit
      <3>4. QED
        BY <2>4, <3>3 DEF Seats!SeatNext
    <2>5. QED
      BY <1>6, <2>3, <2>4
  <1>7. ASSUME NEW c \in Codes, NEW n \in Limits, UpdateLimit(c, n)
        PROVE  [Seats!SeatNext]_(Seats!seatVars)
    <2> DEFINE row == [codes[c] EXCEPT !.deviceLimit = n]
    <2>1. row.deviceLimit = n /\ row.customer = codes[c].customer
      BY <1>1 DEF CodeRow
    <2>2. row.activated <=> codes[c].activated
      BY <1>1 DEF CodeRow
    <2>3. codes' = [codes EXCEPT ![c] = row] /\ codes[c].status # "free"
      BY <1>7 DEF UpdateLimit
    <2> HIDE DEF row
    <2>4. QED
      BY <1>6, <2>1, <2>2, <2>3
  <1>8. ASSUME NEW w \in Workers, WriteCodeStatus(w) PROVE [Seats!SeatNext]_(Seats!seatVars)
    <2> DEFINE c == adm[w].code
               row == [codes[c] EXCEPT !.status = adm[w].status]
    <2>1. c \in Codes /\ codes[c].status # "free"
      BY <1>1, <1>8 DEF WriteCodeStatus, WorkersKnow, CopiesHold
    <2>2. row.deviceLimit = codes[c].deviceLimit /\ row.customer = codes[c].customer
      BY <1>1, <2>1 DEF CodeRow
    <2>3. row.activated <=> codes[c].activated
      BY <1>1, <2>1 DEF CodeRow
    <2>4. codes' = [codes EXCEPT ![c] = row]
      BY <1>8 DEF WriteCodeStatus
    <2> HIDE DEF row, c
    <2>5. QED
      BY <1>6, <2>1, <2>2, <2>3, <2>4
  <1>9. QED
    BY <1>5, <1>7, <1>8 DEF CodeWrite

\* A customer is deleted with its devices, and its codes are anybody's or nobody's.
LEMMA CustomersDepart ==
    ASSUME TypeInv, NEW k \in CustomerIds, RemoveCustomer(k)
    PROVE  Seats!SeatNext
  <1> USE StoreAssumption, OwnersAssumption
  <1> DEFINE unlinked(c) == [codes[c] EXCEPT !.customer = NULL]
             gone == [NoDevice EXCEPT !.status = "gone"]
             lost == [c \in Codes |-> IF codes[c].activated THEN Orphan ELSE Nobody]
  <1>1. /\ \A c \in Codes : codes[c] \in CodeRow
        /\ NULL \notin CustomerIds /\ Nobody \notin CustomerIds /\ Orphan \notin CustomerIds
    BY DEF TypeInv, TypeOK, StoreTypeOK
  <1>2. \A c \in Codes : /\ unlinked(c).deviceLimit = codes[c].deviceLimit
                         /\ unlinked(c).customer = NULL
    BY <1>1 DEF CodeRow
  <1>3. \A c \in Codes : unlinked(c).activated <=> codes[c].activated
    BY <1>1 DEF CodeRow
  <1>4. /\ gone.status = "gone"
        /\ \A c \in Codes : codes'[c] = IF codes[c].customer = k THEN unlinked(c) ELSE codes[c]
        /\ \A d \in DeviceIds : devices'[d] =
              IF Exists(devices[d]) /\ devices[d].customer = k THEN gone ELSE devices[d]
    BY DEF RemoveCustomer, DeleteCustomer, DropDevices, NoDevice
  <1> HIDE DEF unlinked, gone
  <1>5. SeatLimit' = SeatLimit
    BY <1>2, <1>4 DEF SeatLimit
  <1>6. \A i \in CustomerIds, statuses \in SUBSET {"ACTIVE", "BLOCKED", "REVOKED"} :
           PhonesOf(devices', i, statuses) = IF i = k THEN {} ELSE PhonesOf(devices, i, statuses)
    BY <1>4 DEF PhonesOf, Exists
  <1>7. /\ Seated' = [Seated EXCEPT ![k] = {}]
        /\ SetAside' = [SetAside EXCEPT ![k] = {}]
    BY <1>6 DEF Seated, SetAside
  <1>8. \A c \in Codes : OwnerOf(codes'[c]) =
           IF OwnerOf(codes[c]) = k THEN lost[c] ELSE OwnerOf(codes[c])
    BY <1>1, <1>2, <1>3, <1>4 DEF OwnerOf
  <1>9. Owner' = [c \in Codes |-> IF Owner[c] = k THEN lost[c] ELSE Owner[c]]
    BY <1>8 DEF Owner
  <1>10. lost \in [Codes -> {Nobody, Orphan}]
    OBVIOUS
  <1> HIDE DEF lost
  <1>11. Seats!Depart(k)
    BY <1>5, <1>7, <1>9, <1>10 DEF Seats!Depart
  <1>12. QED
    BY <1>11 DEF Seats!SeatNext

\* The instance counts as its module does.
LEMMA SameCount == ASSUME NEW S PROVE Seats!Cardinality(S) = Cardinality(S)
  BY DEF Seats!Cardinality, Cardinality

\* The phones with a seat are at most as many as the active devices.
LEMMA PhonesAreDevices ==
    ASSUME NEW k \in CustomerIds, NEW n \in Nat, Cardinality(ActiveDevices(k)) < n
    PROVE  Cardinality(Seated[k]) < n
  <1> DEFINE app == [d \in ActiveDevices(k) |-> devices[d].app]
  <1>1. IsFiniteSet(ActiveDevices(k)) /\ Cardinality(ActiveDevices(k)) \in Nat
    BY ActiveDevicesFinite
  <1>2. Seated[k] = {devices[d].app : d \in ActiveDevices(k)}
    BY DEF Seated, PhonesOf, ActiveDevices
  <1>3. app \in Surjection(ActiveDevices(k), Seated[k])
    BY <1>2 DEF Surjection
  <1>4. /\ IsFiniteSet(Seated[k])
        /\ Cardinality(Seated[k]) <= Cardinality(ActiveDevices(k))
    BY <1>1, <1>3, FS_Surjection
  <1>5. Cardinality(Seated[k]) \in Nat
    BY <1>4, FS_CardinalityType
  <1>6. QED
    BY <1>1, <1>4, <1>5

\* A commit inserts nothing but a session, or seats a phone of the code's customer, of
\* its first customer, or of a new customer when the first one is gone.
LEMMA CommitsTakeSeats ==
    ASSUME TypeInv, AnchorInv, PhoneInv, RowsFit, ReadInv, ~Overtaken,
           NEW r \in Requests, Commits(r)
    PROVE  [Seats!SeatNext]_(Seats!seatVars)
  <1> USE StoreAssumption, OwnersAssumption
  <1> DEFINE c == req[r].code
             h == HolderOf(r)
             p == req[r].app
  <1>1. /\ c \in Codes /\ p \in Apps /\ codes[c].status # "free"
        /\ codes \in [Codes -> CodeRow] /\ codes[c] \in CodeRow
        /\ devices \in [DeviceIds -> DeviceRow]
        /\ NULL \notin CustomerIds /\ Nobody \notin CustomerIds /\ Orphan \notin CustomerIds
    BY DEF Commits, TypeInv, TypeOK, StoreTypeOK, RequestsKnow, CopiesHold
  <1>2. /\ req[r].customer = codes[c].customer /\ req[r].limit = codes[c].deviceLimit
        /\ req[r].device = NULL => SeatFree(r)
    BY CommitFinds DEF SeatFree
  <1>3. req[r].first <=> ~codes[c].activated
    BY CommitFinds
  <1>4. /\ h \in CustomerIds
        /\ IF req[r].customer = NULL THEN customers[h].status = "free" ELSE h = req[r].customer
        /\ \E code \in CodeRow :
              /\ code.customer = h /\ code.deviceLimit = codes[c].deviceLimit
              /\ codes' = IF req[r].first THEN [codes EXCEPT ![c] = code] ELSE codes
    BY CommitUpdates
  <1>5. SeatLimit' = SeatLimit
    BY <1>1, <1>4 DEF SeatLimit
  <1>6. Owner' = IF req[r].first THEN [Owner EXCEPT ![c] = h] ELSE Owner
    <2>1. CASE req[r].first
      <3>1. \A i \in Codes : OwnerOf(codes'[i]) = IF i = c THEN h ELSE OwnerOf(codes[i])
        BY <1>1, <1>4, <2>1 DEF OwnerOf
      <3>2. QED
        BY <2>1, <3>1 DEF Owner
    <2>2. CASE ~req[r].first
      BY <1>4, <2>2 DEF Owner
    <2>3. QED
      BY <2>1, <2>2
  <1>7. Owner[c] = IF req[r].customer # NULL THEN h ELSE IF req[r].first THEN Nobody ELSE Orphan
    BY <1>1, <1>2, <1>3, <1>4 DEF Owner, OwnerOf
  <1>8. Owner = [i \in Codes |-> Owner[i]]
    BY DEF Owner
  <1> HIDE DEF c, h, p
  <1>9. CASE req[r].device # NULL
    <2>1. req[r].customer # NULL
      BY <1>9 DEF Commits, AnchorInv, ChoiceHolds
    <2>2. Owner' = Owner
      BY <1>1, <1>6, <1>7, <1>8, <2>1
    <2>3. devices' = devices
      BY <1>9, CommitInserts
    <2>4. QED
      BY <1>5, <2>2, <2>3 DEF Seats!seatVars, Seated, SetAside, PhonesOf
  <1>10. CASE req[r].device = NULL
    <2> DEFINE d == PhoneOf(r)
    <2>1. /\ d \in DeviceIds /\ devices[d].status = "free"
          /\ devices'[d].status = "ACTIVE" /\ devices'[d].customer = h /\ devices'[d].app = p
          /\ \A e \in DeviceIds \ {d} : devices'[e] = devices[e]
      BY <1>1, <1>10, CommitInserts DEF h, p
    <2> HIDE DEF d
    <2>2. Seated' = [Seated EXCEPT ![h] = @ \cup {p}]
      <3>1. \A k \in CustomerIds : PhonesOf(devices', k, {"ACTIVE"}) =
               IF k = h THEN PhonesOf(devices, k, {"ACTIVE"}) \cup {p}
               ELSE PhonesOf(devices, k, {"ACTIVE"})
        BY <2>1 DEF PhonesOf
      <3>2. QED
        BY <3>1 DEF Seated
    <2>3. SetAside' = SetAside
      <3>1. \A k \in CustomerIds : PhonesOf(devices', k, {"BLOCKED", "REVOKED"}) =
                                   PhonesOf(devices, k, {"BLOCKED", "REVOKED"})
        BY <2>1 DEF PhonesOf
      <3>2. QED
        BY <3>1 DEF SetAside
    <2>4. req[r].customer = NULL => \A e \in DeviceIds : Exists(devices[e]) => devices[e].customer # h
      BY <1>4, ActiveDevicesFinite
    <2>5. p \notin Seated[h] \cup SetAside[h]
      <3>1. req[r].customer # NULL => DevicesOf(h, p) = {}
        BY <1>4, <1>10 DEF Commits, Accepted, p
      <3>2. QED
        BY <1>4, <2>4, <3>1 DEF Seated, SetAside, PhonesOf, DevicesOf, Exists
    <2>6. Cardinality(Seated[h]) < SeatLimit[c]
      <3>1. codes[c].deviceLimit \in Nat \ {0}
        BY <1>1 DEF RowsFit, CodesHaveSeats, CodeRow
      <3>2. Cardinality(ActiveDevices(h)) < codes[c].deviceLimit
        <4>1. CASE req[r].customer = NULL
          <5>1. ActiveDevices(h) = {}
            BY <2>4, <4>1 DEF ActiveDevices, Exists
          <5>2. QED
            BY <3>1, <5>1, FS_EmptySet
        <4>2. CASE req[r].customer # NULL
          BY <1>2, <1>4, <1>10, <4>2 DEF SeatFree
        <4>3. QED
          BY <4>1, <4>2
      <3>3. SeatLimit[c] = codes[c].deviceLimit
        BY <1>1 DEF SeatLimit
      <3>4. QED
        BY <1>4, <3>1, <3>2, <3>3, PhonesAreDevices
    <2>7. CASE req[r].customer # NULL
      <3>1. Owner[c] = h /\ Owner' = Owner
        BY <1>1, <1>6, <1>7, <1>8, <2>7
      <3>2. Seats!Take(c, h, p)
        BY <1>5, <2>2, <2>3, <2>5, <2>6, <3>1, SameCount DEF Seats!Take
      <3>3. QED
        BY <1>1, <1>4, <3>2 DEF Seats!SeatNext
    <2>8. CASE req[r].customer = NULL
      <3>1. \A i \in Codes : Owner[i] # h
        BY <1>1, <1>4, <2>8 DEF Owner, OwnerOf, RowsFit, LinksHold, Exists
      <3>2. Seated[h] = {} /\ SetAside[h] = {}
        BY <1>4, <2>4, <2>8 DEF Seated, SetAside, PhonesOf, Exists
      <3>3. Seats!NewHolder(h)
        BY <3>1, <3>2 DEF Seats!NewHolder
      <3>4. \/ Owner[c] = Nobody /\ Owner' = [Owner EXCEPT ![c] = h]
            \/ Owner[c] = Orphan /\ UNCHANGED Owner
        BY <1>6, <1>7, <2>8
      <3>5. Seats!Take(c, h, p)
        BY <1>5, <2>2, <2>3, <2>5, <2>6, <3>3, <3>4, SameCount DEF Seats!Take
      <3>6. QED
        BY <1>1, <1>4, <3>5 DEF Seats!SeatNext
    <2>9. QED
      BY <2>7, <2>8
  <1>11. QED
    BY <1>9, <1>10

\* Every step is a step of the licence or changes nothing it knows, unless its handler
\* was overtaken.
LEMMA StepsAreSeatSteps ==
    ASSUME TypeInv, AnchorInv, PhoneInv, RowsFit, ReadInv, [Next]_vars, ~Overtaken
    PROVE  [Seats!SeatNext]_(Seats!seatVars)
  <1>1. CASE UNCHANGED <<codes, devices>>
    BY <1>1 DEF Seats!seatVars, SeatLimit, Owner, OwnerOf, Seated, SetAside, PhonesOf
  <1>2. CASE PlanWrite \/ CustomerWrite \/ SessionWrite
    <2>1. UNCHANGED <<codes, devices>>
      BY <1>2 DEF PlanWrite, CreatePlan, UpdatePlan, RemovePlan, OnlyPlans,
                  CustomerWrite, CreateCustomer, SuspendCustomer, ReactivateCustomer,
                  UpdateCustomer, WriteSuspension, WriteRenewal, ExpireOverdue, OnlyCustomers,
                  SessionWrite, RevokeSession, Logout
    <2>2. QED
      BY <1>1, <2>1
  <1>3. CASE Quiet
    BY <1>1, <1>3 DEF Quiet, TablesKept
  <1>4. QED
    BY <1>2, <1>3, StepKinds, CodeWritesMove, DeviceWritesMove, CustomersDepart,
       CommitsTakeSeats

\* Nobody has a phone at the start.
LEMMA PhonesInit == Init => PhoneInv
  BY DEF Init, StoreInit, NoDevice, PhoneInv, OneDevicePerPhone, DevicesArePhones, Exists

\* However operations overlap and whenever the server restarts, phones take and leave
\* the seats of a code as SeatLicence says, and a code is bound to the customer of its
\* first use, but for the steps of handlers that were overtaken (performActivation; the
\* devices, codes and customers services).
THEOREM SeatsAreImplemented == Spec => ImplementsSeats
  <1>1. Init => Seats!SeatInit
    BY InitTyped DEF Init, StoreInit, Seats!SeatInit, SeatLimit, Owner, OwnerOf, Seated,
          SetAside, PhonesOf, NoCode, NoDevice
  <1>2. TypeInv /\ AnchorInv /\ PhoneInv /\ [Next]_vars => PhoneInv'
    BY PhonesStayUnique
  <1>3. TypeInv /\ RowsFit /\ [Next]_vars => RowsFit'
    BY RowsStayFit
  <1>4. TypeInv /\ AnchorInv /\ PhoneInv /\ RowsFit /\ ReadInv /\ [Next]_vars =>
           [[Seats!SeatNext]_(Seats!seatVars) \/ Overtaken]_vars
    BY StepsAreSeatSteps
  <1>5. QED
    BY <1>1, <1>2, <1>3, <1>4, PhonesInit, RowsInit, InitTyped, NextTyped, AnchorInit,
       StaysAnchored, ReadInit, ReadNext, PTL DEF Spec, ImplementsSeats
=============================================================================
