------------------------------ MODULE Licensing ------------------------------
(***************************************************************************)
(* The licence system as a whole: activations (Activation) and the admin   *)
(* side (AdminOps) interleaved over the same tables (LicenseStore), with   *)
(* the passing of time and restarts of the server.                         *)
(***************************************************************************)
EXTENDS AdminOps

CONSTANTS
    MaxInFlight,   \* operations between their first and last step at once
    MayCrash       \* whether the server may restart

ASSUME LicensingAssumption ==
    /\ MaxInFlight \in Nat \ {0}
    /\ MayCrash \in BOOLEAN

vars == <<store, req, held, adm>>

InFlight ==
    {r \in Requests : req[r].pc # "idle"} \cup {w \in Workers : adm[w].op # "none"}

\* With MaxInFlight = 1 every operation runs alone, from its first step to its last.
MayStart == Cardinality(InFlight) < MaxInFlight

Init == StoreInit /\ ReqInit /\ AdmInit

\* A transaction lives 10 s: it can straddle one instant of the clock, not two.
Tick ==
    /\ now < MaxTime
    /\ \A r \in Requests : req[r].pc \in {"locked", "decided"} => req[r].at = now
    /\ now' = now + 1
    /\ UNCHANGED <<plans, codes, customers, devices, sessions, codeLock, customerLock,
                   req, held, adm>>

\* The process restarts: handlers are lost, open transactions roll back.
Crash ==
    /\ MayCrash
    /\ InFlight # {}
    /\ req' = [r \in Requests |-> Idle]
    /\ held' = [r \in Requests |-> FALSE]
    /\ adm' = [w \in Workers |-> NoPending]
    /\ codeLock' = [c \in Codes |-> NULL]
    /\ customerLock' = [k \in CustomerIds |-> NULL]
    /\ UNCHANGED <<now, plans, codes, customers, devices, sessions>>

\* Steps of an operation that has started.
RequestGoesOn(r) ==
    \/ ReadPlan(r)
    \/ TxCustomer(r)
    \/ TxDevice(r)
    \/ HoldRows(r)
    \/ Commit(r)
    \/ DeadlockVictim(r)
    \/ Abort(r)

WorkerGoesOn(w) ==
    \/ WriteCodeStatus(w)
    \/ CutAccess(w)
    \/ WriteSuspension(w)
    \/ WriteRenewal(w)
    \/ WriteUnblock(w)

WorkerStarts(w) ==
    \/ \E c \in Codes : SuspendCode(w, c) \/ ReactivateCode(w, c) \/ RevokeCode(w, c)
    \/ \E k \in CustomerIds, p \in Plans : RenewCustomer(w, k, p)
    \/ \E d \in DeviceIds : UnblockDevice(w, d)

AtOnce ==
    \/ \E p \in Plans, n \in PlanDays, status \in {"active", "inactive"} :
          CreatePlan(p, status, n) \/ UpdatePlan(p, status, n)
    \/ \E p \in Plans : RemovePlan(p)
    \/ \E c \in Codes, p \in Plans, limit \in Limits, e \in CodeExpiries :
          \E k \in Owners[c] : CreateCode(c, p, k, limit, e)
    \/ \E c \in Codes, limit \in Limits : UpdateLimit(c, limit)
    \/ \E p \in Plans \cup {NULL} : CreateCustomer(p)
    \/ \E k \in CustomerIds :
          \/ SuspendCustomer(k)
          \/ ReactivateCustomer(k)
          \/ RemoveCustomer(k)
          \/ \E p \in Plans : UpdateCustomer(k, p)
    \/ ExpireOverdue
    \/ \E d \in DeviceIds : RevokeDevice(d) \/ BlockDevice(d) \/ RemoveDevice(d)
    \/ \E s \in SessionIds : RevokeSession(s)

RequestStep ==
    \/ MayStart /\ \E r \in Requests, a \in Apps, c \in Codes : Resolve(r, a, c)
    \/ \E r \in Requests : RequestGoesOn(r)
    \/ MayStart /\ \E s \in SessionIds : Logout(s)

AdminStep ==
    \/ MayStart /\ \E w \in Workers : WorkerStarts(w)
    \/ \E w \in Workers : WorkerGoesOn(w)
    \/ MayStart /\ AtOnce

Next ==
    \/ RequestStep /\ UNCHANGED adm
    \/ AdminStep /\ UNCHANGED <<req, held>>
    \/ Tick
    \/ Crash

Spec == Init /\ [][Next]_vars

\* An event loop runs every awaited continuation, and PostgreSQL serves the
\* waiters of a lock in order and breaks deadlocks (deadlock_timeout, 1 s): a step
\* that keeps becoming possible is taken.
\* Nothing is assumed of the clock, of Abort, or of anyone starting anything.
RequestAdvances(r) ==
    /\ \/ ReadPlan(r) \/ TxCustomer(r) \/ TxDevice(r) \/ HoldRows(r) \/ Commit(r)
       \/ DeadlockVictim(r)
    /\ UNCHANGED adm

WorkerAdvances(w) == WorkerGoesOn(w) /\ UNCHANGED <<req, held>>

CronRuns == MayStart /\ ExpireOverdue /\ UNCHANGED <<req, held>>

FairSpec ==
    /\ Spec
    /\ \A r \in Requests : SF_vars(RequestAdvances(r))
    /\ \A w \in Workers : SF_vars(WorkerAdvances(w))
    /\ SF_vars(CronRuns)

-----------------------------------------------------------------------------
(* Properties. *)

\* Every table, lock and handler holds values of its type.
TypeOK == StoreTypeOK /\ ReqTypeOK /\ AdmTypeOK

\* Whatever is deleted while an activation is in flight, a session always has
\* its device and its customer, and they belong together (the cascades of the
\* schema against the writes of performActivation).
SessionAnchored ==
    \A s \in SessionIds : Exists(sessions[s]) =>
        LET d == sessions[s].device
            k == sessions[s].customer
        IN /\ d \in DeviceIds /\ Exists(devices[d])
           /\ k \in CustomerIds /\ Exists(customers[k])
           /\ devices[d].customer = k

\* A customer is marked EXPIRED only when the time paid for is over: the hourly
\* job never overtakes a renewal or an activation (expireOverdue, renew,
\* performActivation).
ExpiredIsOverdue ==
    \A k \in CustomerIds : customers[k].status = "EXPIRED" =>
        customers[k].expiresAt # NULL /\ customers[k].expiresAt < now

\* The devices that hold a seat of code c.
SeatsOf(c) == {d \in DeviceIds : devices[d].status = "ACTIVE" /\ devices[d].code = c}

\* "Two devices activating at once cannot exceed the limit": a code never has
\* more active devices than its deviceLimit (performActivation).
NoOverselling == \A c \in Codes : Cardinality(SeatsOf(c)) <= codes[c].deviceLimit

\* A customer linked to a code never has more active devices than the code
\* allows, however activations, removals and restarts interleave
\* (performActivation; docs: the limit counts only ACTIVE devices).
CustomerFitsLimit ==
    \A c \in Codes : codes[c].customer # NULL =>
        Cardinality(ActiveDevices(codes[c].customer)) <= codes[c].deviceLimit

\* "Revoca (el slot sigue ocupado)": the seat of a revoked device is not given to
\* another phone (the summary of the revoke route in devices.controller.ts).
RevokedKeepsSlot ==
    \A c \in Codes : codes[c].customer # NULL =>
        Cardinality({d \in DeviceIds : /\ devices[d].status \in {"ACTIVE", "REVOKED"}
                                       /\ devices[d].customer = codes[c].customer})
           <= codes[c].deviceLimit

\* No code or customer is left pointing at a plan that is not there, although
\* activations and renewals hold plan ids while plans are removed (remove of
\* plans.service.ts, onDelete: Restrict).
PlanIsKept ==
    /\ \A c \in Codes : codes[c].plan # NULL => Exists(plans[codes[c].plan])
    /\ \A k \in CustomerIds : customers[k].plan # NULL => Exists(plans[customers[k].plan])

\* What activation r has read of its code, its customer and the customer's devices
\* is no longer so.
RequestOvertaken(r) ==
    LET code == codes[req[r].code]
        k    == req[r].customer
    IN
    \/ <<code.status, code.customer, code.deviceLimit, code.activated>>
          # <<req[r].status, k, req[r].limit, ~req[r].first>>
    \/ /\ k # NULL /\ req[r].pc = "decided"
       /\ \/ customers[k].status # req[r].payer
          \/ ~req[r].first /\ customers[k].expiresAt # req[r].until
          \/ req[r].device = NULL /\ Cardinality(ActiveDevices(k)) # req[r].taken

\* The same of method w, its code and its customer.
WorkerOvertaken(w) ==
    \/ /\ adm[w].op \in {"code", "cutAccess", "suspend"}
       /\ LET code == codes[adm[w].code] IN
             <<code.status, code.customer, code.activated>>
                # <<adm[w].was, adm[w].customer, adm[w].used>>
    \/ adm[w].op = "renew" /\ customers[adm[w].customer].expiresAt # adm[w].paid

\* This step is taken by a handler that was overtaken: since it read them, somebody
\* else has written the rows it relies on.  No row is read FOR UPDATE and no update
\* repeats its check, so the code lets it go on; what follows says what only such
\* a handler can do.
Overtaken ==
    \/ \E r \in Requests : req'[r] # req[r] /\ RequestOvertaken(r)
    \/ \E w \in Workers : adm'[w] # adm[w] /\ WorkerOvertaken(w)

\* A session never outlives the subscription it was opened under: when it is
\* created it ends with the customer's paid time at the latest, unless another
\* activation or a renewal moved that time meanwhile (performActivation).
SessionCapped ==
    [][\A s \in SessionIds : ~Exists(sessions[s]) /\ Exists(sessions'[s]) =>
          LET k == customers'[sessions'[s].customer] IN
          \/ /\ sessions'[s].expiresAt <= now + SESSION_TTL
             /\ k.expiresAt # NULL => sessions'[s].expiresAt <= k.expiresAt
          \/ Overtaken]_vars

\* What a code's status says about its activation: PENDING is unused, ACTIVE and
\* EXPIRED have been used, and what has been used carries the end of its term.
InOrder(code) ==
    /\ code.status = "PENDING" => ~code.activated
    /\ code.status \in {"ACTIVE", "EXPIRED"} => code.activated
    /\ code.activated => code.expiresAt # NULL

\* Status and activation of a code stop agreeing only when a method writes a status
\* it computed from the row before somebody changed it (suspend, reactivate, revoke,
\* performActivation).
CodeLifecycle ==
    [][\A c \in Codes : InOrder(codes[c]) /\ ~InOrder(codes'[c]) => Overtaken]_vars

Revoking(w) ==
    \/ adm[w].op = "code" /\ adm[w].status = "REVOKED"
    \/ adm[w].op \in {"cutAccess", "suspend"}

\* "Terminal revocation": when revoke returns the code is dead and the customer
\* linked to it is no longer ACTIVE, whatever is done to the customer meanwhile,
\* unless an activation or another method wrote the code since it was read
\* (activation-codes.service.ts, revoke).
RevocationCutsAccess ==
    [][\A w \in Workers : Revoking(w) /\ ~Revoking(w)' /\ WorkerGoesOn(w) =>
          LET code == codes'[adm[w].code] IN
          \/ /\ code.status = "REVOKED"
             /\ code.customer # NULL => customers'[code.customer].status # "ACTIVE"
          \/ Overtaken]_vars

\* Once a revocation has been answered, no phone activated with the code is let
\* in any more (revoke, validateSession).
RevokedMeansOut ==
    \A c \in Codes :
        (codes[c].status = "REVOKED" /\ \A w \in Workers : ~Revoking(w)) =>
            \A s \in SessionIds :
                Exists(sessions[s]) /\ devices[sessions[s].device].code = c =>
                    SessionVerdict(s) # "OK"

\* A revoked code comes back only by the hand of who read it before it was revoked
\* (revoke, against every other writer of the status).
RevocationIsTerminal ==
    [][\A c \in Codes : codes[c].status = "REVOKED" /\ codes'[c].status # "REVOKED" =>
          Overtaken]_vars

\* A suspended customer comes back by an administrator's hand, never by an activation
\* that could have known of the suspension (customers.service.ts against
\* performActivation).
SuspensionHolds ==
    [][\A k \in CustomerIds :
          customers[k].status = "SUSPENDED" /\ customers'[k].status = "ACTIVE" =>
             req' = req \/ Overtaken]_vars

\* Paid time is not taken back: a customer's expiry only moves forward, except when
\* the first use of a linked code starts the subscription afresh, or when a renewal
\* writes what it counted from an expiry that has moved since (renew,
\* performActivation).
PaidTimeGrows ==
    [][\A k \in CustomerIds :
          Exists(customers[k]) /\ Exists(customers'[k]) /\ customers[k].expiresAt # NULL =>
             \/ customers'[k].expiresAt >= customers[k].expiresAt
             \/ \E r \in Requests : StartsSubscription(r) /\ req[r].customer = k
                                   /\ req'[r] # req[r]
             \/ Overtaken]_vars

\* Every activation and every admin operation comes to an end, whoever else is
\* competing for the advisory lock of the code and for the customer, device and
\* code rows; two codes of one customer can deadlock on its row and its device,
\* and PostgreSQL ends that without the 10 s timeout (performActivation).
EveryOperationEnds ==
    /\ \A r \in Requests : req[r].pc # "idle" ~> req[r].pc = "idle"
    /\ \A w \in Workers : adm[w].op # "none" ~> adm[w].op = "none"

\* A customer whose time is over does not stay ACTIVE: the hourly job gets to
\* the row, or a renewal does (expireOverdue).
Late(k) ==
    /\ customers[k].status = "ACTIVE"
    /\ customers[k].expiresAt # NULL
    /\ customers[k].expiresAt < now

OverdueExpires == \A k \in CustomerIds : Late(k) ~> ~Late(k)
=============================================================================
