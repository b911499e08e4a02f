----------------------------- MODULE Activation -----------------------------
(***************************************************************************)
(* POST /auth/activate and the checks on the sessions it creates           *)
(* (backend/src/activation/activation.service.ts).                         *)
(*                                                                         *)
(* The handler awaits the database between its steps, so an activation is  *)
(* a little state machine per request:                                     *)
(*                                                                         *)
(*   idle --Resolve--> resolved --ReadPlan--> planned --TxCustomer-->      *)
(*        locked --TxDevice--> decided --HoldRows--> decided, rows held    *)
(*        --Commit--> idle                                                 *)
(*                                                                         *)
(* with a way out to idle from each step.  The code row is read in Resolve *)
(* OUTSIDE the transaction; what the rest of the handler knows of the code *)
(* is that copy.  From "planned" on the request is inside $transaction:    *)
(* its reads see what has committed (READ COMMITTED), its own writes are   *)
(* applied together by Commit, and Abort rolls them back.  A statement     *)
(* that writes a row holds it from there to the end, and waits for whoever *)
(* holds it: customerLock is the row of line 123, held[r] the device and   *)
(* the code, taken in HoldRows.  Two activations that take the customer    *)
(* and the device in opposite orders wait for each other, until PostgreSQL *)
(* picks a victim.                                                         *)
(*                                                                         *)
(* The anti-abuse counters that wrap the handler live in memory and only   *)
(* decide whether a request starts; a refused request leaves the tables    *)
(* alone, which here is a request that does not start.                     *)
(***************************************************************************)
EXTENDS LicenseStore

VARIABLES
    req,       \* req[r]: what handler r holds between two awaits
    held       \* held[r]: the transaction of r holds its device and its code

RequestState ==
    [pc : {"idle", "resolved", "planned", "locked", "decided"},
     app : Apps \cup {NULL},
     code : Codes \cup {NULL},
     customer : CustomerIds \cup {NULL},   \* NULL: the customer is to be created
     status : {"PENDING", "ACTIVE", "SUSPENDED", "EXPIRED", "REVOKED", NULL}, \* the copy's
     limit : Nat,                          \* deviceLimit of the copy
     first : BOOLEAN,                      \* activatedAt of the copy is null
     plan : Plans \cup {NULL},
     days : Nat,
     at : Nat,                             \* now, read once the lock is held
     payer : {"ACTIVE", "SUSPENDED", "EXPIRED", NULL}, \* the customer's status, as read
     until : Nat \cup {NULL},              \* the customer's expiresAt
     taken : Nat,                          \* active devices counted
     device : DeviceIds \cup {NULL}]       \* NULL: the device is to be created

Idle == [pc |-> "idle", app |-> NULL, code |-> NULL, customer |-> NULL, status |-> NULL,
         limit |-> 0, first |-> FALSE, plan |-> NULL, days |-> 0, at |-> 0,
         payer |-> NULL, until |-> NULL, taken |-> 0, device |-> NULL]

ReqTypeOK == req \in [Requests -> RequestState] /\ held \in [Requests -> BOOLEAN]

ReqInit == req = [r \in Requests |-> Idle] /\ held = [r \in Requests |-> FALSE]

InTransaction(r) == req[r].pc \in {"planned", "locked", "decided"}

Unlocked(lock, r) == [x \in DOMAIN lock |-> IF lock[x] = r THEN NULL ELSE lock[x]]

\* The end of the transaction, committed or not: its locks are released.
KeepLocksMutant(r) ==
    req' = [req EXCEPT ![r] = Idle] /\ UNCHANGED <<held, codeLock, customerLock>>

Finish(r) ==
    /\ req' = [req EXCEPT ![r] = Idle]
    /\ held' = [held EXCEPT ![r] = FALSE]
    /\ codeLock' = Unlocked(codeLock, r)
    /\ customerLock' = Unlocked(customerLock, r)

\* The handler throws: nothing it wrote remains.
Fail(r) ==
    /\ Finish(r)
    /\ UNCHANGED <<now, plans, codes, customers, devices, sessions>>

-----------------------------------------------------------------------------
(* Before the transaction. *)

\* resolveForActivation and the usability check; an unusable code is refused.
Resolve(r, a, c) ==
    /\ req[r].pc = "idle"
    /\ isCodeEffectivelyUsable(codes[c], now)
    /\ req' = [req EXCEPT ![r] =
                  [Idle EXCEPT !.pc = "resolved", !.app = a, !.code = c,
                               !.customer = codes[c].customer,
                               !.status = codes[c].status,
                               !.limit = codes[c].deviceLimit,
                               !.first = ~codes[c].activated,
                               !.plan = codes[c].plan]]
    /\ UNCHANGED <<store, held>>

ReadPlan(r) ==
    /\ req[r].pc = "resolved"
    /\ LET plan == plans[req[r].plan] IN
          \/ /\ plan.status = "active"
             /\ req' = [req EXCEPT ![r].pc = "planned", ![r].days = plan.days]
             /\ UNCHANGED <<store, held>>
          \/ /\ plan.status # "active"
             /\ Fail(r)

-----------------------------------------------------------------------------
(* Inside the transaction. *)

\* The linked customer, if the row is still there.
FoundCustomer(r) ==
    IF req[r].customer # NULL /\ Exists(customers[req[r].customer])
    THEN req[r].customer ELSE NULL

LockFreeMutant(r) == TRUE

LockFree(r) == codeLock[req[r].code] = NULL

\* The advisory lock is granted; now and the linked customer are read.
TxCustomer(r) ==
    /\ req[r].pc = "planned"
    /\ LockFree(r)
    /\ LET k == FoundCustomer(r) IN
          \/ /\ k # NULL => isEffectivelyActive(customers[k], now)
             /\ req' = [req EXCEPT ![r].pc = "locked", ![r].customer = k, ![r].at = now,
                          ![r].payer = IF k = NULL THEN NULL ELSE customers[k].status,
                          ![r].until = IF k = NULL THEN NULL ELSE customers[k].expiresAt]
             /\ codeLock' = [codeLock EXCEPT ![req[r].code] = r]
             /\ UNCHANGED <<now, plans, codes, customers, devices, sessions, customerLock, held>>
          \/ /\ k # NULL
             /\ ~isEffectivelyActive(customers[k], now)
             /\ Fail(r)

\* This request starts the subscription of a customer that already exists.
StartsSubscription(r) == req[r].first /\ req[r].customer # NULL

\* End of a subscription this transaction starts (customerExpiresAt).
TermMutant(r) == req[r].at - req[r].days

Term(r) == req[r].at + req[r].days

\* customer.expiresAt as the rest of the transaction sees it.
PaidUntil(r) ==
    IF req[r].customer = NULL \/ req[r].first THEN Term(r) ELSE req[r].until

SeatFreeMutant(r) ==
    \/ req[r].customer = NULL
    \/ Cardinality(ActiveDevices(req[r].customer)) <= req[r].limit

SeatFree(r) ==
    \/ req[r].customer = NULL
    \/ Cardinality(ActiveDevices(req[r].customer)) < req[r].limit

\* The activation will use device d, or a new one (NULL).  A subscription that
\* starts has been written to the customer row, locked until the end.
Decide(r, d) ==
    /\ req' = [req EXCEPT ![r].pc = "decided", ![r].device = d, ![r].until = PaidUntil(r),
                          ![r].taken = IF d # NULL THEN 0
                                       ELSE Cardinality(ActiveDevices(req[r].customer))]
    /\ customerLock' = IF StartsSubscription(r)
                       THEN [customerLock EXCEPT ![req[r].customer] = r] ELSE customerLock
    /\ UNCHANGED <<now, plans, codes, customers, devices, sessions, codeLock, held>>

\* The device is looked up: one that is not ACTIVE is refused, a new one needs a
\* seat.  The update of a customer that has been deleted throws.
TxDevice(r) ==
    LET k == req[r].customer
        found == IF k = NULL THEN {} ELSE DevicesOf(k, req[r].app)
    IN
    /\ req[r].pc = "locked"
    /\ StartsSubscription(r) => customerLock[k] = NULL
    /\ \/ StartsSubscription(r) /\ ~Exists(customers[k]) /\ Fail(r)
       \/ /\ StartsSubscription(r) => Exists(customers[k])
          /\ \/ \E d \in found : devices[d].status = "ACTIVE" /\ Decide(r, d)
             \/ \E d \in found : devices[d].status # "ACTIVE" /\ Fail(r)
             \/ found = {} /\ SeatFree(r) /\ Decide(r, NULL)
             \/ found = {} /\ ~SeatFree(r) /\ Fail(r)

\* What the foreign keys, the unique key and update-by-id still accept when the
\* writes reach the tables.
Accepted(r) ==
    /\ req[r].customer # NULL => Exists(customers[req[r].customer])
    /\ req[r].device # NULL => Exists(devices[req[r].device])
    /\ (req[r].customer # NULL /\ req[r].device = NULL) =>
           DevicesOf(req[r].customer, req[r].app) = {}

\* Another transaction has written the device this one will use, or inserted the
\* one with the unique key (customerId, appInstanceId) this one would insert.
Clash(r, q) ==
    /\ q # r /\ held[q]
    /\ req[q].customer = req[r].customer /\ req[r].customer # NULL
    /\ req[q].app = req[r].app

\* The device row is written, then the code row, whose lock is free whenever the
\* advisory lock is held: the only wait is the one for the device.
HoldRows(r) ==
    /\ req[r].pc = "decided"
    /\ ~held[r]
    /\ \A q \in Requests : ~Clash(r, q)
    /\ IF Accepted(r) THEN held' = [held EXCEPT ![r] = TRUE] /\ UNCHANGED <<store, req>>
                     ELSE Fail(r)

\* Whom r waits for with a row in hand: the holder of its device, or the holder of
\* its customer, whose lastSeenAt it writes last.
WaitsFor(r, q) ==
    /\ req[r].pc = "decided"
    /\ \/ ~held[r] /\ Clash(r, q)
       \/ /\ held[r] /\ req[r].customer # NULL
          /\ q # r /\ customerLock[req[r].customer] = q

\* PostgreSQL finds two transactions waiting for each other and aborts one.  Longer
\* cycles there are none: whoever waits for a device holds the customer.
DeadlockVictim(r) ==
    /\ \E q \in Requests : WaitsFor(r, q) /\ WaitsFor(q, r)
    /\ Fail(r)

\* Bound: the identifiers this transaction needs are left.
IdsLeft(r) ==
    /\ FreeIds(sessions) # {}
    /\ req[r].customer = NULL => FreeIds(customers) # {}
    /\ req[r].device = NULL => FreeIds(devices) # {}

SessionEndMutant(r) == req[r].at + SESSION_TTL

SessionEnd(r) ==
    IF req[r].until # NULL /\ req[r].until < req[r].at + SESSION_TTL
    THEN req[r].until ELSE req[r].at + SESSION_TTL

TxWriteCustomerMutant(r, k) ==
    customers' = [customers EXCEPT ![k] = [status |-> "ACTIVE", plan |-> req[r].plan,
                                           expiresAt |-> Term(r)]]

TxWriteCustomer(r, k) ==
    customers' = IF req[r].customer = NULL \/ req[r].first
                 THEN [customers EXCEPT ![k] = [status |-> "ACTIVE", plan |-> req[r].plan,
                                                expiresAt |-> Term(r)]]
                 ELSE customers

TxWriteDevice(r, k, d) ==
    devices' = IF req[r].device = NULL
               THEN [devices EXCEPT ![d] = [status |-> "ACTIVE", customer |-> k,
                                            app |-> req[r].app, code |-> req[r].code]]
               ELSE devices

TxWriteCode(r, k) ==
    codes' = IF req[r].first
             THEN [codes EXCEPT ![req[r].code] =
                      [@ EXCEPT !.activated = TRUE, !.expiresAt = Term(r),
                                !.status = "ACTIVE", !.customer = k]]
             ELSE codes

\* Every write of the transaction, from the copy the request holds.
WriteAll(r) ==
    LET k == IF req[r].customer = NULL THEN Fresh(customers) ELSE req[r].customer
        d == IF req[r].device = NULL THEN Fresh(devices) ELSE req[r].device
    IN
    /\ TxWriteCustomer(r, k)
    /\ TxWriteDevice(r, k, d)
    /\ TxWriteCode(r, k)
    /\ sessions' = [sessions EXCEPT ![Fresh(sessions)] =
                       [status |-> "ACTIVE", customer |-> k, device |-> d,
                        expiresAt |-> SessionEnd(r)]]
    /\ Finish(r)
    /\ UNCHANGED <<now, plans>>

\* The end of the transaction body, once the customer row can be written: all the
\* writes, or none if one is refused.
Commit(r) ==
    /\ req[r].pc = "decided"
    /\ held[r]
    /\ \A q \in Requests : ~WaitsFor(r, q)
    /\ IF Accepted(r) /\ IdsLeft(r) THEN WriteAll(r) ELSE Fail(r)

\* The 10 s limit of the transaction.
Abort(r) == InTransaction(r) /\ Fail(r)

-----------------------------------------------------------------------------
(* Sessions: what the bearer of session s is told, and logout. *)

\* validateSession, checks in the order of the code.  touchSeen writes only
\* timestamps of activity.
SessionVerdict(s) ==
    LET session == sessions[s]
        customer == customers[session.customer]
    IN
    IF session.status # "ACTIVE" \/ session.expiresAt <= now THEN "SESSION_EXPIRED"
    ELSE IF customer.status = "SUSPENDED" THEN "CODE_SUSPENDED"
    ELSE IF ~isEffectivelyActive(customer, now) THEN "CODE_EXPIRED"
    ELSE IF devices[session.device].status # "ACTIVE" THEN "DEVICE_REVOKED"
    ELSE "OK"

Logout(s) ==
    /\ "logout" \in Ops
    /\ sessions[s].status = "ACTIVE"
    /\ sessions' = [sessions EXCEPT ![s].status = "REVOKED"]
    /\ UNCHANGED <<now, plans, codes, customers, devices, codeLock, customerLock, req, held>>
=============================================================================
