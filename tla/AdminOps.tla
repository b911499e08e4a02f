------------------------------ MODULE AdminOps ------------------------------
(***************************************************************************)
(* What administrators and the hourly job do to the licence tables: the    *)
(* plans, codes, customers, devices and sessions services of backend/src.  *)
(*                                                                         *)
(* Each service method reads a row, checks it, awaits, and then updates by *)
(* id whatever the row holds by then.  Where the written value, or the     *)
(* row it is written to, depends on that read, the method is two steps:    *)
(* the read leaves the write pending in adm[w], with what it found (was,   *)
(* used, paid: the code's status and activation, the customer's expiry),   *)
(* and an action named Write... applies it.  A method that writes a        *)
(* constant is one action, at the moment of its write: reading earlier     *)
(* gives no other outcome, since the value its check excludes is the very  *)
(* value it writes.  A plan such a method checks first (create, update) is *)
(* taken as of the write.  A write waits for the rows an activation        *)
(* transaction holds.                                                      *)
(***************************************************************************)
EXTENDS Activation

CONSTANTS
    Workers,       \* admin requests that may be between a read and its write
    Limits,        \* device limits they ask for
    CodeExpiries,  \* expiresAt they give a code, NULL among them
    Owners,        \* Owners[c]: the customers (or NULL) code c may be linked to
    MaxExpiry      \* bound: no renewal past this day

ASSUME AdminAssumption ==
    /\ Limits \subseteq Nat \ {0}
    /\ CodeExpiries \subseteq Nat \cup {NULL}
    /\ MaxExpiry \in Nat
    /\ Owners \in [Codes -> SUBSET (CustomerIds \cup {NULL})]

VARIABLE adm       \* adm[w]: the write that admin request w is about to send

Pending ==
    [op : {"none", "code", "cutAccess", "suspend", "renew", "unblock"},
     code : Codes \cup {NULL},
     customer : CustomerIds \cup {NULL},
     device : DeviceIds \cup {NULL},
     status : {"PENDING", "ACTIVE", "SUSPENDED", "EXPIRED", "REVOKED", NULL},
     plan : Plans \cup {NULL},
     until : Nat \cup {NULL},
     was : {"PENDING", "ACTIVE", "SUSPENDED", "EXPIRED", "REVOKED", NULL},
     used : BOOLEAN,
     paid : Nat \cup {NULL}]

NoPending == [op |-> "none", code |-> NULL, customer |-> NULL, device |-> NULL,
              status |-> NULL, plan |-> NULL, until |-> NULL,
              was |-> NULL, used |-> FALSE, paid |-> NULL]

AdmTypeOK == adm \in [Workers -> Pending]

AdmInit == adm = [w \in Workers |-> NoPending]

\* The update by id waits while a transaction holds the row.
Writable(k) == Exists(customers[k]) /\ customerLock[k] = NULL

DeviceHeld(d) == \E r \in Requests : held[r] /\ req[r].device = d

CodeHeld(c) == \E r \in Requests : held[r] /\ req[r].code = c

\* What a deletion of the customer touches: its devices, the new one's reference
\* to it, and the codes linked to it.
CustomerHeld(k) ==
    \E r \in Requests : held[r] /\ k \in {req[r].customer, codes[req[r].code].customer}

OnlyPlans     == UNCHANGED <<now, codes, customers, devices, sessions, codeLock, customerLock>>
OnlyCodes     == UNCHANGED <<now, plans, customers, devices, sessions, codeLock, customerLock>>
OnlyCustomers == UNCHANGED <<now, plans, codes, devices, sessions, codeLock, customerLock>>
OnlyDevices   == UNCHANGED <<now, plans, codes, customers, sessions, codeLock, customerLock>>

\* The update throws when its row is gone; either way the request is over.
Drop(w) == adm' = [adm EXCEPT ![w] = NoPending]

-----------------------------------------------------------------------------
(* plans.service.ts *)

CreatePlan(p, status, days) ==
    /\ "createPlan" \in Ops
    /\ plans[p].status = "free"
    /\ plans' = [plans EXCEPT ![p] = [status |-> status, days |-> days]]
    /\ OnlyPlans /\ UNCHANGED adm

UpdatePlan(p, status, days) ==
    /\ "updatePlan" \in Ops
    /\ Exists(plans[p])
    /\ plans' = [plans EXCEPT ![p] = [status |-> status, days |-> days]]
    /\ OnlyPlans /\ UNCHANGED adm

\* onDelete: Restrict on both references to a plan.
UnreferencedMutant(p) == \A c \in Codes : codes[c].plan # p

Unreferenced(p) ==
    /\ \A c \in Codes : codes[c].plan # p
    /\ \A k \in CustomerIds : customers[k].plan # p

RemovePlan(p) ==
    /\ "removePlan" \in Ops
    /\ Exists(plans[p])
    /\ Unreferenced(p)
    /\ plans' = [plans EXCEPT ![p] = [NoPlan EXCEPT !.status = "gone"]]
    /\ OnlyPlans /\ UNCHANGED adm

-----------------------------------------------------------------------------
(* activation-codes.service.ts *)

CreateCode(c, p, k, limit, e) ==
    /\ "createCode" \in Ops
    /\ codes[c].status = "free"
    /\ plans[p].status = "active"
    /\ k \in Owners[c]
    /\ k # NULL => Exists(customers[k])
    /\ codes' = [codes EXCEPT ![c] =
                    [NoCode EXCEPT !.status = "PENDING", !.plan = p, !.customer = k,
                                   !.deviceLimit = limit, !.expiresAt = e]]
    /\ OnlyCodes /\ UNCHANGED adm

UpdateLimit(c, limit) ==
    /\ "updateLimit" \in Ops
    /\ codes[c].status # "free"
    /\ ~CodeHeld(c)
    /\ codes' = [codes EXCEPT ![c].deviceLimit = limit]
    /\ OnlyCodes /\ UNCHANGED adm

\* A status update of the code computed from the row just read.
PendCode(w, c, status) ==
    /\ adm[w].op = "none"
    /\ adm' = [adm EXCEPT ![w] = [NoPending EXCEPT !.op = "code", !.code = c,
                                     !.status = status, !.customer = codes[c].customer,
                                     !.was = codes[c].status, !.used = codes[c].activated]]
    /\ UNCHANGED store

SuspendCodeMutant(w, c) ==
    /\ "suspendCode" \in Ops
    /\ codes[c].status \notin {"free", "SUSPENDED"}
    /\ PendCode(w, c, "SUSPENDED")

SuspendCode(w, c) ==
    /\ "suspendCode" \in Ops
    /\ codes[c].status \in {"PENDING", "ACTIVE"}
    /\ PendCode(w, c, "SUSPENDED")

\* The status a suspended code goes back to.
RestoredMutant(c) == IF Overdue(codes[c], now) THEN "EXPIRED" ELSE "ACTIVE"

Restored(c) ==
    IF ~codes[c].activated THEN "PENDING"
    ELSE IF Overdue(codes[c], now) THEN "EXPIRED" ELSE "ACTIVE"

ReactivateCode(w, c) ==
    /\ "reactivateCode" \in Ops
    /\ codes[c].status = "SUSPENDED"
    /\ PendCode(w, c, Restored(c))

RevokeCode(w, c) ==
    /\ "revokeCode" \in Ops
    /\ codes[c].status \notin {"free", "REVOKED"}
    /\ PendCode(w, c, "REVOKED")

\* A revocation goes on to the customer the code had when it was read.
AfterCodeWriteMutant(w) == Drop(w)

AfterCodeWrite(w) ==
    IF adm[w].status = "REVOKED" /\ adm[w].customer # NULL
    THEN adm' = [adm EXCEPT ![w].op = "cutAccess", ![w].was = "REVOKED"]
    ELSE Drop(w)

WriteCodeStatus(w) ==
    /\ adm[w].op = "code"
    /\ ~CodeHeld(adm[w].code)
    /\ codes' = [codes EXCEPT ![adm[w].code].status = adm[w].status]
    /\ AfterCodeWrite(w)
    /\ OnlyCodes

\* The customer is read once the code is dead; only an ACTIVE one is suspended.
CutAccess(w) ==
    LET k == adm[w].customer IN
    /\ adm[w].op = "cutAccess"
    /\ IF customers[k].status = "ACTIVE"
       THEN adm' = [adm EXCEPT ![w].op = "suspend"] ELSE Drop(w)
    /\ UNCHANGED store

WriteSuspension(w) ==
    LET k == adm[w].customer IN
    /\ adm[w].op = "suspend"
    /\ customerLock[k] = NULL
    /\ customers' = IF Exists(customers[k])
                    THEN [customers EXCEPT ![k].status = "SUSPENDED"] ELSE customers
    /\ Drop(w)
    /\ OnlyCustomers

-----------------------------------------------------------------------------
(* customers.service.ts *)

\* Without a plan (p = NULL) the customer has no expiry.
CreateCustomer(p) ==
    /\ "createCustomer" \in Ops
    /\ FreeIds(customers) # {}
    /\ p # NULL => plans[p].status = "active"
    /\ customers' = [customers EXCEPT ![Fresh(customers)] =
                        [status |-> "ACTIVE", plan |-> p,
                         expiresAt |-> IF p = NULL THEN NULL ELSE now + plans[p].days]]
    /\ OnlyCustomers /\ UNCHANGED adm

UpdateCustomer(k, p) ==
    /\ "updateCustomer" \in Ops
    /\ Writable(k)
    /\ plans[p].status = "active"
    /\ customers' = [customers EXCEPT ![k].plan = p]
    /\ OnlyCustomers /\ UNCHANGED adm

SuspendCustomer(k) ==
    /\ "suspendCustomer" \in Ops
    /\ Writable(k)
    /\ customers[k].status # "SUSPENDED"
    /\ customers' = [customers EXCEPT ![k].status = "SUSPENDED"]
    /\ OnlyCustomers /\ UNCHANGED adm

ReactivateCustomer(k) ==
    /\ "reactivateCustomer" \in Ops
    /\ Writable(k)
    /\ customers[k].status # "ACTIVE"
    /\ customers' = [customers EXCEPT ![k].status = "ACTIVE"]
    /\ OnlyCustomers /\ UNCHANGED adm

RemoveCustomer(k) ==
    /\ "removeCustomer" \in Ops
    /\ Writable(k)
    /\ ~CustomerHeld(k)
    /\ DeleteCustomer(k)
    /\ UNCHANGED <<now, plans, codeLock, customerLock, adm>>

\* max(now, current expiry): what a renewal is counted from.
RenewalBase(k) ==
    IF customers[k].expiresAt # NULL /\ customers[k].expiresAt > now
    THEN customers[k].expiresAt ELSE now

\* p is the plan asked for, else the customer's own.
RenewCustomer(w, k, p) ==
    /\ "renewCustomer" \in Ops
    /\ adm[w].op = "none"
    /\ Exists(customers[k])
    /\ plans[p].status = "active"
    /\ RenewalBase(k) + plans[p].days <= MaxExpiry
    /\ adm' = [adm EXCEPT ![w] = [NoPending EXCEPT !.op = "renew", !.customer = k,
                     !.plan = p, !.until = RenewalBase(k) + plans[p].days,
                     !.paid = customers[k].expiresAt]]
    /\ UNCHANGED store

WriteRenewalMutant(w) ==
    LET k == adm[w].customer IN
    /\ adm[w].op = "renew"
    /\ customerLock[k] = NULL
    /\ customers' = IF Exists(customers[k]) /\ Exists(plans[adm[w].plan])
                    THEN [customers EXCEPT ![k].plan = adm[w].plan,
                                           ![k].expiresAt = adm[w].until]
                    ELSE customers
    /\ Drop(w)
    /\ OnlyCustomers

WriteRenewal(w) ==
    LET k == adm[w].customer IN
    /\ adm[w].op = "renew"
    /\ customerLock[k] = NULL
    /\ customers' = IF Exists(customers[k]) /\ Exists(plans[adm[w].plan])
                    THEN [customers EXCEPT ![k] = [status |-> "ACTIVE", plan |-> adm[w].plan,
                                                   expiresAt |-> adm[w].until]]
                    ELSE customers
    /\ Drop(w)
    /\ OnlyCustomers

\* customer-expiration.service.ts: one updateMany over the overdue rows.  The
\* statement waits for the rows a transaction holds.
ToExpireMutant(k) ==
    /\ customers[k].status = "ACTIVE"
    /\ customers[k].expiresAt # NULL
    /\ customers[k].expiresAt > now

ToExpire(k) ==
    /\ customers[k].status = "ACTIVE"
    /\ customers[k].expiresAt # NULL
    /\ customers[k].expiresAt < now

ExpireOverdue ==
    /\ \E k \in CustomerIds : ToExpire(k)
    /\ \A k \in CustomerIds : ToExpire(k) => customerLock[k] = NULL
    /\ customers' = [k \in CustomerIds |->
                        IF ToExpire(k) THEN [customers[k] EXCEPT !.status = "EXPIRED"]
                        ELSE customers[k]]
    /\ OnlyCustomers /\ UNCHANGED adm

-----------------------------------------------------------------------------
(* devices.service.ts and sessions.service.ts *)

SetDeviceStatus(d, status) ==
    /\ Exists(devices[d])
    /\ devices[d].status # status
    /\ ~DeviceHeld(d)
    /\ devices' = [devices EXCEPT ![d].status = status]
    /\ OnlyDevices /\ UNCHANGED adm

RevokeDevice(d) == "revokeDevice" \in Ops /\ SetDeviceStatus(d, "REVOKED")

BlockDevice(d) == "blockDevice" \in Ops /\ SetDeviceStatus(d, "BLOCKED")

\* The only status the method reads first and that the write does not repeat.
UnblockDevice(w, d) ==
    /\ "unblockDevice" \in Ops
    /\ adm[w].op = "none"
    /\ devices[d].status = "BLOCKED"
    /\ adm' = [adm EXCEPT ![w] = [NoPending EXCEPT !.op = "unblock", !.device = d]]
    /\ UNCHANGED store

WriteUnblock(w) ==
    LET d == adm[w].device IN
    /\ adm[w].op = "unblock"
    /\ ~DeviceHeld(d)
    /\ devices' = IF Exists(devices[d])
                  THEN [devices EXCEPT ![d].status = "ACTIVE"] ELSE devices
    /\ Drop(w)
    /\ OnlyDevices

RemoveDevice(d) ==
    /\ "removeDevice" \in Ops
    /\ Exists(devices[d])
    /\ ~DeviceHeld(d)
    /\ DeleteDevice(d)
    /\ UNCHANGED <<now, plans, codes, customers, codeLock, customerLock, adm>>

RevokeSession(s) ==
    /\ "revokeSession" \in Ops
    /\ sessions[s].status = "ACTIVE"
    /\ sessions' = [sessions EXCEPT ![s].status = "REVOKED"]
    /\ UNCHANGED <<now, plans, codes, customers, devices, codeLock, customerLock, adm>>
=============================================================================
