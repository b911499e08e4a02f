---------------------------- MODULE LicenseStore ----------------------------
(***************************************************************************)
(* The PostgreSQL tables behind INFI-TV's licences: plans, activation      *)
(* codes, customers, devices and sessions (backend/prisma/schema.prisma),  *)
(* the referential actions of their foreign keys, the two locks an         *)
(* activation transaction takes, and the pure predicates over the rows.    *)
(*                                                                         *)
(* A table is a function from row identifiers to rows.  Identifiers are    *)
(* cuids, never used twice: a row is "free" before its insertion and       *)
(* "gone" after its deletion.  Columns no guard reads (names, timestamps   *)
(* of activity, metadata, hashes) are left out.                            *)
(***************************************************************************)
EXTENDS Naturals, FiniteSets

CONSTANTS
    Plans, Codes, CustomerIds, DeviceIds, SessionIds,  \* row identifiers
    Apps,          \* appInstanceIds: installations of the mobile app
    Requests,      \* POST /auth/activate handlers that may run at once
    NULL,          \* SQL null
    SeedDays,      \* SeedDays[p]: duration of a seeded plan, NULL if not seeded
    PlanDays,      \* durations administrators give a plan
    SESSION_TTL,   \* SESSION_TTL_DAYS, in clock units
    MaxTime,       \* bound on the clock
    Ops            \* the operations exercised besides activation

AllOps == {"createPlan", "updatePlan", "removePlan",
           "createCode", "suspendCode", "reactivateCode", "revokeCode", "updateLimit",
           "createCustomer", "updateCustomer", "suspendCustomer", "reactivateCustomer",
           "renewCustomer", "removeCustomer",
           "revokeDevice", "blockDevice", "unblockDevice", "removeDevice",
           "revokeSession", "logout"}

ASSUME StoreAssumption ==
    /\ NULL \notin Plans \cup Codes \cup CustomerIds \cup DeviceIds
                 \cup SessionIds \cup Apps \cup Requests \cup Nat
    /\ IsFiniteSet(DeviceIds)
    /\ SeedDays \in [Plans -> (Nat \ {0}) \cup {NULL}]
    /\ PlanDays \subseteq Nat \ {0}
    /\ SESSION_TTL \in Nat \ {0}
    /\ MaxTime \in Nat
    /\ Ops \subseteq AllOps

VARIABLES
    now,           \* the clock, in days
    plans, codes, customers, devices, sessions,
    codeLock,      \* codeLock[c]: holder of pg_advisory_xact_lock of the code
    customerLock   \* customerLock[k]: transaction that updated row k, uncommitted

store == <<now, plans, codes, customers, devices, sessions,
           codeLock, customerLock>>

-----------------------------------------------------------------------------
(* Rows. *)

PlanRow == [status : {"free", "gone", "active", "inactive"}, days : Nat]

CodeRow == [status : {"free", "PENDING", "ACTIVE", "SUSPENDED", "EXPIRED", "REVOKED"},
            plan : Plans \cup {NULL},
            customer : CustomerIds \cup {NULL},
            deviceLimit : Nat,
            activated : BOOLEAN,               \* activatedAt # null
            expiresAt : Nat \cup {NULL}]

CustomerRow == [status : {"free", "gone", "ACTIVE", "SUSPENDED", "EXPIRED"},
                plan : Plans \cup {NULL},
                expiresAt : Nat \cup {NULL}]

DeviceRow == [status : {"free", "gone", "ACTIVE", "BLOCKED", "REVOKED"},
              customer : CustomerIds \cup {NULL},
              app : Apps \cup {NULL},
              code : Codes \cup {NULL}]        \* activationCodeId

SessionRow == [status : {"free", "gone", "ACTIVE", "REVOKED"},
               customer : CustomerIds \cup {NULL},
               device : DeviceIds \cup {NULL},
               expiresAt : Nat]

NoPlan     == [status |-> "free", days |-> 0]
NoCode     == [status |-> "free", plan |-> NULL, customer |-> NULL,
               deviceLimit |-> 0, activated |-> FALSE, expiresAt |-> NULL]
NoCustomer == [status |-> "free", plan |-> NULL, expiresAt |-> NULL]
NoDevice   == [status |-> "free", customer |-> NULL, app |-> NULL, code |-> NULL]
NoSession  == [status |-> "free", customer |-> NULL, device |-> NULL, expiresAt |-> 0]

Exists(row) == row.status \notin {"free", "gone"}

FreeIds(table) == {i \in DOMAIN table : table[i].status = "free"}

\* Identifiers are opaque: which unused one an insertion gets does not matter.
Fresh(table) == CHOOSE i \in FreeIds(table) : TRUE

StoreTypeOK ==
    /\ now \in Nat
    /\ plans \in [Plans -> PlanRow]
    /\ codes \in [Codes -> CodeRow]
    /\ customers \in [CustomerIds -> CustomerRow]
    /\ devices \in [DeviceIds -> DeviceRow]
    /\ sessions \in [SessionIds -> SessionRow]
    /\ codeLock \in [Codes -> Requests \cup {NULL}]
    /\ customerLock \in [CustomerIds -> Requests \cup {NULL}]

StoreInit ==
    /\ now = 0
    /\ plans = [p \in Plans |-> IF SeedDays[p] = NULL THEN NoPlan
                                ELSE [status |-> "active", days |-> SeedDays[p]]]
    /\ codes = [c \in Codes |-> NoCode]
    /\ customers = [k \in CustomerIds |-> NoCustomer]
    /\ devices = [d \in DeviceIds |-> NoDevice]
    /\ sessions = [s \in SessionIds |-> NoSession]
    /\ codeLock = [c \in Codes |-> NULL]
    /\ customerLock = [k \in CustomerIds |-> NULL]

-----------------------------------------------------------------------------
(* Pure predicates and queries over the rows. *)

\* expiresAt is set and has been reached.
Overdue(row, t) == row.expiresAt # NULL /\ row.expiresAt <= t

isEffectivelyActiveMutant(row, t) == row.status # "free" /\ ~Overdue(row, t)

isEffectivelyActive(row, t) == row.status = "ACTIVE" /\ ~Overdue(row, t)

isCodeEffectivelyUsable(row, t) ==
    row.status \in {"PENDING", "ACTIVE"} /\ ~Overdue(row, t)

\* device.count({ customerId, status: "ACTIVE" }).
ActiveDevices(k) ==
    {d \in DeviceIds : devices[d].status = "ACTIVE" /\ devices[d].customer = k}

\* The row under the unique key (customerId, appInstanceId).
DevicesOf(k, a) ==
    {d \in DeviceIds : /\ Exists(devices[d])
                       /\ devices[d].customer = k
                       /\ devices[d].app = a}

-----------------------------------------------------------------------------
(* Deletions, with the onDelete action of every foreign key that points at *)
(* the deleted row: Cascade to devices and sessions, SetNull on codes.     *)

\* The sessions of the deleted devices ds and of the deleted customers ks.
CascadeSessionsMutant(ds, ks) == sessions' = sessions

CascadeSessions(ds, ks) ==
    sessions' = [s \in SessionIds |->
                    IF /\ Exists(sessions[s])
                       /\ sessions[s].device \in ds \/ sessions[s].customer \in ks
                    THEN [NoSession EXCEPT !.status = "gone"] ELSE sessions[s]]

DropDevices(ds) ==
    devices' = [d \in DeviceIds |-> IF d \in ds THEN [NoDevice EXCEPT !.status = "gone"]
                                    ELSE devices[d]]

DeleteDevice(d) == DropDevices({d}) /\ CascadeSessions({d}, {})

DeleteCustomer(k) ==
    LET ds == {d \in DeviceIds : Exists(devices[d]) /\ devices[d].customer = k} IN
    /\ customers' = [customers EXCEPT ![k] = [NoCustomer EXCEPT !.status = "gone"]]
    /\ codes' = [c \in Codes |-> IF codes[c].customer = k
                                 THEN [codes[c] EXCEPT !.customer = NULL] ELSE codes[c]]
    /\ DropDevices(ds)
    /\ CascadeSessions(ds, {k})
=============================================================================
