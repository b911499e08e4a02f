----------------------------- MODULE AbuseGuard -----------------------------
(***************************************************************************)
(* The guard against guessing activation codes                             *)
(* (backend/src/common/security/activation-abuse.service.ts) and the       *)
(* handler that asks it (ActivationService.activate).  Failures are        *)
(* counted per key, the address of the caller and the installation, in a   *)
(* window; MAX of them block the key.  The handler asks the guard, awaits  *)
(* the activation and only then reports a failure, so that several attempts *)
(* may be past the guard when the block falls.                             *)
(***************************************************************************)
EXTENDS Integers, FiniteSets

CONSTANTS
    GuardKeys,      \* ip:... and device:... keys
    Attempts,       \* activations that may be in flight
    MAX_FAILURES,   \* app.abuseMaxFailures
    WINDOW,         \* app.abuseWindowMs
    BLOCK,          \* app.abuseBlockMs
    LastInstant     \* bound on the clock

(* What configuration.ts accepts. *)
ASSUME GuardAssumption ==
    /\ MAX_FAILURES \in Nat \ {0}
    /\ WINDOW \in Nat /\ BLOCK \in Nat
    /\ LastInstant \in Nat
    /\ IsFiniteSet(Attempts)

(* The guard bites only under more than that, which the defaults (10, 15 and *)
(* 30 minutes) meet: the failure that opens a record never blocks, so a limit *)
(* of one lets a second guess through, and a block no longer than the window  *)
(* ends with the failures it punishes still counted.                         *)
ASSUME GuardBites == MAX_FAILURES > 1 /\ BLOCK > WINDOW

VARIABLES
    records,        \* the Map of the service; count 0 stands for no record
    instant,        \* Date.now()
    attempts        \* attempts[a]: the keys of the attempt, {} when there is none

GuardVars == <<records, instant, attempts>>

AbuseRecord == [count : Nat, firstAt : Nat, blockedUntil : Nat]
NoRecord == [count |-> 0, firstAt |-> 0, blockedUntil |-> 0]

GuardInit ==
    /\ records = [k \in GuardKeys |-> NoRecord]
    /\ instant = 0
    /\ attempts = [a \in Attempts |-> {}]

Blocked(k) == records[k].blockedUntil > instant
WindowOver(k) == instant - records[k].firstAt > WINDOW

\* isBlocked: the answer is Blocked(k); a record whose window is over goes.
Asked(asked) ==
    [k \in GuardKeys |->
        IF k \in asked /\ ~Blocked(k) /\ WindowOver(k) THEN NoRecord ELSE records[k]]

Fresh1 == [count |-> 1, firstAt |-> instant, blockedUntil |-> 0]

CountedMutant(rec) ==
    [rec EXCEPT !.count = @ + 1,
                !.blockedUntil = IF rec.count + 1 >= MAX_FAILURES THEN instant - BLOCK ELSE @]

Counted(rec) ==
    [rec EXCEPT !.count = @ + 1,
                !.blockedUntil = IF rec.count + 1 >= MAX_FAILURES THEN instant + BLOCK ELSE @]

AfterFailureMutant(k) ==
    IF records[k].count = 0 \/ WindowOver(k) THEN Fresh1
    ELSE [Counted(records[k]) EXCEPT !.blockedUntil =
              IF records[k].count + 1 = MAX_FAILURES THEN instant + WINDOW ELSE @]

\* recordFailure for one key.
AfterFailure(k) ==
    IF records[k].count = 0 \/ WindowOver(k) THEN Fresh1 ELSE Counted(records[k])

-----------------------------------------------------------------------------
(* activate *)

\* With the address blocked the installation is not asked about (||).
Refuse(ip, device) ==
    /\ Blocked(ip) \/ Blocked(device)
    /\ records' = Asked(IF Blocked(ip) THEN {} ELSE {ip})
    /\ UNCHANGED <<instant, attempts>>

AttemptMutant(a, ip, device) ==
    /\ attempts[a] = {}
    /\ ~Blocked(ip)
    /\ records' = Asked({ip, device})
    /\ attempts' = [attempts EXCEPT ![a] = {ip, device}]
    /\ UNCHANGED instant

\* Both keys pass; performActivation is awaited.
Attempt(a, ip, device) ==
    /\ attempts[a] = {}
    /\ ~Blocked(ip) /\ ~Blocked(device)
    /\ records' = Asked({ip, device})
    /\ attempts' = [attempts EXCEPT ![a] = {ip, device}]
    /\ UNCHANGED instant

\* It ends with INVALID_CODE: both keys are charged.
Fails(a) ==
    /\ attempts[a] # {}
    /\ records' = [k \in GuardKeys |->
                      IF k \in attempts[a] THEN AfterFailure(k) ELSE records[k]]
    /\ attempts' = [attempts EXCEPT ![a] = {}]
    /\ UNCHANGED instant

\* It succeeds or ends with another error: nothing is charged.
Ends(a) ==
    /\ attempts[a] # {}
    /\ attempts' = [attempts EXCEPT ![a] = {}]
    /\ UNCHANGED <<records, instant>>

\* The Map lives in memory: a restart forgets it and every request.
GuardRestart ==
    /\ records' = [k \in GuardKeys |-> NoRecord]
    /\ attempts' = [a \in Attempts |-> {}]
    /\ UNCHANGED instant

GuardTick ==
    /\ instant < LastInstant
    /\ instant' = instant + 1
    /\ UNCHANGED <<records, attempts>>

GuardNext ==
    \/ \E ip, device \in GuardKeys : ip # device /\ Refuse(ip, device)
    \/ \E a \in Attempts, ip, device \in GuardKeys : ip # device /\ Attempt(a, ip, device)
    \/ \E a \in Attempts : Fails(a) \/ Ends(a)
    \/ GuardRestart
    \/ GuardTick

GuardSpec == GuardInit /\ [][GuardNext]_GuardVars

-----------------------------------------------------------------------------
(* Properties *)

\* Records, clock and attempts are of their types.
GuardTypeOK ==
    /\ records \in [GuardKeys -> AbuseRecord]
    /\ instant \in Nat
    /\ attempts \in [Attempts -> SUBSET GuardKeys]

\* A key that has used up its failures is blocked or its window is over: there
\* is no moment at which it goes on guessing on the old count, however its
\* blocks, its windows and its attempts in flight fall.
ExhaustedIsBlocked ==
    \A k \in GuardKeys :
        records[k].count >= MAX_FAILURES => Blocked(k) \/ WindowOver(k)

\* In one window a key fails at most MAX_FAILURES times, and once more for every
\* other attempt that was already past the guard when the block fell.
GuessesAreBounded ==
    \A k \in GuardKeys :
        records[k].count + Cardinality({a \in Attempts : k \in attempts[a]})
            <= MAX_FAILURES + Cardinality(Attempts) - 1
              \/ WindowOver(k)
=============================================================================
