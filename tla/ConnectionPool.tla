--------------------------- MODULE ConnectionPool ---------------------------
(***************************************************************************)
(* The transaction of performActivation (backend/src/activation) and the   *)
(* audit rows it writes from inside (backend/src/audit).  The transaction  *)
(* holds one connection of the pool of PostgreSQL; this.audit.log, awaited *)
(* at line 218, and at line 113 when a customer is created, goes through   *)
(* the pool again.  With the pool full of such transactions everyone waits *)
(* for a connection that only the others can give back, until the pool or  *)
(* the transaction times out.                                              *)
(*                                                                         *)
(* Only what touches the pool is modelled: take a connection, work, ask    *)
(* for a second one, get it or not, commit or roll back.                   *)
(***************************************************************************)
EXTENDS Integers, FiniteSets

CONSTANTS
    Activations,    \* requests
    POOL            \* connections of the pool

ASSUME PoolAssumption == POOL \in Nat \ {0} /\ IsFiniteSet(Activations)

VARIABLES
    phase,          \* phase[a]: where activation a is
    audits          \* audits[a]: the audit rows its transaction has still to write

PoolVars == <<phase, audits>>

Phases == {"waiting", "working", "auditing", "logging", "committed", "failed"}

PoolInit ==
    /\ phase = [a \in Activations |-> "waiting"]
    /\ audits \in [Activations -> {1, 2}]

\* A transaction holds a connection throughout, and a second one while it logs.
InTx == {a \in Activations : phase[a] \in {"working", "auditing", "logging"}}
Logging == {a \in Activations : phase[a] = "logging"}
InUse == Cardinality(InTx) + Cardinality(Logging)

Goes(a, next) == phase' = [phase EXCEPT ![a] = next]

\* $transaction takes a connection.
Begin(a) ==
    /\ phase[a] = "waiting"
    /\ InUse < POOL
    /\ Goes(a, "working")
    /\ UNCHANGED audits

\* The statements up to the next audit.log.
Work(a) ==
    /\ phase[a] = "working" /\ audits[a] > 0
    /\ audits' = [audits EXCEPT ![a] = @ - 1]
    /\ Goes(a, "auditing")

\* audit.log gets a second connection
Ask(a) ==
    /\ phase[a] = "auditing"
    /\ InUse < POOL
    /\ Goes(a, "logging")
    /\ UNCHANGED audits

\* and writes its row, or fails to: the activation goes on either way.
Log(a) ==
    /\ phase[a] = "logging"
    /\ Goes(a, "working")
    /\ UNCHANGED audits

NeverEndsMutant(a) == FALSE

\* Or it gets none: an error or the timeout of the pool, swallowed by audit.log like any
\* other; or the transaction times out, after ten seconds.
WaitEnds(a) ==
    /\ phase[a] = "auditing"
    /\ Goes(a, "working") \/ Goes(a, "failed")
    /\ UNCHANGED audits

\* The transaction commits
PoolCommit(a) ==
    /\ phase[a] = "working" /\ audits[a] = 0
    /\ Goes(a, "committed")
    /\ UNCHANGED audits

\* or rolls back: a refusal, an error or its timeout.
RollBack(a) ==
    /\ phase[a] = "working"
    /\ Goes(a, "failed")
    /\ UNCHANGED audits

\* No connection before the pool's timeout: the request fails.
PoolTimeout(a) ==
    /\ phase[a] = "waiting"
    /\ InUse >= POOL
    /\ Goes(a, "failed")
    /\ UNCHANGED audits

PoolStep(a) ==
    \/ Begin(a) \/ Work(a) \/ Ask(a) \/ Log(a) \/ WaitEnds(a)
    \/ PoolCommit(a) \/ RollBack(a) \/ PoolTimeout(a)

PoolNext == \E a \in Activations : PoolStep(a)

PoolSpec == PoolInit /\ [][PoolNext]_PoolVars

-----------------------------------------------------------------------------
(* Properties *)

\* Phases and the audits left are of their types.
PoolTypeOK ==
    /\ phase \in [Activations -> Phases]
    /\ audits \in [Activations -> 0..2]

\* Every activation ends, even when all hold a connection and all wait for one.
EveryActivationAnswers ==
    \A a \in Activations : <>(phase[a] \in {"committed", "failed"})
=============================================================================
