---------------------------- MODULE SeatLicence ----------------------------
(***************************************************************************)
(* What the licence system promises of seats, without tables, handlers,    *)
(* sessions or clocks: a licence allows its holder so many phones at a     *)
(* time.  Phones take seats one by one while there are some; a phone that  *)
(* is put aside (blocked or revoked) gives its seat up but cannot take     *)
(* another, and has it back, full or not, when it is let in again.         *)
(*                                                                         *)
(* A licence whose holder was deleted after its first use is orphaned: it  *)
(* belongs to nobody, and every phone that uses it becomes a new holder.   *)
(***************************************************************************)
EXTENDS Naturals, FiniteSets

CONSTANTS
    Licences, Holders, Phones,
    SeatLimits,     \* limits a licence may have
    Nobody,         \* owner of a licence not used yet
    Orphan          \* owner of a licence whose holder is gone

VARIABLES
    limit,          \* limit[l]: seats of licence l, 0 until it is issued
    owner,
    seats,          \* seats[h]: phones of holder h that may watch
    aside           \* aside[h]: phones of h that were put aside

seatVars == <<limit, owner, seats, aside>>

SeatInit ==
    /\ limit = [l \in Licences |-> 0] /\ owner = [l \in Licences |-> Nobody]
    /\ seats = [h \in Holders |-> {}] /\ aside = [h \in Holders |-> {}]

Issue(l, n, h) ==
    /\ limit[l] = 0 /\ n > 0
    /\ limit' = [limit EXCEPT ![l] = n] /\ owner' = [owner EXCEPT ![l] = h]
    /\ UNCHANGED <<seats, aside>>

Relimit(l, n) ==
    /\ limit[l] > 0 /\ n > 0
    /\ limit' = [limit EXCEPT ![l] = n] /\ UNCHANGED <<owner, seats, aside>>

NewHolder(h) ==
    seats[h] = {} /\ aside[h] = {} /\ \A l \in Licences : owner[l] # h

\* Phone p takes a seat of licence l, its holder's, or a new holder's.
Take(l, h, p) ==
    /\ \/ owner[l] = h /\ UNCHANGED owner
       \/ owner[l] = Nobody /\ NewHolder(h) /\ owner' = [owner EXCEPT ![l] = h]
       \/ owner[l] = Orphan /\ NewHolder(h) /\ UNCHANGED owner
    /\ p \notin seats[h] \cup aside[h]
    /\ Cardinality(seats[h]) < limit[l]
    /\ seats' = [seats EXCEPT ![h] = @ \cup {p}]
    /\ UNCHANGED <<limit, aside>>

PutAside(h, p) ==
    /\ p \in seats[h]
    /\ seats' = [seats EXCEPT ![h] = @ \ {p}] /\ aside' = [aside EXCEPT ![h] = @ \cup {p}]
    /\ UNCHANGED <<limit, owner>>

LetIn(h, p) ==
    /\ p \in aside[h]
    /\ seats' = [seats EXCEPT ![h] = @ \cup {p}] /\ aside' = [aside EXCEPT ![h] = @ \ {p}]
    /\ UNCHANGED <<limit, owner>>

\* The phone is forgotten, and may take a seat like any other.
Forget(h, p) ==
    /\ p \in seats[h] \cup aside[h]
    /\ seats' = [seats EXCEPT ![h] = @ \ {p}] /\ aside' = [aside EXCEPT ![h] = @ \ {p}]
    /\ UNCHANGED <<limit, owner>>

\* The holder is deleted with all phones; each of its licences is unused again, or
\* orphaned.
Depart(h) ==
    /\ seats' = [seats EXCEPT ![h] = {}] /\ aside' = [aside EXCEPT ![h] = {}]
    /\ \E lost \in [Licences -> {Nobody, Orphan}] :
          owner' = [l \in Licences |-> IF owner[l] = h THEN lost[l] ELSE owner[l]]
    /\ UNCHANGED limit

SeatNext ==
    \/ \E l \in Licences, n \in SeatLimits :
          Relimit(l, n) \/ \E h \in Holders \cup {Nobody} : Issue(l, n, h)
    \/ \E h \in Holders :
          \/ Depart(h)
          \/ \E p \in Phones : PutAside(h, p) \/ LetIn(h, p) \/ Forget(h, p)
                               \/ \E l \in Licences : Take(l, h, p)

SeatSpec == SeatInit /\ [][SeatNext]_seatVars
=============================================================================
