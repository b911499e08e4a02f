--------------------------- MODULE SeatRefinement ---------------------------
(***************************************************************************)
(* Licensing as an implementation of SeatLicence.  Every step is a step of  *)
(* the licence or changes nothing the licence knows, unless it is taken by  *)
(* a handler that was overtaken since it read its rows: then two first      *)
(* activations of a code make two holders (the run oversell).  With one     *)
(* operation at a time nobody is overtaken, and this is SeatSpec.           *)
(***************************************************************************)
EXTENDS Licensing

Nobody == "nobody"
Orphan == "orphan"

\* The owners that stand for nobody are not customers.
ASSUME OwnersAssumption == {Nobody, Orphan} \cap CustomerIds = {}

PhonesOf(table, k, statuses) ==
    {table[d].app : d \in {e \in DeviceIds : /\ table[e].customer = k
                                             /\ table[e].status \in statuses}}

OwnerOf(code) == IF code.customer # NULL THEN code.customer
                 ELSE IF code.activated THEN Orphan ELSE Nobody

SeatLimit == [c \in Codes |-> codes[c].deviceLimit]
Owner     == [c \in Codes |-> OwnerOf(codes[c])]
Seated    == [k \in CustomerIds |-> PhonesOf(devices, k, {"ACTIVE"})]
SetAside  == [k \in CustomerIds |-> PhonesOf(devices, k, {"BLOCKED", "REVOKED"})]

Seats == INSTANCE SeatLicence WITH
    Licences <- Codes, Holders <- CustomerIds, Phones <- Apps, SeatLimits <- Limits,
    limit <- SeatLimit, owner <- Owner, seats <- Seated, aside <- SetAside

\* Activations, blocked and unblocked phones, new limits, deletions: however operations
\* overlap, phones take and leave the seats of a code as SeatLicence says, and a code is
\* bound to the customer of its first use.  A step that changes what the licence knows and
\* is none of the licence's own is that of a handler that was overtaken
\* (performActivation; the devices, codes and customers services).
ImplementsSeats ==
    Seats!SeatInit /\ [][[Seats!SeatNext]_(Seats!seatVars) \/ Overtaken]_vars
=============================================================================
